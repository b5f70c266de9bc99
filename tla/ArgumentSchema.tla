--------------------------- MODULE ArgumentSchema ---------------------------
(***************************************************************************)
(* anban/capability/schema.py: the closed JSON Schema subset.  WellFormed   *)
(* is validate_input_schema, which a descriptor passes when it is built and *)
(* when it is registered; ArgumentFaults is validate_arguments, which every *)
(* call passes.  The second walks the schema again and takes for granted    *)
(* what the first has required.                                             *)
(*   A schema is a function from its keywords.  A scalar is a kind, a       *)
(* number n (the length of a string) and a token "is" for what the content  *)
(* is like; an object has fields, an array has items.                       *)
(***************************************************************************)
EXTENDS Checks, Integers, FiniteSets

CONSTANTS
  None,       \* dict.get of a keyword that is missing
  Reserved,   \* _RESERVED_ARGUMENTS
  UnsafeName  \* property names that SafeMetadata refuses

MaxDepth == 4
MaxProperties == 32
MaxItems == 256
MaxEnum == 32
MaxLength == 262144
DefaultMaxLength == 16384

Get(f, key, default) == IF key \in DOMAIN f THEN f[key] ELSE default

Keywords ==
  [object |-> {"type", "properties", "required", "additionalProperties"},
   array |-> {"type", "items", "minItems", "maxItems"},
   string |-> {"type", "enum", "minLength", "maxLength"},
   integer |-> {"type", "enum", "minimum", "maximum"},
   number |-> {"type", "enum", "minimum", "maximum"},
   boolean |-> {"type", "enum"}]

Scalar == {"string", "integer", "number", "boolean"}

\* None is no value of a keyword.
ASSUME NoneAssumption == None \notin Int /\ None \notin DOMAIN Keywords

-----------------------------------------------------------------------------
WellFormedScalar(schema) ==
  LET enum == Get(schema, "enum", None)
      bound(key) == Get(schema, key, None)
  IN
  /\ enum # None =>
       Cardinality(enum) \in 1 .. MaxEnum /\ \A v \in enum : v.is # "unsafe"
  /\ schema.type = "string" =>
       /\ Get(schema, "maxLength", DefaultMaxLength) \in 0 .. MaxLength
       /\ Get(schema, "minLength", 0) \in 0 .. Get(schema, "maxLength", DefaultMaxLength)
  /\ bound("minimum") # None /\ bound("maximum") # None => schema.minimum <= schema.maximum

\* What a schema is made of: the schema of each property, or of the items.
Parts(schema) ==
  LET type == Get(schema, "type", None) IN
  IF type = "object" THEN Get(schema, "properties", <<>>)
  ELSE IF type = "array" THEN [items |-> Get(schema, "items", None)] ELSE <<>>

\* _validate_schema_node; sound tells which of the parts pass it one level below.
SoundNode(schema, depth, sound) ==
  LET type == Get(schema, "type", None) IN
  /\ schema # None /\ depth <= MaxDepth
  /\ depth = 0 => type = "object"
  /\ type \in DOMAIN Keywords /\ DOMAIN schema \subseteq Keywords[type]
  /\ \/ /\ type = "object"
        /\ Get(schema, "additionalProperties", None) = FALSE
        /\ LET properties == Get(schema, "properties", None) IN
           /\ properties # None
           /\ Cardinality(DOMAIN properties) <= MaxProperties
           /\ Get(schema, "required", {}) \subseteq DOMAIN properties
           /\ DOMAIN properties \cap (Reserved \cup UnsafeName) = {}
     \/ /\ type = "array"
        /\ Get(schema, "maxItems", None) \in 0 .. MaxItems
        /\ Get(schema, "minItems", 0) \in 0 .. schema.maxItems
     \/ type \in Scalar /\ WellFormedScalar(schema)
  /\ \A p \in DOMAIN Parts(schema) : sound[p]

\* The recursion, one operator for each depth: nothing passes below MaxDepth.
Sound5(schema) == SoundNode(schema, 5, <<>>)
Sound4(schema) == SoundNode(schema, 4, [p \in DOMAIN Parts(schema) |-> Sound5(Parts(schema)[p])])
Sound3(schema) == SoundNode(schema, 3, [p \in DOMAIN Parts(schema) |-> Sound4(Parts(schema)[p])])
Sound2(schema) == SoundNode(schema, 2, [p \in DOMAIN Parts(schema) |-> Sound3(Parts(schema)[p])])
Sound1(schema) == SoundNode(schema, 1, [p \in DOMAIN Parts(schema) |-> Sound2(Parts(schema)[p])])

\* validate_input_schema.
WellFormed(schema) ==
  SoundNode(schema, 0, [p \in DOMAIN Parts(schema) |-> Sound1(Parts(schema)[p])])

-----------------------------------------------------------------------------
Kinds ==
  [string |-> {"string"}, integer |-> {"integer"}, number |-> {"integer", "float"},
   boolean |-> {"boolean"}]

\* Python's ==, for which True and 1 are the same.
Same(a, b) ==
  /\ a.n = b.n
  /\ "string" \in {a.kind, b.kind} => a.kind = b.kind /\ a.is = b.is

Within(schema, low, high, n) ==
  FirstFault(<<Check(Get(schema, low, None) = None \/ schema[low] <= n, "minimum_invalid"),
               Check(Get(schema, high, None) = None \/ n <= schema[high], "maximum_invalid")>>)

ScalarFault(schema, value) ==
  IF value.kind \notin Kinds[schema.type] THEN "type_invalid"
  ELSE FirstFault(
    <<Check(Get(schema, "enum", None) = None \/ \E v \in schema.enum : Same(v, value),
            "enum_invalid"),
      Check(value.kind = "string" =>
              value.n \in Get(schema, "minLength", 0)
                            .. Get(schema, "maxLength", DefaultMaxLength),
            "length_invalid"),
      IF value.kind \in {"string", "boolean"} THEN "none"
      ELSE Within(schema, "minimum", "maximum", value.n)>>)

\* What the second walk reads without a default.
Complete(schema) ==
  CASE schema.type = "object" ->
         "properties" \in DOMAIN schema /\ None \notin {schema.properties[p] :
                                                         p \in DOMAIN schema.properties}
    [] schema.type = "array" -> {"items", "maxItems"} \subseteq DOMAIN schema
    [] OTHER -> schema.type \in Scalar

\* The parts of a value and the schema for each of them.
Content(value) ==
  IF value.kind = "object" THEN value.fields
  ELSE IF value.kind = "array" THEN value.items ELSE <<>>

PartSchema(schema, p) ==
  IF schema.type = "object" THEN schema.properties[p] ELSE schema.items

\* _validate_value: the reasons that it may give, {} when it accepts.  It
\* raises SchemaDefinitionError or KeyError, here "schema_error", when the
\* schema is not Complete.  The fields of an object come in any order; below
\* has the reasons that each part of the value may give.
NodeFaults(schema, value, below) ==
  IF "type" \notin DOMAIN schema \/ ~Complete(schema) THEN {"schema_error"}
  ELSE IF schema.type = "object" THEN
    IF value.kind # "object" THEN {"object_required"}
    ELSE LET given == DOMAIN value.fields IN
         IF ~(Get(schema, "required", {}) \subseteq given) THEN {"missing_required_fields"}
         ELSE IF ~(given \subseteq DOMAIN schema.properties) THEN {"unknown_fields"}
         ELSE UNION {below[f] : f \in given}
  ELSE IF schema.type = "array" THEN
    IF value.kind # "array" THEN {"array_required"}
    ELSE IF Len(value.items) \notin Get(schema, "minItems", 0) .. schema.maxItems
      THEN {"item_count_invalid"}
    ELSE LET bad == {k \in DOMAIN value.items : below[k] # {}}
         IN UNION {below[k] : k \in {first \in bad : \A j \in bad : first <= j}}
  ELSE {ScalarFault(schema, value)} \ {"none"}

\* The recursion, one operator for each depth of a WellFormed schema, which has
\* no part below MaxDepth.
Faults4(schema, value) == NodeFaults(schema, value, <<>>)
Faults3(schema, value) ==
  NodeFaults(schema, value, [p \in DOMAIN Content(value) |->
                               Faults4(PartSchema(schema, p), Content(value)[p])])
Faults2(schema, value) ==
  NodeFaults(schema, value, [p \in DOMAIN Content(value) |->
                               Faults3(PartSchema(schema, p), Content(value)[p])])
Faults1(schema, value) ==
  NodeFaults(schema, value, [p \in DOMAIN Content(value) |->
                               Faults2(PartSchema(schema, p), Content(value)[p])])
Faults(schema, value) ==
  NodeFaults(schema, value, [p \in DOMAIN Content(value) |->
                               Faults1(PartSchema(schema, p), Content(value)[p])])

\* validate_arguments.
ArgumentFaults(schema, arguments) ==
  IF DOMAIN arguments.fields \cap Reserved # {} THEN {"reserved_runtime_identity"}
  ELSE Faults(schema, arguments)

=============================================================================
