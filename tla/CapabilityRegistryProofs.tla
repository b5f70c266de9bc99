----------------------- MODULE CapabilityRegistryProofs -----------------------
(***************************************************************************)
(* Proofs about CapabilityRegistry: the tables of active calls, processes   *)
(* and cancellations agree with the calls inside a handler, a cancel ends   *)
(* the call it was accepted for and no other, snapshots are reported or     *)
(* removed, and a schema that was registered answers every argument with a *)
(* reason that the caller can be told.                                      *)
(*   The inductive invariant is RegistryInv.  What it needs of the walk     *)
(* over schemas is proved level by level: a schema is at most MaxDepth deep *)
(* and ArgumentSchema has one operator for each level.                      *)
(***************************************************************************)
EXTENDS CapabilityRegistry, NaturalsInduction, WellFoundedInduction, SequenceTheorems, TLAPS

-----------------------------------------------------------------------------
\* Helpers on sets and on the first of several reasons.

\* A set of positions that is not empty has a first one.
LEMMA LeastExists ==
  ASSUME NEW S, S \subseteq Nat, S # {}
  PROVE  \E k \in S : \A j \in S : k <= j
<1>1. IsWellFoundedOn(OpToRel(<, Nat), Nat)
  BY NatLessThanWellFounded
<1>2. PICK k \in S : \A j \in S : ~(<<j, k>> \in OpToRel(<, Nat))
  BY <1>1, WFMin
<1>3. \A j \in S : ~(j < k)
  BY <1>2 DEF OpToRel
<1> QED
  BY <1>3

\* What FirstFault returns is one of the reasons it was given, and "none" only when all are.
LEMMA ReasonIsAnEntry ==
  ASSUME NEW faults, DOMAIN faults \subseteq Nat
  PROVE  /\ FirstFault(faults) = "none" <=> \A k \in DOMAIN faults : faults[k] = "none"
         /\ FirstFault(faults) # "none" => \E k \in DOMAIN faults : FirstFault(faults) = faults[k]
<1> DEFINE found == {k \in DOMAIN faults : faults[k] # "none"}
<1>1. CASE found = {}
  BY <1>1 DEF FirstFault
<1>2. CASE found # {}
  <2>1. \E k \in found : \A j \in found : k <= j
    <3>1. found \subseteq Nat
      OBVIOUS
    <3> HIDE DEF found
    <3> QED
      BY <3>1, <1>2, LeastExists
  <2>2. PICK k \in found : FirstFault(faults) = faults[k]
    BY <2>1, <1>2 DEF FirstFault
  <2> QED
    BY <2>2
<1> QED
  BY <1>1, <1>2

\* What the walk over the arguments may say about them.
ArgumentReasons ==
  {"reserved_runtime_identity", "object_required", "missing_required_fields", "unknown_fields",
   "array_required", "item_count_invalid", "type_invalid", "enum_invalid", "length_invalid",
   "minimum_invalid", "maximum_invalid"}

\* What the walk over the arguments may say of a scalar (schema.py, _validate_scalar).
LEMMA ScalarReasons ==
  ASSUME NEW schema, NEW value
  PROVE  ScalarFault(schema, value) \in ArgumentReasons \cup {"none"}
<1>1. \A p, q : Check(p, q) \in {q, "none"}
  BY DEF Check
<1>2. \A low, high, n : Within(schema, low, high, n) \in {"minimum_invalid", "maximum_invalid", "none"}
  <2> TAKE low, high, n
  <2> DEFINE checks == <<Check(Get(schema, low, None) = None \/ schema[low] <= n, "minimum_invalid"),
                         Check(Get(schema, high, None) = None \/ n <= schema[high], "maximum_invalid")>>
  <2>1. DOMAIN checks = 1 .. 2 /\ checks[1] \in {"minimum_invalid", "none"} /\ checks[2] \in {"maximum_invalid", "none"}
    BY DEF Check
  <2>2. Within(schema, low, high, n) = FirstFault(checks)
    BY DEF Within
  <2> HIDE DEF checks
  <2> QED
    BY <2>1, <2>2, ReasonIsAnEntry
<1> DEFINE a == Check(Get(schema, "enum", None) = None \/ \E v \in schema.enum : Same(v, value), "enum_invalid")
           b == Check(value.kind = "string" =>
                        value.n \in Get(schema, "minLength", 0)
                                      .. Get(schema, "maxLength", DefaultMaxLength), "length_invalid")
           c == IF value.kind \in {"string", "boolean"} THEN "none"
                ELSE Within(schema, "minimum", "maximum", value.n)
           checks == <<a, b, c>>
<1>3. a \in {"enum_invalid", "none"} /\ b \in {"length_invalid", "none"}
      /\ c \in {"minimum_invalid", "maximum_invalid", "none"}
  BY <1>1, <1>2
<1>4. ScalarFault(schema, value) = (IF value.kind \notin Kinds[schema.type] THEN "type_invalid" ELSE FirstFault(checks))
  BY DEF ScalarFault
<1> HIDE DEF a, b, c
<1>5. DOMAIN checks = 1 .. 3 /\ checks[1] = a /\ checks[2] = b /\ checks[3] = c
  OBVIOUS
<1> HIDE DEF checks
<1>6. FirstFault(checks) \in {"enum_invalid", "length_invalid", "minimum_invalid", "maximum_invalid", "none"}
  <2>1. FirstFault(checks) = "none" \/ \E k \in 1 .. 3 : FirstFault(checks) = checks[k]
    BY <1>5, ReasonIsAnEntry
  <2> QED
    BY <2>1, <1>3, <1>5
<1> QED
  BY <1>4, <1>6 DEF ArgumentReasons

\* A node whose schema is sound, over parts whose schemas are.
LEMMA NodeSpeaks ==
  ASSUME NEW schema, NEW depth, NEW sound, SoundNode(schema, depth, sound),
         \A p \in DOMAIN Parts(schema) : Parts(schema)[p] # None,
         NEW value, NEW below,
         schema.type = "object" =>
           \A f \in DOMAIN value.fields :
             f \in DOMAIN schema.properties /\ value.kind = "object" => below[f] \subseteq ArgumentReasons,
         schema.type = "array" =>
           \A k \in DOMAIN value.items : value.kind = "array" => below[k] \subseteq ArgumentReasons
  PROVE  NodeFaults(schema, value, below) \subseteq ArgumentReasons
<1>1. "type" \in DOMAIN schema /\ schema.type \in DOMAIN Keywords /\ Get(schema, "type", None) = schema.type
  BY NoneAssumption DEF SoundNode, Get
<1>2. Complete(schema)
  <2>1. CASE schema.type = "object"
    <3>1. "properties" \in DOMAIN schema /\ Parts(schema) = schema.properties
      <4>1. schema.type # "array" /\ schema.type \notin Scalar
        BY <2>1 DEF Scalar
      <4>2. Get(schema, "properties", None) # None
        BY <1>1, <4>1 DEF SoundNode
      <4>3. "properties" \in DOMAIN schema
        BY <4>2 DEF Get
      <4> QED
        BY <1>1, <2>1, <4>3 DEF Parts, Get
    <3> QED
      BY <2>1, <3>1 DEF Complete
  <2>2. CASE schema.type = "array"
    <3>1. "maxItems" \in DOMAIN schema
      <4>1. schema.type # "object" /\ schema.type \notin Scalar
        BY <2>2 DEF Scalar
      <4>2. Get(schema, "maxItems", None) \in 0 .. MaxItems
        BY <1>1, <4>1 DEF SoundNode
      <4> QED
        BY <4>2, NoneAssumption DEF Get
    <3>2. Parts(schema) = [items |-> Get(schema, "items", None)]
      BY <1>1, <2>2 DEF Parts
    <3>3. "items" \in DOMAIN schema
      BY <3>2 DEF Get
    <3> QED
      BY <2>2, <3>1, <3>3 DEF Complete
  <2>3. CASE schema.type \in Scalar
    BY <2>3 DEF Complete, Scalar
  <2> QED
    BY <1>1, <2>1, <2>2, <2>3 DEF Keywords, Scalar
<1>3. CASE schema.type = "object"
  BY <1>1, <1>2, <1>3 DEF NodeFaults, ArgumentReasons
<1>4. CASE schema.type = "array"
  BY <1>1, <1>2, <1>4 DEF NodeFaults, ArgumentReasons
<1>5. CASE schema.type \notin {"object", "array"}
  BY <1>1, <1>2, <1>5, ScalarReasons DEF NodeFaults
<1> QED
  BY <1>3, <1>4, <1>5

\* The parts of a sound node are sound, and the walk over a value looks each of its parts up among them.
LEMMA PartsFit ==
  ASSUME NEW schema, NEW depth, NEW sound, SoundNode(schema, depth, sound)
  PROVE  /\ \A p \in DOMAIN Parts(schema) : sound[p]
         /\ schema.type = "object" =>
              \A f \in DOMAIN schema.properties :
                f \in DOMAIN Parts(schema) /\ PartSchema(schema, f) = Parts(schema)[f]
         /\ schema.type = "array" =>
              /\ "items" \in DOMAIN Parts(schema)
              /\ \A k : Parts(schema)["items"] # None => PartSchema(schema, k) = Parts(schema)["items"]
<1>1. "type" \in DOMAIN schema /\ Get(schema, "type", None) = schema.type
  BY NoneAssumption DEF SoundNode, Get
<1>2. ASSUME schema.type = "object"
      PROVE  Parts(schema) = schema.properties
  <2>1. schema.type # "array" /\ schema.type \notin Scalar
    BY <1>2 DEF Scalar
  <2>2. Get(schema, "properties", None) # None
    BY <1>1, <2>1 DEF SoundNode
  <2> QED
    BY <1>1, <1>2, <2>2 DEF Parts, Get
<1>3. schema.type = "array" => Parts(schema) = [items |-> Get(schema, "items", None)]
  BY <1>1 DEF Parts
<1>4. Get(schema, "items", None) # None => Get(schema, "items", None) = schema.items
  BY DEF Get
<1>5. \A p \in DOMAIN Parts(schema) : sound[p]
  BY DEF SoundNode
<1> QED
  BY <1>2, <1>3, <1>4, <1>5 DEF PartSchema

\* A level of the walk, from the one below.
LEMMA LevelSpeaks ==
  ASSUME NEW schema, NEW depth, NEW sound, SoundNode(schema, depth, sound), NEW value, NEW below,
         \A q \in DOMAIN Parts(schema) : Parts(schema)[q] # None,
         \A p \in DOMAIN Content(value) : \A q \in DOMAIN Parts(schema) :
           PartSchema(schema, p) = Parts(schema)[q] => below[p] \subseteq ArgumentReasons
  PROVE  NodeFaults(schema, value, below) \subseteq ArgumentReasons
<1>1. schema.type = "object" =>
        \A f \in DOMAIN value.fields :
          f \in DOMAIN schema.properties /\ value.kind = "object" => below[f] \subseteq ArgumentReasons
  BY PartsFit DEF Content
<1>2. schema.type = "array" =>
        \A k \in DOMAIN value.items : value.kind = "array" => below[k] \subseteq ArgumentReasons
  BY PartsFit DEF Content
<1> QED
  BY <1>1, <1>2, NodeSpeaks

\* The deepest level of a schema that validate_input_schema accepts.
LEMMA Level4Speaks ==
  ASSUME NEW schema, NEW value, Sound4(schema)
  PROVE  Faults4(schema, value) \subseteq ArgumentReasons
<1> DEFINE sound == [p \in DOMAIN Parts(schema) |-> Sound5(Parts(schema)[p])]
<1>1. SoundNode(schema, 4, sound)
  BY DEF Sound4
<1>2. \A p \in DOMAIN Parts(schema) : FALSE
  <2>1. \A s : ~Sound5(s)
    BY DEF Sound5, SoundNode, MaxDepth
  <2>2. \A p \in DOMAIN Parts(schema) : sound[p]
    BY <1>1, PartsFit
  <2> QED
    BY <2>1, <2>2
<1> HIDE DEF sound
<1> QED
  BY <1>1, <1>2, LevelSpeaks DEF Faults4

\* The level above it.
LEMMA Level3Speaks ==
  ASSUME NEW schema, NEW value, Sound3(schema)
  PROVE  Faults3(schema, value) \subseteq ArgumentReasons
<1> DEFINE sound == [p \in DOMAIN Parts(schema) |-> Sound4(Parts(schema)[p])]
           below == [p \in DOMAIN Content(value) |->
                       Faults4(PartSchema(schema, p), Content(value)[p])]
<1>1. SoundNode(schema, 3, sound)
  BY DEF Sound3
<1>2. \A q \in DOMAIN Parts(schema) : Sound4(Parts(schema)[q])
  <2>1. \A q \in DOMAIN Parts(schema) : sound[q]
    BY <1>1, PartsFit
  <2> QED
    BY <2>1
<1>3. \A s : Sound4(s) => s # None
  BY DEF Sound4, SoundNode
<1>4. \A p \in DOMAIN Content(value) : \A q \in DOMAIN Parts(schema) :
        PartSchema(schema, p) = Parts(schema)[q] => below[p] \subseteq ArgumentReasons
  BY <1>2, Level4Speaks
<1>5. Faults3(schema, value) = NodeFaults(schema, value, below)
  BY DEF Faults3
<1> HIDE DEF sound, below
<1> QED
  BY <1>1, <1>2, <1>3, <1>4, <1>5, LevelSpeaks

\* The level above it.
LEMMA Level2Speaks ==
  ASSUME NEW schema, NEW value, Sound2(schema)
  PROVE  Faults2(schema, value) \subseteq ArgumentReasons
<1> DEFINE sound == [p \in DOMAIN Parts(schema) |-> Sound3(Parts(schema)[p])]
           below == [p \in DOMAIN Content(value) |->
                       Faults3(PartSchema(schema, p), Content(value)[p])]
<1>1. SoundNode(schema, 2, sound)
  BY DEF Sound2
<1>2. \A q \in DOMAIN Parts(schema) : Sound3(Parts(schema)[q])
  <2>1. \A q \in DOMAIN Parts(schema) : sound[q]
    BY <1>1, PartsFit
  <2> QED
    BY <2>1
<1>3. \A s : Sound3(s) => s # None
  BY DEF Sound3, SoundNode
<1>4. \A p \in DOMAIN Content(value) : \A q \in DOMAIN Parts(schema) :
        PartSchema(schema, p) = Parts(schema)[q] => below[p] \subseteq ArgumentReasons
  BY <1>2, Level3Speaks
<1>5. Faults2(schema, value) = NodeFaults(schema, value, below)
  BY DEF Faults2
<1> HIDE DEF sound, below
<1> QED
  BY <1>1, <1>2, <1>3, <1>4, <1>5, LevelSpeaks

\* The properties of such a schema.
LEMMA Level1Speaks ==
  ASSUME NEW schema, NEW value, Sound1(schema)
  PROVE  Faults1(schema, value) \subseteq ArgumentReasons
<1> DEFINE sound == [p \in DOMAIN Parts(schema) |-> Sound2(Parts(schema)[p])]
           below == [p \in DOMAIN Content(value) |->
                       Faults2(PartSchema(schema, p), Content(value)[p])]
<1>1. SoundNode(schema, 1, sound)
  BY DEF Sound1
<1>2. \A q \in DOMAIN Parts(schema) : Sound2(Parts(schema)[q])
  <2>1. \A q \in DOMAIN Parts(schema) : sound[q]
    BY <1>1, PartsFit
  <2> QED
    BY <2>1
<1>3. \A s : Sound2(s) => s # None
  BY DEF Sound2, SoundNode
<1>4. \A p \in DOMAIN Content(value) : \A q \in DOMAIN Parts(schema) :
        PartSchema(schema, p) = Parts(schema)[q] => below[p] \subseteq ArgumentReasons
  BY <1>2, Level2Speaks
<1>5. Faults1(schema, value) = NodeFaults(schema, value, below)
  BY DEF Faults1
<1> HIDE DEF sound, below
<1> QED
  BY <1>1, <1>2, <1>3, <1>4, <1>5, LevelSpeaks

\* The schema itself: _validate_value never meets a keyword that is missing.
LEMMA Level0Speaks ==
  ASSUME NEW schema, NEW value, WellFormed(schema)
  PROVE  Faults(schema, value) \subseteq ArgumentReasons
<1> DEFINE sound == [p \in DOMAIN Parts(schema) |-> Sound1(Parts(schema)[p])]
           below == [p \in DOMAIN Content(value) |->
                       Faults1(PartSchema(schema, p), Content(value)[p])]
<1>1. SoundNode(schema, 0, sound)
  BY DEF WellFormed
<1>2. \A q \in DOMAIN Parts(schema) : Sound1(Parts(schema)[q])
  <2>1. \A q \in DOMAIN Parts(schema) : sound[q]
    BY <1>1, PartsFit
  <2> QED
    BY <2>1
<1>3. \A s : Sound1(s) => s # None
  BY DEF Sound1, SoundNode
<1>4. \A p \in DOMAIN Content(value) : \A q \in DOMAIN Parts(schema) :
        PartSchema(schema, p) = Parts(schema)[q] => below[p] \subseteq ArgumentReasons
  BY <1>2, Level1Speaks
<1>5. Faults(schema, value) = NodeFaults(schema, value, below)
  BY DEF Faults
<1> HIDE DEF sound, below
<1> QED
  BY <1>1, <1>2, <1>3, <1>4, <1>5, LevelSpeaks

\* validate_arguments never raises SchemaDefinitionError or KeyError over a schema that passed validate_input_schema.
LEMMA WalkSpeaks ==
  ASSUME NEW schema, NEW arguments, WellFormed(schema)
  PROVE  ArgumentFaults(schema, arguments) \subseteq ArgumentReasons
BY Level0Speaks DEF ArgumentFaults, ArgumentReasons

\* FirstFault returns "none" or a reason of the set that its entries come from.
LEMMA ReasonsOf ==
  ASSUME NEW faults, DOMAIN faults \subseteq Nat, NEW S,
         \A k \in DOMAIN faults : faults[k] \in S \cup {"none"}
  PROVE  FirstFault(faults) \in S \cup {"none"}
BY ReasonIsAnEntry

\* What the handler's own checks may say.
HandlerReasons ==
  {"argument_type", "argument_limit", "timeout_limit", "encode_error", "stdin_limit", "environment_type",
   "environment_invalid", "command_invalid", "relative_executable", "missing_executable",
   "not_executable", "invalid_cwd", "artifact_limit", "artifact_type", "artifact_invalid"}

\* What they would say of an argument of the wrong type or out of its bounds.
TypeReasons ==
  {"argument_type", "environment_type", "artifact_type", "timeout_limit", "artifact_limit"}

\* What _environment may say, and that a list of objects rules environment_type out.
LEMMA EnvironmentReasons ==
  ASSUME NEW env, env.kind = "array" => DOMAIN env.items \subseteq Nat
  PROVE  /\ EnvironmentFault(env) \in {"environment_type", "environment_invalid", "none"}
         /\ env.kind = "array" /\ (\A k \in DOMAIN env.items : env.items[k].kind = "object")
              => EnvironmentFault(env) \in {"environment_invalid", "none"}
<1> DEFINE Entry(k) ==
             <<Check(env.items[k].kind = "object", "environment_type"),
               Check(/\ IsText(Item(env.items[k], "name")) /\ IsText(Item(env.items[k], "value"))
                     /\ Item(env.items[k], "name").is # "bad" /\ Item(env.items[k], "value").is # "nul"
                     /\ \A j \in 1 .. k - 1 : Item(env.items[j], "name") # Item(env.items[k], "name"),
                     "environment_invalid")>>
           checks == [k \in DOMAIN env.items |-> FirstFault(Entry(k))]
<1>1. env.kind = "array" => EnvironmentFault(env) = FirstFault(checks)
  BY DEF EnvironmentFault
<1>2. \A k : /\ DOMAIN Entry(k) = 1 .. 2
             /\ Entry(k)[1] = Check(env.items[k].kind = "object", "environment_type")
             /\ Entry(k)[2] \in {"environment_invalid", "none"}
  BY DEF Check
<1> HIDE DEF Entry
<1>3. \A k : FirstFault(Entry(k)) \in {"environment_type", "environment_invalid", "none"}
  <2> TAKE k
  <2>1. DOMAIN Entry(k) = 1 .. 2 /\ Entry(k)[1] \in {"environment_type", "none"}
        /\ Entry(k)[2] \in {"environment_invalid", "none"}
    BY <1>2 DEF Check
  <2> QED
    BY <2>1, ReasonIsAnEntry
<1>4. \A k : env.items[k].kind = "object" => FirstFault(Entry(k)) \in {"environment_invalid", "none"}
  <2> TAKE k
  <2> HAVE env.items[k].kind = "object"
  <2>1. DOMAIN Entry(k) = 1 .. 2 /\ Entry(k)[1] = "none"
        /\ Entry(k)[2] \in {"environment_invalid", "none"}
    BY <1>2 DEF Check
  <2> QED
    BY <2>1, ReasonIsAnEntry
<1>5. ASSUME env.kind = "array", NEW S, \A k \in DOMAIN env.items : FirstFault(Entry(k)) \in S \cup {"none"}
      PROVE  EnvironmentFault(env) \in S \cup {"none"}
  <2>1. DOMAIN checks \subseteq Nat /\ \A k \in DOMAIN checks : checks[k] \in S \cup {"none"}
    BY <1>5
  <2> HIDE DEF checks
  <2> QED
    BY <2>1, <1>1, <1>5, ReasonsOf
<1>6. env.kind = "array" => EnvironmentFault(env) \in {"environment_type", "environment_invalid"} \cup {"none"}
  BY <1>3, <1>5
<1>7. env.kind = "array" /\ (\A k \in DOMAIN env.items : env.items[k].kind = "object")
        => EnvironmentFault(env) \in {"environment_invalid"} \cup {"none"}
  BY <1>4, <1>5
<1>8. env.kind # "array" => EnvironmentFault(env) = "environment_type"
  BY DEF EnvironmentFault
<1> QED
  BY <1>6, <1>7, <1>8

\* What _artifact_declarations may say, and how many declarations it lets through.
LEMMA DeclarationReasons ==
  ASSUME NEW artifacts, artifacts.kind = "array" => DOMAIN artifacts.items \subseteq Nat
  PROVE  /\ DeclarationFault(artifacts) \in {"artifact_limit", "artifact_type", "artifact_invalid", "none"}
         /\ DeclarationFault(artifacts) = "none" =>
              artifacts.kind = "array" /\ Len(artifacts.items) <= MaxDeclared
         /\ /\ artifacts.kind = "array" /\ Len(artifacts.items) <= MaxDeclared
            /\ \A k \in DOMAIN artifacts.items : artifacts.items[k].kind = "object"
            => DeclarationFault(artifacts) \in {"artifact_invalid", "none"}
<1> DEFINE media(k) == IF Item(artifacts.items[k], "media_type") = Nothing THEN Str(24, "plain")
                       ELSE Item(artifacts.items[k], "media_type")
           Entry(k) ==
             <<Check(artifacts.items[k].kind = "object", "artifact_type"),
               Check(/\ IsText(Item(artifacts.items[k], "path"))
                     /\ IsText(media(k)) /\ media(k).is # "bad", "artifact_invalid")>>
           each == [k \in DOMAIN artifacts.items |-> FirstFault(Entry(k))]
           limit == Check(Len(artifacts.items) <= MaxDeclared, "artifact_limit")
           both == <<limit, FirstFault(each)>>
<1>1. artifacts.kind = "array" => DeclarationFault(artifacts) = FirstFault(both)
  BY DEF DeclarationFault
<1>2. artifacts.kind # "array" => DeclarationFault(artifacts) = "artifact_limit"
  BY DEF DeclarationFault
<1>3. \A k : /\ DOMAIN Entry(k) = 1 .. 2
             /\ Entry(k)[1] = Check(artifacts.items[k].kind = "object", "artifact_type")
             /\ Entry(k)[2] \in {"artifact_invalid", "none"}
  BY DEF Check
<1> HIDE DEF Entry
<1>4. \A k : FirstFault(Entry(k)) \in {"artifact_type", "artifact_invalid", "none"}
  <2> TAKE k
  <2>1. DOMAIN Entry(k) = 1 .. 2 /\ Entry(k)[1] \in {"artifact_type", "none"}
        /\ Entry(k)[2] \in {"artifact_invalid", "none"}
    BY <1>3 DEF Check
  <2> QED
    BY <2>1, ReasonIsAnEntry
<1>5. \A k : artifacts.items[k].kind = "object" => FirstFault(Entry(k)) \in {"artifact_invalid", "none"}
  <2> TAKE k
  <2> HAVE artifacts.items[k].kind = "object"
  <2>1. DOMAIN Entry(k) = 1 .. 2 /\ Entry(k)[1] = "none" /\ Entry(k)[2] \in {"artifact_invalid", "none"}
    BY <1>3 DEF Check
  <2> QED
    BY <2>1, ReasonIsAnEntry
<1>6. ASSUME artifacts.kind = "array", NEW S,
             \A k \in DOMAIN artifacts.items : FirstFault(Entry(k)) \in S \cup {"none"}
      PROVE  FirstFault(each) \in S \cup {"none"}
  <2>1. DOMAIN each \subseteq Nat /\ \A k \in DOMAIN each : each[k] \in S \cup {"none"}
    BY <1>6
  <2> HIDE DEF each
  <2> QED
    BY <2>1, ReasonsOf
<1>7. artifacts.kind = "array" => FirstFault(each) \in {"artifact_type", "artifact_invalid"} \cup {"none"}
  BY <1>4, <1>6
<1>8. artifacts.kind = "array" /\ (\A k \in DOMAIN artifacts.items : artifacts.items[k].kind = "object")
        => FirstFault(each) \in {"artifact_invalid"} \cup {"none"}
  BY <1>5, <1>6
<1> HIDE DEF each
<1>9. limit = IF Len(artifacts.items) <= MaxDeclared THEN "none" ELSE "artifact_limit"
  BY DEF Check
<1> HIDE DEF limit
<1>10. DOMAIN both = 1 .. 2 /\ both[1] = limit /\ both[2] = FirstFault(each)
  OBVIOUS
<1> HIDE DEF both
<1>11. /\ FirstFault(both) = "none" <=> limit = "none" /\ FirstFault(each) = "none"
       /\ FirstFault(both) \in {limit, FirstFault(each), "none"}
  BY <1>10, ReasonIsAnEntry
<1> QED
  BY <1>1, <1>2, <1>7, <1>8, <1>9, <1>11

\* The list arguments of a request are sequences.
LEMMA ListsAreLists ==
  ASSUME NEW request \in Request, NEW name \in {"args", "env", "artifacts"},
         Argument(request.arguments.fields, name).kind = "array"
  PROVE  LET items == Argument(request.arguments.fields, name).items
         IN Len(items) \in Nat /\ DOMAIN items = 1 .. Len(items)
<1> DEFINE f == request.arguments.fields
<1>1. CASE name \in DOMAIN f
  <2>1. Argument(f, name) = f[name]
    BY <1>1 DEF Argument, Get
  <2> HIDE DEF f
  <2>2. f = request.arguments.fields
    BY DEF f
  <2> QED
    BY <1>1, <2>1, <2>2, RequestAssumption
<1>2. CASE name \notin DOMAIN f
  <2>1. Argument(f, name) = Defaults[name]
    BY <1>2 DEF Argument, Get
  <2>2. Defaults[name] = List(<<>>)
    BY DEF Defaults
  <2>3. List(<<>>).items = <<>>
    BY DEF List
  <2> QED
    BY <2>1, <2>2, <2>3
<1> QED
  BY <1>1, <1>2

\* What the handler's own checks may say, and that the right types and bounds rule TypeReasons out.
LEMMA HandlerSpeaks ==
  ASSUME NEW request \in Request
  PROVE  LET f == request.arguments.fields
             env == Argument(f, "env")
             artifacts == Argument(f, "artifacts")
         IN /\ HandlerFault(f) \in HandlerReasons \cup {"none"}
            /\ HandlerFault(f) = "none" => artifacts.kind = "array" /\ Len(artifacts.items) <= MaxDeclared
            /\ /\ Typed(f) /\ Argument(f, "timeout").n \in 1 .. MaxTimeout
               /\ env.kind = "array" /\ \A k \in DOMAIN env.items : env.items[k].kind = "object"
               /\ artifacts.kind = "array" /\ Len(artifacts.items) <= MaxDeclared
               /\ \A k \in DOMAIN artifacts.items : artifacts.items[k].kind = "object"
               => HandlerFault(f) \notin TypeReasons
<1> DEFINE f == request.arguments.fields
           env == Argument(f, "env")
           artifacts == Argument(f, "artifacts")
           args == Argument(f, "args").items
           stdin == Argument(f, "stdin")
           timeout == Argument(f, "timeout")
           command == Argument(f, "command")
           c1 == Check(Len(args) <= MaxArguments /\ \A k \in DOMAIN args : args[k].is # "nul", "argument_limit")
           c2 == Check(timeout.n \in 1 .. MaxTimeout, "timeout_limit")
           c3 == Check(stdin = Nothing \/ Bytes(stdin) <= MaxStdin, "stdin_limit")
           c8 == Check(stdin = Nothing \/ stdin.is # "surrogate", "encode_error")
           c9 == Check(\A k \in DOMAIN args : args[k].is # "surrogate", "encode_error")
           c5 == ExecutableFault(command)
           c6 == CwdFault(Argument(f, "cwd"))
           c7 == DeclarationFault(artifacts)
           checks == <<c1, c2, c8, c3, EnvironmentFault(env), c5, c6, c7, c9>>
<1>1. HandlerFault(f) = IF ~Typed(f) THEN "argument_type" ELSE FirstFault(checks)
  BY DEF HandlerFault
<1>2. c1 \in {"argument_limit", "none"} /\ c2 \in {"timeout_limit", "none"}
      /\ c3 \in {"stdin_limit", "none"}
      /\ c8 \in {"encode_error", "none"} /\ c9 \in {"encode_error", "none"}
      /\ (timeout.n \in 1 .. MaxTimeout => c2 = "none")
  BY DEF Check
<1>15. c6 \in {"invalid_cwd", "encode_error", "none"}
  <2> DEFINE cwd == Argument(f, "cwd")
             two == <<Check(cwd.n > 0 /\ cwd.is \notin {"nul", "missing", "data"}, "invalid_cwd"),
                      Check(cwd.is # "surrogate", "encode_error")>>
  <2>1. c6 = FirstFault(two)
    BY DEF CwdFault
  <2>2. DOMAIN two = 1 .. 2 /\ two[1] \in {"invalid_cwd", "none"} /\ two[2] \in {"encode_error", "none"}
    BY DEF Check
  <2> HIDE DEF two
  <2>3. FirstFault(two) \in {"invalid_cwd", "encode_error"} \cup {"none"}
    <3>1. DOMAIN two \subseteq Nat
          /\ \A k \in DOMAIN two : two[k] \in {"invalid_cwd", "encode_error"} \cup {"none"}
      BY <2>2
    <3> QED
      BY <3>1, ReasonsOf
  <2> QED
    BY <2>1, <2>3
<1>3. c5 \in {"command_invalid", "relative_executable", "encode_error", "missing_executable",
             "not_executable", "none"}
  <2> DEFINE five == <<Check(command.n > 0 /\ command.is # "nul", "command_invalid"),
                       Check(command.is # "relative", "relative_executable"),
                       Check(command.is # "surrogate", "encode_error"),
                       Check(command.is # "missing", "missing_executable"),
                       Check(command.is \notin {"directory", "data"}, "not_executable")>>
  <2>1. c5 = FirstFault(five)
    BY DEF ExecutableFault
  <2>2. DOMAIN five \subseteq Nat /\ \A k \in DOMAIN five :
          five[k] \in {"command_invalid", "relative_executable", "encode_error", "missing_executable",
                       "not_executable"} \cup {"none"}
    <3>1. \A p, q : Check(p, q) \in {q, "none"}
      BY DEF Check
    <3>2. /\ DOMAIN five = 1 .. 5
          /\ five[1] \in {"command_invalid", "none"} /\ five[2] \in {"relative_executable", "none"}
          /\ five[3] \in {"encode_error", "none"}
          /\ five[4] \in {"missing_executable", "none"} /\ five[5] \in {"not_executable", "none"}
      BY <3>1
    <3> HIDE DEF five
    <3> QED
      BY <3>2
  <2> HIDE DEF five
  <2>3. FirstFault(five)
          \in {"command_invalid", "relative_executable", "encode_error", "missing_executable",
              "not_executable"} \cup {"none"}
    BY <2>2, ReasonsOf
  <2> QED
    BY <2>1, <2>3
<1>4. /\ EnvironmentFault(env) \in {"environment_type", "environment_invalid", "none"}
      /\ env.kind = "array" /\ (\A k \in DOMAIN env.items : env.items[k].kind = "object")
           => EnvironmentFault(env) \in {"environment_invalid", "none"}
  <2>1. env.kind = "array" => DOMAIN env.items \subseteq Nat
    <3>1. env.kind = "array" => Len(env.items) \in Nat /\ DOMAIN env.items = 1 .. Len(env.items)
      BY ListsAreLists
    <3> QED
      BY <3>1
  <2> HIDE DEF env
  <2> QED
    BY <2>1, EnvironmentReasons
<1>5. /\ c7 \in {"artifact_limit", "artifact_type", "artifact_invalid", "none"}
      /\ c7 = "none" => artifacts.kind = "array" /\ Len(artifacts.items) <= MaxDeclared
      /\ /\ artifacts.kind = "array" /\ Len(artifacts.items) <= MaxDeclared
         /\ \A k \in DOMAIN artifacts.items : artifacts.items[k].kind = "object"
         => c7 \in {"artifact_invalid", "none"}
  <2>1. artifacts.kind = "array" => DOMAIN artifacts.items \subseteq Nat
    <3>1. artifacts.kind = "array" => Len(artifacts.items) \in Nat /\ DOMAIN artifacts.items = 1 .. Len(artifacts.items)
      BY ListsAreLists
    <3> QED
      BY <3>1
  <2> HIDE DEF artifacts
  <2> QED
    BY <2>1, DeclarationReasons
<1> DEFINE c4 == EnvironmentFault(env)
<1> HIDE DEF c1, c2, c3, c4, c5, c6, c7, c8, c9
<1>6. DOMAIN checks = 1 .. 9 /\ checks[1] = c1 /\ checks[2] = c2 /\ checks[3] = c8 /\ checks[4] = c3
      /\ checks[5] = c4 /\ checks[6] = c5 /\ checks[7] = c6 /\ checks[8] = c7 /\ checks[9] = c9
  BY DEF c4
<1>7. c4 \in {"environment_type", "environment_invalid", "none"}
      /\ (env.kind = "array" /\ (\A k \in DOMAIN env.items : env.items[k].kind = "object")
           => c4 \in {"environment_invalid", "none"})
  BY <1>4 DEF c4
<1> HIDE DEF checks
<1>8. \A k \in DOMAIN checks : checks[k] \in HandlerReasons \cup {"none"}
  BY <1>2, <1>3, <1>5, <1>6, <1>7, <1>15 DEF HandlerReasons
<1>9. FirstFault(checks) \in HandlerReasons \cup {"none"}
  BY <1>6, <1>8, ReasonsOf
<1>10. FirstFault(checks) = "none" => c7 = "none"
  BY <1>6, ReasonIsAnEntry
<1>11. ASSUME timeout.n \in 1 .. MaxTimeout,
              env.kind = "array", \A k \in DOMAIN env.items : env.items[k].kind = "object",
              artifacts.kind = "array", Len(artifacts.items) <= MaxDeclared,
              \A k \in DOMAIN artifacts.items : artifacts.items[k].kind = "object"
       PROVE  FirstFault(checks) \notin TypeReasons
  <2> DEFINE S == HandlerReasons \ TypeReasons
  <2>1. c2 = "none" /\ c4 \in {"environment_invalid", "none"} /\ c7 \in {"artifact_invalid", "none"}
    BY <1>11, <1>2, <1>5, <1>7
  <2>2. \A k \in DOMAIN checks : checks[k] \in S \cup {"none"}
    <3>1. c1 \notin TypeReasons /\ c2 \notin TypeReasons /\ c3 \notin TypeReasons /\ c4 \notin TypeReasons
      BY <2>1, <1>2 DEF TypeReasons
    <3>2. c5 \notin TypeReasons /\ c6 \notin TypeReasons /\ c7 \notin TypeReasons
      BY <2>1, <1>3, <1>15 DEF TypeReasons
    <3>4. c8 \notin TypeReasons /\ c9 \notin TypeReasons
      BY <1>2 DEF TypeReasons
    <3>3. \A k \in DOMAIN checks : checks[k] \notin TypeReasons
      BY <3>1, <3>2, <3>4, <1>6
    <3> QED
      BY <3>3, <1>8
  <2>3. DOMAIN checks \subseteq Nat
    BY <1>6
  <2> HIDE DEF S
  <2>4. FirstFault(checks) \in S \cup {"none"}
    BY <2>2, <2>3, ReasonsOf
  <2> QED
    BY <2>4 DEF S, TypeReasons
<1>12. "argument_type" \in HandlerReasons /\ "argument_type" # "none"
  BY DEF HandlerReasons
<1>13. HandlerFault(f) \in HandlerReasons \cup {"none"}
  BY <1>1, <1>9, <1>12
<1>14. HandlerFault(f) = "none" => artifacts.kind = "array" /\ Len(artifacts.items) <= MaxDeclared
  BY <1>1, <1>5, <1>10, <1>12
<1> QED
  BY <1>1, <1>11, <1>13, <1>14

\* A value that a string schema accepts is a string.
LEMMA TextAccepts ==
  ASSUME NEW low, NEW high, NEW value, NEW below, NodeFaults(Text(low, high), value, below) = {}
  PROVE  value.kind = "string"
<1> DEFINE schema == Text(low, high)
<1>1. "type" \in DOMAIN schema /\ schema.type = "string"
  BY DEF Text
<1>2. Complete(schema)
  BY <1>1 DEF Complete, Scalar
<1> HIDE DEF schema
<1>3. NodeFaults(schema, value, below) = {ScalarFault(schema, value)} \ {"none"}
  BY <1>1, <1>2 DEF NodeFaults
<1>4. ScalarFault(schema, value) = "none"
  BY <1>3 DEF schema
<1>5. value.kind \in Kinds[schema.type]
  BY <1>4 DEF ScalarFault
<1> QED
  BY <1>1, <1>5 DEF Kinds

\* A value that an integer schema accepts is an integer within its bounds.
LEMMA NumberAccepts ==
  ASSUME NEW high \in Int, NEW value, NEW below,
         NodeFaults([type |-> "integer", minimum |-> 1, maximum |-> high], value, below) = {}
  PROVE  value.kind = "integer" /\ 1 <= value.n /\ value.n <= high
<1> DEFINE schema == [type |-> "integer", minimum |-> 1, maximum |-> high]
           n == value.n
           low == Check(Get(schema, "minimum", None) = None \/ schema["minimum"] <= n, "minimum_invalid")
           top == Check(Get(schema, "maximum", None) = None \/ n <= schema["maximum"], "maximum_invalid")
           range == <<low, top>>
           a == Check(Get(schema, "enum", None) = None \/ \E v \in schema.enum : Same(v, value), "enum_invalid")
           b == Check(value.kind = "string" =>
                        n \in Get(schema, "minLength", 0) .. Get(schema, "maxLength", DefaultMaxLength),
                      "length_invalid")
           c == IF value.kind \in {"string", "boolean"} THEN "none"
                ELSE Within(schema, "minimum", "maximum", n)
           checks == <<a, b, c>>
<1>1. "type" \in DOMAIN schema /\ schema.type = "integer"
  OBVIOUS
<1>2. Get(schema, "minimum", None) = 1 /\ Get(schema, "maximum", None) = high
      /\ schema["minimum"] = 1 /\ schema["maximum"] = high
  BY DEF Get
<1>3. Complete(schema)
  BY <1>1 DEF Complete, Scalar
<1> HIDE DEF schema
<1>4. ScalarFault(schema, value) = "none"
  <2>1. NodeFaults(schema, value, below) = {ScalarFault(schema, value)} \ {"none"}
    BY <1>1, <1>3 DEF NodeFaults
  <2> QED
    BY <2>1 DEF schema
<1>5. value.kind \in Kinds[schema.type] /\ FirstFault(checks) = "none"
  BY <1>4 DEF ScalarFault
<1>6. value.kind = "integer"
  BY <1>1, <1>5 DEF Kinds
<1>7. c = "none"
  <2>1. DOMAIN checks = 1 .. 3 /\ checks[3] = c
    OBVIOUS
  <2> HIDE DEF checks, a, b, c
  <2> QED
    BY <2>1, <1>5, ReasonIsAnEntry
<1>8. FirstFault(range) = "none"
  BY <1>6, <1>7 DEF Within
<1>9. low = "none" /\ top = "none"
  <2>1. DOMAIN range = 1 .. 2 /\ range[1] = low /\ range[2] = top
    OBVIOUS
  <2> HIDE DEF range, low, top
  <2> QED
    BY <2>1, <1>8, ReasonIsAnEntry
<1>10. 1 <= n /\ n <= high
  BY <1>2, <1>9, NoneAssumption DEF Check
<1> QED
  BY <1>6, <1>10

\* A value that an array schema accepts is a list of no more items than it allows, all of them accepted.
LEMMA ListAccepts ==
  ASSUME NEW schema, NEW high \in Nat, NEW value, NEW below,
         value.kind = "array" => Len(value.items) \in Nat /\ DOMAIN value.items = 1 .. Len(value.items),
         NodeFaults(ListOf(schema, high), value, below) = {}
  PROVE  /\ value.kind = "array" /\ Len(value.items) <= high
         /\ \A k \in DOMAIN value.items : below[k] = {}
<1> DEFINE list == ListOf(schema, high)
           bad == {k \in DOMAIN value.items : below[k] # {}}
<1>1. "type" \in DOMAIN list /\ list.type = "array" /\ list.maxItems = high /\ Get(list, "minItems", 0) = 0
      /\ {"items", "maxItems"} \subseteq DOMAIN list
  BY DEF ListOf, Get
<1>2. Complete(list)
  BY <1>1 DEF Complete
<1> HIDE DEF list
<1>3. value.kind = "array"
  BY <1>1, <1>2 DEF NodeFaults, list
<1>4. Len(value.items) \in 0 .. high
  BY <1>1, <1>2, <1>3 DEF NodeFaults, list
<1>5. UNION {below[k] : k \in {first \in bad : \A j \in bad : first <= j}} = {}
  BY <1>1, <1>2, <1>3, <1>4 DEF NodeFaults, list
<1>6. bad = {}
  <2>1. bad \subseteq Nat
    BY <1>3
  <2>2. ASSUME NEW first \in bad, \A j \in bad : first <= j
        PROVE  FALSE
    BY <2>2, <1>5
  <2> HIDE DEF bad
  <2> QED
    BY <2>1, <2>2, LeastExists
<1> QED
  BY <1>3, <1>4, <1>6

\* A value that a closed object schema accepts is an object with the required fields and no other than its properties.
LEMMA ObjectAccepts ==
  ASSUME NEW properties, NEW required, NEW value, NEW below,
         NodeFaults(Closed(properties, required), value, below) = {}
  PROVE  /\ value.kind = "object"
         /\ required \subseteq DOMAIN value.fields /\ DOMAIN value.fields \subseteq DOMAIN properties
         /\ \A f \in DOMAIN value.fields : below[f] = {}
<1> DEFINE schema == Closed(properties, required)
<1>1. "type" \in DOMAIN schema /\ schema.type = "object" /\ schema.properties = properties
      /\ Get(schema, "required", {}) = required
  BY DEF Closed, Get
<1> HIDE DEF schema
<1>2. NodeFaults(schema, value, below) = {}
  BY DEF schema
<1>3. Complete(schema) /\ value.kind = "object"
  BY <1>1, <1>2 DEF NodeFaults
<1>4. required \subseteq DOMAIN value.fields /\ DOMAIN value.fields \subseteq DOMAIN properties
  BY <1>1, <1>2, <1>3 DEF NodeFaults
<1>5. UNION {below[f] : f \in DOMAIN value.fields} = {}
  BY <1>1, <1>2, <1>3, <1>4 DEF NodeFaults
<1> QED
  BY <1>3, <1>4, <1>5

\* TextAccepts at the two levels where process.execute has strings.
LEMMA TextPasses ==
  ASSUME NEW low, NEW high, NEW value
  PROVE  /\ Faults1(Text(low, high), value) = {} => value.kind = "string"
         /\ Faults2(Text(low, high), value) = {} => value.kind = "string"
BY TextAccepts DEF Faults1, Faults2

\* ObjectAccepts at the level of the items of env and artifacts.
LEMMA ObjectPasses ==
  ASSUME NEW properties, NEW required, NEW value, Faults2(Closed(properties, required), value) = {}
  PROVE  value.kind = "object"
<1> DEFINE below == [p \in DOMAIN Content(value) |->
                       Faults3(PartSchema(Closed(properties, required), p), Content(value)[p])]
<1>1. NodeFaults(Closed(properties, required), value, below) = {}
  BY DEF Faults2
<1> HIDE DEF below
<1> QED
  BY <1>1, ObjectAccepts

\* NumberAccepts at the level of the properties.
LEMMA NumberPasses ==
  ASSUME NEW high \in Int, NEW value,
         Faults1([type |-> "integer", minimum |-> 1, maximum |-> high], value) = {}
  PROVE  value.kind = "integer" /\ 1 <= value.n /\ value.n <= high
<1> DEFINE schema == [type |-> "integer", minimum |-> 1, maximum |-> high]
           below == [p \in DOMAIN Content(value) |-> Faults2(PartSchema(schema, p), Content(value)[p])]
<1>1. NodeFaults(schema, value, below) = {}
  BY DEF Faults1
<1> HIDE DEF below
<1> QED
  BY <1>1, NumberAccepts

\* ListAccepts at the level of the properties.
LEMMA ListPasses ==
  ASSUME NEW schema, NEW high \in Nat, NEW value,
         value.kind = "array" => Len(value.items) \in Nat /\ DOMAIN value.items = 1 .. Len(value.items),
         Faults1(ListOf(schema, high), value) = {}
  PROVE  /\ value.kind = "array" /\ Len(value.items) <= high
         /\ \A k \in DOMAIN value.items : Faults2(schema, value.items[k]) = {}
<1> DEFINE below == [p \in DOMAIN Content(value) |->
                       Faults2(PartSchema(ListOf(schema, high), p), Content(value)[p])]
<1>1. NodeFaults(ListOf(schema, high), value, below) = {}
  BY DEF Faults1
<1>2. \A k : PartSchema(ListOf(schema, high), k) = schema
  BY DEF PartSchema, ListOf
<1>3. value.kind = "array" => Content(value) = value.items
  BY DEF Content
<1>4. value.kind = "array" => \A k \in DOMAIN value.items : below[k] = Faults2(schema, value.items[k])
  BY <1>2, <1>3
<1> HIDE DEF below
<1>5. /\ value.kind = "array" /\ Len(value.items) <= high
      /\ \A k \in DOMAIN value.items : below[k] = {}
  BY <1>1, ListAccepts
<1> QED
  BY <1>4, <1>5

\* The arguments that pass the schema of process.execute, field by field.
LEMMA FieldsPass ==
  ASSUME NEW request \in Request, ArgumentFaults(ProcessSchema, request.arguments) = {}
  PROVE  LET f == request.arguments.fields
         IN /\ "command" \in DOMAIN f
            /\ \A p \in DOMAIN f : /\ p \in DOMAIN ProcessSchema.properties
                                   /\ Faults1(ProcessSchema.properties[p], f[p]) = {}
<1> DEFINE a == request.arguments
           f == a.fields
           below == [p \in DOMAIN Content(a) |-> Faults1(PartSchema(ProcessSchema, p), Content(a)[p])]
<1>1. a.kind = "object" /\ Content(a) = f
  BY RequestAssumption DEF Content
<1>2. NodeFaults(ProcessSchema, a, below) = {}
  BY DEF ArgumentFaults, Faults
<1>3. ProcessSchema = Closed(ProcessSchema.properties, {"command"}) /\ ProcessSchema.type = "object"
  BY DEF ProcessSchema, Closed
<1>4. \A p \in DOMAIN f : below[p] = Faults1(ProcessSchema.properties[p], f[p])
  BY <1>1, <1>3 DEF PartSchema
<1> HIDE DEF below
<1>5. /\ {"command"} \subseteq DOMAIN f /\ DOMAIN f \subseteq DOMAIN ProcessSchema.properties
      /\ \A p \in DOMAIN f : below[p] = {}
  BY <1>2, <1>3, ObjectAccepts
<1> QED
  BY <1>4, <1>5

\* So the handler has no argument of the wrong type or out of bounds to refuse.
LEMMA SchemaCovers ==
  ASSUME NEW request \in Request, ArgumentFaults(ProcessSchema, request.arguments) = {}
  PROVE  HandlerFault(request.arguments.fields) \notin TypeReasons
<1> DEFINE f == request.arguments.fields
           properties == ProcessSchema.properties
<1>1. /\ properties.command = Text(1, 4096) /\ properties.cwd = Text(1, 4096)
      /\ properties.stdin = Text(0, MaxStdin)
      /\ properties.args = ListOf(Text(0, 16384), MaxArguments)
      /\ properties.timeout = [type |-> "integer", minimum |-> 1, maximum |-> MaxTimeout]
      /\ properties.env = ListOf(Closed([name |-> Text(1, 128), value |-> Text(0, 4096)],
                                        {"name", "value"}), 64)
      /\ properties.artifacts = ListOf(Closed([path |-> Text(1, 4096), media_type |-> Text(3, 128)],
                                              {"path"}), MaxDeclared)
  BY DEF ProcessSchema, Closed
<1>2. "command" \in DOMAIN f /\ \A p \in DOMAIN f : Faults1(properties[p], f[p]) = {}
  BY FieldsPass
<1>3. /\ MaxArguments \in Nat /\ MaxDeclared \in Nat /\ MaxTimeout \in Nat
      /\ DefaultTimeout \in 1 .. MaxTimeout
  BY ProcessAssumption
<1>4. \A p \in DOMAIN f :
        /\ f[p].kind = "array" => Len(f[p].items) \in Nat /\ DOMAIN f[p].items = 1 .. Len(f[p].items)
        /\ f[p].kind = "integer" => f[p].n \in Int
  BY RequestAssumption
<1> HIDE DEF f, properties
<1>5. \A p : /\ p \in DOMAIN f => Argument(f, p) = f[p]
             /\ p \notin DOMAIN f => Argument(f, p) = Defaults[p]
  BY DEF Argument, Get
<1>6. /\ Defaults["args"] = List(<<>>) /\ Defaults["env"] = List(<<>>) /\ Defaults["artifacts"] = List(<<>>)
      /\ Defaults["cwd"] = Str(1, "plain") /\ Defaults["stdin"] = Nothing
      /\ Defaults["timeout"] = Num(DefaultTimeout)
  BY DEF Defaults
<1>7. List(<<>>).kind = "array" /\ Len(List(<<>>).items) = 0 /\ DOMAIN List(<<>>).items = {}
  BY DEF List
<1>8. IsText(Argument(f, "command"))
  BY <1>1, <1>2, <1>5, TextPasses DEF IsText
<1>9. IsText(Argument(f, "cwd"))
  <2>1. CASE "cwd" \in DOMAIN f
    BY <2>1, <1>1, <1>2, <1>5, TextPasses DEF IsText
  <2>2. CASE "cwd" \notin DOMAIN f
    BY <2>2, <1>5, <1>6 DEF IsText, Str
  <2> QED
    BY <2>1, <2>2
<1>10. Argument(f, "stdin").kind \in {"none", "string"}
  <2>1. CASE "stdin" \in DOMAIN f
    BY <2>1, <1>1, <1>2, <1>5, TextPasses
  <2>2. CASE "stdin" \notin DOMAIN f
    BY <2>2, <1>5, <1>6 DEF Nothing
  <2> QED
    BY <2>1, <2>2
<1>11. Argument(f, "timeout").kind = "integer" /\ Argument(f, "timeout").n \in 1 .. MaxTimeout
  <2>1. CASE "timeout" \in DOMAIN f
    <3>1. Faults1([type |-> "integer", minimum |-> 1, maximum |-> MaxTimeout], f["timeout"]) = {}
      BY <2>1, <1>1, <1>2
    <3>2. f["timeout"].kind = "integer" /\ 1 <= f["timeout"].n /\ f["timeout"].n <= MaxTimeout
      BY <3>1, <1>3, NumberPasses
    <3> QED
      BY <2>1, <3>2, <1>3, <1>4, <1>5
  <2>2. CASE "timeout" \notin DOMAIN f
    BY <2>2, <1>3, <1>5, <1>6 DEF Num
  <2> QED
    BY <2>1, <2>2
<1>12. /\ Argument(f, "args").kind = "array"
       /\ \A k \in DOMAIN Argument(f, "args").items : IsText(Argument(f, "args").items[k])
  <2>1. CASE "args" \in DOMAIN f
    <3> DEFINE item == Text(0, 16384)
    <3>1. Faults1(ListOf(item, MaxArguments), f["args"]) = {}
      BY <2>1, <1>1, <1>2
    <3>2. \A v : Faults2(item, v) = {} => v.kind = "string"
      BY TextPasses
    <3> HIDE DEF item
    <3>3. /\ f["args"].kind = "array"
          /\ \A k \in DOMAIN f["args"].items : Faults2(item, f["args"].items[k]) = {}
      BY <3>1, <2>1, <1>3, <1>4, ListPasses
    <3> QED
      BY <2>1, <3>2, <3>3, <1>5 DEF IsText
  <2>2. CASE "args" \notin DOMAIN f
    BY <2>2, <1>5, <1>6, <1>7
  <2> QED
    BY <2>1, <2>2
<1>13. /\ Argument(f, "env").kind = "array"
       /\ \A k \in DOMAIN Argument(f, "env").items : Argument(f, "env").items[k].kind = "object"
  <2>1. CASE "env" \in DOMAIN f
    <3> DEFINE item == Closed([name |-> Text(1, 128), value |-> Text(0, 4096)], {"name", "value"})
    <3>1. Faults1(ListOf(item, 64), f["env"]) = {}
      BY <2>1, <1>1, <1>2
    <3>2. \A v : Faults2(item, v) = {} => v.kind = "object"
      BY ObjectPasses
    <3> HIDE DEF item
    <3>3. /\ f["env"].kind = "array"
          /\ \A k \in DOMAIN f["env"].items : Faults2(item, f["env"].items[k]) = {}
      BY <3>1, <2>1, <1>4, ListPasses
    <3> QED
      BY <2>1, <3>2, <3>3, <1>5
  <2>2. CASE "env" \notin DOMAIN f
    BY <2>2, <1>5, <1>6, <1>7
  <2> QED
    BY <2>1, <2>2
<1>14. /\ Argument(f, "artifacts").kind = "array" /\ Len(Argument(f, "artifacts").items) <= MaxDeclared
       /\ \A k \in DOMAIN Argument(f, "artifacts").items : Argument(f, "artifacts").items[k].kind = "object"
  <2>1. CASE "artifacts" \in DOMAIN f
    <3> DEFINE item == Closed([path |-> Text(1, 4096), media_type |-> Text(3, 128)], {"path"})
    <3>1. Faults1(ListOf(item, MaxDeclared), f["artifacts"]) = {}
      BY <2>1, <1>1, <1>2
    <3>2. \A v : Faults2(item, v) = {} => v.kind = "object"
      BY ObjectPasses
    <3> HIDE DEF item
    <3>3. /\ f["artifacts"].kind = "array" /\ Len(f["artifacts"].items) <= MaxDeclared
          /\ \A k \in DOMAIN f["artifacts"].items : Faults2(item, f["artifacts"].items[k]) = {}
      BY <3>1, <2>1, <1>3, <1>4, ListPasses
    <3> QED
      BY <2>1, <3>2, <3>3, <1>5
  <2>2. CASE "artifacts" \notin DOMAIN f
    BY <2>2, <1>3, <1>5, <1>6, <1>7
  <2> QED
    BY <2>1, <2>2
<1>15. Typed(f)
  BY <1>8, <1>9, <1>10, <1>11, <1>12 DEF Typed
<1>16. HandlerFault(f) \notin TypeReasons
  BY <1>11, <1>13, <1>14, <1>15, HandlerSpeaks DEF f
<1> QED
  BY <1>16 DEF f

\* The largest observation within the limits of the streams and of the Artifacts
\* is one that CapabilityResult accepts.
StreamsFit == 12 * StreamLimit + 256 + 400 * MaxDeclared <= MaxObservation

\* A first check that fails is what FirstFault returns, whatever the others say.
LEMMA FirstIsFirst ==
  ASSUME NEW faults, 1 \in DOMAIN faults, DOMAIN faults \subseteq Nat \ {0}, faults[1] # "none"
  PROVE  FirstFault(faults) = faults[1]
<1> DEFINE found == {k \in DOMAIN faults : faults[k] # "none"}
           first == CHOOSE k \in found : \A j \in found : k <= j
<1>1. 1 \in found /\ \A j \in found : 1 <= j
  OBVIOUS
<1>2. FirstFault(faults) = faults[first]
  BY <1>1 DEF FirstFault
<1>3. first \in found /\ \A j \in found : first <= j
  BY <1>1
<1>4. first \in Nat \ {0} /\ first <= 1
  BY <1>1, <1>3
<1>5. first = 1
  BY <1>4
<1> QED
  BY <1>2, <1>5

\* The checks after a process has ended say "cancelled" exactly when the mark was set.
LEMMA VerdictSpeaks ==
  ASSUME NEW stopped \in BOOLEAN, NEW output
  PROVE  /\ Verdict(stopped, output)
              \in {"cancelled", "output_limit", "sensitive_output", "nonzero_exit", "none"}
         /\ Verdict(stopped, output) = "cancelled" <=> stopped
<1> DEFINE checks == <<Check(~stopped, "cancelled"), Check(~output.exceeded, "output_limit"),
                       Check(~output.protected, "sensitive_output"), Check(output.exit = 0, "nonzero_exit")>>
<1>1. \A p, q : Check(p, q) \in {q, "none"}
  BY DEF Check
<1>2. /\ DOMAIN checks = 1 .. 4
      /\ checks[2] \in {"output_limit", "none"} /\ checks[3] \in {"sensitive_output", "none"}
      /\ checks[4] \in {"nonzero_exit", "none"}
  BY <1>1
<1>3. (stopped => checks[1] = "cancelled") /\ (~stopped => checks[1] = "none")
  BY DEF Check
<1>4. Verdict(stopped, output) = FirstFault(checks)
  BY DEF Verdict
<1> HIDE DEF checks
<1>5. CASE stopped
  <2>1. FirstFault(checks) = checks[1]
    BY <1>2, <1>3, <1>5, FirstIsFirst
  <2> QED
    BY <2>1, <1>3, <1>4, <1>5
<1>6. CASE ~stopped
  <2>1. DOMAIN checks \subseteq Nat /\ \A k \in DOMAIN checks :
          checks[k] \in {"output_limit", "sensitive_output", "nonzero_exit"} \cup {"none"}
    BY <1>2, <1>3, <1>6
  <2>2. FirstFault(checks) \in {"output_limit", "sensitive_output", "nonzero_exit"} \cup {"none"}
    BY <2>1, ReasonsOf
  <2> QED
    BY <2>2, <1>4, <1>6
<1> QED
  BY <1>5, <1>6

\* Artifact collection keeps every declared snapshot or removes what it took, unless the removal fails.
LEMMA CollectionSpeaks ==
  ASSUME NEW declared, NEW c \in Collections(declared)
  PROVE  IF c.ok THEN c.kept = DOMAIN declared ELSE c.kept = {} \/ c.stuck
<1> DEFINE undone == [ok |-> FALSE, kept |-> {}, stuck |-> FALSE]
           whole == [ok |-> TRUE, kept |-> DOMAIN declared, stuck |-> FALSE]
           left(n, unlinked, deleted) == (deleted + 1 .. n - 1) \cup (IF unlinked THEN {} ELSE {n})
           back(n, unlinked, deleted) ==
             [ok |-> FALSE, kept |-> left(n, unlinked, deleted), stuck |-> left(n, unlinked, deleted) # {}]
<1>1. \/ c = undone \/ c = whole
      \/ \E n \in DOMAIN declared : \E u \in BOOLEAN, d \in 0 .. n - 1 : c = back(n, u, d)
  BY DEF Collections
<1> HIDE DEF left
<1>2. CASE c = undone
  BY <1>2
<1>3. CASE c = whole
  BY <1>3
<1>4. CASE \E n \in DOMAIN declared : \E u \in BOOLEAN, d \in 0 .. n - 1 : c = back(n, u, d)
  <2>1. PICK n, u, d : c = back(n, u, d)
    BY <1>4
  <2>2. c.ok = FALSE /\ c.kept = left(n, u, d) /\ c.stuck = (left(n, u, d) # {})
    BY <2>1
  <2>3. c.kept = {} \/ c.stuck
    BY <2>2, Zenon
  <2> QED
    BY <2>2, <2>3
<1> QED
  BY <1>1, <1>2, <1>3, <1>4

\* Every output that the stream limits let through makes an observation that CapabilityResult accepts.
LEMMA StreamsFitObservation ==
  ASSUME StreamsFit, NEW output \in Outputs, NEW n \in 0 .. MaxDeclared
  PROVE  Fits(output, n)
<1>1. MaxDeclared \in Nat /\ StreamLimit \in Nat
  BY ProcessAssumption
<1>2. output.stdout.n \in 0 .. StreamLimit /\ output.stderr.n \in 0 .. StreamLimit
  BY OutputsAssumption
<1>3. Escaped(output.stdout) \in Int /\ Escaped(output.stdout) <= 6 * StreamLimit
  <2>1. output.stdout.n \in Nat /\ output.stdout.n <= StreamLimit
    BY <1>1, <1>2
  <2>2. \A chars \in Nat : chars <= StreamLimit => 6 * chars <= 6 * StreamLimit /\ chars <= 6 * StreamLimit
    BY <1>1
  <2> QED
    BY <2>1, <2>2 DEF Escaped
<1>4. Escaped(output.stderr) \in Int /\ Escaped(output.stderr) <= 6 * StreamLimit
  <2>1. output.stderr.n \in Nat /\ output.stderr.n <= StreamLimit
    BY <1>1, <1>2
  <2>2. \A chars \in Nat : chars <= StreamLimit => 6 * chars <= 6 * StreamLimit /\ chars <= 6 * StreamLimit
    BY <1>1
  <2> QED
    BY <2>1, <2>2 DEF Escaped
<1>5. 12 * StreamLimit + 256 + 400 * MaxDeclared <= MaxObservation /\ MaxObservation \in Int
  BY DEF StreamsFit, MaxObservation
<1>6. 400 * n <= 400 * MaxDeclared
  BY <1>1
<1> HIDE DEF MaxObservation
<1> QED
  BY <1>1, <1>3, <1>4, <1>5, <1>6 DEF Fits

\* How a call with a process may end.
LEMMA ResultSpeaks ==
  ASSUME NEW stopped \in BOOLEAN, NEW output \in Outputs, NEW declared, NEW command,
         Len(declared) \in 0 .. MaxDeclared, NEW result \in Results(stopped, output, declared, command)
  PROVE  /\ result.end \notin TypeReasons \cup {"schema_error"}
         /\ result.end = "cancelled" => stopped
         /\ StreamsFit /\ command # "odd" =>
              /\ result.end = "cancelled" <=> stopped
              /\ IF result.end = "completed" THEN result.kept = DOMAIN declared
                 ELSE result.kept = {} \/ result.stuck
<1> DEFINE verdict == Verdict(stopped, output)
           End(reason) == IF \/ reason = "sensitive_output"
                             \/ Fits(output, IF reason = "completed" THEN Len(declared) ELSE 0)
                            THEN Reported(command, reason) ELSE "execution_failed"
<1>1. /\ verdict \in {"cancelled", "output_limit", "sensitive_output", "nonzero_exit", "none"}
      /\ verdict = "cancelled" <=> stopped
  BY VerdictSpeaks
<1>2. StreamsFit /\ command # "odd" => \A reason : End(reason) = reason
  <2>1. MaxDeclared \in Nat
    BY ProcessAssumption
  <2> QED
    BY <2>1, StreamsFitObservation DEF Reported
<1>3. \A reason : End(reason) \in {reason, "execution_failed"}
  BY DEF Reported
<1>4. CASE verdict # "none"
  <2>1. result = [end |-> End(verdict), kept |-> {}, stuck |-> FALSE]
    BY <1>4 DEF Results
  <2> HIDE DEF End, verdict
  <2> QED
    BY <2>1, <1>1, <1>2, <1>3, <1>4 DEF TypeReasons
<1>5. CASE verdict = "none"
  <2>1. PICK c \in Collections(declared) :
          result = [end |-> End(IF c.ok THEN "completed" ELSE "artifact_collection_failed"),
                    kept |-> c.kept, stuck |-> c.stuck]
    BY <1>5 DEF Results
  <2>2. IF c.ok THEN c.kept = DOMAIN declared ELSE c.kept = {} \/ c.stuck
    BY CollectionSpeaks
  <2> HIDE DEF End, verdict
  <2> QED
    BY <2>1, <2>2, <1>1, <1>2, <1>3, <1>5 DEF TypeReasons
<1> QED
  BY <1>4, <1>5

\* Arguments that the handler accepts declare at most MaxDeclared Artifacts.
LEMMA DeclaredIsBounded ==
  ASSUME NEW request \in Request, HandlerFault(request.arguments.fields) = "none"
  PROVE  Len(Declared(request.arguments.fields)) \in 0 .. MaxDeclared
<1> DEFINE f == request.arguments.fields
           items == Argument(f, "artifacts").items
           n == Len(items)
           path == [k \in 1 .. n |-> items[k].fields.path.is]
<1>1. Argument(f, "artifacts").kind = "array" /\ n <= MaxDeclared
  BY HandlerSpeaks
<1>2. n \in Nat /\ DOMAIN items = 1 .. n
  BY <1>1, ListsAreLists
<1>3. Declared(f) = path
  BY <1>2 DEF Declared
<1> HIDE DEF items, n
<1>4. Len(path) = n
  <2>1. path \in Seq({path[k] : k \in 1 .. n})
    BY <1>2, SeqDef
  <2> QED
    BY <2>1, <1>2, LenProperties
<1> QED
  BY <1>1, <1>2, <1>3, <1>4, ProcessAssumption

Own(c) == call[c].context.id

Forms ==
  /\ DOMAIN call = Caller /\ DOMAIN active = Identity
  /\ \A c \in Caller :
       /\ DOMAIN call[c] = DOMAIN NoCall
       /\ call[c].at \in {"idle", "spawn", "running", "over"} /\ call[c].accepted \in BOOLEAN

\* What the Registry was built from has passed validate_input_schema.
HandlersInv ==
  handlers # None =>
    \A name \in DOMAIN handlers :
      /\ WellFormed(handlers[name].schema)
      /\ name = "process.execute" => handlers[name].schema = ProcessSchema

\* A call inside a handler is the active one of its identity, and an active
\* identity has such a call.
Entered ==
  /\ \A c \in Caller :
       IF Inside(c) THEN call[c].context \in Context /\ active[Own(c)] = call[c].context
       ELSE call[c].context = None
  /\ \A c, d \in Caller : Inside(c) /\ Inside(d) /\ c # d => Own(c) # Own(d)
  /\ \A id \in Identity : active[id] # None => \E c \in Caller : Inside(c) /\ Own(c) = id

\* The processes are those of the running calls, the marks of cancellation those
\* of the running calls that a cancel was accepted for.
Marked ==
  /\ processes = {Own(c) : c \in {d \in Caller : call[d].at = "running"}}
  /\ cancelled = {Own(c) : c \in {d \in Caller : call[d].at = "running" /\ call[d].accepted}}
  /\ \A c \in Caller : call[c].at \in {"idle", "spawn"} => ~call[c].accepted

\* The handler declares at most as many Artifacts as the schema allows.
Bounded == \A c \in Caller : Inside(c) => Len(call[c].declared) \in 0 .. MaxDeclared

Told == StreamsFit => CancelIsForItsCall /\ ReportedOrRemoved

RegistryInv ==
  /\ Forms /\ HandlersInv /\ Entered /\ Marked /\ Bounded
  /\ SchemaSpeaksForHandler /\ Told

\* What a refusal or a handler that does not await may end with.
LEMMA EndsAtOnce ==
  ASSUME HandlersInv, handlers # None, NEW request \in Request, NEW id
  PROVE  /\ \A reason \in Refusals(request, id) :
              reason \notin TypeReasons \cup {"schema_error", "cancelled"}
         /\ Refusals(request, id) = {} =>
              /\ active[id] = None
              /\ \A end \in AtOnce(request) : end \notin TypeReasons \cup {"schema_error", "cancelled"}
<1> DEFINE name == request.name
           schema == handlers[name].schema
           faults == ArgumentFaults(schema, request.arguments)
           fault == HandlerFault(request.arguments.fields)
<1>1. name \in DOMAIN handlers => WellFormed(schema) /\ (name = "process.execute" => schema = ProcessSchema)
  BY DEF HandlersInv
<1>2. name \in DOMAIN handlers => faults \subseteq ArgumentReasons
  BY <1>1, WalkSpeaks
<1>3. Refusals(request, id) = {} => name \in DOMAIN handlers /\ faults = {} /\ active[id] = None
  BY DEF Refusals
<1>4. Refusals(request, id) \subseteq faults \cup {"unknown", "unavailable", "identity_active"}
      /\ (name \notin DOMAIN handlers => Refusals(request, id) = {"unknown"})
  BY DEF Refusals
<1>5. \A reason \in ArgumentReasons \cup {"unknown", "unavailable", "identity_active"} :
        reason \notin TypeReasons \cup {"schema_error", "cancelled"}
  BY DEF ArgumentReasons, TypeReasons
<1>6. fault \in HandlerReasons \cup {"none"}
  BY HandlerSpeaks
<1>7. name = "process.execute" /\ faults = {} /\ schema = ProcessSchema => fault \notin TypeReasons
  BY SchemaCovers
<1>8. name = "process.execute" =>
        \/ AtOnce(request) = {"timed_out"} \/ AtOnce(request) = {"execution_failed"}
        \/ AtOnce(request) = {fault} /\ fault # "none"
  BY DEF AtOnce, Awaits, Reported
<1> HIDE DEF faults, schema, fault
<1>9. \A reason \in Refusals(request, id) : reason \notin TypeReasons \cup {"schema_error", "cancelled"}
  <2>1. CASE name \in DOMAIN handlers
    BY <2>1, <1>2, <1>4, <1>5
  <2>2. CASE name \notin DOMAIN handlers
    BY <2>2, <1>4, <1>5
  <2> QED
    BY <2>1, <2>2
<1>10. name # "process.execute" =>
         AtOnce(request) \in {{"execution_failed"}, {"completed"}, {"completed", "handler_error", "execution_failed"}}
  BY DEF AtOnce
<1>11. CASE name = "process.execute" /\ Refusals(request, id) = {}
  <2>1. fault \notin TypeReasons
    BY <1>1, <1>3, <1>7, <1>11
  <2>2. fault \notin {"schema_error", "cancelled"}
    BY <1>6 DEF HandlerReasons
  <2>3. \A end \in AtOnce(request) : end \notin TypeReasons \cup {"schema_error", "cancelled"}
    BY <2>1, <2>2, <1>8, <1>11 DEF TypeReasons
  <2> QED
    BY <2>3, <1>3, <1>9, <1>11
<1>12. CASE name # "process.execute" /\ Refusals(request, id) = {}
  <2>1. \A end \in AtOnce(request) : end \in {"completed", "handler_error", "execution_failed"}
    BY <1>10, <1>12
  <2> QED
    BY <2>1, <1>3, <1>9, <1>12 DEF TypeReasons
<1> QED
  BY <1>9, <1>11, <1>12

\* Before a Registry is built no table has an entry.
LEMMA InitRegistry == Init => RegistryInv
<1> SUFFICES ASSUME Init PROVE RegistryInv
  OBVIOUS
<1>1. \A c \in Caller : call[c] = NoCall
  BY DEF Init
<1>2. /\ NoCall.at = "idle" /\ NoCall.context = None /\ NoCall.end = "none" /\ NoCall.accepted = FALSE
  BY DEF NoCall
<1>3. Forms
  BY <1>1, <1>2 DEF Init, Forms
<1>4. HandlersInv
  BY DEF Init, HandlersInv
<1>5. Entered /\ Bounded
  BY <1>1, <1>2 DEF Init, Entered, Bounded, Inside
<1>6. Marked
  BY <1>1, <1>2 DEF Init, Marked
<1>7. SchemaSpeaksForHandler /\ Told
  BY <1>1, <1>2 DEF SchemaSpeaksForHandler, Told, CancelIsForItsCall, ReportedOrRemoved
<1> QED
  BY <1>3, <1>4, <1>5, <1>6, <1>7 DEF RegistryInv

\* CapabilityRegistry.__init__ registers only descriptors whose schema it has checked.
LEMMA BuildKeeps == RegistryInv /\ (\E wiring \in Wirings : Build(wiring)) => RegistryInv'
<1> SUFFICES ASSUME RegistryInv, NEW wiring \in Wirings, Build(wiring) PROVE RegistryInv'
  OBVIOUS
<1>1. /\ \A k \in DOMAIN wiring : WellFormed(wiring[k].schema)
      /\ handlers' = [name \in Names(wiring) |->
                        wiring[CHOOSE k \in DOMAIN wiring : wiring[k].name = name]]
      /\ UNCHANGED <<active, processes, cancelled, call, stopping>>
  BY DEF Build
<1>2. ASSUME NEW name \in Names(wiring)
      PROVE  /\ WellFormed(handlers'[name].schema)
             /\ name = "process.execute" => handlers'[name].schema = ProcessSchema
  <2>1. PICK k \in DOMAIN wiring : wiring[k].name = name /\ handlers'[name] = wiring[k]
    <3>1. \E k \in DOMAIN wiring : wiring[k].name = name
      BY DEF Names
    <3> QED
      BY <3>1, <1>1
  <2> QED
    BY <2>1, <1>1, WiringsAssumption
<1>3. DOMAIN handlers' = Names(wiring)
  BY <1>1
<1>4. HandlersInv'
  BY <1>2, <1>3 DEF HandlersInv
<1> QED
  BY <1>1, <1>4 DEF RegistryInv, Forms, Entered, Marked, Bounded, SchemaSpeaksForHandler, Told,
                    CancelIsForItsCall, ReportedOrRemoved, Whole, Own, Inside

\* A call that ends before the handler awaits leaves the tables alone.
LEMMA EndAtOnceKeeps ==
  ASSUME RegistryInv, NEW c \in Caller, NEW end, call[c].at = "idle", EndAtOnce(c, end),
         handlers' = handlers, end \notin TypeReasons \cup {"schema_error", "cancelled"}
  PROVE  RegistryInv'
<1>1. /\ call' = [call EXCEPT ![c] = [NoCall EXCEPT !.at = "over", !.end = end]]
      /\ active' = active /\ processes' = processes /\ cancelled' = cancelled
  BY DEF EndAtOnce
<1>2. Forms
  BY DEF RegistryInv
<1>3. /\ DOMAIN call' = Caller /\ \A d \in Caller : d # c => call'[d] = call[d]
      /\ call'[c] = [NoCall EXCEPT !.at = "over", !.end = end]
  BY <1>1, <1>2 DEF Forms
<1>4. /\ DOMAIN call'[c] = DOMAIN NoCall
      /\ call'[c].at = "over" /\ call'[c].end = end /\ call'[c].context = None
      /\ call'[c].accepted = FALSE /\ call'[c].kept = {} /\ call'[c].declared = <<>>
  BY <1>3 DEF NoCall
<1> HIDE DEF NoCall
<1>5. Forms'
  BY <1>1, <1>2, <1>3, <1>4 DEF Forms
<1>6. HandlersInv'
  BY DEF RegistryInv, HandlersInv
<1>7. \A d \in Caller : /\ Inside(d)' <=> Inside(d)
                        /\ Inside(d) => call'[d] = call[d] /\ Own(d)' = Own(d)
                        /\ call'[d].at = "running" <=> call[d].at = "running"
                        /\ ~Inside(d) => call'[d].context = None
  <2> TAKE d \in Caller
  <2>1. CASE d = c
    BY <2>1, <1>4 DEF Inside
  <2>2. CASE d # c
    <3>1. call'[d] = call[d]
      BY <2>2, <1>3
    <3>2. ~Inside(d) => call[d].context = None
      BY DEF RegistryInv, Entered
    <3> QED
      BY <3>1, <3>2 DEF Inside, Own
  <2> QED
    BY <2>1, <2>2
<1>8. Entered'
  <2>1. Entered
    BY DEF RegistryInv
  <2>2. \A d \in Caller :
          IF Inside(d)' THEN call'[d].context \in Context /\ active'[Own(d)'] = call'[d].context
          ELSE call'[d].context = None
    <3> TAKE d \in Caller
    <3>1. CASE Inside(d)
      <4>1. call'[d] = call[d] /\ Own(d)' = Own(d) /\ Inside(d)'
        BY <3>1, <1>7
      <4>2. call[d].context \in Context /\ active[Own(d)] = call[d].context
        BY <3>1, <2>1 DEF Entered
      <4> QED
        BY <4>1, <4>2, <1>1
    <3>2. CASE ~Inside(d)
      BY <3>2, <1>7
    <3> QED
      BY <3>1, <3>2
  <2>3. \A d, e \in Caller : Inside(d)' /\ Inside(e)' /\ d # e => Own(d)' # Own(e)'
    BY <1>7, <2>1 DEF Entered
  <2>4. \A i \in Identity : active'[i] # None => \E d \in Caller : Inside(d)' /\ Own(d)' = i
    BY <1>1, <1>7, <2>1 DEF Entered
  <2> QED
    BY <2>2, <2>3, <2>4 DEF Entered
<1>9. Marked'
  <2>1. Marked
    BY DEF RegistryInv
  <2>2. \A d \in Caller : call[d].at = "running" =>
          Inside(d) /\ call'[d] = call[d] /\ Own(d)' = Own(d)
    BY <1>7 DEF Inside
  <2>3. {d \in Caller : call'[d].at = "running"} = {d \in Caller : call[d].at = "running"}
    BY <1>7
  <2>4. {d \in Caller : call'[d].at = "running" /\ call'[d].accepted}
          = {d \in Caller : call[d].at = "running" /\ call[d].accepted}
    BY <1>7, <2>2
  <2>5. processes' = {Own(d)' : d \in {e \in Caller : call'[e].at = "running"}}
    BY <1>1, <2>1, <2>2, <2>3 DEF Marked
  <2>6. cancelled' = {Own(d)' : d \in {e \in Caller : call'[e].at = "running" /\ call'[e].accepted}}
    BY <1>1, <2>1, <2>2, <2>4 DEF Marked
  <2>7. \A d \in Caller : call'[d].at \in {"idle", "spawn"} => ~call'[d].accepted
    BY <1>3, <1>4, <2>1 DEF Marked
  <2> QED
    BY <2>5, <2>6, <2>7 DEF Marked
<1>10. Bounded'
  BY <1>7 DEF RegistryInv, Bounded
<1>11. SchemaSpeaksForHandler'
  <2>1. SchemaSpeaksForHandler
    BY DEF RegistryInv
  <2> QED
    BY <2>1, <1>3, <1>4 DEF SchemaSpeaksForHandler, TypeReasons
<1>12. Told'
  <2> SUFFICES ASSUME StreamsFit PROVE CancelIsForItsCall' /\ ReportedOrRemoved'
    BY DEF Told, StreamsFit
  <2>1. CancelIsForItsCall /\ ReportedOrRemoved
    BY DEF RegistryInv, Told
  <2>2. CancelIsForItsCall'
    <3>1. ASSUME NEW d \in Caller, d # c, call'[d].at = "over"
          PROVE  /\ call'[d].end = "cancelled" => call'[d].accepted
                 /\ call'[d].accepted /\ call'[d].command # "odd" =>
                      call'[d].end \in {"cancelled", "timed_out", "interrupted", "signal_refused"}
      BY <2>1, <3>1, <1>3 DEF CancelIsForItsCall
    <3>2. call'[c].end # "cancelled" /\ ~call'[c].accepted
      BY <1>4
    <3> QED
      BY <3>1, <3>2 DEF CancelIsForItsCall
  <2>3. DOMAIN <<>> = {}
    OBVIOUS
  <2>4. ReportedOrRemoved'
    <3>1. ASSUME NEW d \in Caller, d # c, call'[d].at = "over", call'[d].command # "odd"
          PROVE  Whole(d)'
      BY <2>1, <3>1, <1>3 DEF ReportedOrRemoved, Whole
    <3>2. Whole(c)'
      BY <2>3, <1>4 DEF Whole
    <3> QED
      BY <3>1, <3>2 DEF ReportedOrRemoved
  <2> QED
    BY <2>2, <2>4
<1> QED
  BY <1>5, <1>6, <1>8, <1>9, <1>10, <1>11, <1>12 DEF RegistryInv

\* A call that leaves the handler takes its own entries, and no other's, out of the three tables.
LEMMA FinishKeeps ==
  ASSUME RegistryInv, NEW c \in Caller, NEW result, Inside(c), Finish(c, result),
         handlers' = handlers, result.end \notin TypeReasons \cup {"schema_error"},
         StreamsFit =>
           /\ result.end = "cancelled" => call[c].accepted
           /\ call[c].command # "odd" =>
                /\ call[c].accepted =>
                     result.end \in {"cancelled", "timed_out", "interrupted", "signal_refused"}
                /\ IF result.end = "completed" THEN result.kept = DOMAIN call[c].declared
                   ELSE result.kept = {} \/ result.stuck
  PROVE  RegistryInv'
<1> DEFINE id == Own(c)
<1>1. /\ call' = [call EXCEPT ![c] = [@ EXCEPT !.at = "over", !.context = None, !.end = result.end,
                                               !.kept = result.kept, !.stuck = result.stuck]]
      /\ active' = [active EXCEPT ![id] = None]
      /\ processes' = processes \ {id} /\ cancelled' = cancelled \ {id}
  BY DEF Finish, Own
<1>2. Forms /\ Entered /\ Marked
  BY DEF RegistryInv
<1>3. /\ DOMAIN call' = Caller /\ \A d \in Caller : d # c => call'[d] = call[d]
      /\ call'[c] = [call[c] EXCEPT !.at = "over", !.context = None, !.end = result.end,
                                    !.kept = result.kept, !.stuck = result.stuck]
  BY <1>1, <1>2 DEF Forms
<1>4. /\ DOMAIN call'[c] = DOMAIN NoCall
      /\ call'[c].at = "over" /\ call'[c].end = result.end /\ call'[c].context = None
      /\ call'[c].accepted = call[c].accepted /\ call'[c].kept = result.kept
      /\ call'[c].stuck = result.stuck /\ call'[c].declared = call[c].declared
      /\ call'[c].command = call[c].command
  <2>1. DOMAIN call[c] = {"at", "context", "command", "declared", "end", "kept", "stuck", "accepted"}
    BY <1>2 DEF Forms, NoCall
  <2>2. DOMAIN call[c] = DOMAIN NoCall
    BY <1>2 DEF Forms
  <2> QED
    BY <1>3, <2>1, <2>2
<1>5. id \in Identity /\ DOMAIN active = Identity
  BY <1>2 DEF Forms, Entered, Identity, Own
<1>6. \A i \in Identity : active'[i] = IF i = id THEN None ELSE active[i]
  BY <1>1, <1>5
<1>7. \A d \in Caller : /\ Inside(d)' <=> Inside(d) /\ d # c
                        /\ d # c => call'[d] = call[d] /\ Own(d)' = Own(d)
                        /\ Inside(d) /\ d # c => Own(d) # id /\ Own(d) \in Identity
  <2> TAKE d \in Caller
  <2>1. CASE d = c
    BY <2>1, <1>4 DEF Inside
  <2>2. CASE d # c
    <3>1. call'[d] = call[d]
      BY <2>2, <1>3
    <3>2. Inside(d) => Own(d) # id /\ Own(d) \in Identity
      BY <2>2, <1>2 DEF Entered, Identity, Own
    <3> QED
      BY <2>2, <3>1, <3>2 DEF Inside, Own
  <2> QED
    BY <2>1, <2>2
<1> HIDE DEF id
<1>8. Forms'
  BY <1>1, <1>2, <1>3, <1>4, <1>5 DEF Forms
<1>9. HandlersInv'
  BY DEF RegistryInv, HandlersInv
<1>10. Entered'
  <2>1. \A d \in Caller :
          IF Inside(d)' THEN call'[d].context \in Context /\ active'[Own(d)'] = call'[d].context
          ELSE call'[d].context = None
    BY <1>2, <1>4, <1>6, <1>7 DEF Entered
  <2>2. \A d, e \in Caller : Inside(d)' /\ Inside(e)' /\ d # e => Own(d)' # Own(e)'
    BY <1>2, <1>7 DEF Entered
  <2>3. ASSUME NEW i \in Identity, active'[i] # None
        PROVE  \E d \in Caller : Inside(d)' /\ Own(d)' = i
    <3>1. i # id /\ active[i] # None
      BY <2>3, <1>6
    <3>2. PICK d \in Caller : Inside(d) /\ Own(d) = i
      BY <3>1, <1>2 DEF Entered
    <3>3. d # c
      BY <3>1, <3>2 DEF id
    <3> QED
      BY <3>2, <3>3, <1>7
  <2> QED
    BY <2>1, <2>2, <2>3 DEF Entered
<1>11. Marked'
  <2>1. \A d \in Caller : call'[d].at = "running" <=> call[d].at = "running" /\ d # c
    BY <1>3, <1>4
  <2>2. \A d \in Caller : call[d].at = "running" /\ d # c =>
          call'[d] = call[d] /\ Own(d)' = Own(d) /\ Own(d) # id
    BY <1>7 DEF Inside
  <2>3. \A i : i \in processes' <=> \E d \in Caller : call'[d].at = "running" /\ i = Own(d)'
    <3>1. \A i : i \in processes <=> \E d \in Caller : call[d].at = "running" /\ i = Own(d)
      BY <1>2 DEF Marked
    <3> QED
      BY <3>1, <2>1, <2>2, <1>1 DEF id
  <2>4. \A i : i \in cancelled' <=>
                 \E d \in Caller : call'[d].at = "running" /\ call'[d].accepted /\ i = Own(d)'
    <3>1. \A i : i \in cancelled <=>
                   \E d \in Caller : call[d].at = "running" /\ call[d].accepted /\ i = Own(d)
      BY <1>2 DEF Marked
    <3> QED
      BY <3>1, <2>1, <2>2, <1>1 DEF id
  <2>5. processes' = {Own(d)' : d \in {e \in Caller : call'[e].at = "running"}}
    BY <2>3
  <2>6. cancelled' = {Own(d)' : d \in {e \in Caller : call'[e].at = "running" /\ call'[e].accepted}}
    BY <2>4
  <2>7. \A d \in Caller : call'[d].at \in {"idle", "spawn"} => ~call'[d].accepted
    BY <1>2, <1>3, <1>4 DEF Marked
  <2> QED
    BY <2>5, <2>6, <2>7 DEF Marked
<1>12. Bounded'
  BY <1>7 DEF RegistryInv, Bounded
<1>13. SchemaSpeaksForHandler'
  <2>1. SchemaSpeaksForHandler
    BY DEF RegistryInv
  <2> QED
    BY <2>1, <1>3, <1>4 DEF SchemaSpeaksForHandler, TypeReasons
<1>14. Told'
  <2> SUFFICES ASSUME StreamsFit PROVE CancelIsForItsCall' /\ ReportedOrRemoved'
    BY DEF Told, StreamsFit
  <2>1. CancelIsForItsCall /\ ReportedOrRemoved
    BY DEF RegistryInv, Told
  <2>2. CancelIsForItsCall'
    <3>1. ASSUME NEW d \in Caller, d # c, call'[d].at = "over"
          PROVE  /\ call'[d].end = "cancelled" => call'[d].accepted
                 /\ call'[d].accepted /\ call'[d].command # "odd" =>
                      call'[d].end \in {"cancelled", "timed_out", "interrupted", "signal_refused"}
      BY <2>1, <3>1, <1>3 DEF CancelIsForItsCall
    <3>2. /\ call'[c].end = "cancelled" => call'[c].accepted
          /\ call'[c].accepted /\ call'[c].command # "odd" =>
               call'[c].end \in {"cancelled", "timed_out", "interrupted", "signal_refused"}
      BY <1>4
    <3> QED
      BY <3>1, <3>2 DEF CancelIsForItsCall
  <2>3. ReportedOrRemoved'
    <3>1. ASSUME NEW d \in Caller, d # c, call'[d].at = "over", call'[d].command # "odd"
          PROVE  Whole(d)'
      BY <2>1, <3>1, <1>3 DEF ReportedOrRemoved, Whole
    <3>2. call'[c].command # "odd" => Whole(c)'
      BY <1>4 DEF Whole
    <3> QED
      BY <3>1, <3>2 DEF ReportedOrRemoved
  <2> QED
    BY <2>2, <2>3
<1> QED
  BY <1>8, <1>9, <1>10, <1>11, <1>12, <1>13, <1>14 DEF RegistryInv

\* A call enters under an identity that no other call holds.
LEMMA EnterKeeps ==
  ASSUME RegistryInv, NEW c \in Caller, NEW context \in Context, NEW declared, NEW command,
         call[c].at = "idle", active[context.id] = None, Len(declared) \in 0 .. MaxDeclared,
         active' = [active EXCEPT ![context.id] = context],
         call' = [call EXCEPT ![c] = [@ EXCEPT !.at = "spawn", !.context = context,
                                               !.command = command, !.declared = declared]],
         UNCHANGED <<processes, cancelled, handlers>>
  PROVE  RegistryInv'
<1> DEFINE id == context.id
<1>1. Forms /\ Entered /\ Marked
  BY DEF RegistryInv
<1>2. /\ DOMAIN call' = Caller /\ \A d \in Caller : d # c => call'[d] = call[d]
      /\ call'[c] = [call[c] EXCEPT !.at = "spawn", !.context = context, !.command = command,
                                    !.declared = declared]
  BY <1>1 DEF Forms
<1>3. /\ DOMAIN call'[c] = DOMAIN NoCall
      /\ call'[c].at = "spawn" /\ call'[c].context = context /\ call'[c].declared = declared
      /\ call'[c].accepted = call[c].accepted /\ call'[c].end = call[c].end
  <2>1. DOMAIN call[c] = {"at", "context", "command", "declared", "end", "kept", "stuck", "accepted"}
    BY <1>1 DEF Forms, NoCall
  <2>2. DOMAIN call[c] = DOMAIN NoCall
    BY <1>1 DEF Forms
  <2> QED
    BY <1>2, <2>1, <2>2
<1>4. id \in Identity /\ DOMAIN active = Identity /\ context # None
  BY <1>1, ContextAssumption DEF Forms, Identity
<1>5. DOMAIN active' = Identity /\ \A i \in Identity : active'[i] = IF i = id THEN context ELSE active[i]
  BY <1>4
<1>6. Inside(c)' /\ Own(c)' = id /\ ~Inside(c)
  BY <1>3 DEF Inside, Own
<1>7. \A d \in Caller : d # c => /\ call'[d] = call[d] /\ Own(d)' = Own(d) /\ (Inside(d)' <=> Inside(d))
  BY <1>2 DEF Inside, Own
<1>8. \A d \in Caller : d # c /\ Inside(d) => Own(d) \in Identity /\ Own(d) # id
  BY <1>1, ContextAssumption DEF Entered, Identity, Own
<1>9. Forms'
  BY <1>1, <1>2, <1>3, <1>5 DEF Forms
<1>10. HandlersInv'
  BY DEF RegistryInv, HandlersInv
<1>11. Entered'
  <2>1. \A d \in Caller :
          IF Inside(d)' THEN call'[d].context \in Context /\ active'[Own(d)'] = call'[d].context
          ELSE call'[d].context = None
    <3> TAKE d \in Caller
    <3>1. CASE d = c
      BY <3>1, <1>3, <1>4, <1>5, <1>6
    <3>2. CASE d # c /\ Inside(d)
      <4>1. call'[d] = call[d] /\ Own(d)' = Own(d) /\ Own(d) \in Identity /\ Own(d) # id /\ Inside(d)'
        BY <3>2, <1>7, <1>8
      <4>2. call[d].context \in Context /\ active[Own(d)] = call[d].context
        BY <3>2, <1>1 DEF Entered
      <4> QED
        BY <4>1, <4>2, <1>5
    <3>3. CASE d # c /\ ~Inside(d)
      BY <3>3, <1>1, <1>7 DEF Entered
    <3> QED
      BY <3>1, <3>2, <3>3
  <2>2. \A d, e \in Caller : Inside(d)' /\ Inside(e)' /\ d # e => Own(d)' # Own(e)'
    BY <1>1, <1>6, <1>7, <1>8 DEF Entered
  <2>3. ASSUME NEW i \in Identity, active'[i] # None
        PROVE  \E d \in Caller : Inside(d)' /\ Own(d)' = i
    <3>1. CASE i = id
      BY <3>1, <1>6
    <3>2. CASE i # id
      <4>1. PICK d \in Caller : Inside(d) /\ Own(d) = i
        BY <3>2, <2>3, <1>1, <1>5 DEF Entered
      <4> QED
        BY <4>1, <1>6, <1>7
    <3> QED
      BY <3>1, <3>2
  <2> QED
    BY <2>1, <2>2, <2>3 DEF Entered
<1>12. Marked'
  <2>1. \A d \in Caller : call'[d].at = "running" <=> call[d].at = "running"
    BY <1>2, <1>3
  <2>2. \A d \in Caller : call[d].at = "running" => call'[d] = call[d] /\ Own(d)' = Own(d)
    BY <1>7
  <2>3. {d \in Caller : call'[d].at = "running"} = {d \in Caller : call[d].at = "running"}
    BY <2>1
  <2>4. {d \in Caller : call'[d].at = "running" /\ call'[d].accepted}
          = {d \in Caller : call[d].at = "running" /\ call[d].accepted}
    BY <2>1, <2>2
  <2>5. processes' = {Own(d)' : d \in {e \in Caller : call'[e].at = "running"}}
    BY <1>1, <2>2, <2>3 DEF Marked
  <2>6. cancelled' = {Own(d)' : d \in {e \in Caller : call'[e].at = "running" /\ call'[e].accepted}}
    BY <1>1, <2>2, <2>4 DEF Marked
  <2>7. \A d \in Caller : call'[d].at \in {"idle", "spawn"} => ~call'[d].accepted
    BY <1>1, <1>2, <1>3 DEF Marked
  <2> QED
    BY <2>5, <2>6, <2>7 DEF Marked
<1>13. Bounded'
  BY <1>3, <1>6, <1>7 DEF RegistryInv, Bounded
<1>14. SchemaSpeaksForHandler'
  <2>1. SchemaSpeaksForHandler
    BY DEF RegistryInv
  <2> QED
    BY <2>1, <1>2, <1>3 DEF SchemaSpeaksForHandler
<1>15. Told'
  <2> SUFFICES ASSUME StreamsFit PROVE CancelIsForItsCall' /\ ReportedOrRemoved'
    BY DEF Told, StreamsFit
  <2>1. CancelIsForItsCall /\ ReportedOrRemoved
    BY DEF RegistryInv, Told
  <2>2. \A d \in Caller : call'[d].at = "over" => call'[d] = call[d]
    BY <1>2, <1>3
  <2>3. CancelIsForItsCall'
    BY <2>1, <2>2 DEF CancelIsForItsCall
  <2>4. ReportedOrRemoved'
    BY <2>1, <2>2 DEF ReportedOrRemoved, Whole
  <2> QED
    BY <2>3, <2>4
<1> QED
  BY <1>9, <1>10, <1>11, <1>12, <1>13, <1>14, <1>15 DEF RegistryInv

\* A step that neither begins nor ends a call: what changes is the progress of
\* some and the marks.
LEMMA ProgressKeeps ==
  ASSUME RegistryInv, Forms', Marked', UNCHANGED <<active, handlers>>,
         \A d \in Caller :
           /\ Inside(d)' <=> Inside(d)
           /\ call'[d].context = call[d].context /\ call'[d].declared = call[d].declared
           /\ call'[d].end = call[d].end
           /\ call'[d].at = "over" => call'[d] = call[d]
  PROVE  RegistryInv'
<1>1. Entered /\ Bounded /\ HandlersInv /\ SchemaSpeaksForHandler /\ Told
  BY DEF RegistryInv
<1>2. \A d \in Caller : Own(d)' = Own(d)
  BY DEF Own
<1>3. Entered'
  <2>1. \A d \in Caller :
          IF Inside(d)' THEN call'[d].context \in Context /\ active'[Own(d)'] = call'[d].context
          ELSE call'[d].context = None
    <3> TAKE d \in Caller
    <3>1. CASE Inside(d)
      BY <3>1, <1>1, <1>2 DEF Entered
    <3>2. CASE ~Inside(d)
      BY <3>2, <1>1 DEF Entered
    <3> QED
      BY <3>1, <3>2
  <2>2. \A d, e \in Caller : Inside(d)' /\ Inside(e)' /\ d # e => Own(d)' # Own(e)'
    BY <1>1, <1>2 DEF Entered
  <2>3. \A i \in Identity : active'[i] # None => \E d \in Caller : Inside(d)' /\ Own(d)' = i
    BY <1>1, <1>2 DEF Entered
  <2> QED
    BY <2>1, <2>2, <2>3 DEF Entered
<1>4. Bounded' /\ HandlersInv' /\ SchemaSpeaksForHandler'
  BY <1>1 DEF Bounded, HandlersInv, SchemaSpeaksForHandler
<1>5. Told'
  <2> SUFFICES ASSUME StreamsFit PROVE CancelIsForItsCall' /\ ReportedOrRemoved'
    BY DEF Told, StreamsFit
  <2>1. CancelIsForItsCall /\ ReportedOrRemoved
    BY <1>1 DEF Told
  <2>2. CancelIsForItsCall'
    BY <2>1 DEF CancelIsForItsCall
  <2>3. ReportedOrRemoved'
    BY <2>1 DEF ReportedOrRemoved, Whole
  <2> QED
    BY <2>2, <2>3
<1> QED
  BY <1>3, <1>4, <1>5 DEF RegistryInv

\* The process is registered under the identity of its own call.
LEMMA SpawnKeeps ==
  ASSUME RegistryInv, NEW c \in Caller, call[c].at = "spawn",
         processes' = processes \cup {Own(c)}, call' = [call EXCEPT ![c].at = "running"],
         UNCHANGED <<active, cancelled, handlers>>
  PROVE  RegistryInv'
<1>1. Forms /\ Marked
  BY DEF RegistryInv
<1>2. /\ DOMAIN call' = Caller /\ \A d \in Caller : d # c => call'[d] = call[d]
      /\ call'[c] = [call[c] EXCEPT !.at = "running"]
  BY <1>1 DEF Forms
<1>3. /\ DOMAIN call'[c] = DOMAIN NoCall /\ call'[c].at = "running"
      /\ call'[c].context = call[c].context /\ call'[c].declared = call[c].declared
      /\ call'[c].accepted = call[c].accepted /\ call'[c].end = call[c].end
  <2>1. DOMAIN call[c] = {"at", "context", "command", "declared", "end", "kept", "stuck", "accepted"}
    BY <1>1 DEF Forms, NoCall
  <2>2. DOMAIN call[c] = DOMAIN NoCall
    BY <1>1 DEF Forms
  <2> QED
    BY <1>2, <2>1, <2>2
<1>4. Forms'
  BY <1>1, <1>2, <1>3 DEF Forms
<1>5. \A d \in Caller : Own(d)' = Own(d)
  BY <1>2, <1>3 DEF Own
<1>6. Marked'
  <2>1. \A d \in Caller : call'[d].at = "running" <=> call[d].at = "running" \/ d = c
    BY <1>2, <1>3
  <2>2. ~call[c].accepted /\ ~call'[c].accepted
    BY <1>1, <1>3 DEF Marked
  <2>3. \A i : i \in processes' <=> \E d \in Caller : call'[d].at = "running" /\ i = Own(d)'
    <3>1. \A i : i \in processes <=> \E d \in Caller : call[d].at = "running" /\ i = Own(d)
      BY <1>1 DEF Marked
    <3> QED
      BY <3>1, <2>1, <1>5
  <2>4. {d \in Caller : call'[d].at = "running" /\ call'[d].accepted}
          = {d \in Caller : call[d].at = "running" /\ call[d].accepted}
    BY <2>1, <2>2, <1>2
  <2>5. processes' = {Own(d)' : d \in {e \in Caller : call'[e].at = "running"}}
    BY <2>3
  <2>6. cancelled' = {Own(d)' : d \in {e \in Caller : call'[e].at = "running" /\ call'[e].accepted}}
    BY <1>1, <1>5, <2>4 DEF Marked
  <2>7. \A d \in Caller : call'[d].at \in {"idle", "spawn"} => ~call'[d].accepted
    BY <1>1, <1>2, <1>3 DEF Marked
  <2> QED
    BY <2>5, <2>6, <2>7 DEF Marked
<1>7. \A d \in Caller :
        /\ Inside(d)' <=> Inside(d)
        /\ call'[d].context = call[d].context /\ call'[d].declared = call[d].declared
        /\ call'[d].end = call[d].end
        /\ call'[d].at = "over" => call'[d] = call[d]
  BY <1>2, <1>3 DEF Inside
<1> QED
  BY <1>4, <1>6, <1>7, ProgressKeeps

\* cancel marks only a running process whose call has exactly this context.
LEMMA CancelKeeps ==
  ASSUME RegistryInv, NEW context \in Context, Cancel(context)
  PROVE  RegistryInv'
<1> DEFINE id == context.id
<1>1. Forms /\ Entered /\ Marked
  BY DEF RegistryInv
<1>2. /\ active[id] = context /\ id \in processes /\ cancelled' = cancelled \cup {id}
      /\ call' = [d \in Caller |-> IF call[d].context = context
                                     THEN [call[d] EXCEPT !.accepted = TRUE] ELSE call[d]]
      /\ UNCHANGED <<handlers, active, processes>>
  BY DEF Cancel
<1>3. context # None
  BY ContextAssumption
<1>4. PICK c \in Caller : call[c].at = "running" /\ Own(c) = id
  BY <1>1, <1>2 DEF Marked
<1>5. call[c].context = context
  BY <1>1, <1>2, <1>4 DEF Entered, Inside
<1>6. \A d \in Caller : call[d].context = context => d = c
  BY <1>1, <1>3, <1>4, <1>5 DEF Entered, Inside, Own
<1>7. /\ DOMAIN call' = Caller /\ \A d \in Caller : d # c => call'[d] = call[d]
      /\ call'[c] = [call[c] EXCEPT !.accepted = TRUE]
  BY <1>2, <1>5, <1>6
<1>8. /\ DOMAIN call'[c] = DOMAIN NoCall /\ call'[c].at = "running"
      /\ call'[c].context = call[c].context /\ call'[c].declared = call[c].declared
      /\ call'[c].accepted = TRUE /\ call'[c].end = call[c].end
  <2>1. DOMAIN call[c] = {"at", "context", "command", "declared", "end", "kept", "stuck", "accepted"}
    BY <1>1 DEF Forms, NoCall
  <2>2. DOMAIN call[c] = DOMAIN NoCall
    BY <1>1 DEF Forms
  <2> QED
    BY <1>4, <1>7, <2>1, <2>2
<1>9. Forms'
  BY <1>1, <1>2, <1>7, <1>8 DEF Forms
<1>10. \A d \in Caller : Own(d)' = Own(d)
  BY <1>7, <1>8 DEF Own
<1>11. Marked'
  <2>1. \A d \in Caller : call'[d].at = call[d].at
    BY <1>4, <1>7, <1>8
  <2>2. \A d \in Caller : call'[d].accepted <=> call[d].accepted \/ d = c
    BY <1>7, <1>8
  <2>3. {d \in Caller : call'[d].at = "running"} = {d \in Caller : call[d].at = "running"}
    BY <2>1
  <2>4. \A i : i \in cancelled' <=>
                 \E d \in Caller : call'[d].at = "running" /\ call'[d].accepted /\ i = Own(d)'
    <3>1. \A i : i \in cancelled <=>
                   \E d \in Caller : call[d].at = "running" /\ call[d].accepted /\ i = Own(d)
      BY <1>1 DEF Marked
    <3> QED
      BY <3>1, <2>1, <2>2, <1>2, <1>4, <1>10
  <2>5. processes' = {Own(d)' : d \in {e \in Caller : call'[e].at = "running"}}
    BY <1>1, <1>2, <1>10, <2>3 DEF Marked
  <2>6. cancelled' = {Own(d)' : d \in {e \in Caller : call'[e].at = "running" /\ call'[e].accepted}}
    BY <2>4
  <2>7. \A d \in Caller : call'[d].at \in {"idle", "spawn"} => ~call'[d].accepted
    BY <1>1, <1>4, <2>1, <2>2 DEF Marked
  <2> QED
    BY <2>5, <2>6, <2>7 DEF Marked
<1>12. \A d \in Caller :
         /\ Inside(d)' <=> Inside(d)
         /\ call'[d].context = call[d].context /\ call'[d].declared = call[d].declared
         /\ call'[d].end = call[d].end
         /\ call'[d].at = "over" => call'[d] = call[d]
  BY <1>4, <1>7, <1>8 DEF Inside
<1> QED
  BY <1>2, <1>9, <1>11, <1>12, ProgressKeeps

\* CapabilityRegistry.invoke: refused, ended at once, or entered.
LEMMA InvokeKeeps ==
  ASSUME RegistryInv, NEW c \in Caller, NEW request \in Request, NEW context \in Context,
         Invoke(c, request, context)
  PROVE  RegistryInv'
<1> DEFINE refusals == Refusals(request, context.id)
<1>1. handlers # None /\ call[c].at = "idle" /\ handlers' = handlers
  BY DEF Invoke
<1>2. /\ \A reason \in refusals : reason \notin TypeReasons \cup {"schema_error", "cancelled"}
      /\ refusals = {} =>
           /\ active[context.id] = None
           /\ \A end \in AtOnce(request) : end \notin TypeReasons \cup {"schema_error", "cancelled"}
  BY <1>1, EndsAtOnce DEF RegistryInv
<1>3. CASE \E reason \in refusals : EndAtOnce(c, reason)
  BY <1>1, <1>2, <1>3, EndAtOnceKeeps
<1>4. CASE refusals = {} /\ \E end \in AtOnce(request) : EndAtOnce(c, end)
  BY <1>1, <1>2, <1>4, EndAtOnceKeeps
<1>5. CASE /\ refusals = {} /\ Awaits(request)
           /\ active' = [active EXCEPT ![context.id] = context]
           /\ call' = [call EXCEPT ![c] = [@ EXCEPT !.at = "spawn", !.context = context,
                                           !.command = Program(request),
                                           !.declared = Declared(request.arguments.fields)]]
           /\ UNCHANGED <<processes, cancelled>>
  <2>1. Len(Declared(request.arguments.fields)) \in 0 .. MaxDeclared
    BY <1>5, DeclaredIsBounded DEF Awaits
  <2> QED
    BY <2>1, <1>1, <1>2, <1>5, EnterKeeps
<1> QED
  BY <1>3, <1>4, <1>5 DEF Invoke

\* The ways out of the handler without an output: the process did not start, timed
\* out or may not be signalled, the result cannot be made, or the task was cancelled.
LEMMA FailureKeeps ==
  ASSUME RegistryInv, NEW c \in Caller, Inside(c), handlers' = handlers,
         NEW end \in {"spawn_failed", "timed_out", "signal_refused", "interrupted", "execution_failed"},
         end = "spawn_failed" => call[c].at = "spawn",
         end = "execution_failed" => call[c].command = "odd",
         Finish(c, Ended(end))
  PROVE  RegistryInv'
<1>1. Ended(end).end = end /\ Ended(end).kept = {}
  BY DEF Ended
<1>2. end \notin TypeReasons \cup {"schema_error"} /\ end \notin {"cancelled", "completed"}
  BY DEF TypeReasons
<1>3. call[c].accepted /\ call[c].command # "odd" => end \in {"timed_out", "signal_refused", "interrupted"}
  BY DEF RegistryInv, Marked
<1> QED
  BY <1>1, <1>2, <1>3, FinishKeeps

\* The process has ended and the handler reports it: the mark decides between cancelled and the rest.
LEMMA ReturnKeeps ==
  ASSUME RegistryInv, NEW c \in Caller, Returns(c)
  PROVE  RegistryInv'
<1>1. PICK output \in Outputs :
        \E result \in Results(Own(c) \in cancelled, output, call[c].declared, call[c].command) : Finish(c, result)
  BY DEF Returns, Own
<1>2. PICK result \in Results(Own(c) \in cancelled, output, call[c].declared, call[c].command) : Finish(c, result)
  BY <1>1
<1>3. call[c].at = "running" /\ handlers' = handlers /\ Inside(c)
  BY DEF Returns, Inside
<1>4. Own(c) \in cancelled <=> call[c].accepted
  <2>1. ASSUME NEW d \in Caller, call[d].at = "running", Own(d) = Own(c)
        PROVE  d = c
    BY <2>1, <1>3 DEF RegistryInv, Entered, Inside
  <2> QED
    BY <2>1, <1>3 DEF RegistryInv, Marked
<1> DEFINE stopped == Own(c) \in cancelled
<1>5. stopped \in BOOLEAN
  OBVIOUS
<1>6. Len(call[c].declared) \in 0 .. MaxDeclared
  BY <1>3 DEF RegistryInv, Bounded
<1>7. result \in Results(stopped, output, call[c].declared, call[c].command) /\ (stopped <=> call[c].accepted)
  BY <1>2, <1>4
<1> HIDE DEF stopped
<1>8. /\ result.end \notin TypeReasons \cup {"schema_error"}
      /\ result.end = "cancelled" => stopped
      /\ StreamsFit /\ call[c].command # "odd" =>
           /\ result.end = "cancelled" <=> stopped
           /\ IF result.end = "completed" THEN result.kept = DOMAIN call[c].declared
              ELSE result.kept = {} \/ result.stuck
  BY <1>5, <1>6, <1>7, ResultSpeaks
<1> QED
  BY <1>2, <1>3, <1>7, <1>8, FinishKeeps

\* A step of nothing.
LEMMA StutterKeeps == RegistryInv /\ UNCHANGED <<handlers, active, processes, cancelled, call>> => RegistryInv'
<1> SUFFICES ASSUME RegistryInv, UNCHANGED <<handlers, active, processes, cancelled, call>>
             PROVE  RegistryInv'
  OBVIOUS
<1>1. Forms' /\ Marked'
  BY DEF RegistryInv, Forms, Marked, Own
<1> QED
  BY <1>1, ProgressKeeps DEF Inside

\* RegistryInv is inductive.
LEMMA NextRegistry == RegistryInv /\ [Next]_vars => RegistryInv'
<1> SUFFICES ASSUME RegistryInv, [Next]_vars PROVE RegistryInv'
  OBVIOUS
<1>1. CASE \E wiring \in Wirings : Build(wiring)
  BY <1>1, BuildKeeps
<1>2. ASSUME NEW c \in Caller, NEW request \in Request, NEW context \in Context,
             Invoke(c, request, context)
      PROVE  RegistryInv'
  BY <1>2, InvokeKeeps
<1>3. ASSUME NEW c \in Caller, Spawned(c)
      PROVE  RegistryInv'
  <2>1. call[c].at = "spawn" /\ Inside(c) /\ handlers' = handlers
    BY <1>3 DEF Spawned, Inside
  <2> DEFINE end == Reported(call[c].command, "spawn_failed")
  <2>2. CASE Finish(c, Ended(end))
    <3>1. \/ end = "spawn_failed"
          \/ end = "execution_failed" /\ call[c].command = "odd"
      BY DEF Reported
    <3>2. call[c].at = "spawn"
      BY <2>1
    <3> HIDE DEF end
    <3> QED
      BY <2>1, <2>2, <3>1, <3>2, FailureKeeps
  <2>3. CASE ~Finish(c, Ended(end))
    BY <2>1, <2>3, <1>3, SpawnKeeps DEF Spawned, Own
  <2> QED
    BY <2>2, <2>3
<1>4. ASSUME NEW c \in Caller, Returns(c)
      PROVE  RegistryInv'
  BY <1>4, ReturnKeeps
<1>5. ASSUME NEW c \in Caller, StopsWaiting(c)
      PROVE  RegistryInv'
  <2>1. handlers' = handlers /\ Inside(c)
    BY <1>5 DEF StopsWaiting, Inside
  <2>2. \E end \in {"timed_out", "signal_refused", "interrupted", "execution_failed"} :
          Finish(c, Ended(end)) /\ (end = "execution_failed" => call[c].command = "odd")
    BY <1>5 DEF StopsWaiting, Reported
  <2> QED
    BY <2>1, <2>2, FailureKeeps
<1>6. ASSUME NEW context \in Context, Cancel(context)
      PROVE  RegistryInv'
  BY <1>6, CancelKeeps
<1>7. ASSUME NEW id \in Identity, CancelReturns(id)
      PROVE  RegistryInv'
  BY <1>7, StutterKeeps DEF CancelReturns
<1>8. CASE UNCHANGED vars
  BY <1>8, StutterKeeps DEF vars
<1> QED
  BY <1>1, <1>2, <1>3, <1>4, <1>5, <1>6, <1>7, <1>8 DEF Next

\* RegistryInv, for any callers, contexts, wirings, requests and limits that the assumptions allow.
THEOREM RegistryInvHolds == Spec => []RegistryInv
BY InitRegistry, NextRegistry, PTL DEF Spec

\* TablesAreExact: _active names exactly the calls that are inside a handler,
\* _processes those with a process and _cancelled those of them that a cancel was
\* accepted for, so that no call loses an entry or leaves one behind, for any
\* callers, contexts, registrations and requests.
THEOREM TablesExact == Spec => []TablesAreExact
<1>1. RegistryInv => TablesAreExact
  <2> SUFFICES ASSUME RegistryInv PROVE TablesAreExact
    OBVIOUS
  <2>1. Forms /\ Entered /\ Marked
    BY DEF RegistryInv
  <2>2. ASSUME NEW id \in Identity
        PROVE  {call[c].context : c \in {d \in Caller : Inside(d) /\ call[d].context.id = id}}
                 = {active[id]} \ {None}
    <3> DEFINE those == {call[c].context : c \in {d \in Caller : Inside(d) /\ call[d].context.id = id}}
    <3>1. \A x \in those : x = active[id] /\ x # None
      BY <2>1, ContextAssumption DEF Entered, Own
    <3>2. active[id] # None => active[id] \in those
      <4> SUFFICES ASSUME active[id] # None PROVE active[id] \in those
        OBVIOUS
      <4>1. PICK c \in Caller : Inside(c) /\ Own(c) = id
        BY <2>1 DEF Entered
      <4>2. call[c].context = active[id]
        BY <4>1, <2>1 DEF Entered
      <4> QED
        BY <4>1, <4>2 DEF Own
    <3> QED
      BY <3>1, <3>2
  <2>3. \A c, d \in Caller : Inside(c) /\ Inside(d) /\ c # d => call[c].context.id # call[d].context.id
    BY <2>1 DEF Entered, Own
  <2>4. /\ processes = {call[c].context.id : c \in {d \in Caller : call[d].at = "running"}}
        /\ cancelled = {call[c].context.id : c \in {d \in Caller : call[d].at = "running"
                                                                  /\ call[d].accepted}}
    BY <2>1 DEF Marked, Own
  <2> QED
    BY <2>2, <2>3, <2>4 DEF TablesAreExact
<1> QED
  BY <1>1, RegistryInvHolds, PTL

\* SchemaSpeaksForHandler: validate_arguments leaves process.execute nothing of the
\* wrong type or out of bounds, and never runs into an incomplete schema, for every
\* schema that validate_input_schema accepts and any JSON arguments.
THEOREM SchemaSpeaks == Spec => []SchemaSpeaksForHandler
<1>1. RegistryInv => SchemaSpeaksForHandler
  BY DEF RegistryInv
<1> QED
  BY <1>1, RegistryInvHolds, PTL

\* CancelIsForItsCall: a cancellation reaches the call of its own context, and is
\* told, when the streams are limited so that every observation is accepted.
THEOREM CancelReachesItsCall ==
  ASSUME StreamsFit
  PROVE  Spec => []CancelIsForItsCall
<1>1. RegistryInv => CancelIsForItsCall
  BY DEF RegistryInv, Told
<1> QED
  BY <1>1, RegistryInvHolds, PTL

\* ReportedOrRemoved, under the same limit: snapshots are reported, removed or stuck,
\* for every command whose file name a result may carry.
THEOREM SnapshotsReportedOrRemoved ==
  ASSUME StreamsFit
  PROVE  Spec => []ReportedOrRemoved
<1>1. RegistryInv => ReportedOrRemoved
  BY DEF RegistryInv, Told
<1> QED
  BY <1>1, RegistryInvHolds, PTL

\* Every limit up to 86293 characters per stream will do for up to 32 Artifacts,
\* the default of 65536 among them.
LEMMA ModerateStreamsFit == StreamLimit <= 86293 => StreamsFit
<1>1. MaxDeclared \in Nat /\ MaxDeclared <= 32 /\ StreamLimit \in Nat
  BY ProcessAssumption
<1> QED
  BY <1>1 DEF StreamsFit, MaxObservation
=============================================================================
