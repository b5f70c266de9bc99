----------------------- MODULE MCCapabilityRegistry ------------------------
(***************************************************************************)
(* CapabilityRegistry for TLC: two callers, two identities one of which has *)
(* two deadlines, and one request for each reason to refuse one.            *)
(***************************************************************************)
EXTENDS CapabilityRegistry

TwoCallers == {"first", "second"}
ThreeContexts == {[id |-> "k1", deadline |-> 1], [id |-> "k1", deadline |-> 2],
                  [id |-> "k2", deadline |-> 1]}

ReservedNames == {"run_id", "host_path"}
UnsafeNames == {"token"}

-----------------------------------------------------------------------------
Described(name, schema) == [name |-> name, schema |-> schema, available |-> TRUE]

Process == Described("process.execute", ProcessSchema)
Skill == Described("skill.activate", SkillSchema({Str(8, "safe"), Str(8, "odd_root")}))

One(schema) == Closed([x |-> schema], {"x"})
Nested(schema) == One(One(One(One(schema))))

\* Schemas of other handlers: unusual ones that are registered ...
Unusual ==
  {One([type |-> "boolean", enum |-> {Num(1)}]), One([type |-> "number", minimum |-> 1, maximum |-> 2]),
   One([type |-> "array", items |-> Text(0, 2), minItems |-> 1, maxItems |-> 2]),
   Nested([type |-> "integer"])}

\* ... and some that are not.
Broken ==
  {One([type |-> "array", items |-> Text(0, 2)]), One([type |-> "array", maxItems |-> 1]),
   One([type |-> "array", items |-> None, maxItems |-> 1]), One([minimum |-> 1]), One(None),
   [type |-> "object", required |-> {}, additionalProperties |-> FALSE],
   [type |-> "object", properties |-> [x |-> Text(0, 1)]], Text(0, 1), Nested(One(Text(0, 1))),
   Closed([x |-> Text(0, 1)], {"y"}), Closed([run_id |-> Text(0, 1)], {}),
   Closed([token |-> Text(0, 1)], {}), One(Text(2, 1)), One(Text(0, 262145)),
   One([type |-> "string", enum |-> {}]), One([type |-> "string", enum |-> {Str(1, "unsafe")}]),
   One([type |-> "integer", minimum |-> 2, maximum |-> 1]), One([type |-> "boolean", minimum |-> 1])}

TheWirings ==
  {<<Process, Skill>>, <<Process, Skill, Process>>, <<[Process EXCEPT !.available = FALSE], Skill>>}
    \cup {<<Described("other", schema)>> : schema \in Unusual \cup Broken}

-----------------------------------------------------------------------------
Obj(fields) == [kind |-> "object", fields |-> fields]
Command == Str(2, "plain")
Variable(name, value) == Obj([name |-> name, value |-> value])
Artifact(path) == Obj([path |-> Str(3, path)])

ProcessArguments ==
  {[command |-> Command],
   [command |-> Command, artifacts |-> List(<<Artifact("out"), Artifact("log")>>)],
   [command |-> Command, artifacts |-> List(<<Artifact("out"), Artifact("link")>>)],
   [command |-> Command, artifacts |-> List(<<Artifact("out"), Artifact("secret")>>)],
   [command |-> Command, artifacts |-> List(<<Artifact("a"), Artifact("b"), Artifact("c")>>)],
   [command |-> Command, artifacts |-> List(<<Obj([path |-> Str(3, "out"), media_type |-> Str(3, "bad")])>>)],
   [command |-> Command, artifacts |-> List(<<Str(3, "out")>>)],
   [command |-> Command, args |-> List(<<Str(1, "plain"), Str(0, "plain"), Str(1, "plain")>>)],
   [command |-> Str(4, "odd"), artifacts |-> List(<<Artifact("out"), Artifact("log")>>)],
   [command |-> Command, args |-> List(<<Str(1, "nul")>>)],
   [command |-> Command, args |-> List(<<Str(1, "surrogate")>>)],
   [command |-> Command, args |-> List(<<Num(1)>>)],
   [command |-> Command, args |-> Str(1, "plain")],
   [command |-> Command, timeout |-> Num(0)],
   [command |-> Command, timeout |-> Num(30)], [command |-> Command, timeout |-> Num(31)],
   [command |-> Command, timeout |-> [kind |-> "boolean", n |-> 1, is |-> "plain"]],
   [command |-> Command, stdin |-> Str(2, "surrogate")],
   [command |-> Command, stdin |-> Str(2, "wide")], [command |-> Command, stdin |-> Str(5, "plain")],
   [command |-> Command, env |-> List(<<Variable(Str(4, "plain"), Str(0, "plain")),
                                        Variable(Str(4, "plain"), Str(1, "plain"))>>)],
   [command |-> Command, env |-> List(<<Variable(Str(4, "bad"), Str(0, "plain"))>>)],
   [command |-> Command, env |-> List(<<Obj([name |-> Str(4, "plain")])>>)],
   [command |-> Command, cwd |-> Str(3, "surrogate")], [command |-> Command, cwd |-> Str(3, "missing")], [command |-> Command, cwd |-> Str(0, "plain")],
   [command |-> Command, host_path |-> Str(1, "plain")], [command |-> Command, shell |-> Num(1)],
   [cwd |-> Str(1, "plain")]}
     \cup {[command |-> Str(4, is)] : is \in {"nul", "relative", "surrogate", "missing", "data"}}

SkillArguments == {[name |-> Str(8, is)] : is \in {"safe", "odd_root", "unknown"}}

RECURSIVE Deep(_, _)
Deep(value, depth) == IF depth = 0 THEN value ELSE Obj([x |-> Deep(value, depth - 1)])

OtherArguments ==
  {[x |-> value] : value \in
     {Num(1), [kind |-> "boolean", n |-> 1, is |-> "plain"], [kind |-> "float", n |-> 3, is |-> "plain"],
      List(<<>>), List(<<Str(1, "plain")>>), List(<<Str(1, "plain"), Str(3, "plain")>>),
      Deep(Num(1), 3), Deep(Num(1), 2)}}

Requests(name, arguments) == {[name |-> name, arguments |-> Obj(f)] : f \in arguments}

TheRequests ==
  Requests("process.execute", ProcessArguments) \cup Requests("skill.activate", SkillArguments)
    \cup Requests("other", OtherArguments)

\* Silent; at the limit of both streams, in ASCII or not; and the failures.
Output(n, is) == [stdout |-> Str(n, is), stderr |-> Str(n, is), exceeded |-> FALSE,
                  protected |-> FALSE, exit |-> 0]
TheOutputs ==
  {Output(0, "plain"), Output(StreamLimit, "plain"), Output(StreamLimit, "wide"),
   [Output(StreamLimit, "wide") EXCEPT !.exceeded = TRUE],
   [Output(1, "plain") EXCEPT !.protected = TRUE], [Output(1, "plain") EXCEPT !.exit = 1]}

=============================================================================
