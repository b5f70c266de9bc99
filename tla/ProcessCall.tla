---------------------------- MODULE ProcessCall ----------------------------
(***************************************************************************)
(* What process.execute makes of its arguments and of what its process      *)
(* leaves (anban/capability/process.py and workspace.py): the schema in its *)
(* descriptor, the checks of its handler, the collection of the declared    *)
(* Artifacts and the CapabilityResult.  Nothing here awaits; ProcessExecute *)
(* has what happens in between.                                             *)
(*   The token of a string says what it names: "nul" contains a NUL,        *)
(* "surrogate" half of a surrogate pair, "wide" needs three bytes a         *)
(* character, "odd" is a program whose file name no SafeMetadata accepts,   *)
(* and any other is a file or a program.                                    *)
(***************************************************************************)
EXTENDS ArgumentSchema

CONSTANTS
  MaxArguments, DefaultTimeout, MaxTimeout, MaxStdin,  \* [capability.process]
  MaxDeclared, StreamLimit

HardLimit == 262144

\* ProcessConfiguration and its validate_timeout_order.
ASSUME ProcessAssumption ==
  /\ MaxArguments \in 1 .. 256 /\ MaxDeclared \in 1 .. 32
  /\ MaxStdin \in 1 .. HardLimit /\ StreamLimit \in 1 .. HardLimit
  /\ MaxTimeout \in 1 .. 600 /\ DefaultTimeout \in 1 .. MaxTimeout

Text(low, high) == [type |-> "string", minLength |-> low, maxLength |-> high]
ListOf(schema, high) == [type |-> "array", items |-> schema, maxItems |-> high]
Closed(properties, required) ==
  [type |-> "object", properties |-> properties, required |-> required,
   additionalProperties |-> FALSE]

\* Mutant: the timeout is bounded by what any configuration may allow.
HardTimeoutSchema ==
  Closed([command |-> Text(1, 4096), timeout |-> [type |-> "integer", minimum |-> 1,
                                                  maximum |-> 600]], {"command"})

\* _build_descriptor.
ProcessSchema ==
  Closed([command |-> Text(1, 4096),
          args |-> ListOf(Text(0, 16384), MaxArguments),
          cwd |-> Text(1, 4096),
          env |-> ListOf(Closed([name |-> Text(1, 128), value |-> Text(0, 4096)],
                                {"name", "value"}), 64),
          stdin |-> Text(0, MaxStdin),
          timeout |-> [type |-> "integer", minimum |-> 1, maximum |-> MaxTimeout],
          artifacts |-> ListOf(Closed([path |-> Text(1, 4096), media_type |-> Text(3, 128)],
                                      {"path"}), MaxDeclared)],
         {"command"})

\* SkillActivationCapability.__init__.
SkillSchema(slugs) ==
  Closed([name |-> [type |-> "string", enum |-> slugs, maxLength |-> 128]], {"name"})

-----------------------------------------------------------------------------
(***************************************************************************)
(* The handler's own checks, in their order.                                *)
(***************************************************************************)
Str(n, is) == [kind |-> "string", n |-> n, is |-> is]
Num(n) == [kind |-> "integer", n |-> n, is |-> "plain"]
List(items) == [kind |-> "array", items |-> items]
Nothing == [kind |-> "none"]

Defaults ==
  [command |-> Nothing, args |-> List(<<>>), cwd |-> Str(1, "plain"),
   timeout |-> Num(DefaultTimeout), stdin |-> Nothing, env |-> List(<<>>),
   artifacts |-> List(<<>>)]

Argument(fields, name) == Get(fields, name, Defaults[name])

Bytes(text) == IF text.is = "wide" THEN 3 * text.n ELSE text.n

IsText(v) == v.kind = "string"

\* A key of a list item, None for anything else.
Item(v, key) == IF v.kind = "object" THEN Get(v.fields, key, Nothing) ELSE Nothing

Typed(f) ==
  LET args == Argument(f, "args") IN
  /\ IsText(Argument(f, "command")) /\ IsText(Argument(f, "cwd"))
  /\ args.kind = "array" /\ \A k \in DOMAIN args.items : IsText(args.items[k])
  /\ Argument(f, "timeout").kind \in {"integer", "boolean"}
  /\ Argument(f, "stdin").kind \in {"none", "string"}

\* _environment.
EnvironmentFault(env) ==
  IF env.kind # "array" THEN "environment_type"
  ELSE LET name(k) == Item(env.items[k], "name")
           value(k) == Item(env.items[k], "value")
       IN FirstFault([k \in DOMAIN env.items |->
            FirstFault(
              <<Check(env.items[k].kind = "object", "environment_type"),
                Check(/\ IsText(name(k)) /\ IsText(value(k))
                      /\ name(k).is # "bad" /\ value(k).is # "nul"
                      /\ \A j \in 1 .. k - 1 : name(j) # name(k), "environment_invalid")>>)])

\* _resolve_executable.
ExecutableFault(command) ==
  FirstFault(<<Check(command.n > 0 /\ command.is # "nul", "command_invalid"),
               Check(command.is # "relative", "relative_executable"),
               Check(command.is # "surrogate", "encode_error"),
               Check(command.is # "missing", "missing_executable"),
               Check(command.is \notin {"directory", "data"}, "not_executable")>>)

\* WorkspaceBoundary.resolve_cwd.
CwdFault(cwd) ==
  FirstFault(<<Check(cwd.n > 0 /\ cwd.is \notin {"nul", "missing", "data"}, "invalid_cwd"),
               Check(cwd.is # "surrogate", "encode_error")>>)

\* _artifact_declarations.
DeclarationFault(artifacts) ==
  IF artifacts.kind # "array" THEN "artifact_limit"
  ELSE LET media(k) == IF Item(artifacts.items[k], "media_type") = Nothing THEN Str(24, "plain")
                       ELSE Item(artifacts.items[k], "media_type")
       IN FirstFault(
            <<Check(Len(artifacts.items) <= MaxDeclared, "artifact_limit"),
              FirstFault([k \in DOMAIN artifacts.items |->
                FirstFault(
                  <<Check(artifacts.items[k].kind = "object", "artifact_type"),
                    Check(/\ IsText(Item(artifacts.items[k], "path"))
                          /\ IsText(media(k)) /\ media(k).is # "bad", "artifact_invalid")>>)])>>)

\* invoke, up to the spawn.  A UnicodeEncodeError is no AnbanError; the Registry
\* reports it as an execution failure.
HandlerFault(f) ==
  LET args == Argument(f, "args").items
      stdin == Argument(f, "stdin")
  IN
  IF ~Typed(f) THEN "argument_type"
  ELSE FirstFault(
    <<Check(Len(args) <= MaxArguments /\ \A k \in DOMAIN args : args[k].is # "nul",
            "argument_limit"),
      Check(Argument(f, "timeout").n \in 1 .. MaxTimeout, "timeout_limit"),
      Check(stdin = Nothing \/ stdin.is # "surrogate", "encode_error"),
      Check(stdin = Nothing \/ Bytes(stdin) <= MaxStdin, "stdin_limit"),
      EnvironmentFault(Argument(f, "env")),
      ExecutableFault(Argument(f, "command")),
      CwdFault(Argument(f, "cwd")),
      DeclarationFault(Argument(f, "artifacts")),
      Check(\A k \in DOMAIN args : args[k].is # "surrogate", "encode_error")>>)

-----------------------------------------------------------------------------
(***************************************************************************)
(* The Artifacts.                                                           *)
(***************************************************************************)
\* The declared paths of a call; "link" is a second path of the file "out".
Declared(f) ==
  LET items == Argument(f, "artifacts").items IN [k \in DOMAIN items |-> items[k].fields.path.is]

\* resolve_artifact, the limit and _contains_protected, for every declaration
\* before any snapshot.
Prepared(declared) ==
  LET source(k) == IF declared[k] = "link" THEN "out" ELSE declared[k] IN
  /\ \A k \in DOMAIN declared :
       declared[k] \notin {"nul", "missing", "directory", "large", "secret"}
  /\ \A j, k \in DOMAIN declared : source(j) = source(k) => j = k

\* Mutant: the snapshots that were created before a failure stay.
CollectionsKept(declared) ==
  {[ok |-> FALSE, kept |-> 1 .. n - 1, stuck |-> FALSE] : n \in DOMAIN declared}

\* _collect_artifacts and create_artifact.  A read may fail; so may the
\* creation of snapshot n, which removes its own file if it can and then
\* deletes the earlier ones in order.  A deletion that fails ends the loop,
\* what is left is "stuck".
Collections(declared) ==
  LET undone == [ok |-> FALSE, kept |-> {}, stuck |-> FALSE]
      rolledBack(n, unlinked, deleted) ==
        LET left == (deleted + 1 .. n - 1) \cup (IF unlinked THEN {} ELSE {n})
        IN [ok |-> FALSE, kept |-> left, stuck |-> left # {}]
  IN {undone} \cup
     IF ~Prepared(declared) THEN {}
     ELSE {[ok |-> TRUE, kept |-> DOMAIN declared, stuck |-> FALSE]}
            \cup UNION {{rolledBack(n, u, d) : u \in BOOLEAN, d \in 0 .. n - 1} :
                          n \in DOMAIN declared}

-----------------------------------------------------------------------------
(***************************************************************************)
(* The result.                                                              *)
(***************************************************************************)
MaxObservation == 1048576

\* json.dumps(ensure_ascii=True): a byte that is no UTF-8 becomes \ufffd.
Escaped(text) == IF text.is = "wide" THEN 6 * text.n ELSE text.n

\* The rest of the observation, 256 characters and 400 for an Artifact at most.
Fits(output, artifacts) ==
  Escaped(output.stdout) + Escaped(output.stderr) + 256 + 400 * artifacts <= MaxObservation

Verdict(cancelled, output) ==
  FirstFault(<<Check(~cancelled, "cancelled"), Check(~output.exceeded, "output_limit"),
               Check(~output.protected, "sensitive_output"),
               Check(output.exit = 0, "nonzero_exit")>>)

\* _result puts the file name of the command into a SafeMetadata, which may refuse
\* it; the Registry reports the exception as an execution failure.
Reported(command, reason) == IF command = "odd" THEN "execution_failed" ELSE reason

\* What invoke may end with once the output is there.  CapabilityResult refuses
\* an observation that does not fit, with the same consequence.
Results(cancelled, output, declared, command) ==
  LET verdict == Verdict(cancelled, output)
      result(reason, c) ==
        [end |-> IF \/ reason = "sensitive_output"
                    \/ Fits(output, IF reason = "completed" THEN Len(declared) ELSE 0)
                   THEN Reported(command, reason) ELSE "execution_failed",
         kept |-> c.kept, stuck |-> c.stuck]
  IN IF verdict # "none" THEN {result(verdict, [kept |-> {}, stuck |-> FALSE])}
     ELSE {result(IF c.ok THEN "completed" ELSE "artifact_collection_failed", c) :
             c \in Collections(declared)}

=============================================================================
