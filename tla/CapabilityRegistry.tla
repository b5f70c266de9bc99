------------------------ MODULE CapabilityRegistry -------------------------
(***************************************************************************)
(* CapabilityRegistry (anban/capability/registry.py) with the handlers that *)
(* local_capability_registry gives it: which calls reach a handler, what    *)
(* the handler is told, and which call a cancellation reaches.              *)
(*   Several callers share one Registry.  What happens between two awaits   *)
(* is one step; process.execute awaits the spawn and the output, and        *)
(* ProcessExecute has the details of both.  A call keeps a few facts after  *)
(* its end, for the properties.                                             *)
(***************************************************************************)
EXTENDS ProcessCall

CONSTANTS
  Caller,
  Context,      \* InvocationContexts: an identity and a deadline
  Wirings,      \* the sequences of descriptors a Registry may be built from
  Request,      \* a Capability name and its arguments
  Outputs,      \* what a process may leave
  UnsafeSkill   \* Skills whose root no SafeMetadata accepts

\* InvocationContext, and None where a table has none.
ASSUME ContextAssumption == None \notin Context

\* local_capability_registry: this name stands for the descriptor of process.execute.
ASSUME WiringsAssumption ==
  \A wiring \in Wirings : \A k \in DOMAIN wiring :
    wiring[k].name = "process.execute" => wiring[k].schema = ProcessSchema

\* Arguments are a JSON object; what it has in it is a list or has a number.
ASSUME RequestAssumption ==
  \A request \in Request :
    /\ request.arguments.kind = "object"
    /\ \A f \in DOMAIN request.arguments.fields :
         LET value == request.arguments.fields[f] IN
         /\ value.kind = "array" =>
              Len(value.items) \in Nat /\ DOMAIN value.items = 1 .. Len(value.items)
         /\ value.kind = "integer" => value.n \in Int

\* _collect_output stops reading a stream at its limit.
ASSUME OutputsAssumption ==
  \A output \in Outputs :
    output.stdout.n \in 0 .. StreamLimit /\ output.stderr.n \in 0 .. StreamLimit

VARIABLES
  handlers,   \* _handlers: a descriptor for each registered name
  active,     \* _active: the context for each identity, or None
  processes,  \* ProcessCapability._processes: identities
  cancelled,  \* ProcessCapability._cancelled: identities
  call,       \* each caller in invoke
  stopping    \* identities that a cancel is stopping

vars == <<handlers, active, processes, cancelled, call, stopping>>

Identity == {c.id : c \in Context}

NoCall == [at |-> "idle", context |-> None, command |-> "none", declared |-> <<>>, end |-> "none",
           kept |-> {}, stuck |-> FALSE, accepted |-> FALSE]

Init ==
  /\ handlers = None
  /\ active = [id \in Identity |-> None]
  /\ processes = {} /\ cancelled = {} /\ stopping = {}
  /\ call = [c \in Caller |-> NoCall]

-----------------------------------------------------------------------------
Names(wiring) == {wiring[k].name : k \in DOMAIN wiring}

\* __init__ and register: an invalid schema or a name registered twice is a
\* ValueError, and there is no Registry.
Build(wiring) ==
  /\ handlers = None
  /\ \A k \in DOMAIN wiring : WellFormed(wiring[k].schema)
  /\ Cardinality(Names(wiring)) = Len(wiring)
  /\ handlers' = [name \in Names(wiring) |->
                    wiring[CHOOSE k \in DOMAIN wiring : wiring[k].name = name]]
  /\ UNCHANGED <<active, processes, cancelled, call, stopping>>

\* Mutant: the finally clause of the handler forgets the mark of cancellation.
FinishMarked(c, result) ==
  LET id == call[c].context.id IN
  /\ call' = [call EXCEPT ![c] = [@ EXCEPT !.at = "over", !.context = None, !.end = result.end,
                                           !.kept = result.kept, !.stuck = result.stuck]]
  /\ active' = [active EXCEPT ![id] = None]
  /\ processes' = processes \ {id} /\ UNCHANGED cancelled

\* A call that is over, with what the finally clauses of the handler and of the
\* Registry remove.
Finish(c, result) ==
  LET id == call[c].context.id IN
  /\ call' = [call EXCEPT ![c] = [@ EXCEPT !.at = "over", !.context = None, !.end = result.end,
                                           !.kept = result.kept, !.stuck = result.stuck]]
  /\ active' = [active EXCEPT ![id] = None]
  /\ processes' = processes \ {id} /\ cancelled' = cancelled \ {id}

Ended(end) == [end |-> end, kept |-> {}, stuck |-> FALSE]

\* A call that ends before its first await, without a trace in the tables.
EndAtOnce(c, end) ==
  /\ call' = [call EXCEPT ![c] = [NoCall EXCEPT !.at = "over", !.end = end]]
  /\ UNCHANGED <<active, processes, cancelled>>

\* What invoke refuses before it calls a handler, in its order.
Refusals(request, id) ==
  IF request.name \notin DOMAIN handlers THEN {"unknown"}
  ELSE LET descriptor == handlers[request.name]
           faults == ArgumentFaults(descriptor.schema, request.arguments)
       IN IF ~descriptor.available THEN {"unavailable"}
          ELSE IF faults # {} THEN faults
          ELSE IF active[id] # None THEN {"identity_active"} ELSE {}

\* process.execute has nothing against these arguments and awaits the spawn.
Awaits(request) ==
  request.name = "process.execute" /\ HandlerFault(request.arguments.fields) = "none"

\* The token of the command.
Program(request) == Argument(request.arguments.fields, "command").is

\* How a handler ends that does not await: the checks of process.execute, a
\* deadline that has passed; skill.activate; any other handler, whose AnbanError
\* passes and whose other exceptions and invalid results become one error.
AtOnce(request) ==
  CASE request.name = "process.execute" ->
         {IF Awaits(request) THEN Reported(Program(request), "timed_out")
            ELSE HandlerFault(request.arguments.fields)}
    [] request.name = "skill.activate" ->
         {IF request.arguments.fields.name.is \in UnsafeSkill
            THEN "execution_failed" ELSE "completed"}
    [] OTHER -> {"completed", "handler_error", "execution_failed"}

Invoke(c, request, context) ==
  /\ handlers # None /\ call[c].at = "idle"
  /\ LET refusals == Refusals(request, context.id) IN
     \/ \E reason \in refusals : EndAtOnce(c, reason)
     \/ refusals = {} /\ \E end \in AtOnce(request) : EndAtOnce(c, end)
     \/ /\ refusals = {} /\ Awaits(request)
        /\ active' = [active EXCEPT ![context.id] = context]
        /\ call' = [call EXCEPT ![c] = [@ EXCEPT !.at = "spawn", !.context = context,
                                        !.command = Program(request),
                                        !.declared = Declared(request.arguments.fields)]]
        /\ UNCHANGED <<processes, cancelled>>
  /\ UNCHANGED <<handlers, stopping>>

\* create_subprocess_exec returns, or raises.
Spawned(c) ==
  /\ call[c].at = "spawn"
  /\ \/ /\ processes' = processes \cup {call[c].context.id}
        /\ call' = [call EXCEPT ![c].at = "running"]
        /\ UNCHANGED <<active, cancelled>>
     \/ Finish(c, Ended(Reported(call[c].command, "spawn_failed")))
  /\ UNCHANGED <<handlers, stopping>>

\* _collect_output returns: everything up to the end of invoke is one step.
Returns(c) ==
  /\ call[c].at = "running"
  /\ \E output \in Outputs :
       \E result \in Results(call[c].context.id \in cancelled, output, call[c].declared,
                             call[c].command) :
         Finish(c, result)
  /\ UNCHANGED <<handlers, stopping>>

\* The timeout of the call; a signal that a stop of its own may not send, whose
\* PermissionError becomes an execution failure; or a CancelledError at an await.
StopsWaiting(c) ==
  /\ \/ /\ call[c].at = "running"
        /\ \/ Finish(c, Ended(Reported(call[c].command, "timed_out")))
           \/ Finish(c, Ended("signal_refused"))
     \/ call[c].at \in {"spawn", "running"} /\ Finish(c, Ended("interrupted"))
  /\ UNCHANGED <<handlers, stopping>>

\* Mutant: any context of the identity will do.
CancelAny(context) ==
  /\ context.id \in processes
  /\ cancelled' = cancelled \cup {context.id} /\ stopping' = stopping \cup {context.id}
  /\ call' = [c \in Caller |-> IF call[c].context = context
                                 THEN [call[c] EXCEPT !.accepted = TRUE] ELSE call[c]]
  /\ UNCHANGED <<handlers, active, processes>>

\* CapabilityRegistry.cancel refuses an identity that is not active and a
\* context that is not the authoritative one; ProcessCapability.cancel does
\* nothing as long as there is no process.
Cancel(context) ==
  /\ active[context.id] = context /\ context.id \in processes
  /\ cancelled' = cancelled \cup {context.id} /\ stopping' = stopping \cup {context.id}
  /\ call' = [c \in Caller |-> IF call[c].context = context
                                 THEN [call[c] EXCEPT !.accepted = TRUE] ELSE call[c]]
  /\ UNCHANGED <<handlers, active, processes>>

\* _stop_process returns or raises; the call may be over by then.
CancelReturns(id) ==
  /\ id \in stopping
  /\ stopping' = stopping \ {id}
  /\ UNCHANGED <<handlers, active, processes, cancelled, call>>

Next ==
  \/ \E wiring \in Wirings : Build(wiring)
  \/ \E c \in Caller :
       \/ \E request \in Request, context \in Context : Invoke(c, request, context)
       \/ Spawned(c) \/ Returns(c) \/ StopsWaiting(c)
  \/ \E context \in Context : Cancel(context)
  \/ \E id \in Identity : CancelReturns(id)

Spec == Init /\ [][Next]_vars

-----------------------------------------------------------------------------
(***************************************************************************)
(* Properties.                                                              *)
(***************************************************************************)
Inside(c) == call[c].at \in {"spawn", "running"}

\* The tables say exactly which calls are inside a handler: at most one for an
\* identity, each with its own context; the processes are those of the running
\* calls and the marks of cancellation those of the running calls that a cancel was
\* accepted for.  However a call ends it leaves no entry behind, and a second call
\* with its identity, refused or admitted after it, neither loses nor inherits one.
TablesAreExact ==
  /\ \A id \in Identity :
       {call[c].context : c \in {d \in Caller : Inside(d) /\ call[d].context.id = id}}
         = {active[id]} \ {None}
  /\ \A c, d \in Caller : Inside(c) /\ Inside(d) /\ c # d => call[c].context.id # call[d].context.id
  /\ processes = {call[c].context.id : c \in {d \in Caller : call[d].at = "running"}}
  /\ cancelled = {call[c].context.id : c \in {d \in Caller : call[d].at = "running"
                                                            /\ call[d].accepted}}

\* A call ends as cancelled only if a cancel with its own context was accepted
\* while it ran; the cancellation of an earlier call with its identity, or with
\* another deadline, never reaches it.  And one that was accepted is told: the call
\* is not reported as completed or failed, as long as its result can be made and
\* the process may be signalled.
CancelIsForItsCall ==
  \A c \in Caller : call[c].at = "over" =>
    /\ call[c].end = "cancelled" => call[c].accepted
    /\ call[c].accepted /\ call[c].command # "odd" =>
         call[c].end \in {"cancelled", "timed_out", "interrupted", "signal_refused"}

\* The schema in the descriptor says all that a schema can say: a handler never
\* sees an argument of the wrong type, a timeout or a number of Artifacts out of
\* bounds, and no walk over the arguments of a registered schema ends in
\* SchemaDefinitionError, which invoke does not catch.
SchemaSpeaksForHandler ==
  \A c \in Caller :
    call[c].end \notin {"schema_error", "argument_type", "environment_type", "artifact_type",
                        "timeout_limit", "artifact_limit"}

Whole(c) ==
  IF call[c].end = "completed" THEN call[c].kept = DOMAIN call[c].declared
  ELSE call[c].kept = {} \/ call[c].stuck

\* A call leaves the snapshots of all its declared Artifacts, and says so, or
\* none, whichever file cannot be read, written or is declared twice; only a
\* deletion that fails leaves snapshots that nobody knows.  This is so for every
\* command whose file name a result may carry.
ReportedOrRemoved ==
  \A c \in Caller : call[c].at = "over" /\ call[c].command # "odd" => Whole(c)

\* The same for every command, which does not hold: for an odd name _result raises
\* when the snapshots are there.
SnapshotsKnown == \A c \in Caller : call[c].at = "over" => Whole(c)

=============================================================================
