--------------------------- MODULE PersistentRun ---------------------------
(***************************************************************************)
(* PersistentRuntime.execute (anban/runtime/service.py): one Task, one Run, *)
(* one agent.  The service brackets FixedGeneralAgent (agent.py), whose     *)
(* model calls go through PersistedModelPort (persistence.py) and whose     *)
(* Capability calls are the two tasks of CapabilityPort.  What the model    *)
(* answers and which call it asks for are nondeterministic.                 *)
(*   The agent may be cancelled at any of its awaits, by its own deadline   *)
(* or by an interrupt; an interrupt at an await of the service itself goes  *)
(* through execute and ends the process of the run command.                 *)
(***************************************************************************)
EXTENDS CapabilityPort, Observability

CONSTANTS
  MaxTurns,        \* AgentLimits.max_model_turns
  RepairRetries,   \* response_repair_retries
  ArtifactBudget,  \* the Artifacts one outcome can hold (32 in the code)
  RequestsFit,     \* whether ModelRequest accepts every conversation of the run;
                   \* GeneralAgent says when it does
  AfterInterrupt   \* where an interrupt at an await of the service leads:
                   \* "dead", or "interrupt" when the chat command handles it
\* AgentLimits.max_capability_calls is the number of elements of Invocation.

ASSUME LimitsAssumption ==
  /\ MaxTurns \in Nat \ {0} /\ RepairRetries \in Nat /\ ArtifactBudget \in Nat
  /\ RequestsFit \in BOOLEAN
  /\ AfterInterrupt \in {"dead", "interrupt"}

VARIABLES
  svc,        \* where execute is
  agent,      \* where the agent is while svc = "agent"
  turn,       \* the model request in progress
  progress,   \* ExecutionProgress: turns, calls, artifacts; and repairs used
  stop,       \* why the agent was cancelled: "none", "timed_out", "cancelled"
  outcome,    \* AgentOutcome: status and the counts of run.final / run.error
  persisted   \* ExecutionResult.persisted

svars == <<svc, agent, turn, progress, stop, outcome, persisted>>
runvars == <<pvars, cvars, svars>>

Reasons == {"timed_out", "cancelled"}

NoOutcome == [status |-> "none", counts |-> <<0, 0, 0>>]

RunInit ==
  /\ PInit /\ CInit
  /\ svc = "initialize" /\ agent = "turn"
  /\ turn = [repair |-> FALSE, failure |-> "none"]
  /\ progress = [turns |-> 0, calls |-> 0, arts |-> 0, repairs |-> 0]
  /\ stop = "none" /\ outcome = NoOutcome /\ persisted = FALSE

-----------------------------------------------------------------------------
(***************************************************************************)
(* FixedGeneralAgent.                                                       *)
(***************************************************************************)
\* Mutant: two counts are swapped.
LeaveSwapped(status, p) ==
  /\ svc' = "finish"
  /\ outcome' = [status |-> status, counts |-> <<p.calls, p.turns, p.arts>>]
  /\ progress' = p
  /\ UNCHANGED <<agent, turn, persisted>>

\* The agent returns; counts are those of progress p.
Leave(status, p) ==
  /\ svc' = "finish"
  /\ outcome' = [status |-> status, counts |-> <<p.turns, p.calls, p.arts>>]
  /\ progress' = p
  /\ UNCHANGED <<agent, turn, persisted>>

GoOn(at, p) ==
  /\ agent' = at
  /\ progress' = p
  /\ UNCHANGED <<svc, turn, outcome, persisted, stop>>

\* CancelledError at an await of the agent itself.
Stop(p) == \E reason \in Reasons : stop' = reason /\ Leave(reason, p)

\* Mutant: a failing write does not end the agent.
AwaitingLeniently(end, at, p) ==
  \/ end \in {"ok", "error"} /\ GoOn(at, p)
  \/ end = "cancelled" /\ Stop(p)

\* An await on persistence: where the agent goes when it succeeds.
Awaiting(end, at, p) ==
  \/ end = "ok" /\ GoOn(at, p)
  \/ end = "error" /\ Leave("failed", p) /\ UNCHANGED stop
  \/ end = "cancelled" /\ Stop(p)

At(phase) == svc = "agent" /\ agent = phase

TurnsLeft == progress.turns < MaxTurns

TurnBudgetSpent ==
  /\ At("turn") /\ ~TurnsLeft
  /\ Leave("failed", progress)
  /\ UNCHANGED <<pvars, cvars, stop>>

\* progress.model_turns += 1, then PersistedModelPort.complete begins.
RequestTurn ==
  /\ At("turn") /\ TurnsLeft
  /\ \E end \in Ends :
       /\ ModelRequested(turn.repair, end)
       /\ Awaiting(end, "model", [progress EXCEPT !.turns = @ + 1])
  /\ UNCHANGED cvars

\* The turn is counted and ModelRequest refuses the conversation: too long, or
\* with a call identity that an earlier turn has used.
RefusedRequest ==
  /\ At("turn") /\ TurnsLeft /\ ~RequestsFit /\ progress.calls > 0
  /\ Leave("failed", [progress EXCEPT !.turns = @ + 1])
  /\ UNCHANGED <<pvars, cvars, stop>>

\* MODEL_TIMEOUT, MODEL_RESPONSE_INVALID (repairable or not), anything else.
Failures == {"late", "invalid", "repairable", "other"}

\* The provider answers, fails, or the agent is cancelled while it waits.
ModelAnswers ==
  /\ At("model")
  /\ \/ GoOn("completed", progress)
     \/ \E failure \in Failures :
          /\ agent' = "failed"
          /\ turn' = [turn EXCEPT !.failure = failure]
          /\ UNCHANGED <<svc, progress, stop, outcome, persisted>>
     \/ Stop(progress)
  /\ UNCHANGED <<pvars, cvars>>

RecordAnswer ==
  /\ At("completed")
  /\ \E end \in Ends :
       /\ ModelCompleted(turn.repair, end)
       /\ Awaiting(end, "decide", progress)
  /\ UNCHANGED cvars

\* After model.failed is durable the error reaches the loop, which asks for a
\* repair while the budgets and the deadline last.
RecordFailure ==
  /\ At("failed")
  /\ \E end \in Ends :
       /\ ModelFailed(turn.failure \in {"invalid", "repairable"}, turn.repair, end)
       /\ \/ /\ end = "ok" /\ turn.failure = "repairable"
             /\ progress.repairs < RepairRetries /\ TurnsLeft
             /\ agent' = "turn"
             /\ turn' = [repair |-> TRUE, failure |-> "none"]
             /\ progress' = [progress EXCEPT !.repairs = @ + 1]
             /\ UNCHANGED <<svc, stop, outcome, persisted>>
          \/ /\ end # "cancelled"
             /\ Leave(IF end = "ok" /\ turn.failure = "late" THEN "timed_out"
                                                            ELSE "failed", progress)
             /\ UNCHANGED stop
          \/ end = "cancelled" /\ Stop(progress)
  /\ UNCHANGED cvars

\* A final text, or a refusal: unsafe text, replayed or repeated calls, a call
\* budget, no progress.
Answer ==
  /\ At("decide")
  /\ \E status \in {"succeeded", "failed"} : Leave(status, progress)
  /\ UNCHANGED <<pvars, cvars, stop>>

\* The next Capability call of the turn.
CallCapability ==
  /\ At("decide") \/ At("calls")
  /\ \E i \in Invocation : Invoke(i)
  /\ GoOn("waiting", [progress EXCEPT !.calls = @ + 1])
  /\ UNCHANGED pvars

\* Between two calls the agent may reach a limit; after the last one it asks
\* the model again.
RoundOver ==
  /\ At("calls")
  /\ \/ Leave("failed", progress) /\ UNCHANGED stop
     \/ /\ agent' = "turn"
        /\ turn' = [repair |-> FALSE, failure |-> "none"]
        /\ UNCHANGED <<svc, progress, stop, outcome, persisted>>
  /\ UNCHANGED <<pvars, cvars>>

\* _invoke_capability after its shield: what the result makes of the Run.
CallReturns ==
  /\ At("waiting") /\ Awaited
  /\ LET held == [progress EXCEPT !.arts = @ + Len(call.arts)] IN
     IF call.end = "error" \/ held.arts > ArtifactBudget
       THEN Leave("failed", progress) /\ UNCHANGED stop
     ELSE \/ call.result \in {"succeeded", "failed"} /\ GoOn("calls", held)
          \/ call.result # "succeeded" /\ Leave(call.result, held) /\ UNCHANGED stop
  /\ UNCHANGED pvars

\* The deadline or an interrupt during a Capability call.
CallCancelled ==
  /\ At("waiting") /\ Cancelled
  /\ stop' \in Reasons
  /\ UNCHANGED <<svc, agent, turn, progress, outcome, persisted>>

\* The AnbanError of a failed stop takes the place of the CancelledError.
CallStopped ==
  /\ At("waiting") /\ WaiterStops
  /\ IF waiter' = "cancelled"
       THEN Leave(IF stopError THEN "failed" ELSE stop, progress)
       ELSE UNCHANGED <<svc, agent, turn, progress, outcome, persisted>>
  /\ UNCHANGED stop

Agent ==
  \/ TurnBudgetSpent \/ RequestTurn \/ RefusedRequest
  \/ ModelAnswers \/ RecordAnswer \/ RecordFailure
  \/ Answer \/ CallCapability \/ RoundOver \/ CallReturns \/ CallStopped

-----------------------------------------------------------------------------
(***************************************************************************)
(* PersistentRuntime.                                                       *)
(***************************************************************************)
Service(at) == svc = at /\ UNCHANGED <<cvars, agent, turn, progress, stop>>

Goes(end, ok, error) ==
  /\ svc' = CASE end = "ok" -> ok [] end = "error" -> error [] OTHER -> AfterInterrupt
  /\ UNCHANGED persisted

\* Mutant: the last match is not looked at.
ReturnsPersisted(flag) == svc' = "done" /\ persisted' = TRUE

Returns(flag) == svc' = "done" /\ persisted' = flag

\* storage_failure_outcome: the counts of the agent, none during setup.
Failed == outcome' = [outcome EXCEPT !.status = "failed"]

Setup ==
  \E end \in Ends :
    /\ \/ Service("initialize") /\ Initialize(end) /\ Goes(end, "start", "recover")
       \/ Service("start") /\ Start(end) /\ Goes(end, "agent", "recover")
    /\ IF end = "error" THEN Failed ELSE UNCHANGED outcome

Finalize ==
  /\ Service("finish") /\ UNCHANGED outcome
  /\ \E end \in Ends :
       /\ Finish(outcome.status, outcome.counts, end)
       /\ IF end = "ok" THEN Returns(TRUE) ELSE Goes(end, "done", "match")

\* matches_terminal in execute; storage_failure_outcome when it does not.
MatchTerminal ==
  /\ Service("match")
  /\ \E end \in Ends :
       /\ Load(end)
       /\ IF end = "ok" /\ db.status[Run] = outcome.status
            THEN Returns(TRUE) /\ UNCHANGED outcome
            ELSE Goes(end, "recover", "recover") /\ Failed

\* Mutant: a Run that was created and never started is finished directly.
RecoveryWithoutStart == "recover_finish"

\* "if aggregate.run.status.value == "created": await persistence.start()"
Recovery == IF db.status[Run] = "created" THEN "recover_start" ELSE "recover_finish"

\* recover_terminal: an AnbanError in any of its steps returns False.
RecoverLoad ==
  /\ Service("recover") /\ UNCHANGED outcome
  /\ \E end \in Ends :
       /\ Load(end)
       /\ IF end = "error" \/ (end = "ok" /\ db.status[Run] = Absent) THEN Returns(FALSE)
          ELSE IF end = "ok" /\ db.status[Run] = outcome.status THEN Returns(TRUE)
          ELSE Goes(end, Recovery, "dead")

\* Mutant: a failing recovery starts over.
RecoveringAgain(at, next) ==
  /\ Service(at) /\ UNCHANGED outcome
  /\ \E end \in Ends :
       /\ \/ at = "recover_start" /\ Start(end)
          \/ at = "recover_finish" /\ Finish(outcome.status, outcome.counts, end)
       /\ Goes(end, next, "recover")

Recovering(at, next) ==
  /\ Service(at) /\ UNCHANGED outcome
  /\ \E end \in Ends :
       /\ \/ at = "recover_start" /\ Start(end)
          \/ at = "recover_finish" /\ Finish(outcome.status, outcome.counts, end)
       /\ IF end = "error" THEN Returns(FALSE) ELSE Goes(end, next, "dead")

RecoverMatch ==
  /\ Service("recover_match") /\ UNCHANGED outcome
  /\ \E end \in Ends :
       /\ Load(end)
       /\ IF end = "cancelled" THEN Goes(end, "done", "done")
          ELSE Returns(end = "ok" /\ db.status[Run] = outcome.status)

Runtime ==
  \/ Setup \/ Finalize \/ MatchTerminal \/ RecoverLoad \/ RecoverMatch
  \/ Recovering("recover_start", "recover_finish")
  \/ Recovering("recover_finish", "recover_match")

RunNext ==
  \/ Agent
  \/ CallCancelled
  \/ InvocationTask /\ UNCHANGED svars
  \/ Runtime
  \/ Settle /\ UNCHANGED <<cvars, svars>>

\* Every ready task is resumed and every awaited answer comes: the provider
\* and the handlers have time limits of their own, the server decides.
RunSpec ==
  /\ RunInit /\ [][RunNext]_runvars
  /\ WF_runvars(Agent) /\ WF_runvars(Runtime)
  /\ WF_runvars(InvocationTask /\ UNCHANGED svars)
  /\ WF_runvars(Settle /\ UNCHANGED <<cvars, svars>>)

-----------------------------------------------------------------------------
(***************************************************************************)
(* Properties.                                                              *)
(***************************************************************************)
RTypeOK ==
  /\ CTypeOK
  /\ svc \in {"initialize", "start", "agent", "finish", "match", "recover",
              "recover_start", "recover_finish", "recover_match", "done", "dead"}
  /\ agent \in {"turn", "model", "completed", "failed", "decide", "calls", "waiting"}
  /\ turn \in [repair : BOOLEAN, failure : Failures \cup {"none"}]
  /\ progress \in [turns : 0 .. MaxTurns, calls : Nat, arts : 0 .. ArtifactBudget,
                   repairs : 0 .. RepairRetries]
  /\ stop \in Reasons \cup {"none"}
  /\ outcome.status \in Terminal \cup {"none"} /\ outcome.counts \in Seq(Nat)
  /\ persisted \in BOOLEAN

\* ExecutionResult.persisted is never a guess: whatever acknowledgement or
\* read was lost on the way, the Run is durably in the state it reports.
PersistedMeansDurable ==
  svc = "done" /\ persisted => db.status[Run] = outcome.status

\* A Run that is durably succeeded has a complete trace: no lost write, no
\* open Invocation, no wrong count ever becomes ordinary success.
SuccessIsConsistent == db.status[Run] = "succeeded" => InspectConsistency(db) = {}

\* What a refused request leaves behind: a turn that was counted and not asked.
Excused == IF RequestsFit THEN {} ELSE {"model_turn_count_mismatch"}

\* Without a failure and without a cancellation every outcome of execute, the
\* failed ones too, is persisted with a trace that is consistent but for the turn
\* that a refused request leaves counted.
QuietRunIsConsistent ==
  svc = "done" /\ faults = 0 /\ stop = "none" =>
    persisted /\ InspectConsistency(db) \subseteq Excused

\* One failing database call never makes execute give up a Run that exists:
\* either the write is found committed or the failed outcome takes its place,
\* unless the server decided the failed write so late that it is still open or
\* that the counter has missed its Events.
OneFaultRecovers ==
  [][svc # "done" /\ svc' = "done" /\ faults' <= 1 /\ stop = "none" =>
       \/ persisted' /\ db'.status[Run] \in Terminal
       \/ inDoubt # {} \/ seq < LastNumber(db) \/ db.status[Run] = Absent]_runvars

\* Nothing is written about a Run once it is terminal: no retry, recovery or
\* Capability task outlives the final transaction.
TerminalRunIsSilent == [][db.status[Run] \in Terminal => UNCHANGED db]_runvars

\* execute returns, or the process dies of an interrupt.
ExecuteEnds == <>(svc \in {"done", "dead"})

\* anban/runtime/observability.py:225-230 compares the turns of the final Event
\* with the requests in the log.  They agree when nothing has failed.
QuietTurnsAreLogged ==
  svc = "done" /\ faults = 0 /\ stop = "none" =>
    "model_turn_count_mismatch" \notin InspectConsistency(db)

\* docs/architecture/lifecycle-and-errors.md:37: "Timeout and interruption
\* also remain distinct terminal semantics."  A Run whose deadline expired is
\* not durably failed when no database call has failed.
TimeoutIsNotFailure ==
  svc = "done" /\ stop = "timed_out" /\ faults = 0 => db.status[Run] = "timed_out"

=============================================================================
