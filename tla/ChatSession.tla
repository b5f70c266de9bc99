---------------------------- MODULE ChatSession ----------------------------
(***************************************************************************)
(* PersistentChatSession (anban/runtime/service.py) as the chat command     *)
(* (anban/cli.py) drives it: one Task and one Run, one NodeRun and one      *)
(* agent per input.  The session ends by close, expire or interrupt, or     *)
(* when an input does not succeed.  The process delivers one interrupt as   *)
(* a cancellation; a second one kills it.                                   *)
(***************************************************************************)
EXTENDS PersistentRun

CONSTANT MaxInputs   \* max_user_inputs

ASSUME InputsAssumption ==
  /\ MaxInputs \in Nat \ {0}
  /\ Cardinality(Node) >= MaxInputs
  /\ AfterInterrupt = "interrupt"

VARIABLES
  inputs,   \* len(self._history)
  totals,   \* _model_turn_count, _capability_call_count, _artifact_count
  last      \* self._last_outcome

sessionvars == <<inputs, totals, last>>
chatvars == <<runvars, sessionvars>>

\* svc is "idle" between two inputs, "done" once _terminal_result is set, "over"
\* when the session closed without a Run and "dead" when an interrupt broke off close.
ChatInit ==
  /\ PInit /\ CInit
  /\ svc = "idle" /\ agent = "turn" /\ turn = [repair |-> FALSE, failure |-> "none"]
  /\ progress = [turns |-> 0, calls |-> 0, arts |-> 0, repairs |-> 0]
  /\ stop = "none" /\ outcome = NoOutcome /\ persisted = FALSE
  /\ inputs = 0 /\ totals = <<0, 0, 0>> /\ last = NoOutcome

-----------------------------------------------------------------------------
(***************************************************************************)
(* submit.                                                                  *)
(***************************************************************************)
CanContinue == inputs < MaxInputs

\* A new agent with a new ExecutionProgress.
Submit ==
  /\ svc = "idle" /\ CanContinue
  /\ svc' = IF inputs = 0 THEN "initialize" ELSE "add_node"
  /\ agent' = "turn" /\ turn' = [repair |-> FALSE, failure |-> "none"]
  /\ progress' = [turns |-> 0, calls |-> 0, arts |-> 0, repairs |-> 0]
  /\ outcome' = NoOutcome
  /\ UNCHANGED <<pvars, cvars, stop, persisted, sessionvars>>

\* The interrupt has not been delivered yet.
Interruptible(end) == end = "cancelled" => stop # "cancelled"

\* add_node and start_node of a later input.
NodeSetup ==
  /\ \E end \in Ends :
       /\ \/ /\ Service("add_node")
             /\ \E n \in Node : db.status[n] = Absent /\ AddNode(n, end)
             /\ Goes(end, "start_node", "fail_run")
          \/ Service("start_node") /\ StartNode(end) /\ Goes(end, "agent", "fail_run")
       /\ IF end = "error" THEN Failed ELSE UNCHANGED outcome
  /\ UNCHANGED sessionvars

\* "self._model_turn_count += outcome.model_turn_count", ...
Totals == [k \in 1 .. 3 |-> totals[k] + outcome.counts[k]]

\* The counts of the input enter the totals before finish_node is awaited.
FinishInput ==
  /\ Service("finish")
  /\ totals' = Totals
  /\ \E end \in Ends :
       /\ Interruptible(end)
       /\ FinishNode(outcome.status, end)
       /\ IF end = "ok" /\ outcome.status = "succeeded"
            THEN /\ svc' = "idle" /\ inputs' = inputs + 1
                 /\ UNCHANGED persisted
            ELSE Goes(end, "fail_run", "fail_finish") /\ UNCHANGED inputs
       /\ last' = IF end = "ok" THEN outcome ELSE last
       /\ IF end = "error" THEN Failed ELSE UNCHANGED outcome

\* _finish_after_node_failure
FinishAfterNodeFailure ==
  /\ Service("fail_finish")
  /\ \E end \in Ends :
       /\ Interruptible(end)
       /\ Finish(outcome.status, totals, end)
       /\ IF end = "ok" THEN Returns(TRUE) ELSE Goes(end, "done", "fail_run")
  /\ UNCHANGED <<outcome, sessionvars>>

\* _finish_run_failure, and matches_terminal when it fails.  CloseInterrupted has
\* the interrupt within close.
FinishRunFailure ==
  /\ \E end \in Ends :
       /\ Interruptible(end)
       /\ \/ Service("fail_run")
          \/ Service("close_fail") /\ end # "cancelled"
       /\ FinishRun(outcome.status, totals, end)
       /\ IF end = "ok" THEN Returns(TRUE)
          ELSE Goes(end, "done", IF svc = "fail_run" THEN "fail_match" ELSE "close_fail_match")
  /\ UNCHANGED <<outcome, sessionvars>>

\* Mutant: finish_run is tried again until it matches.
FailureMatchesAgain ==
  /\ Service("fail_match")
  /\ \E end \in {"ok", "error"} :
       /\ Load(end)
       /\ IF end = "ok" /\ db.status[Run] = outcome.status
            THEN Returns(TRUE) ELSE Goes(end, "fail_run", "fail_run")
  /\ UNCHANGED <<outcome, sessionvars>>

FailureMatches ==
  /\ \E end \in Ends :
       /\ Interruptible(end)
       /\ \/ Service("fail_match")
          \/ Service("close_fail_match") /\ end # "cancelled"
       /\ Load(end)
       /\ IF end = "cancelled" THEN Goes(end, "done", "done")
          ELSE Returns(end = "ok" /\ db.status[Run] = outcome.status)
  /\ UNCHANGED <<outcome, sessionvars>>

-----------------------------------------------------------------------------
(***************************************************************************)
(* close, expire, interrupt.                                                *)
(***************************************************************************)
\* A session without a Run just closes.
Leaving(next, result) ==
  /\ svc = "idle"
  /\ IF inputs = 0 THEN svc' = "over" /\ UNCHANGED outcome
                   ELSE svc' = next /\ outcome' = result
  /\ UNCHANGED <<pvars, cvars, agent, turn, progress, stop, persisted, sessionvars>>

Outcome(status) == [NoOutcome EXCEPT !.status = status]

\* End of input, /exit, a limit of the session; the prompt times out; an
\* interrupt at the prompt.
Close == Leaving("close_run", last)
Expire == Leaving("fail_run", Outcome("timed_out"))
InterruptPrompt == stop = "none" /\ Leaving("interrupt", outcome)

\* An interrupt within submit or expire: CancelledError leaves it and the
\* command calls session.interrupt().
Interrupt ==
  /\ svc = "interrupt"
  /\ svc' = "fail_run" /\ outcome' = Outcome("cancelled") /\ stop' = "cancelled"
  /\ UNCHANGED <<pvars, cvars, agent, turn, progress, persisted, sessionvars>>

CloseRun ==
  /\ Service("close_run")
  /\ \E end \in {"ok", "error"} :
       /\ FinishRun(outcome.status, totals, end)
       /\ IF end = "ok" THEN Returns(TRUE) ELSE Goes(end, "done", "close_match")
  /\ UNCHANGED <<outcome, sessionvars>>

CloseMatches ==
  /\ Service("close_match")
  /\ \E end \in {"ok", "error"} :
       /\ Load(end)
       /\ IF end = "ok" /\ db.status[Run] = outcome.status
            THEN Returns(TRUE) /\ UNCHANGED outcome
            ELSE Goes(end, "close_fail", "close_fail") /\ Failed
  /\ UNCHANGED sessionvars

\* An interrupt while the command awaits the shielded close: the shield leaves the
\* task of close alone, but the command ends, and asyncio.run cancels what is left.
CloseInterrupted ==
  /\ svc \in {"close_run", "close_match", "close_fail", "close_fail_match"}
  /\ stop # "cancelled" /\ stop' = "cancelled" /\ svc' = "dead"
  /\ IF svc \in {"close_run", "close_fail"}
       THEN FinishRun(outcome.status, totals, "cancelled") ELSE Load("cancelled")
  /\ UNCHANGED <<cvars, agent, turn, progress, outcome, persisted, sessionvars>>

Session ==
  \/ NodeSetup \/ FinishInput \/ FinishAfterNodeFailure \/ FinishRunFailure
  \/ FailureMatches \/ Interrupt \/ CloseRun \/ CloseMatches
  \/ UNCHANGED sessionvars /\ (Setup \/ RecoverLoad \/ RecoverMatch
                                 \/ Recovering("recover_start", "recover_finish")
                                 \/ Recovering("recover_finish", "recover_match"))

ChatAgent == UNCHANGED sessionvars /\ (Agent \/ (InvocationTask /\ UNCHANGED svars))

ChatNext ==
  \/ Submit \/ Close \/ Expire \/ InterruptPrompt \/ CloseInterrupted
  \/ Session
  \/ ChatAgent
  \/ CallCancelled /\ UNCHANGED sessionvars
  \/ Settle /\ UNCHANGED <<cvars, svars, sessionvars>>

\* As for one Run; the user need not type anything.
ChatSpec ==
  /\ ChatInit /\ [][ChatNext]_chatvars
  /\ WF_chatvars(Session)
  /\ WF_chatvars(UNCHANGED sessionvars /\ Agent)
  /\ WF_chatvars(UNCHANGED sessionvars /\ InvocationTask /\ UNCHANGED svars)
  /\ WF_chatvars(Settle /\ UNCHANGED <<cvars, svars, sessionvars>>)

-----------------------------------------------------------------------------
(***************************************************************************)
(* Properties.                                                              *)
(***************************************************************************)
ChatTypeOK ==
  /\ CTypeOK
  /\ svc \in {"idle", "initialize", "start", "add_node", "start_node", "agent",
              "finish", "fail_finish", "fail_run", "fail_match", "interrupt",
              "close_run", "close_match", "close_fail", "close_fail_match",
              "recover", "recover_start", "recover_finish", "recover_match",
              "done", "over", "dead"}
  /\ outcome.status \in Terminal \cup {"none"} /\ last.status \in Terminal \cup {"none"}
  /\ totals \in [1 .. 3 -> Nat]
  /\ inputs \in 0 .. MaxInputs

\* Without a failure, an interrupt or an expired agent the session always ends
\* with a durable Run, however many inputs it had and whichever of close, expire
\* and a failed input ended it, and the trace is consistent but for the turn
\* that a refused request leaves counted.
QuietChatIsConsistent ==
  svc = "done" /\ faults = 0 /\ stop = "none" =>
    persisted /\ InspectConsistency(db) \subseteq Excused

\* The final result of a session is never better than the database: success
\* is durable success, and persisted is never a guess, although a failing
\* finish_run may have been committed, found, refused or given up.
ChatResultIsDurable ==
  svc = "done" =>
    /\ outcome.status = "succeeded" => persisted
    /\ persisted => db.status[Run] = outcome.status

\* Nothing is written about the Run of a session once it is terminal, although
\* submit, interrupt and close may each try to finish it.
ChatRunEndsOnce == [][db.status[Run] \in Terminal => UNCHANGED db]_chatvars

\* An interrupted session comes to an end.
InterruptEndsChat == svc = "interrupt" ~> svc = "done"

\* docs/architecture/lifecycle-and-errors.md:5: "From `running`, the record
\* reaches exactly one terminal state."  A NodeRun is not left open in a Run
\* that was durably ended without any failing database call.
NodesEndWithRun ==
  svc = "done" /\ persisted /\ faults = 0 =>
    \A n \in Node : db.status[n] \in Terminal \cup {Absent}

=============================================================================
