------------------------- MODULE ChatSessionProofs -------------------------
(***************************************************************************)
(* Theorems of ChatSession, for every number of inputs, budget and failing  *)
(* call.  The steps that a session shares with a single Run keep its        *)
(* invariant; added is that a session which is failing never carries a      *)
(* successful outcome, and that the outcome of the last input is an end.    *)
(* The second half follows the trace from input to input (ChatTrace).       *)
(***************************************************************************)
EXTENDS ChatSession, PersistentRunProofs

\* The session ends the Run because something has not succeeded.
FailurePlaces ==
  {"fail_finish", "fail_run", "fail_match", "close_fail", "close_fail_match"} \cup RecoveryPlaces

FailureInv ==
  /\ svc \in FailurePlaces => outcome.status # "succeeded"
  /\ svc = "done" /\ outcome.status = "succeeded" => persisted
  /\ inputs # 0 => /\ last.status \in Terminal
                   /\ last = [status |-> last.status, counts |-> last.counts]

ChatInv == RecordInv /\ ReportInv /\ FailureInv

-----------------------------------------------------------------------------
(***************************************************************************)
(* The records.                                                             *)
(***************************************************************************)
\* At the prompt and when an interrupt is handled nothing is written.
LEMMA PromptKeepsRecordInv ==
  ASSUME RecordInv, UNCHANGED <<pvars, call>>,
         \/ svc = "idle"
         \/ svc = "interrupt" /\ svc' \notin OpenPlaces
  PROVE  RecordInv' /\ EndedRunStays
<1>1. EndIsDecided' /\ EndedRunStays /\ node' \in Node /\ (RunIsOpen => RunIsOpen')
  BY DEF RecordInv, EndIsDecided, EndedRunStays, RunIsOpen, pvars
<1>2. svc = "idle" => RunIsOpen
  BY DEF RecordInv, OpenPlaces
<1> QED
  BY <1>1, <1>2, ServiceKeepsRecordInv

\* Below the Run a session adds and ends the NodeRun of an input.
LEMMA NodeKeepsRecordInv ==
  ASSUME RecordInv, NodeSetup \/ FinishInput
  PROVE  RecordInv' /\ EndedRunStays
<1>1. svc \in {"add_node", "start_node", "finish"} /\ UNCHANGED call
  BY DEF NodeSetup, FinishInput, Service, cvars
<1>2. RunIsOpen /\ node \in Node
  BY <1>1 DEF RecordInv, OpenPlaces
<1>3. PICK end \in Ends : \/ \E n \in Node : AddNode(n, end)
                          \/ StartNode(end)
                          \/ FinishNode(outcome.status, end)
  BY DEF NodeSetup, FinishInput
<1>4. RunIsOpen' /\ node' \in Node
  BY <1>2, <1>3, MethodsBelowRun
<1>5. EndIsDecided' /\ EndedRunStays
  BY <1>2, <1>4 DEF RunIsOpen, EndIsDecided, EndedRunStays
<1> QED
  BY <1>1, <1>4, <1>5, ServiceKeepsRecordInv

EndsTheRun ==
  FinishAfterNodeFailure \/ FinishRunFailure \/ FailureMatches \/ CloseRun \/ CloseMatches

\* Whoever ends the Run of a session writes nothing below it afterwards.
LEMMA EndKeepsRecordInv ==
  ASSUME RecordInv, EndsTheRun
  PROVE  RecordInv' /\ EndedRunStays
<1>1. svc # "agent" /\ UNCHANGED call /\ EndIsDecided /\ node \in Node
  BY DEF EndsTheRun, FinishAfterNodeFailure, FinishRunFailure, FailureMatches, CloseRun,
         CloseMatches, Service, RecordInv, cvars
<1>2. PICK end \in Ends : \/ Load(end)
                          \/ Finish(outcome.status, totals, end)
                          \/ FinishRun(outcome.status, totals, end)
  BY DEF EndsTheRun, FinishAfterNodeFailure, FinishRunFailure, FailureMatches, CloseRun,
         CloseMatches, Ends
<1>3. EndIsDecided' /\ EndedRunStays /\ node' \in Node
  BY <1>1, <1>2, MethodsOfRun, LoadStays
<1>4. svc' \notin OpenPlaces
  <2>1. \A e \in Ends : \A ok, error :
          Goes(e, ok, error) => svc' \in {ok, error, "dead", "interrupt"}
    BY GoesSomewhere
  <2>2. {"ok", "error"} \subseteq Ends
    BY DEF Ends
  <2>3. CASE FinishAfterNodeFailure
    BY <2>1, <2>3 DEF FinishAfterNodeFailure, Returns, OpenPlaces
  <2>4. CASE FinishRunFailure
    BY <2>1, <2>4 DEF FinishRunFailure, Returns, OpenPlaces
  <2>5. CASE FailureMatches
    BY <2>1, <2>5, GoesSomewhere DEF FailureMatches, Returns, OpenPlaces
  <2>6. CASE CloseRun \/ CloseMatches
    BY <2>1, <2>2, <2>6 DEF CloseRun, CloseMatches, Returns, OpenPlaces
  <2> QED
    BY <2>3, <2>4, <2>5, <2>6 DEF EndsTheRun
<1> QED
  BY <1>1, <1>3, <1>4, ServiceKeepsRecordInv

\* So does a close that an interrupt breaks off.
LEMMA InterruptedCloseKeepsRecordInv ==
  ASSUME RecordInv, CloseInterrupted
  PROVE  RecordInv' /\ EndedRunStays
<1>1. svc # "agent" /\ UNCHANGED call /\ EndIsDecided /\ node \in Node /\ svc' \notin OpenPlaces
  BY DEF CloseInterrupted, RecordInv, cvars, OpenPlaces
<1>2. \/ Load("cancelled")
      \/ FinishRun(outcome.status, totals, "cancelled")
  BY DEF CloseInterrupted
<1>3. EndIsDecided' /\ EndedRunStays /\ node' \in Node
  BY <1>1, <1>2, MethodsOfRun, LoadStays
<1> QED
  BY <1>1, <1>3, ServiceKeepsRecordInv

\* Every step of a session keeps the invariant, and an ended Run as it is.
LEMMA ChatNextKeepsRecordInv ==
  ASSUME RecordInv, [ChatNext]_chatvars
  PROVE  RecordInv' /\ EndedRunStays
<1>1. CASE UNCHANGED chatvars
  <2>1. UNCHANGED runvars
    BY <1>1 DEF chatvars
  <2> QED
    BY <2>1, RunNextKeepsRecordInv
<1>2. CASE Submit \/ Close \/ Expire \/ InterruptPrompt \/ Interrupt
  BY <1>2, PromptKeepsRecordInv
  DEF Submit, Close, Expire, InterruptPrompt, Leaving, Interrupt, OpenPlaces, cvars
<1>3. CASE Session
  BY <1>2, <1>3, NodeKeepsRecordInv, EndKeepsRecordInv, SetupKeepsRecordInv,
     RecoveryKeepsRecordInv
  DEF Session, EndsTheRun
<1>4. CASE ChatAgent \/ CallCancelled
  BY <1>4, AgentKeepsRecordInv, TaskKeepsRecordInv DEF ChatAgent
<1>5. CASE Settle /\ UNCHANGED <<cvars, svars, sessionvars>>
  BY <1>5, SettleKeepsRecordInv DEF cvars, svars
<1>6. CASE CloseInterrupted
  BY <1>6, InterruptedCloseKeepsRecordInv
<1> QED
  BY <1>1, <1>2, <1>3, <1>4, <1>5, <1>6 DEF ChatNext

-----------------------------------------------------------------------------
(***************************************************************************)
(* What a session reports.                                                  *)
(***************************************************************************)
\* A new input has no outcome yet, and a session that is left has one.
LEMMA PromptKeepsReportInv ==
  ASSUME ReportInv, FailureInv,
         Submit \/ Close \/ Expire \/ InterruptPrompt \/ Interrupt
  PROVE  ReportInv' /\ FailureInv'
<1>1. ASSUME NEW status, outcome' = Outcome(status)
      PROVE  OutcomeIsShaped' /\ outcome'.status = status
  BY <1>1 DEF Outcome, NoOutcome, OutcomeIsShaped
<1>2. /\ UNCHANGED <<cvars, sessionvars>> /\ svc \in {"idle", "interrupt"}
      /\ stop' = stop \/ stop' \in Reasons
  BY DEF Submit, Close, Expire, InterruptPrompt, Leaving, Interrupt, Reasons
<1>3. CallTells' /\ StopIsNamed'
  BY <1>2 DEF ReportInv, CallTells, StopIsNamed, cvars
<1>4. CASE Submit
  <2>1. svc' \in {"initialize", "add_node"} /\ outcome' = NoOutcome
    BY <1>4 DEF Submit
  <2>2. OutcomeIsShaped'
    BY <2>1 DEF NoOutcome, OutcomeIsShaped
  <2> QED
    BY <1>2, <1>3, <2>1, <2>2
    DEF ReportInv, FailureInv, PersistedMeansDurable, ClosingPlaces, FailurePlaces,
        RecoveryPlaces, sessionvars
<1>5. CASE svc' \in {"over", "interrupt"} /\ UNCHANGED outcome
  BY <1>2, <1>3, <1>5
  DEF ReportInv, OutcomeIsShaped, FailureInv, PersistedMeansDurable, ClosingPlaces, FailurePlaces,
      RecoveryPlaces, sessionvars
<1>6. CASE svc' = "close_run" /\ outcome' = last /\ inputs # 0
  <2>1. outcome'.status \in Terminal /\ OutcomeIsShaped'
    BY <1>6 DEF FailureInv, OutcomeIsShaped
  <2> QED
    BY <1>2, <1>3, <1>6, <2>1
    DEF ReportInv, FailureInv, PersistedMeansDurable, FailurePlaces, RecoveryPlaces, sessionvars
<1>7. CASE svc' = "fail_run" /\ outcome' \in {Outcome("timed_out"), Outcome("cancelled")}
  <2>1. outcome'.status \in {"timed_out", "cancelled"} /\ OutcomeIsShaped'
    <3>1. \/ outcome' = Outcome("timed_out")
          \/ outcome' = Outcome("cancelled")
      BY <1>7
    <3> QED
      BY <1>1, <3>1
  <2> QED
    BY <1>2, <1>3, <1>7, <2>1
    DEF ReportInv, FailureInv, PersistedMeansDurable, RecoveryPlaces, Terminal, sessionvars
<1> QED
  BY <1>4, <1>5, <1>6, <1>7 DEF Close, Expire, InterruptPrompt, Leaving, Interrupt

\* The NodeRun of an input is added, started and ended.
LEMMA NodeKeepsReportInv ==
  ASSUME ReportInv, FailureInv, NodeSetup \/ FinishInput
  PROVE  ReportInv' /\ FailureInv'
<1>1. UNCHANGED <<cvars, stop>>
  BY DEF NodeSetup, FinishInput, Service
<1>2. Failed => outcome'.status = "failed"
  BY FailedStatus DEF ReportInv
<1>3. CASE NodeSetup
  <2>1. PICK end \in Ends :
          /\ Goes(end, "start_node", "fail_run") \/ Goes(end, "agent", "fail_run")
          /\ IF end = "error" THEN Failed ELSE UNCHANGED outcome
    BY <1>3 DEF NodeSetup
  <2>2. \/ svc' \in {"start_node", "agent", "dead", "interrupt"} /\ UNCHANGED outcome
        \/ svc' = "fail_run" /\ Failed
    BY <2>1, GoesSomewhere DEF Ends
  <2>3. ReportInv'
    BY <1>1, <1>2, <2>2, ServiceKeepsReportInv DEF ClosingPlaces, RecoveryPlaces, Terminal
  <2>4. UNCHANGED sessionvars
    BY <1>3 DEF NodeSetup
  <2> QED
    BY <1>2, <2>2, <2>3, <2>4 DEF FailureInv, FailurePlaces, RecoveryPlaces, sessionvars
<1>4. CASE FinishInput
  <2>1. outcome.status \in Terminal /\ OutcomeIsShaped
    BY <1>4 DEF FinishInput, Service, ReportInv, ClosingPlaces
  <2>2. PICK end \in Ends :
          /\ IF end = "ok" /\ outcome.status = "succeeded"
               THEN /\ svc' = "idle" /\ inputs' = inputs + 1
                    /\ UNCHANGED persisted
               ELSE Goes(end, "fail_run", "fail_finish") /\ UNCHANGED inputs
          /\ last' = IF end = "ok" THEN outcome ELSE last
          /\ IF end = "error" THEN Failed ELSE UNCHANGED outcome
    BY <1>4 DEF FinishInput
  <2>3. Goes(end, "fail_run", "fail_finish") =>
          \/ end = "ok" /\ svc' = "fail_run"
          \/ end = "error" /\ svc' = "fail_finish"
          \/ end = "cancelled" /\ svc' \in {"dead", "interrupt"}
    BY GoesSomewhere
  <2>4. \/ svc' \in {"idle", "dead", "interrupt"} /\ UNCHANGED outcome
        \/ svc' = "fail_run" /\ outcome.status # "succeeded" /\ UNCHANGED outcome
        \/ svc' = "fail_finish" /\ Failed
    BY <2>2, <2>3
  <2>5. ReportInv'
    BY <1>1, <1>2, <2>1, <2>4, ServiceKeepsReportInv DEF ClosingPlaces, RecoveryPlaces, Terminal
  <2>6. end = "ok" \/ (inputs' = inputs /\ last' = last)
    BY <2>2
  <2>7. inputs' # 0 => /\ last'.status \in Terminal
                       /\ last' = [status |-> last'.status, counts |-> last'.counts]
    BY <2>1, <2>2, <2>6 DEF FailureInv, OutcomeIsShaped
  <2> QED
    BY <1>2, <2>4, <2>5, <2>7 DEF FailureInv, FailurePlaces, RecoveryPlaces
<1> QED
  BY <1>3, <1>4

\* A session reports an end that was acknowledged or found, and a failing one
\* never reports success.
LEMMA EndKeepsReportInv ==
  ASSUME RecordInv, ReportInv, FailureInv, EndsTheRun
  PROVE  ReportInv' /\ FailureInv'
<1>1. UNCHANGED <<cvars, stop, sessionvars>>
  BY DEF EndsTheRun, FinishAfterNodeFailure, FinishRunFailure, FailureMatches, CloseRun,
         CloseMatches, Service
<1>2. /\ svc \in {"fail_finish", "fail_run", "fail_match", "close_run", "close_match",
                  "close_fail", "close_fail_match"}
      /\ outcome.status \in Terminal
      /\ svc \notin {"close_run", "close_match"} => outcome.status # "succeeded"
  BY DEF EndsTheRun, FinishAfterNodeFailure, FinishRunFailure, FailureMatches, CloseRun,
         CloseMatches, Service, ReportInv, ClosingPlaces, FailureInv, FailurePlaces
<1>3. Failed => outcome'.status = "failed"
  BY FailedStatus DEF ReportInv
<1>4. \A end \in Ends : \A counts :
        Finish(outcome.status, counts, end) \/ FinishRun(outcome.status, counts, end) =>
          (end = "ok" => db'.status[Run] = outcome.status)
  BY MethodsOfRun DEF RecordInv
<1>5. {"ok", "error"} \subseteq Ends
  BY DEF Ends
<1>6. SUFFICES \/ /\ svc' = "done" /\ UNCHANGED outcome
                  /\ persisted' => db'.status[Run] = outcome.status
                  /\ outcome.status = "succeeded" => persisted'
               \/ /\ svc' \in {"fail_run", "fail_match", "close_fail_match", "dead", "interrupt"}
                  /\ UNCHANGED outcome /\ outcome.status # "succeeded"
               \/ svc' = "close_match" /\ UNCHANGED outcome
               \/ svc' = "close_fail" /\ Failed
  <2>1. ReportInv'
    BY <1>1, <1>2, <1>3, <1>6, ServiceKeepsReportInv DEF RecoveryPlaces, Terminal
  <2> QED
    BY <1>1, <1>3, <1>6, <2>1 DEF FailureInv, FailurePlaces, RecoveryPlaces, sessionvars
<1>7. CASE FinishAfterNodeFailure
  <2>1. svc = "fail_finish" /\ UNCHANGED outcome
    BY <1>7 DEF FinishAfterNodeFailure, Service
  <2>2. PICK end \in Ends : /\ Finish(outcome.status, totals, end)
                            /\ IF end = "ok" THEN Returns(TRUE) ELSE Goes(end, "done", "fail_run")
    BY <1>7 DEF FinishAfterNodeFailure
  <2>3. CASE end = "ok"
    BY <1>4, <2>1, <2>2, <2>3 DEF Returns
  <2>4. CASE end # "ok"
    <3>1. svc' \in {"fail_run", "dead", "interrupt"}
      BY <2>2, <2>4, GoesSomewhere
    <3> QED
      BY <1>2, <2>1, <3>1
  <2> QED
    BY <2>3, <2>4
<1>8. CASE FinishRunFailure
  <2>1. svc \in {"fail_run", "close_fail"} /\ UNCHANGED outcome
    BY <1>8 DEF FinishRunFailure, Service
  <2>2. PICK end \in Ends :
          /\ FinishRun(outcome.status, totals, end)
          /\ IF end = "ok" THEN Returns(TRUE)
             ELSE Goes(end, "done", IF svc = "fail_run" THEN "fail_match" ELSE "close_fail_match")
    BY <1>8 DEF FinishRunFailure
  <2>3. CASE end = "ok"
    BY <1>4, <2>1, <2>2, <2>3 DEF Returns
  <2>4. CASE end # "ok"
    <3>1. svc' \in {"fail_match", "close_fail_match", "dead", "interrupt"}
      BY <2>2, <2>4, GoesSomewhere
    <3> QED
      BY <1>2, <2>1, <3>1
  <2> QED
    BY <2>3, <2>4
<1>9. CASE FailureMatches
  <2>1. svc \in {"fail_match", "close_fail_match"} /\ UNCHANGED outcome
    BY <1>9 DEF FailureMatches, Service
  <2>2. PICK end \in Ends :
          /\ Load(end)
          /\ IF end = "cancelled" THEN Goes(end, "done", "done")
             ELSE Returns(end = "ok" /\ db.status[Run] = outcome.status)
    BY <1>9 DEF FailureMatches
  <2>3. CASE end = "cancelled"
    BY <1>2, <2>1, <2>2, <2>3, GoesSomewhere
  <2>4. CASE end # "cancelled"
    BY <1>2, <2>1, <2>2, <2>4 DEF Returns, Load
  <2> QED
    BY <2>3, <2>4
<1>10. CASE CloseRun
  <2>1. UNCHANGED outcome
    BY <1>10 DEF CloseRun
  <2>2. PICK end \in {"ok", "error"} :
          /\ FinishRun(outcome.status, totals, end)
          /\ IF end = "ok" THEN Returns(TRUE) ELSE Goes(end, "done", "close_match")
    BY <1>10 DEF CloseRun
  <2>3. CASE end = "ok"
    BY <1>4, <1>5, <2>1, <2>2, <2>3 DEF Returns
  <2>4. CASE end = "error"
    BY <1>5, <2>1, <2>2, <2>4, GoesSomewhere
  <2> QED
    BY <2>2, <2>3, <2>4
<1>11. CASE CloseMatches
  <2>1. PICK end \in {"ok", "error"} :
          /\ Load(end)
          /\ IF end = "ok" /\ db.status[Run] = outcome.status
               THEN Returns(TRUE) /\ UNCHANGED outcome
               ELSE Goes(end, "close_fail", "close_fail") /\ Failed
    BY <1>11 DEF CloseMatches
  <2>2. CASE end = "ok" /\ db.status[Run] = outcome.status
    BY <2>1, <2>2 DEF Returns, Load
  <2>3. CASE ~(end = "ok" /\ db.status[Run] = outcome.status)
    BY <1>5, <2>1, <2>3, GoesSomewhere
  <2> QED
    BY <2>2, <2>3
<1> QED
  BY <1>7, <1>8, <1>9, <1>10, <1>11 DEF EndsTheRun

\* A close that an interrupt breaks off reports nothing.
LEMMA InterruptedCloseKeepsReportInv ==
  ASSUME ReportInv, FailureInv, CloseInterrupted
  PROVE  ReportInv' /\ FailureInv'
<1>1. /\ UNCHANGED <<cvars, outcome, sessionvars>>
      /\ svc' = "dead" /\ stop' = "cancelled"
  BY DEF CloseInterrupted
<1>2. OutcomeIsShaped' /\ CallTells' /\ StopIsNamed'
  BY <1>1 DEF ReportInv, OutcomeIsShaped, CallTells, StopIsNamed, Reasons, cvars
<1> QED
  BY <1>1, <1>2
  DEF ReportInv, FailureInv, PersistedMeansDurable, ClosingPlaces, FailurePlaces, RecoveryPlaces,
      sessionvars

\* Setup and recovery are those of a Run; a recovered session has failed.
LEMMA SharedKeepReportInv ==
  ASSUME ReportInv, FailureInv, UNCHANGED sessionvars,
         \/ Setup \/ RecoverLoad \/ RecoverMatch
         \/ Recovering("recover_start", "recover_finish")
         \/ Recovering("recover_finish", "recover_match")
  PROVE  ReportInv' /\ FailureInv'
<1>1. ReportInv'
  BY SetupKeepsReportInv, RecoveryKeepsReportInv
<1>2. CASE Setup
  <2>1. svc' \in {"start", "agent", "recover", "dead", "interrupt"}
    BY <1>2, GoesSomewhere DEF Setup, Ends
  <2>2. svc' = "recover" => outcome'.status = "failed"
    BY <1>1 DEF ReportInv, RecoveryPlaces
  <2> QED
    BY <1>1, <2>1, <2>2 DEF FailureInv, FailurePlaces, RecoveryPlaces, sessionvars
<1>3. CASE \/ RecoverLoad \/ RecoverMatch
           \/ Recovering("recover_start", "recover_finish")
           \/ Recovering("recover_finish", "recover_match")
  <2>1. svc \in RecoveryPlaces /\ UNCHANGED outcome
    BY <1>3 DEF RecoverLoad, RecoverMatch, Recovering, Service, RecoveryPlaces
  <2>2. outcome'.status = "failed"
    BY <2>1 DEF ReportInv
  <2> QED
    BY <1>1, <2>2 DEF FailureInv, sessionvars
<1> QED
  BY <1>2, <1>3

\* Every step of a session keeps what it may report.
LEMMA ChatNextKeepsReportInv ==
  ASSUME RecordInv, ReportInv, FailureInv, [ChatNext]_chatvars
  PROVE  ReportInv' /\ FailureInv'
<1>1. CASE UNCHANGED chatvars
  <2>1. UNCHANGED runvars
    BY <1>1 DEF chatvars
  <2>2. ReportInv'
    BY <2>1, RunNextKeepsReportInv
  <2> QED
    BY <1>1, <2>2 DEF chatvars, runvars, svars, sessionvars, FailureInv
<1>2. CASE Submit \/ Close \/ Expire \/ InterruptPrompt
  BY <1>2, PromptKeepsReportInv
<1>3. CASE Session
  BY <1>3, NodeKeepsReportInv, EndKeepsReportInv, PromptKeepsReportInv, SharedKeepReportInv
  DEF Session, EndsTheRun
<1>4. CASE UNCHANGED sessionvars /\ (Agent \/ CallCancelled)
  <2>1. svc' \in {"agent", "finish"}
    BY <1>4, AgentLeaves
  <2> QED
    BY <1>4, <2>1, AgentKeepsReportInv DEF FailureInv, FailurePlaces, RecoveryPlaces, sessionvars
<1>5. CASE UNCHANGED sessionvars /\ InvocationTask /\ UNCHANGED svars
  BY <1>5, TaskKeepsReportInv DEF FailureInv, svars, sessionvars
<1>6. CASE Settle /\ UNCHANGED <<cvars, svars, sessionvars>>
  BY <1>6, SettleKeepsReportInv DEF FailureInv, svars, sessionvars
<1>7. CASE CloseInterrupted
  BY <1>7, InterruptedCloseKeepsReportInv
<1> QED
  BY <1>1, <1>2, <1>3, <1>4, <1>5, <1>6, <1>7 DEF ChatNext, ChatAgent

\* A session starts without a Run.
LEMMA InitChatInv == ChatInit => ChatInv
<1> SUFFICES ASSUME ChatInit PROVE ReportInv /\ FailureInv
  BY InitRecordInv DEF ChatInit, ChatInv
<1> QED
  BY DEF ChatInit, CInit, NoCall, NoOutcome, ReportInv, OutcomeIsShaped, CallTells, StopIsNamed,
         PersistedMeansDurable, ClosingPlaces, FailureInv, FailurePlaces, RecoveryPlaces

\* The invariant is inductive.
LEMMA ChatNextKeepsChatInv == ChatInv /\ [ChatNext]_chatvars => ChatInv'
BY ChatNextKeepsRecordInv, ChatNextKeepsReportInv DEF ChatInv

-----------------------------------------------------------------------------
(***************************************************************************)
(* The theorems.                                                            *)
(***************************************************************************)
\* Whichever of close, expire, interrupt or a failing input ends a session:
\* success is durable success, and persisted is never a guess.
THEOREM ChatReportsAreDurable == ChatSpec => []ChatResultIsDurable
<1>1. ChatInv => ChatResultIsDurable
  BY DEF ChatInv, ReportInv, FailureInv, PersistedMeansDurable, ChatResultIsDurable
<1> QED
  BY <1>1, InitChatInv, ChatNextKeepsChatInv, PTL DEF ChatSpec

\* Nobody writes about the Run of a session once it has ended.
THEOREM EndedChatsAreSilent == ChatSpec => ChatRunEndsOnce
<1>1. ChatInv /\ [ChatNext]_chatvars =>
        [db.status[Run] \in Terminal => UNCHANGED db]_chatvars
  BY ChatNextKeepsRecordInv DEF ChatInv, EndedRunStays
<1> QED
  BY <1>1, InitChatInv, ChatNextKeepsChatInv, PTL DEF ChatSpec, ChatRunEndsOnce

-----------------------------------------------------------------------------
(***************************************************************************)
(* The trace of a session: what the rows are between two inputs, where the  *)
(* counts are the totals.  Within an input they are the totals and the      *)
(* counts of its agent, as for a single Run that had the totals before.     *)
(***************************************************************************)
\* Where a session is once something has failed.
BrokenPlaces == {"fail_finish", "fail_match", "close_match", "close_fail", "close_fail_match"}

InputPlaces == {"initialize", "start", "agent", "finish", "match"} \cup RecoveryPlaces

PromptPlaces == {"idle", "close_run", "add_node", "start_node", "fail_run"} \cup BrokenPlaces

AtPrompt(s, t) == inDoubt = {} /\ Ready(db, node, s, t, {}) /\ CountsAre(db, totals)

SessionTrack ==
  /\ svc = "idle" /\ inputs = 0 => AtPrompt(Absent, Absent)
  /\ svc = "idle" /\ inputs # 0 => AtPrompt("running", "succeeded")
  /\ svc = "close_run" => AtPrompt("running", "succeeded")
  /\ svc = "add_node" =>
       /\ agent # "waiting" /\ inDoubt = {}
       /\ Reached(db, node, "running", "succeeded", {}, totals, progress)
  /\ svc = "start_node" =>
       /\ agent # "waiting" /\ inDoubt = {}
       /\ Reached(db, node, "running", "created", {}, totals, progress)

SessionCalm ==
  Calm =>
    /\ svc \notin BrokenPlaces
    /\ svc \in {"idle", "add_node", "start_node", "fail_run", "close_run"} => Fresh
    /\ svc = "fail_run" =>
         /\ \E t \in Terminal : Ready(db, node, "running", t, {})
         /\ FitsBudget(db) => Tally(db, totals)

\* The totals do not change within an input.
InputTrack == \A base \in {totals} : Track(base) /\ Calmly(base)

SessionCounts ==
  inputs \in Nat /\ totals \in [1 .. 3 -> Nat] /\ last.counts \in [1 .. 3 -> Nat]

-----------------------------------------------------------------------------
\* Places that promise nothing.
LEMMA InputElsewhere ==
  ASSUME svc' \notin InputPlaces
  PROVE  InputTrack'
BY DEF InputTrack, Track, Calmly, InputPlaces, RecoveryPlaces

\* The same of the places between two inputs.
LEMMA PromptElsewhere ==
  ASSUME svc' \notin PromptPlaces
  PROVE  SessionTrack' /\ SessionCalm'
BY DEF SessionTrack, SessionCalm, PromptPlaces, BrokenPlaces

\* Places where something must have failed.
LEMMA NotCalm ==
  ASSUME svc' \notin (InputPlaces \cup {"idle", "close_run", "add_node", "start_node"}), ~Calm'
  PROVE  SessionTrack' /\ SessionCalm' /\ InputTrack'
BY DEF SessionTrack, SessionCalm, InputTrack, Track, Calmly, InputPlaces, RecoveryPlaces

\* One input is one Run with the totals before it.
LEMMA InputIsTracked ==
  ASSUME InputTrack, SessionCounts, totals' = totals,
         \A base \in [1 .. 3 -> Nat] : Track(base) /\ Calmly(base) => Track(base)' /\ Calmly(base)'
  PROVE  InputTrack'
<1>1. ASSUME NEW base \in {totals'}
      PROVE  Track(base)' /\ Calmly(base)'
  <2>1. base \in [1 .. 3 -> Nat] /\ base \in {totals}
    BY <1>1 DEF SessionCounts
  <2>2. Track(base) /\ Calmly(base)
    BY <2>1 DEF InputTrack
  <2> QED
    BY <2>1, <2>2
<1> QED
  BY <1>1 DEF InputTrack

-----------------------------------------------------------------------------
\* The steps of a session, and what they count.
LEMMA PromptSteps ==
  ASSUME CountsAreTyped, SessionCounts, Submit \/ Close \/ Expire \/ InterruptPrompt \/ Interrupt
  PROVE  Stepped /\ CountsAreTyped' /\ SessionCounts'
<1>1. UNCHANGED pvars /\ UNCHANGED sessionvars
  BY DEF Submit, Close, Expire, InterruptPrompt, Leaving, Interrupt
<1>2. Stepped
  BY <1>1 DEF pvars, Quiet, Stepped
<1>3. SessionCounts'
  BY <1>1 DEF sessionvars, SessionCounts
<1>4. /\ NoOutcome.counts \in [1 .. 3 -> Nat] /\ last.counts \in [1 .. 3 -> Nat]
      /\ Outcome("timed_out").counts \in [1 .. 3 -> Nat]
      /\ Outcome("cancelled").counts \in [1 .. 3 -> Nat]
  <2>1. <<0, 0, 0>> \in [1 .. 3 -> Nat]
    BY Triple
  <2> QED
    BY <2>1 DEF NoOutcome, Outcome, SessionCounts
<1>5. ASSUME Submit
      PROVE  CountsAreTyped'
  <2>1. outcome' = NoOutcome
    BY <1>5 DEF Submit
  <2>2. /\ turn' = [repair |-> FALSE, failure |-> "none"]
        /\ progress' = [turns |-> 0, calls |-> 0, arts |-> 0, repairs |-> 0]
    BY <1>5 DEF Submit
  <2>3. outcome'.counts \in [1 .. 3 -> Nat]
    BY <1>4, <2>1
  <2> QED
    BY <2>2, <2>3 DEF CountsAreTyped
<1>6. ASSUME Close \/ Expire \/ InterruptPrompt \/ Interrupt
      PROVE  CountsAreTyped'
  <2>1. UNCHANGED <<turn, progress>>
    BY <1>6 DEF Close, Expire, InterruptPrompt, Leaving, Interrupt
  <2>2. outcome' \in {outcome, last, Outcome("timed_out"), Outcome("cancelled")}
    BY <1>6 DEF Close, Expire, InterruptPrompt, Leaving, Interrupt
  <2>3. outcome'.counts \in [1 .. 3 -> Nat]
    BY <1>4, <2>2 DEF CountsAreTyped
  <2> QED
    BY <2>1, <2>3 DEF CountsAreTyped
<1> QED
  BY <1>2, <1>3, <1>5, <1>6

\* The NodeRun of an input.
LEMMA NodeSteps ==
  ASSUME PInv, CountsAreTyped, SessionCounts, ReportInv, NodeSetup \/ FinishInput
  PROVE  Stepped /\ CountsAreTyped' /\ SessionCounts'
<1>1. node \in Node /\ OutcomeIsShaped
  BY DEF PInv, PTypeOK, ReportInv
<1>2. UNCHANGED <<turn, progress>> /\ (UNCHANGED outcome \/ Failed)
  BY DEF NodeSetup, FinishInput, Service
<1>3. CountsAreTyped'
  BY <1>1, <1>2, ServiceKeepsCounts
<1>4. CASE NodeSetup
  <2>1. PICK end : (\E n \in Node : AddNode(n, end)) \/ StartNode(end)
    BY <1>4 DEF NodeSetup
  <2>2. Stepped
    <3>1. ASSUME NEW n \in Node, AddNode(n, end)
          PROVE  Stepped
      BY <1>1, <3>1, AddNodeWrites DEF Stepped
    <3>2. ASSUME StartNode(end)
          PROVE  Stepped
      <4>1. "running" \in Status
        BY DEF Status
      <4> QED
        BY <1>1, <3>2, <4>1, MoveNodeWrites DEF Stepped
    <3> QED
      BY <2>1, <3>1, <3>2
  <2>3. UNCHANGED sessionvars
    BY <1>4 DEF NodeSetup
  <2> QED
    BY <1>3, <2>2, <2>3 DEF sessionvars, SessionCounts
<1>5. CASE FinishInput
  <2>1. outcome.status \in Status
    BY <1>5 DEF FinishInput, Service, ReportInv, ClosingPlaces, Status
  <2>2. PICK end : FinishNode(outcome.status, end) /\ last' = IF end = "ok" THEN outcome ELSE last
    BY <1>5 DEF FinishInput
  <2>3. Stepped
    BY <1>1, <2>1, <2>2, MoveNodeWrites DEF Stepped
  <2>4. totals' \in [1 .. 3 -> Nat]
    <3>1. \A k \in 1 .. 3 : totals[k] + outcome.counts[k] \in Nat
      BY DEF CountsAreTyped, SessionCounts
    <3> QED
      BY <1>5, <3>1 DEF FinishInput, Totals
  <2>5. inputs' \in Nat
    BY <1>5 DEF FinishInput, SessionCounts
  <2>6. last'.counts \in [1 .. 3 -> Nat]
    BY <2>2 DEF SessionCounts, CountsAreTyped
  <2> QED
    BY <1>3, <2>3, <2>4, <2>5, <2>6 DEF SessionCounts
<1> QED
  BY <1>4, <1>5

\* The end of the Run of a session.
LEMMA EndSteps ==
  ASSUME PInv, CountsAreTyped, SessionCounts, ReportInv, EndsTheRun
  PROVE  Stepped /\ CountsAreTyped' /\ SessionCounts'
<1>1. node \in Node /\ OutcomeIsShaped /\ totals \in Seq(Nat)
  BY Triple DEF PInv, PTypeOK, ReportInv, SessionCounts
<1>2. UNCHANGED <<turn, progress>> /\ (UNCHANGED outcome \/ Failed) /\ UNCHANGED sessionvars
  BY DEF EndsTheRun, FinishAfterNodeFailure, FinishRunFailure, FailureMatches, CloseRun,
         CloseMatches, Service
<1>3. CountsAreTyped' /\ SessionCounts'
  BY <1>1, <1>2, ServiceKeepsCounts DEF sessionvars, SessionCounts
<1>4. PICK end : \/ Load(end)
                 \/ Finish(outcome.status, totals, end)
                 \/ FinishRun(outcome.status, totals, end)
  BY DEF EndsTheRun, FinishAfterNodeFailure, FinishRunFailure, FailureMatches, CloseRun,
         CloseMatches
<1>5. outcome.status \in Terminal
  BY DEF EndsTheRun, FinishAfterNodeFailure, FinishRunFailure, FailureMatches, CloseRun,
         CloseMatches, Service, ReportInv, ClosingPlaces
<1>6. CASE Load(end)
  BY <1>3, <1>6 DEF Load, Quiet, Stepped
<1>7. CASE Finish(outcome.status, totals, end) \/ FinishRun(outcome.status, totals, end)
  BY <1>1, <1>3, <1>5, <1>7, FinishWrites, FinishRunWrites DEF Stepped
<1> QED
  BY <1>4, <1>6, <1>7

\* The same when an interrupt breaks its close off.
LEMMA InterruptedCloseSteps ==
  ASSUME PInv, CountsAreTyped, SessionCounts, ReportInv, CloseInterrupted
  PROVE  Stepped /\ CountsAreTyped' /\ SessionCounts'
<1>1. node \in Node /\ OutcomeIsShaped /\ totals \in Seq(Nat)
  BY Triple DEF PInv, PTypeOK, ReportInv, SessionCounts
<1>2. UNCHANGED <<turn, progress, outcome>> /\ UNCHANGED sessionvars
  BY DEF CloseInterrupted
<1>3. CountsAreTyped' /\ SessionCounts'
  BY <1>1, <1>2, ServiceKeepsCounts DEF sessionvars, SessionCounts
<1>4. outcome.status \in Terminal
  BY DEF CloseInterrupted, ReportInv, ClosingPlaces
<1>5. CASE Load("cancelled")
  BY <1>3, <1>5 DEF Load, Quiet, Stepped
<1>6. CASE FinishRun(outcome.status, totals, "cancelled")
  BY <1>1, <1>3, <1>4, <1>6, FinishRunWrites DEF Stepped
<1> QED
  BY <1>5, <1>6 DEF CloseInterrupted

\* What a step of a session keeps, whatever fails.
LEMMA ChatNextKeepsSound ==
  ASSUME SoundInv, FailureInv, SessionCounts, [ChatNext]_chatvars
  PROVE  SoundInv' /\ FailureInv' /\ SessionCounts' /\ Stepped
<1>1. /\ PInv /\ CallIsTyped /\ ReportInv /\ CountsAreTyped /\ RecordInv /\ SInv /\ ChatInv
      /\ OutcomeIsShaped
  BY DEF SoundInv, SInv, AInv, RunInv, RecordInv, ChatInv, ReportInv
<1>2. RecordInv' /\ ReportInv' /\ FailureInv'
  BY <1>1, ChatNextKeepsChatInv DEF ChatInv
<1>3. UNCHANGED sessionvars => SessionCounts'
  BY DEF sessionvars, SessionCounts
<1>4. Stepped /\ CountsAreTyped' /\ SessionCounts'
  <2>1. CASE UNCHANGED chatvars
    <3>1. UNCHANGED pvars /\ UNCHANGED sessionvars /\ UNCHANGED <<turn, progress, outcome>>
      BY <2>1 DEF chatvars, runvars, svars
    <3>2. Stepped
      BY <3>1 DEF pvars, Quiet, Stepped
    <3> QED
      BY <1>1, <1>3, <3>1, <3>2, ServiceKeepsCounts
  <2>2. CASE Submit \/ Close \/ Expire \/ InterruptPrompt \/ Interrupt
    BY <1>1, <2>2, PromptSteps
  <2>3. CASE NodeSetup \/ FinishInput
    BY <1>1, <2>3, NodeSteps
  <2>4. CASE EndsTheRun
    BY <1>1, <2>4, EndSteps
  <2>5. CASE /\ UNCHANGED sessionvars
             /\ \/ Setup \/ RecoverLoad \/ RecoverMatch
                \/ Recovering("recover_start", "recover_finish")
                \/ Recovering("recover_finish", "recover_match")
    <3>1. Runtime
      BY <2>5 DEF Runtime
    <3>2. Stepped
      BY <1>1, <3>1, ServiceSteps
    <3>3. UNCHANGED <<turn, progress>> /\ (UNCHANGED outcome \/ Failed)
      BY <2>5 DEF Setup, RecoverLoad, RecoverMatch, Recovering, Service
    <3> QED
      BY <1>1, <1>3, <2>5, <3>2, <3>3, ServiceKeepsCounts
  <2>6. CASE UNCHANGED sessionvars /\ (Agent \/ CallCancelled)
    BY <1>1, <1>3, <2>6, AgentSteps, AgentKeepsCounts
  <2>7. CASE UNCHANGED sessionvars /\ InvocationTask /\ UNCHANGED svars
    <3>1. UNCHANGED <<turn, progress, outcome>>
      BY <2>7 DEF svars
    <3> QED
      BY <1>1, <1>3, <2>7, <3>1, TaskSteps, ServiceKeepsCounts
  <2>8. CASE Settle /\ UNCHANGED <<cvars, svars, sessionvars>>
    <3>1. UNCHANGED <<turn, progress, outcome>> /\ UNCHANGED sessionvars
      BY <2>8 DEF svars
    <3> QED
      BY <1>1, <1>3, <2>8, <3>1, ServiceKeepsCounts DEF Stepped
  <2>9. CASE CloseInterrupted
    BY <1>1, <2>9, InterruptedCloseSteps
  <2> QED
    BY <2>1, <2>2, <2>3, <2>4, <2>5, <2>6, <2>7, <2>8, <2>9 DEF ChatNext, Session, ChatAgent, EndsTheRun
<1>5. SInv'
  BY <1>1, <1>4, SteppedKeepsSInv
<1> QED
  BY <1>2, <1>4, <1>5 DEF SoundInv, RunInv

-----------------------------------------------------------------------------
(***************************************************************************)
(* The trace of a session, step by step.                                    *)
(***************************************************************************)
Traced == SuccessInv /\ QuietEnd /\ SessionTrack /\ SessionCalm /\ InputTrack

\* Where an interrupt at an await of the session leads.
LEMMA LeftTraced ==
  ASSUME SuccessInv', svc' \in {"interrupt", "dead", "over"}
  PROVE  Traced'
<1>1. svc' \notin InputPlaces /\ svc' \notin PromptPlaces /\ svc' # "done"
  BY DEF InputPlaces, RecoveryPlaces, PromptPlaces, BrokenPlaces
<1> QED
  BY <1>1, InputElsewhere, PromptElsewhere DEF Traced, QuietEnd

\* Once something has failed.
LEMMA BrokenTraced ==
  ASSUME SuccessInv', ~Calm',
         svc' \notin (InputPlaces \cup {"idle", "close_run", "add_node", "start_node"})
  PROVE  Traced'
BY NotCalm DEF Traced, QuietEnd

\* The input prompt.
LEMMA PromptKeepsTraced ==
  ASSUME SessionCounts, Traced, Submit \/ Close \/ Expire \/ InterruptPrompt \/ Interrupt
  PROVE  Traced'
<1>1. /\ UNCHANGED <<db, seq, node, inDoubt, faults>> /\ UNCHANGED <<used, disk, call>>
      /\ UNCHANGED <<inputs, totals>>
  BY DEF Submit, Close, Expire, InterruptPrompt, Leaving, Interrupt, pvars, cvars, sessionvars
<1>2. SuccessInv' /\ (Fresh => Fresh')
  BY <1>1 DEF Traced, SuccessInv, Fresh
<1>3. CASE Interrupt
  <2>1. svc' = "fail_run" /\ ~Calm'
    BY <1>3 DEF Interrupt, Calm
  <2> QED
    BY <1>2, <2>1, BrokenTraced DEF InputPlaces, RecoveryPlaces
<1>4. ASSUME ~Interrupt
      PROVE  svc = "idle" /\ stop' = stop /\ (Calm' => Fresh')
  <2>1. svc = "idle" /\ stop' = stop
    BY <1>4 DEF Submit, Close, Expire, InterruptPrompt, Leaving
  <2> QED
    BY <1>1, <1>2, <2>1 DEF Traced, SessionCalm, Calm
<1>5. CASE svc' \in {"over", "interrupt"}
  BY <1>2, <1>5, LeftTraced
<1>6. CASE Submit
  <2>1. /\ agent' = "turn" /\ progress'.turns = 0 /\ progress'.calls = 0 /\ progress'.arts = 0
        /\ svc' = IF inputs = 0 THEN "initialize" ELSE "add_node"
        /\ svc = "idle"
    BY <1>6 DEF Submit
  <2>2. /\ totals[1] + progress'.turns = totals[1] /\ totals[2] + progress'.calls = totals[2]
        /\ totals[3] + progress'.arts = totals[3]
    BY <2>1 DEF SessionCounts
  <2>3. CASE inputs = 0
    <3>1. svc' = "initialize" /\ AtPrompt(Absent, Absent)
      BY <2>1, <2>3 DEF Traced, SessionTrack
    <3>2. inDoubt' = {} /\ Reached(db', node', Absent, Absent, {}, totals', progress')
      BY <1>1, <2>2, <3>1 DEF AtPrompt, Reached, CountsAre
    <3>3. Calm' => Fresh'
      BY <1>4, <3>1, <1>6 DEF Submit, Interrupt
    <3>4. Track(totals)' /\ Calmly(totals)'
      BY <2>1, <3>1, <3>2, <3>3 DEF Track, Calmly, RecoveryPlaces
    <3>5. InputTrack'
      BY <3>4 DEF InputTrack
    <3>6. SessionTrack' /\ SessionCalm' /\ QuietEnd'
      BY <3>1, PromptElsewhere DEF PromptPlaces, BrokenPlaces, QuietEnd
    <3> QED
      BY <1>2, <3>5, <3>6 DEF Traced
  <2>4. CASE inputs # 0
    <3>1. svc' = "add_node" /\ AtPrompt("running", "succeeded")
      BY <2>1, <2>4 DEF Traced, SessionTrack
    <3>2. inDoubt' = {} /\ Reached(db', node', "running", "succeeded", {}, totals', progress')
      BY <1>1, <2>2, <3>1 DEF AtPrompt, Reached, CountsAre
    <3>3. Calm' => Fresh'
      BY <1>4, <3>1, <1>6 DEF Submit, Interrupt
    <3>4. SessionTrack' /\ SessionCalm' /\ QuietEnd'
      BY <2>1, <3>1, <3>2, <3>3 DEF SessionTrack, SessionCalm, BrokenPlaces, QuietEnd
    <3>5. InputTrack'
      BY <3>1, InputElsewhere DEF InputPlaces, RecoveryPlaces
    <3> QED
      BY <1>2, <3>4, <3>5 DEF Traced
  <2> QED
    BY <2>3, <2>4
<1>7. CASE svc' \in {"close_run", "fail_run"} /\ inputs # 0 /\ ~Interrupt
  <2>1. AtPrompt("running", "succeeded")
    BY <1>4, <1>7 DEF Traced, SessionTrack
  <2>2. AtPrompt("running", "succeeded")'
    BY <1>1, <2>1 DEF AtPrompt
  <2>3. (\E t \in Terminal : Ready(db', node', "running", t, {})) /\ Tally(db', totals')
    BY <2>2 DEF AtPrompt, Tally, Terminal
  <2>4. SessionTrack' /\ SessionCalm' /\ QuietEnd'
    BY <1>4, <1>7, <2>2, <2>3 DEF SessionTrack, SessionCalm, BrokenPlaces, QuietEnd
  <2>5. InputTrack'
    BY <1>7, InputElsewhere DEF InputPlaces, RecoveryPlaces
  <2> QED
    BY <1>2, <2>4, <2>5 DEF Traced
<1> QED
  BY <1>3, <1>5, <1>6, <1>7 DEF Close, Expire, InterruptPrompt, Leaving

\* A write of the session: what it leaves when it is acknowledged, and that it
\* is acknowledged when nothing has failed.
LEMMA SessionWrites ==
  ASSUME SoundInv, Stepped, NEW end \in Ends, NEW tx, Transaction(tx), Write(tx, end),
         UNCHANGED <<cvars, stop>>, Calm => Fresh, inDoubt = {},
         seq = LastNumber(db) => Accepted(tx)
  PROVE  /\ end = "ok" => inDoubt' = {} /\ db' = After(tx) /\ Accepted(tx)
         /\ Calm' => /\ Calm /\ end # "error"
                     /\ end = "ok" /\ SameCalls(After(tx), db) => Fresh'
<1>1. SInv /\ PInv
  BY DEF SoundInv, SInv, AInv
<1>2. end = "ok" => inDoubt' = {} /\ db' = After(tx) /\ Accepted(tx)
  BY <1>1, Acknowledged
<1>3. ASSUME Calm'
      PROVE  /\ Calm /\ end # "error"
             /\ end = "ok" /\ SameCalls(After(tx), db) => Fresh'
  <2>1. Calm /\ faults = 0 /\ faults' = 0
    BY <1>1, <1>3, CalmBefore
  <2>2. Accepted(tx) /\ Fresh
    BY <2>1 DEF Fresh
  <2>3. end # "cancelled" => end = "ok" /\ seq' = LastNumber(db')
    BY <1>1, <2>1, <2>2, Acknowledged
  <2> QED
    BY <1>2, <2>1, <2>2, <2>3, FreshStays DEF cvars, Ends
<1> QED
  BY <1>2, <1>3

\* The NodeRun of a later input.
LEMMA AddNodeKeepsTraced ==
  ASSUME SoundInv, SessionCounts, Traced, Stepped, SuccessInv', UNCHANGED sessionvars,
         NEW end \in Ends, NEW n \in Node, db.status[n] = Absent,
         Service("add_node"), AddNode(n, end), Goes(end, "start_node", "fail_run")
  PROVE  Traced'
<1>1. /\ PInv /\ UNCHANGED <<cvars, stop, agent, progress, totals>> /\ svc = "add_node"
      /\ agent # "waiting" /\ inDoubt = {}
      /\ Ready(db, node, "running", "succeeded", {})
      /\ Counts(db, totals[1] + progress.turns, totals[2] + progress.calls,
                totals[3] + progress.arts)
      /\ Calm => Fresh
  BY DEF SoundInv, SInv, AInv, Service, Traced, SessionTrack, SessionCalm, Reached, sessionvars
<1>2. "succeeded" \in Terminal
  BY DEF Terminal
<1>3. /\ node' = IF end = "ok" THEN n ELSE node
      /\ \E tx : /\ Transaction(tx) /\ Write(tx, end)
                 /\ Accepted(tx) =>
                      /\ Ready(After(tx), n, "running", "created", {})
                      /\ Counts(After(tx), totals[1] + progress.turns, totals[2] + progress.calls,
                                totals[3] + progress.arts)
                      /\ SameCalls(After(tx), db)
                 /\ seq = LastNumber(db) => Accepted(tx)
  BY <1>1, <1>2, AddNodeLeads
<1>4. PICK tx : /\ Transaction(tx) /\ Write(tx, end)
                /\ Accepted(tx) => /\ Reached(After(tx), n, "running", "created", {}, totals, progress)
                                   /\ SameCalls(After(tx), db)
                /\ seq = LastNumber(db) => Accepted(tx)
  BY <1>3 DEF Reached
<1>5. /\ end = "ok" => inDoubt' = {} /\ db' = After(tx) /\ Accepted(tx)
      /\ Calm' => end # "error" /\ (end = "ok" /\ SameCalls(After(tx), db) => Fresh')
  BY <1>1, <1>4, SessionWrites
<1>6. CASE end = "ok"
  <2>1. /\ svc' = "start_node" /\ inDoubt' = {} /\ agent' # "waiting"
        /\ Reached(db', node', "running", "created", {}, totals', progress')
        /\ Calm' => Fresh'
    BY <1>1, <1>3, <1>4, <1>5, <1>6, GoesSomewhere
  <2>2. SessionTrack' /\ SessionCalm' /\ QuietEnd'
    BY <2>1 DEF SessionTrack, SessionCalm, BrokenPlaces, QuietEnd
  <2>3. InputTrack'
    BY <2>1, InputElsewhere DEF InputPlaces, RecoveryPlaces
  <2> QED
    BY <2>2, <2>3 DEF Traced
<1>7. CASE end = "error"
  <2>1. svc' = "fail_run" /\ ~Calm'
    BY <1>5, <1>7, GoesSomewhere
  <2> QED
    BY <2>1, BrokenTraced DEF InputPlaces, RecoveryPlaces
<1>8. CASE end = "cancelled"
  <2>1. svc' \in {"interrupt", "dead"}
    BY <1>8, GoesSomewhere
  <2> QED
    BY <2>1, LeftTraced
<1> QED
  BY <1>6, <1>7, <1>8 DEF Ends

\* start_node: the agent of the input starts from the totals.
LEMMA StartNodeKeepsTraced ==
  ASSUME SoundInv, SessionCounts, Traced, Stepped, SuccessInv', UNCHANGED sessionvars,
         NEW end \in Ends,
         Service("start_node"), StartNode(end), Goes(end, "agent", "fail_run")
  PROVE  Traced'
<1>1. /\ PInv /\ UNCHANGED <<cvars, stop, agent, progress, totals>> /\ svc = "start_node"
      /\ agent # "waiting" /\ inDoubt = {}
      /\ Ready(db, node, "running", "created", {})
      /\ Counts(db, totals[1] + progress.turns, totals[2] + progress.calls,
                totals[3] + progress.arts)
      /\ Calm => Fresh
  BY DEF SoundInv, SInv, AInv, Service, Traced, SessionTrack, SessionCalm, Reached, sessionvars
<1>2. /\ node' = node
      /\ \E tx : /\ Transaction(tx) /\ Write(tx, end)
                 /\ Accepted(tx) =>
                      /\ Ready(After(tx), node, "running", "running", {})
                      /\ Counts(After(tx), totals[1] + progress.turns, totals[2] + progress.calls,
                                totals[3] + progress.arts)
                      /\ SameCalls(After(tx), db)
                 /\ seq = LastNumber(db) => Accepted(tx)
  BY <1>1, StartNodeLeads
<1>3. PICK tx : /\ Transaction(tx) /\ Write(tx, end)
                /\ Accepted(tx) => /\ RunningAt(After(tx), node, {}, totals, progress)
                                   /\ SameCalls(After(tx), db)
                /\ seq = LastNumber(db) => Accepted(tx)
  BY <1>2 DEF RunningAt, Reached
<1>4. /\ end = "ok" => inDoubt' = {} /\ db' = After(tx) /\ Accepted(tx)
      /\ Calm' => end # "error" /\ (end = "ok" /\ SameCalls(After(tx), db) => Fresh')
  BY <1>1, <1>3, SessionWrites
<1>5. CASE end = "ok"
  <2>1. /\ svc' = "agent" /\ inDoubt' = {} /\ agent' # "waiting"
        /\ RunningAt(db', node', {}, totals, progress')
        /\ Calm' => Fresh'
    BY <1>1, <1>2, <1>3, <1>4, <1>5, GoesSomewhere
  <2>2. \A base \in {totals'} : Track(base)' /\ Calmly(base)'
    <3>1. totals' = totals
      BY <1>1
    <3> QED
      BY <2>1, <3>1, GoesOn
  <2>3. SessionTrack' /\ SessionCalm' /\ QuietEnd'
    BY <2>1, PromptElsewhere DEF PromptPlaces, BrokenPlaces, QuietEnd
  <2> QED
    BY <2>2, <2>3 DEF Traced, InputTrack
<1>6. CASE end = "error"
  <2>1. svc' = "fail_run" /\ ~Calm'
    BY <1>4, <1>6, GoesSomewhere
  <2> QED
    BY <2>1, BrokenTraced DEF InputPlaces, RecoveryPlaces
<1>7. CASE end = "cancelled"
  <2>1. svc' \in {"interrupt", "dead"}
    BY <1>7, GoesSomewhere
  <2> QED
    BY <2>1, LeftTraced
<1> QED
  BY <1>5, <1>6, <1>7 DEF Ends

\* finish_node: the counts of the input become part of the totals.
LEMMA FinishInputKeepsTraced ==
  ASSUME SoundInv, SessionCounts, Traced, Stepped, SuccessInv', FinishInput
  PROVE  Traced'
<1>1. /\ PInv /\ UNCHANGED <<cvars, stop, agent, progress>> /\ svc = "finish"
      /\ outcome.status \in Terminal /\ outcome.counts \in [1 .. 3 -> Nat]
      /\ totals' = Sum(totals, outcome.counts)
  BY DEF SoundInv, SInv, AInv, FinishInput, Service, CountsAreTyped, RunInv, ReportInv,
         ClosingPlaces, Totals, Sum
<1>2. Track(totals) /\ Calmly(totals)
  BY DEF Traced, InputTrack
<1>3. PICK end \in Ends :
        /\ FinishNode(outcome.status, end)
        /\ IF end = "ok" /\ outcome.status = "succeeded"
             THEN svc' = "idle" /\ inputs' = inputs + 1
             ELSE Goes(end, "fail_run", "fail_finish")
  BY DEF FinishInput
<1>4. CASE end = "cancelled"
  <2>1. svc' \in {"interrupt", "dead"}
    BY <1>3, <1>4, GoesSomewhere
  <2> QED
    BY <2>1, LeftTraced
<1>5. ASSUME Ready(db, node, "running", "running", {}), inDoubt = {}, Calm => Fresh
      PROVE  /\ node' = node
             /\ end = "ok" =>
                  /\ inDoubt' = {} /\ Ready(db', node', "running", outcome.status, {})
                  /\ db'.artifacts = db.artifacts
                  /\ \A turns, calls, arts :
                       Counts(db, turns, calls, arts) => Counts(db', turns, calls, arts)
             /\ Calm' => Calm /\ end # "error" /\ (end = "ok" => Fresh')
  <2>1. node' = node
    BY <1>1, <1>3, <1>5, FinishNodeLeads
  <2>2. PICK tx : /\ Transaction(tx) /\ Write(tx, end)
                  /\ Accepted(tx) => /\ Ready(After(tx), node, "running", outcome.status, {})
                                     /\ SameCalls(After(tx), db)
                                     /\ \A turns, calls, arts :
                                          Counts(db, turns, calls, arts) =>
                                            Counts(After(tx), turns, calls, arts)
                  /\ seq = LastNumber(db) => Accepted(tx)
    BY <1>1, <1>3, <1>5, FinishNodeLeads
  <2>3. /\ end = "ok" => inDoubt' = {} /\ db' = After(tx) /\ Accepted(tx)
        /\ Calm' => Calm /\ end # "error" /\ (end = "ok" /\ SameCalls(After(tx), db) => Fresh')
    BY <1>1, <1>5, <2>2, SessionWrites
  <2> QED
    BY <2>1, <2>2, <2>3 DEF SameCalls
<1>6. PInv /\ (Calm' => Calm)
  <2>1. stop' = stop
    BY <1>1
  <2> QED
    BY <1>1, <2>1, CalmBefore
<1>7. ASSUME Calm
      PROVE  /\ Ready(db, node, "running", "running", {}) /\ Fresh /\ inDoubt = {}
             /\ FitsBudget(db) => Tally(db, Sum(totals, outcome.counts))
  BY <1>1, <1>2, <1>7 DEF Calmly, Fresh
<1>8. CASE end = "error"
  <2>1. ~Calm'
    BY <1>5, <1>6, <1>7, <1>8
  <2>2. svc' = "fail_finish"
    BY <1>3, <1>8, GoesSomewhere
  <2> QED
    BY <2>1, <2>2, BrokenTraced DEF InputPlaces, RecoveryPlaces
<1>9. CASE end = "ok" /\ outcome.status = "succeeded"
  <2>1. /\ inDoubt = {} /\ Ready(db, node, "running", "running", {})
        /\ CountsAre(db, Sum(totals, outcome.counts))
    BY <1>1, <1>2, <1>9 DEF Track
  <2>2. /\ inDoubt' = {} /\ Ready(db', node', "running", "succeeded", {})
        /\ CountsAre(db', totals') /\ (Calm' => Fresh')
    BY <1>1, <1>5, <1>7, <1>9, <2>1 DEF CountsAre
  <2>3. svc' = "idle" /\ inputs' # 0
    BY <1>3, <1>9 DEF SessionCounts
  <2>4. SessionTrack' /\ SessionCalm' /\ QuietEnd'
    BY <2>2, <2>3 DEF AtPrompt, SessionTrack, SessionCalm, BrokenPlaces, QuietEnd
  <2>5. InputTrack'
    BY <2>3, InputElsewhere DEF InputPlaces, RecoveryPlaces
  <2> QED
    BY <2>4, <2>5 DEF Traced
<1>10. CASE end = "ok" /\ outcome.status # "succeeded"
  <2>1. svc' = "fail_run"
    BY <1>3, <1>10, GoesSomewhere
  <2>2. ASSUME Calm'
        PROVE  /\ Fresh' /\ Ready(db', node', "running", outcome.status, {})
               /\ FitsBudget(db') => Tally(db', totals')
    <3>1. /\ Fresh' /\ Ready(db', node', "running", outcome.status, {})
          /\ db'.artifacts = db.artifacts
          /\ \A turns, calls, arts :
               Counts(db, turns, calls, arts) => Counts(db', turns, calls, arts)
      BY <1>5, <1>6, <1>7, <1>10, <2>2
    <3>2. FitsBudget(db') => Tally(db, totals')
      BY <1>1, <1>6, <1>7, <2>2, <3>1 DEF FitsBudget
    <3>3. Tally(db, totals') => Tally(db', totals')
      BY <3>1 DEF Tally, CountsAre
    <3> QED
      BY <3>1, <3>2, <3>3
  <2>3. SessionTrack' /\ SessionCalm' /\ QuietEnd'
    BY <1>1, <2>1, <2>2 DEF SessionTrack, SessionCalm, BrokenPlaces, QuietEnd
  <2>4. InputTrack'
    BY <2>1, InputElsewhere DEF InputPlaces, RecoveryPlaces
  <2> QED
    BY <2>3, <2>4 DEF Traced
<1> QED
  BY <1>4, <1>8, <1>9, <1>10 DEF Ends

\* The transaction that ends the Run of a session.
LEMMA RunIsEnded ==
  ASSUME SoundInv, NEW end, NEW status \in Terminal, NEW c \in [1 .. 3 -> Nat],
         FinishRun(status, c, end), NEW t \in Terminal, Ready(db, node, "running", t, {})
  PROVE  /\ node' = node
         /\ \E tx : /\ Transaction(tx) /\ Write(tx, end)
                    /\ seq = LastNumber(db) => Accepted(tx)
                    /\ Accepted(tx) => After(tx).artifacts = db.artifacts
         /\ \A turns : Counts(db, turns, c[2], c[3]) =>
              \E tx : /\ Transaction(tx) /\ Write(tx, end)
                      /\ seq = LastNumber(db) => Accepted(tx)
                      /\ Accepted(tx) =>
                           InspectConsistency(After(tx)) =
                             IF c[1] = turns THEN {} ELSE {"model_turn_count_mismatch"}
<1>1. PInv /\ SInv /\ node \in Node /\ c \in Seq(Nat)
  BY Triple DEF SoundInv, SInv, AInv, PInv, PTypeOK
<1>2. PICK tx : /\ Transaction(tx) /\ Write(tx, end) /\ tx.needs = {} /\ node' = node
                /\ Shape(tx, {}, {Run, Task}, status, {})
  BY <1>1, FinishRunWrites
<1>3. ASSUME seq = LastNumber(db)
      PROVE  Accepted(tx)
  <2>1. \A r \in {Run, Task} : db.status[r] # Absent /\ EnsureTransition(db.status[r], status)
    BY Moves DEF Ready
  <2>2. Typed(tx)
    BY <1>2 DEF Transaction
  <2> QED
    BY <1>1, <1>2, <1>3, <2>1, <2>2, IsAccepted
<1>4. After(tx).artifacts = db.artifacts
  BY <1>2 DEF Shape, After
<1>5. ASSUME NEW turns, Counts(db, turns, c[2], c[3])
      PROVE  \E u : /\ Transaction(u) /\ Write(u, end)
                    /\ seq = LastNumber(db) => Accepted(u)
                    /\ Accepted(u) =>
                         InspectConsistency(After(u)) =
                           IF c[1] = turns THEN {} ELSE {"model_turn_count_mismatch"}
  <2>1. \E u : /\ Transaction(u) /\ Write(u, end)
               /\ Accepted(u) => /\ \E k : Ended(After(u), status, k, c)
                                 /\ Counts(After(u), turns, c[2], c[3])
               /\ seq = LastNumber(db) => Accepted(u)
    BY <1>1, <1>5, FinishRunLeads
  <2> QED
    BY <1>1, <2>1, EndedTrace
<1> QED
  BY <1>2, <1>3, <1>4, <1>5

\* When nothing has failed, the end of the Run is acknowledged and its trace is
\* consistent but for a refused request.
LEMMA CalmRunEnds ==
  ASSUME SoundInv, Stepped, NEW end \in Ends, NEW status \in Terminal, NEW c \in [1 .. 3 -> Nat],
         FinishRun(status, c, end), UNCHANGED <<cvars, stop>>, Calm', Fresh,
         NEW t \in Terminal, Ready(db, node, "running", t, {}),
         FitsBudget(db) => Tally(db, c)
  PROVE  /\ end # "error"
         /\ end = "ok" => (FitsBudget(db') => InspectConsistency(db') \subseteq Excused)
<1>1. SInv /\ inDoubt = {} /\ seq = LastNumber(db)
  BY DEF SoundInv, Fresh
<1>2. PICK tx : /\ Transaction(tx) /\ Write(tx, end)
                /\ seq = LastNumber(db) => Accepted(tx)
                /\ Accepted(tx) => After(tx).artifacts = db.artifacts
  BY RunIsEnded
<1>3. /\ end = "ok" => db' = After(tx) /\ Accepted(tx)
      /\ end # "error"
  BY <1>1, <1>2, SessionWrites
<1>4. ASSUME end = "ok", FitsBudget(db')
      PROVE  InspectConsistency(db') \subseteq Excused
  <2>1. FitsBudget(db)
    BY <1>2, <1>3, <1>4 DEF FitsBudget
  <2>2. ASSUME NEW turns, Counts(db, turns, c[2], c[3])
        PROVE  InspectConsistency(db') = IF c[1] = turns THEN {} ELSE {"model_turn_count_mismatch"}
    <3>1. PICK u : /\ Transaction(u) /\ Write(u, end)
                   /\ Accepted(u) =>
                        InspectConsistency(After(u)) =
                          IF c[1] = turns THEN {} ELSE {"model_turn_count_mismatch"}
      BY <2>2, RunIsEnded
    <3>2. Accepted(u) /\ db' = After(u)
      BY <1>1, <1>4, <3>1, Acknowledged
    <3> QED
      BY <3>1, <3>2
  <2>3. CASE CountsAre(db, c)
    BY <2>2, <2>3 DEF CountsAre
  <2>4. CASE ~RequestsFit /\ Counts(db, c[1] - 1, c[2], c[3])
    BY <2>2, <2>4 DEF Excused
  <2> QED
    BY <2>1, <2>3, <2>4 DEF Tally
<1> QED
  BY <1>3, <1>4

\* A session that ends because something has not succeeded.
LEMMA FailuresKeepTraced ==
  ASSUME SoundInv, FailureInv, SessionCounts, Traced, Stepped,
         FinishAfterNodeFailure \/ FinishRunFailure \/ FailureMatches
  PROVE  Traced'
<1>1. /\ PInv /\ UNCHANGED <<cvars, stop>>
      /\ svc \in {"fail_finish", "fail_run", "fail_match", "close_fail", "close_fail_match"}
      /\ outcome.status # "succeeded" /\ outcome.status \in Terminal
      /\ (Calm' => Calm)
  <2>1. /\ svc \in {"fail_finish", "fail_run", "fail_match", "close_fail", "close_fail_match"}
        /\ UNCHANGED <<cvars, stop>>
    BY DEF FinishAfterNodeFailure, FinishRunFailure, FailureMatches, Service
  <2>2. outcome.status # "succeeded" /\ outcome.status \in Terminal
    BY <2>1 DEF FailureInv, FailurePlaces, SoundInv, RunInv, ReportInv, ClosingPlaces
  <2>3. PInv /\ stop' = stop
    BY <2>1 DEF SoundInv, SInv, AInv
  <2>4. Calm' => Calm
    BY <2>3, CalmBefore
  <2> QED
    BY <2>1, <2>2, <2>3, <2>4
<1>2. SuccessInv'
  <2>1. PICK end : \/ Load(end)
                   \/ Finish(outcome.status, totals, end)
                   \/ FinishRun(outcome.status, totals, end)
    BY DEF FinishAfterNodeFailure, FinishRunFailure, FailureMatches
  <2> QED
    BY <1>1, <2>1, LoadKeepsSuccess, OtherEndsKeepSuccess DEF Traced
<1>3. svc' \in {"done", "interrupt", "dead", "fail_run", "fail_match", "close_fail_match"}
  <2>1. CASE FinishAfterNodeFailure
    BY <2>1, GoesSomewhere DEF FinishAfterNodeFailure, Returns, Ends
  <2>2. CASE FinishRunFailure
    BY <2>2, GoesSomewhere DEF FinishRunFailure, Returns, Ends
  <2>3. CASE FailureMatches
    BY <2>3, GoesSomewhere DEF FailureMatches, Returns, Ends
  <2> QED
    BY <2>1, <2>2, <2>3
<1>4. CASE svc # "fail_run" \/ ~Calm'
  <2>1. ~Calm'
    BY <1>1, <1>4 DEF Traced, SessionCalm, BrokenPlaces
  <2> QED
    BY <1>2, <1>3, <2>1, BrokenTraced DEF InputPlaces, RecoveryPlaces
<1>5. CASE svc = "fail_run" /\ Calm'
  <2>1. PICK end \in Ends :
          /\ FinishRun(outcome.status, totals, end)
          /\ IF end = "ok" THEN Returns(TRUE) ELSE Goes(end, "done", "fail_match")
    BY <1>5 DEF FinishAfterNodeFailure, FinishRunFailure, FailureMatches, Service
  <2>2. Fresh /\ (FitsBudget(db) => Tally(db, totals)) /\ totals \in [1 .. 3 -> Nat]
    BY <1>1, <1>5 DEF Traced, SessionCalm, SessionCounts
  <2>3. PICK t \in Terminal : Ready(db, node, "running", t, {})
    BY <1>1, <1>5 DEF Traced, SessionCalm
  <2>4. /\ end # "error"
        /\ end = "ok" => (FitsBudget(db') => InspectConsistency(db') \subseteq Excused)
    BY <1>1, <1>5, <2>1, <2>2, <2>3, CalmRunEnds
  <2>5. CASE end = "ok"
    <3>1. svc' = "done" /\ persisted'
      BY <2>1, <2>5 DEF Returns
    <3>2. QuietEnd'
      BY <2>4, <2>5, <3>1 DEF QuietEnd
    <3> QED
      BY <1>2, <3>1, <3>2, InputElsewhere, PromptElsewhere
      DEF Traced, InputPlaces, RecoveryPlaces, PromptPlaces, BrokenPlaces
  <2>6. CASE end = "cancelled"
    <3>1. svc' \in {"interrupt", "dead"}
      BY <2>1, <2>6, GoesSomewhere
    <3> QED
      BY <1>2, <3>1, LeftTraced
  <2> QED
    BY <2>4, <2>5, <2>6 DEF Ends
<1> QED
  BY <1>4, <1>5

\* A session that is closed after an input that succeeded.
LEMMA CloseKeepsTraced ==
  ASSUME SoundInv, SessionCounts, Traced, Stepped, CloseRun \/ CloseMatches
  PROVE  Traced'
<1>1. /\ PInv /\ SInv /\ UNCHANGED <<cvars, stop>> /\ (Calm' => Calm)
      /\ totals \in [1 .. 3 -> Nat] /\ "succeeded" \in Terminal
  <2>1. UNCHANGED <<cvars, stop>>
    BY DEF CloseRun, CloseMatches, Service
  <2>2. PInv /\ SInv /\ stop' = stop
    BY <2>1 DEF SoundInv, SInv, AInv
  <2>3. Calm' => Calm
    BY <2>2, CalmBefore
  <2> QED
    BY <2>1, <2>2, <2>3 DEF SessionCounts, Terminal
<1>2. {"ok", "error"} \subseteq Ends
  BY DEF Ends
<1>3. CASE CloseMatches
  <2>1. PICK end \in {"ok", "error"} :
          /\ Load(end)
          /\ IF end = "ok" /\ db.status[Run] = outcome.status
               THEN Returns(TRUE) ELSE Goes(end, "close_fail", "close_fail")
    BY <1>3 DEF CloseMatches
  <2>2. svc' \in {"done", "close_fail"}
    BY <1>2, <2>1, GoesSomewhere DEF Returns
  <2>3. ~Calm'
    BY <1>1, <1>3 DEF CloseMatches, Service, Traced, SessionCalm, BrokenPlaces
  <2>4. SuccessInv'
    BY <2>1, LoadKeepsSuccess DEF Traced
  <2> QED
    BY <2>2, <2>3, <2>4, BrokenTraced DEF InputPlaces, RecoveryPlaces
<1>4. CASE CloseRun
  <2>1. svc = "close_run" /\ outcome.status \in Terminal
    BY <1>4 DEF CloseRun, Service, SoundInv, RunInv, ReportInv, ClosingPlaces
  <2>2. PICK end \in {"ok", "error"} :
          /\ FinishRun(outcome.status, totals, end)
          /\ IF end = "ok" THEN Returns(TRUE) ELSE Goes(end, "done", "close_match")
    BY <1>4 DEF CloseRun
  <2>3. /\ Ready(db, node, "running", "succeeded", {}) /\ CountsAre(db, totals)
        /\ (Calm => Fresh)
    BY <2>1 DEF Traced, SessionTrack, SessionCalm, AtPrompt
  <2>4. SuccessInv'
    <3>1. \E tx : /\ Transaction(tx) /\ Write(tx, end)
                  /\ Accepted(tx) => InspectConsistency(After(tx)) = {}
      BY <1>1, <1>2, <2>1, <2>2, <2>3, RunIsEnded DEF CountsAre
    <3> QED
      BY <3>1, WriteKeepsSuccess DEF Traced
  <2>5. ASSUME Calm'
        PROVE  /\ end # "error"
               /\ end = "ok" => (FitsBudget(db') => InspectConsistency(db') \subseteq Excused)
    <3>1. Fresh /\ Tally(db, totals) /\ end \in Ends
      BY <1>1, <1>2, <2>3, <2>5 DEF Tally
    <3> QED
      BY <1>1, <2>1, <2>2, <2>3, <2>5, <3>1, CalmRunEnds
  <2>6. CASE end = "ok"
    <3>1. svc' = "done" /\ persisted'
      BY <2>2, <2>6 DEF Returns
    <3>2. QuietEnd'
      BY <2>5, <2>6, <3>1 DEF QuietEnd
    <3> QED
      BY <2>4, <3>1, <3>2, InputElsewhere, PromptElsewhere
      DEF Traced, InputPlaces, RecoveryPlaces, PromptPlaces, BrokenPlaces
  <2>7. CASE end = "error"
    <3>1. svc' = "close_match" /\ ~Calm'
      BY <1>2, <2>2, <2>5, <2>7, GoesSomewhere
    <3> QED
      BY <2>4, <3>1, BrokenTraced DEF InputPlaces, RecoveryPlaces
  <2> QED
    BY <2>6, <2>7
<1> QED
  BY <1>3, <1>4

\* The close writes what it would have written, or nothing.
LEMMA InterruptedCloseKeepsTraced ==
  ASSUME SoundInv, FailureInv, SessionCounts, Traced, CloseInterrupted
  PROVE  Traced'
<1>1. SuccessInv /\ "cancelled" \in Ends /\ svc' = "dead"
  BY DEF Traced, CloseInterrupted, Ends
<1>2. outcome.status \in Terminal
  BY DEF CloseInterrupted, SoundInv, RunInv, ReportInv, ClosingPlaces
<1>3. CASE svc = "close_run" /\ FinishRun(outcome.status, totals, "cancelled")
  <2>1. /\ Ready(db, node, "running", "succeeded", {}) /\ CountsAre(db, totals)
        /\ totals \in [1 .. 3 -> Nat] /\ "succeeded" \in Terminal
    BY <1>3 DEF Traced, SessionTrack, AtPrompt, SessionCounts, Terminal
  <2>2. \E tx : /\ Transaction(tx) /\ Write(tx, "cancelled")
                /\ Accepted(tx) => InspectConsistency(After(tx)) = {}
    BY <1>1, <1>2, <1>3, <2>1, RunIsEnded DEF CountsAre
  <2> QED
    BY <1>1, <2>2, WriteKeepsSuccess, LeftTraced
<1>4. CASE svc = "close_fail" /\ FinishRun(outcome.status, totals, "cancelled")
  <2>1. outcome.status # "succeeded"
    BY <1>4 DEF FailureInv, FailurePlaces
  <2>2. SuccessInv'
    BY <1>1, <1>4, <2>1, OtherEndsKeepSuccess
  <2> QED
    BY <1>1, <2>2, LeftTraced
<1>5. CASE Load("cancelled")
  BY <1>1, <1>5, LoadKeepsSuccess, LeftTraced
<1> QED
  BY <1>3, <1>4, <1>5 DEF CloseInterrupted

\* The steps that a session shares with a single Run.
LEMMA SharedKeepTraced ==
  ASSUME SoundInv, SoundInv', SessionCounts, Traced, Stepped, UNCHANGED sessionvars,
         \/ Setup \/ RecoverLoad \/ RecoverMatch
         \/ Recovering("recover_start", "recover_finish")
         \/ Recovering("recover_finish", "recover_match")
         \/ Agent \/ CallCancelled
         \/ InvocationTask /\ UNCHANGED svars
  PROVE  Traced'
<1>1. totals' = totals /\ SuccessInv /\ InputTrack
  BY DEF sessionvars, Traced
<1>2. CASE Setup
  <2>1. \A base \in [1 .. 3 -> Nat] :
          Track(base) /\ Calmly(base) => Track(base)' /\ Calmly(base)'
    BY <1>2, SetupKeepsTrack
  <2>2. InputTrack'
    BY <1>1, <2>1, InputIsTracked
  <2>3. svc' \in {"start", "agent", "recover", "dead", "interrupt"}
    BY <1>2, GoesSomewhere DEF Setup, Ends
  <2>4. SessionTrack' /\ SessionCalm' /\ QuietEnd'
    BY <2>3, PromptElsewhere DEF PromptPlaces, BrokenPlaces, QuietEnd
  <2>5. SuccessInv'
    BY <1>1, <1>2, OtherEndsKeepSuccess DEF Setup
  <2> QED
    BY <2>2, <2>4, <2>5 DEF Traced
<1>3. CASE \/ RecoverLoad \/ RecoverMatch
           \/ Recovering("recover_start", "recover_finish")
           \/ Recovering("recover_finish", "recover_match")
  <2>1. Calmly(totals)
    BY <1>1 DEF InputTrack
  <2>2. Track(totals)' /\ Calmly(totals)' /\ SuccessInv' /\ ~Calm'
    <3>1. \A base : Calmly(base) => Track(base)' /\ Calmly(base)' /\ SuccessInv' /\ ~Calm'
      BY <1>1, <1>3, RecoveryKeepsTrack
    <3>2. Calmly(totals) => Track(totals)' /\ Calmly(totals)' /\ SuccessInv' /\ ~Calm'
      <4>1. \A base : base = totals =>
              (Calmly(base) => Track(base)' /\ Calmly(base)' /\ SuccessInv' /\ ~Calm')
        BY <3>1
      <4> QED
        BY <1>1, <3>1, RecoveryKeepsTrack
    <3> QED
      BY <2>1, <3>2
  <2>3. svc' \in RecoveryPlaces \cup {"done", "dead", "interrupt"}
    <3>1. CASE RecoverLoad \/ RecoverMatch
      BY <3>1, GoesSomewhere DEF RecoverLoad, RecoverMatch, Returns, Recovery, RecoveryPlaces, Ends
    <3>2. CASE \/ Recovering("recover_start", "recover_finish")
               \/ Recovering("recover_finish", "recover_match")
      BY <3>2, GoesSomewhere DEF Recovering, Returns, RecoveryPlaces, Ends
    <3> QED
      BY <1>3, <3>1, <3>2
  <2>4. SessionTrack' /\ SessionCalm' /\ QuietEnd'
    BY <2>2, <2>3 DEF SessionTrack, SessionCalm, RecoveryPlaces, QuietEnd
  <2> QED
    BY <2>2, <2>4 DEF Traced, InputTrack
<1>4. CASE Agent \/ CallCancelled \/ (InvocationTask /\ UNCHANGED svars)
  <2>1. \A base \in [1 .. 3 -> Nat] :
          Track(base) /\ Calmly(base) => Track(base)' /\ Calmly(base)'
    BY <1>4, AgentKeepsTrack, TaskKeepsTrack
  <2>2. InputTrack'
    BY <1>1, <2>1, InputIsTracked
  <2>3. svc' \in {"agent", "finish"}
    <3>1. CASE Agent \/ CallCancelled
      BY <3>1, AgentLeaves
    <3>2. CASE InvocationTask /\ UNCHANGED svars
      BY <3>2, AwaitedTask
    <3> QED
      BY <1>4, <3>1, <3>2
  <2>4. SessionTrack' /\ SessionCalm' /\ QuietEnd'
    BY <2>3, PromptElsewhere DEF PromptPlaces, BrokenPlaces, QuietEnd
  <2>5. RunIsOpen'
    BY <2>3 DEF SoundInv, RunInv, RecordInv, OpenPlaces
  <2> QED
    BY <2>2, <2>4, <2>5, OpenKeepsSuccess DEF Traced
<1> QED
  BY <1>2, <1>3, <1>4

\* The server decides late, or nothing happens.
LEMMA SettleKeepsTraced ==
  ASSUME SoundInv, SessionCounts, Traced, Settle, UNCHANGED <<cvars, svars, sessionvars>>
  PROVE  Traced'
<1>1. /\ inDoubt # {} /\ inDoubt' = {} /\ db' \in {db} \cup inDoubt
      /\ UNCHANGED <<svc, stop, faults, persisted, totals, inputs>>
      /\ UNCHANGED <<cvars, svars>>
  BY DEF Settle, svars, sessionvars
<1>2. SuccessInv'
  BY <1>1 DEF Traced, SuccessInv
<1>3. svc \notin {"idle", "close_run", "add_node", "start_node"}
  BY <1>1 DEF Traced, SessionTrack, AtPrompt, SoundInv, RunInv, RecordInv
<1>4. ASSUME NEW base \in [1 .. 3 -> Nat], Track(base), Calmly(base)
      PROVE  Track(base)' /\ Calmly(base)'
  BY <1>1, <1>4, SettleKeepsTrack
<1>5. InputTrack'
  BY <1>1, <1>4, InputIsTracked DEF Traced
<1>6. SessionTrack'
  BY <1>1, <1>3 DEF SessionTrack
<1>7. Calm' /\ svc' = "fail_run" => FALSE
  BY <1>1 DEF Traced, SessionCalm, Calm, Fresh
<1>8. SessionCalm'
  BY <1>1, <1>3, <1>7 DEF Traced, SessionCalm, Calm
<1>9. QuietEnd'
  <2>1. svc = "done" /\ persisted => db.status[Run] \in Terminal
    BY DEF SoundInv, RunInv, ReportInv, PersistedMeansDurable, ClosingPlaces
  <2>2. ~(svc = "done" /\ persisted)
    BY <1>1, <2>1 DEF SoundInv, RunInv, RecordInv, EndIsDecided
  <2>3. ~(svc = "done" /\ Calm)
    BY <2>2 DEF Traced, QuietEnd
  <2> QED
    BY <1>1, <2>3 DEF QuietEnd, Calm
<1> QED
  BY <1>2, <1>5, <1>6, <1>8, <1>9 DEF Traced

\* A step of somebody else.
LEMMA StutterKeepsTraced ==
  ASSUME Traced, UNCHANGED chatvars
  PROVE  Traced'
<1>1. /\ db' = db /\ seq' = seq /\ node' = node /\ inDoubt' = inDoubt /\ faults' = faults
      /\ call' = call /\ waiter' = waiter /\ used' = used /\ disk' = disk
      /\ svc' = svc /\ agent' = agent /\ progress' = progress /\ stop' = stop
      /\ outcome' = outcome /\ persisted' = persisted
      /\ inputs' = inputs /\ totals' = totals
  BY DEF chatvars, runvars, pvars, cvars, svars, sessionvars
<1>2. Track(totals) /\ Calmly(totals)
  BY DEF Traced, InputTrack
<1>3. CallTrack(totals) => CallTrack(totals)'
  BY <1>1 DEF CallTrack
<1>4. Track(totals)'
  BY <1>1, <1>2, <1>3 DEF Track
<1>5. (Fresh => Fresh') /\ (CalmCall(totals) => CalmCall(totals)') /\ (Calm' => Calm)
  BY <1>1 DEF Fresh, CalmCall, Calm
<1>6. Calmly(totals)'
  BY <1>1, <1>2, <1>5 DEF Calmly
<1>7. InputTrack'
  BY <1>4, <1>6 DEF InputTrack
<1>8. SessionTrack' /\ SessionCalm'
  BY <1>1, <1>5 DEF Traced, SessionTrack, AtPrompt, SessionCalm
<1>9. SuccessInv' /\ QuietEnd'
  BY <1>1 DEF Traced, SuccessInv, QuietEnd, Calm
<1> QED
  BY <1>7, <1>8, <1>9 DEF Traced

\* The NodeRun of an input leaves the Run open.
LEMMA NodeKeepsTraced ==
  ASSUME SoundInv, SoundInv', SessionCounts, Traced, Stepped, NodeSetup \/ FinishInput
  PROVE  Traced'
<1>1. SuccessInv'
  <2>1. svc \in {"add_node", "start_node", "finish"}
    BY DEF NodeSetup, FinishInput, Service
  <2>2. RunIsOpen /\ node \in Node
    BY <2>1 DEF SoundInv, RunInv, RecordInv, OpenPlaces
  <2>3. PICK end \in Ends : \/ \E n \in Node : AddNode(n, end)
                            \/ StartNode(end)
                            \/ FinishNode(outcome.status, end)
    BY DEF NodeSetup, FinishInput
  <2>4. RunIsOpen'
    BY <2>2, <2>3, MethodsBelowRun
  <2> QED
    BY <2>4, OpenKeepsSuccess
<1>2. CASE FinishInput
  BY <1>1, <1>2, FinishInputKeepsTraced
<1>3. CASE NodeSetup
  <2>1. UNCHANGED sessionvars
    BY <1>3 DEF NodeSetup
  <2>2. PICK end \in Ends :
          \/ /\ Service("add_node")
             /\ \E n \in Node : db.status[n] = Absent /\ AddNode(n, end)
             /\ Goes(end, "start_node", "fail_run")
          \/ Service("start_node") /\ StartNode(end) /\ Goes(end, "agent", "fail_run")
    BY <1>3 DEF NodeSetup
  <2> QED
    BY <1>1, <2>1, <2>2, AddNodeKeepsTraced, StartNodeKeepsTraced
<1> QED
  BY <1>2, <1>3

-----------------------------------------------------------------------------
ChatTrace == SoundInv /\ FailureInv /\ SessionCounts /\ Traced

\* The invariant is inductive.
LEMMA ChatNextKeepsTrace ==
  ASSUME ChatTrace, [ChatNext]_chatvars
  PROVE  ChatTrace'
<1>1. SoundInv /\ FailureInv /\ SessionCounts /\ Traced
  BY DEF ChatTrace
<1>2. SoundInv' /\ FailureInv' /\ SessionCounts' /\ Stepped
  BY <1>1, ChatNextKeepsSound
<1>3. Traced'
  <2>1. CASE UNCHANGED chatvars
    BY <1>1, <2>1, StutterKeepsTraced
  <2>2. CASE Submit \/ Close \/ Expire \/ InterruptPrompt \/ Interrupt
    BY <1>1, <2>2, PromptKeepsTraced
  <2>3. CASE NodeSetup \/ FinishInput
    BY <1>1, <1>2, <2>3, NodeKeepsTraced
  <2>4. CASE EndsTheRun
    BY <1>1, <1>2, <2>4, FailuresKeepTraced, CloseKeepsTraced DEF EndsTheRun
  <2>5. CASE /\ UNCHANGED sessionvars
             /\ \/ Setup \/ RecoverLoad \/ RecoverMatch
                \/ Recovering("recover_start", "recover_finish")
                \/ Recovering("recover_finish", "recover_match")
    BY <1>1, <1>2, <2>5, SharedKeepTraced
  <2>6. CASE UNCHANGED sessionvars /\ (Agent \/ CallCancelled \/ (InvocationTask /\ UNCHANGED svars))
    BY <1>1, <1>2, <2>6, SharedKeepTraced
  <2>7. CASE Settle /\ UNCHANGED <<cvars, svars, sessionvars>>
    BY <1>1, <2>7, SettleKeepsTraced
  <2>8. CASE CloseInterrupted
    BY <1>1, <2>8, InterruptedCloseKeepsTraced
  <2> QED
    BY <2>1, <2>2, <2>3, <2>4, <2>5, <2>6, <2>7, <2>8 DEF ChatNext, Session, ChatAgent, EndsTheRun
<1> QED
  BY <1>2, <1>3 DEF ChatTrace

\* A session starts at its prompt, with nothing stored.
LEMMA InitChatTrace ==
  ASSUME ChatInit
  PROVE  ChatTrace
<1>1. /\ PInit /\ CInit /\ svc = "idle" /\ outcome = NoOutcome
      /\ turn = [repair |-> FALSE, failure |-> "none"]
      /\ progress = [turns |-> 0, calls |-> 0, arts |-> 0, repairs |-> 0]
      /\ inputs = 0 /\ totals = Zero /\ last = NoOutcome
  BY DEF ChatInit, Zero
<1>2. SInv /\ RunInv /\ FailureInv
  BY <1>1, InitSInv, InitChatInv DEF ChatInv, RunInv
<1>3. Zero \in [1 .. 3 -> Nat]
  BY Triple DEF Zero
<1>4. CountsAreTyped /\ SessionCounts
  <2>1. NoOutcome.counts \in [1 .. 3 -> Nat]
    BY <1>3 DEF NoOutcome, Zero
  <2> QED
    BY <1>1, <1>3, <2>1 DEF CountsAreTyped, SessionCounts
<1>5. /\ inDoubt = {} /\ Reached(db, node, Absent, Absent, {}, Zero, progress)
      /\ seq = LastNumber(db)
  BY <1>1, <1>3, NothingYet
<1>6. AtPrompt(Absent, Absent)
  <2>1. Zero[1] + progress.turns = Zero[1] /\ Zero[2] + progress.calls = Zero[2]
        /\ Zero[3] + progress.arts = Zero[3]
    BY <1>1 DEF Zero
  <2> QED
    BY <1>1, <1>5, <2>1 DEF AtPrompt, Reached, CountsAre
<1>7. Fresh
  <2>1. /\ \A i \in Invocation \ used : db.status[i] = Absent
        /\ \A b \in db.artifacts : disk[b.id] # "none"
    BY <1>1 DEF PInit, Record
  <2> QED
    BY <1>5, <2>1 DEF Fresh
<1>8. SessionTrack /\ SessionCalm
  BY <1>1, <1>6, <1>7 DEF SessionTrack, SessionCalm, BrokenPlaces
<1>9. InputTrack /\ QuietEnd
  BY <1>1 DEF InputTrack, Track, Calmly, RecoveryPlaces, QuietEnd
<1>10. SuccessInv
  <2>1. RunIsOpen
    BY <1>1, <1>2 DEF RunInv, RecordInv, OpenPlaces
  <2> QED
    BY <2>1 DEF RunIsOpen, SuccessInv, Terminal
<1> QED
  BY <1>2, <1>4, <1>8, <1>9, <1>10 DEF ChatTrace, SoundInv, Traced

\* A session, too, never leaves a durable success without a complete trace.
THEOREM ChatSuccessesAreConsistent == ChatSpec => []SuccessIsConsistent
<1>1. ChatInit => ChatTrace
  BY InitChatTrace
<1>2. ChatTrace /\ [ChatNext]_chatvars => ChatTrace'
  BY ChatNextKeepsTrace
<1>3. ChatTrace => SuccessIsConsistent
  BY DEF ChatTrace, Traced, SuccessInv, SuccessIsConsistent
<1> QED
  BY <1>1, <1>2, <1>3, PTL DEF ChatSpec

\* A session in which nothing fails and nobody interrupts ends with a durable Run
\* whose trace is consistent but for a refused request, however many inputs it
\* had, if its Artifacts are as many as an outcome can hold.
THEOREM QuietChatsAreConsistent == ChatSpec => [](FitsBudget(db) => QuietChatIsConsistent)
<1>1. ChatInit => ChatTrace
  BY InitChatTrace
<1>2. ChatTrace /\ [ChatNext]_chatvars => ChatTrace'
  BY ChatNextKeepsTrace
<1>3. ChatTrace => (FitsBudget(db) => QuietChatIsConsistent)
  BY DEF ChatTrace, Traced, QuietEnd, Calm, QuietChatIsConsistent
<1> QED
  BY <1>1, <1>2, <1>3, PTL DEF ChatSpec

\* That is so of every session when no more Artifacts exist.
THEOREM QuietChatsWithinBudget ==
  ASSUME IsFiniteSet(Artifact), Cardinality(Artifact) <= ArtifactBudget
  PROVE  ChatSpec => []QuietChatIsConsistent
<1>1. ChatInit => ChatTrace
  BY InitChatTrace
<1>2. ChatTrace /\ [ChatNext]_chatvars => ChatTrace'
  BY ChatNextKeepsTrace
<1>3. ASSUME ChatTrace
      PROVE  QuietChatIsConsistent
  <2>1. FitsBudget(db)
    BY <1>3, ArtifactsFit DEF ChatTrace, SoundInv
  <2> QED
    BY <1>3, <2>1 DEF ChatTrace, Traced, QuietEnd, Calm, QuietChatIsConsistent
<1> QED
  BY <1>1, <1>2, <1>3, PTL DEF ChatSpec

-----------------------------------------------------------------------------
(***************************************************************************)
(* What RunPersistence promises any caller, of a whole session.             *)
(***************************************************************************)
\* SInv is of the records as they are, LInv of what an undecided commit will
\* append to them.
ChatRecords == SoundInv /\ FailureInv /\ SessionCounts /\ LInv

\* ChatRecords is inductive, and a step of a session is a step of the ledger.
LEMMA ChatNextKeepsRecords ==
  ASSUME ChatRecords, [ChatNext]_chatvars
  PROVE  ChatRecords' /\ [Ledger!Commit]_(Ledger!vars)
<1>1. SoundInv' /\ FailureInv' /\ SessionCounts' /\ Stepped
  BY ChatNextKeepsSound DEF ChatRecords
<1>2. LInv'
  BY <1>1, SteppedKeepsLInv DEF ChatRecords, SoundInv, SInv, AInv
<1> QED
  BY <1>1, <1>2, SteppedImplements DEF ChatRecords

\* It holds at the first prompt.
LEMMA InitChatRecords == ChatInit => ChatRecords /\ Ledger!Init
  BY InitChatTrace, InitImplements DEF ChatInit, ChatTrace, ChatRecords

\* A session of any number of inputs implements the append-only ledger, also where
\* one input fails and where close, expiry and interrupt end it
\* (PersistentChatSession over RunPersistence).
THEOREM ChatsImplementLedger == ChatSpec => ImplementsLedger
<1>1. ChatRecords /\ [ChatNext]_chatvars => ChatRecords' /\ [Ledger!Commit]_(Ledger!vars)
  BY ChatNextKeepsRecords
<1> QED
  BY <1>1, InitChatRecords, PTL DEF ChatSpec, ImplementsLedger, Ledger!Spec

\* Its Events are numbered without gap over all inputs, and each Artifact of
\* its calls is announced once (RunPersistence._write, finish_invocation).
THEOREM ChatsKeepRecords == ChatSpec => [](EventNumbering /\ ArtifactsAreTold)
<1>1. ChatRecords => EventNumbering
  BY ContiguousLast DEF ChatRecords, LInv, PInv, EventNumbering
<1>2. ChatRecords => ArtifactsAreTold
  BY AInvCounted DEF ChatRecords, SoundInv, SInv
<1>3. ChatInit => ChatRecords
  BY InitChatRecords
<1>4. ChatRecords /\ [ChatNext]_chatvars => ChatRecords'
  BY ChatNextKeepsRecords
<1> QED
  BY <1>1, <1>2, <1>3, <1>4, PTL DEF ChatSpec
=============================================================================
