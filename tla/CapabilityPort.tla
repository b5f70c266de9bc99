-------------------------- MODULE CapabilityPort ---------------------------
(***************************************************************************)
(* One Capability call, as two tasks of the event loop.                     *)
(*   The invocation task is PersistedCapabilityPort.invoke                  *)
(*   (anban/runtime/capability_persistence.py): begin, inner call, terminal *)
(*   transaction, and, when that fails, confirmation, snapshot cleanup and  *)
(*   one compensation.                                                      *)
(*   The waiter is FixedGeneralAgent._invoke_capability (agent.py), which   *)
(*   shields the task and, once cancelled, stops it through the Registry.   *)
(* Snapshots on disk (capability/workspace.py) are outside the database.    *)
(***************************************************************************)
EXTENDS RunPersistence

\* Any handler may raise, and any may be cancelled.
ASSUME OutcomesAssumption == {"failed", "cancelled"} \subseteq Outcomes

VARIABLES
  call,        \* the invocation task
  waiter,      \* where the agent is in _invoke_capability
  cancelling,  \* a CancelledError is on its way to the invocation task
  stopError,   \* _invoke_capability has a cancellation_error, or was cancelled again
  used,        \* Invocation identities handed out
  disk         \* snapshot of each Artifact: "none", "bytes" or "deleted"

cvars == <<call, waiter, cancelling, stopError, used, disk>>

NoCall == [at |-> "idle", inv |-> "none", result |-> "none", arts |-> <<>>,
           then |-> "result", begun |-> FALSE, end |-> "none", note |-> "none"]

CInit ==
  /\ call = NoCall
  /\ waiter = "idle"
  /\ cancelling = FALSE
  /\ stopError = FALSE
  /\ used = {}
  /\ disk = [a \in Artifact |-> "none"]

-----------------------------------------------------------------------------
(***************************************************************************)
(* The invocation task.                                                     *)
(***************************************************************************)
Goto(at) == call' = [call EXCEPT !.at = at]

Return(end, note) ==
  call' = [call EXCEPT !.at = "returned", !.end = end, !.note = note]

\* The CancelledError is raised at the await the task is suspended in.
Interrupted == cancelling /\ cancelling' = FALSE
Undisturbed == ~cancelling /\ UNCHANGED cancelling

\* Mutant: a failing begin_invocation does not stop the call.
BeginIgnoringFailure ==
  /\ call.at = "begin"
  /\ \E end \in {"ok", "error"} : Undisturbed /\ BeginInvocation(call.inv, end)
  /\ call' = [call EXCEPT !.at = "inner", !.begun = TRUE]
  /\ UNCHANGED <<waiter, stopError, used, disk>>

\* await begin_invocation: its failure is not handled here.
Begin ==
  /\ call.at = "begin"
  /\ \/ /\ Undisturbed /\ BeginInvocation(call.inv, "ok")
        /\ call' = [call EXCEPT !.at = "inner", !.begun = TRUE]
     \/ Undisturbed /\ BeginInvocation(call.inv, "error") /\ Return("error", "none")
     \/ Interrupted /\ BeginInvocation(call.inv, "cancelled") /\ Return("cancelled", "none")
  /\ UNCHANGED <<waiter, stopError, used, disk>>

\* The inner call is over; what is persisted, and what invoke does afterwards.
InnerOver(result, arts, then) ==
  /\ call.at = "inner"
  /\ call' = [call EXCEPT !.at = "persist", !.result = result, !.arts = arts,
                          !.then = then]
  /\ disk' = [a \in Artifact |-> IF a \in Elements(arts) THEN "bytes" ELSE disk[a]]
  /\ UNCHANGED <<pvars, waiter, stopError, used>>

\* The handler returns.  New snapshots belong to completed results; "cancelled"
\* is returned only after a stop (ProcessCapability._cancelled).  A recoverable
\* AnbanError ends like a failed result: it is returned once persisted.
InnerReturns ==
  /\ Undisturbed
  /\ \E result \in Outcomes :
       /\ result = "cancelled" => waiter \in {"stopping", "cancelled"}
       /\ \E arts \in Snapshots :
            /\ arts # <<>> => result = "succeeded"
            /\ \A a \in Elements(arts) : disk[a] = "none"
            /\ InnerOver(result, arts, "result")

\* An unrecoverable AnbanError or any other Exception.
InnerRaises == Undisturbed /\ InnerOver("failed", <<>>, "error")

\* CancelledError inside the inner call: persisted, then raised again.
InnerCancelled == Interrupted /\ InnerOver("cancelled", <<>>, "cancelled")

\* Mutant: a failing terminal transaction is taken for a late acknowledgement.
PersistUnconfirmed ==
  /\ call.at = "persist" /\ Undisturbed
  /\ \E end \in {"ok", "error"} :
       FinishInvocation(call.inv, call.result, call.arts, FALSE, end)
  /\ Return(call.then, "none")
  /\ UNCHANGED <<waiter, stopError, used, disk>>

\* _persist_terminal: the first attempt.
Persist ==
  /\ call.at = "persist"
  /\ LET Finish1(end) == FinishInvocation(call.inv, call.result, call.arts, FALSE, end) IN
     \/ Undisturbed /\ Finish1("ok") /\ Return(call.then, "none")
     \/ Undisturbed /\ Finish1("error") /\ Goto("confirm")
     \/ Interrupted /\ Finish1("cancelled") /\ Return("cancelled", "none")
  /\ UNCHANGED <<waiter, stopError, used, disk>>

\* Mutant: a failed transaction is assumed to have been rolled back.
VerdictsAssumed == {"uncommitted"}

\* The verdict on the aggregate just read.  Its statements run one after the
\* other, so a commit that lands in between makes it "unconfirmed".
Verdicts ==
  {InvocationResultState(call.inv, call.result, call.arts)}
    \cup (IF inDoubt = {} THEN {} ELSE {"unconfirmed"})

\* _cleanup_artifacts tries every snapshot of the result; each may fail.
CleanUp ==
  \E gone \in SUBSET Elements(call.arts) :
    disk' = [a \in Artifact |-> IF a \in gone THEN "deleted" ELSE disk[a]]

\* _persist_terminal: confirm before anything is deleted or compensated.
Confirm ==
  /\ call.at = "confirm"
  /\ \/ /\ Undisturbed /\ Load("ok")
        /\ \/ /\ "committed" \in Verdicts
              /\ Return(call.then, "none") /\ UNCHANGED disk
           \/ /\ "unconfirmed" \in Verdicts
              /\ Return("error", "unconfirmed") /\ UNCHANGED disk
           \/ "uncommitted" \in Verdicts /\ CleanUp /\ Goto("compensate")
     \/ Undisturbed /\ Load("error") /\ Return("error", "unconfirmed") /\ UNCHANGED disk
     \/ Interrupted /\ Load("cancelled") /\ Return("cancelled", "none") /\ UNCHANGED disk
  /\ UNCHANGED <<waiter, stopError, used>>

\* Mutant: the failed compensation is swallowed.
CompensateSilently ==
  /\ call.at = "compensate" /\ Undisturbed
  /\ \E end \in {"ok", "error"} : CompensateInvocationFailure(call.inv, end)
  /\ Return("error", "none")
  /\ UNCHANGED <<waiter, stopError, used, disk>>

\* _persist_terminal: one independent failed terminal; always raises.
Compensate ==
  /\ call.at = "compensate"
  /\ LET Failed(end) == CompensateInvocationFailure(call.inv, end) IN
     \/ Undisturbed /\ Failed("ok") /\ Return("error", "none")
     \/ Undisturbed /\ Failed("error") /\ Return("error", "uncompensated")
     \/ Interrupted /\ Failed("cancelled") /\ Return("cancelled", "none")
  /\ UNCHANGED <<waiter, stopError, used, disk>>

InvocationTask ==
  Begin \/ InnerReturns \/ InnerRaises \/ InnerCancelled
    \/ Persist \/ Confirm \/ Compensate

-----------------------------------------------------------------------------
(***************************************************************************)
(* The waiter.                                                              *)
(***************************************************************************)
\* create_task(invoke) with a fresh identity, then await shield(invocation).
Invoke(i) ==
  /\ waiter = "idle" /\ i \notin used
  /\ call' = [NoCall EXCEPT !.at = "begin", !.inv = i]
  /\ waiter' = "await"
  /\ used' = used \cup {i}
  /\ UNCHANGED <<cancelling, stopError, disk>>

\* The shield returns or raises what the task ended with.
Awaited ==
  /\ waiter = "await" /\ call.at = "returned"
  /\ waiter' = "idle"
  /\ call' = [call EXCEPT !.at = "idle"]
  /\ UNCHANGED <<cancelling, stopError, used, disk>>

\* Mutant: the task is awaited without being cancelled.
CancelInvocationForgotten(error) ==
  /\ UNCHANGED cancelling
  /\ stopError' = (stopError \/ error)
  /\ waiter' = "reaping"

\* "if not invocation.done(): invocation.cancel()"
CancelInvocation(error) ==
  /\ cancelling' = (call.at # "returned")
  /\ stopError' = (stopError \/ error)
  /\ waiter' = "reaping"

\* CancelledError in the shield.  CapabilityRegistry.cancel knows only calls
\* that are inside the inner invoke; for any other it raises at once.
Cancelled ==
  /\ waiter = "await"
  /\ IF call.at = "inner"
       THEN waiter' = "stopping" /\ UNCHANGED <<cancelling, stopError>>
       ELSE CancelInvocation(TRUE)
  /\ UNCHANGED <<pvars, call, used, disk>>

\* handler.cancel returned, raised, or did not return within two seconds.
Stopped ==
  /\ waiter = "stopping"
  /\ \E error \in BOOLEAN : CancelInvocation(error)
  /\ UNCHANGED <<pvars, call, used, disk>>

\* The second wait_for gives up after two seconds and cancels once more.
ReapTimeout ==
  /\ waiter = "reaping" /\ call.at # "returned"
  /\ waiter' = "reaping_again"
  /\ cancelling' = TRUE /\ stopError' = TRUE
  /\ UNCHANGED <<pvars, call, used, disk>>

\* The agent leaves with AnbanError after a cancellation_error, else with
\* CancelledError.
Reaped ==
  /\ waiter \in {"reaping", "reaping_again"} /\ call.at = "returned"
  /\ waiter' = "cancelled"
  /\ UNCHANGED <<pvars, call, cancelling, stopError, used, disk>>

\* A second cancellation, of a deadline beside an interrupt.  While the Registry
\* is stopping the handler it leaves the except clause at once, and the task goes
\* on alone; while the task is awaited it cancels the task.
CancelledAgain ==
  /\ \/ waiter = "stopping" /\ waiter' = "cancelled" /\ UNCHANGED cancelling
     \/ waiter = "reaping" /\ call.at # "returned" /\ waiter' = "reaping_again" /\ cancelling' = TRUE
  /\ stopError' = TRUE
  /\ UNCHANGED <<pvars, call, used, disk>>

WaiterStops == Stopped \/ ReapTimeout \/ Reaped

-----------------------------------------------------------------------------
(***************************************************************************)
(* A started Run whose agent invokes one Capability after the other and may *)
(* be cancelled at any moment.                                              *)
(***************************************************************************)
PortInit ==
  /\ CInit
  /\ node = FirstNode /\ inDoubt = {} /\ faults = 0 /\ seq = 6
  /\ LET states == <<"created", "running">>
         subjects == <<Task, Run, FirstNode>>
     IN db = [status |-> [r \in Record |-> IF r \in {Task, Run, FirstNode}
                                             THEN "running" ELSE Absent],
              artifacts |-> {},
              events |-> [n \in 1 .. 6 |-> Says(subjects[((n - 1) % 3) + 1],
                                               states[((n - 1) \div 3) + 1])]]

\* Whether the result of the last call lets the agent go on.
MayContinue ==
  call.end = "none" \/ (call.end = "result" /\ call.result \in {"succeeded", "failed"})

PortNext ==
  \/ \E i \in Invocation : MayContinue /\ Invoke(i) /\ UNCHANGED pvars
  \/ Awaited /\ UNCHANGED pvars
  \/ Cancelled
  \/ CancelledAgain
  \/ WaiterStops
  \/ InvocationTask
  \/ Settle /\ UNCHANGED cvars

portvars == <<pvars, cvars>>

\* The event loop resumes every ready task; a database call and a handler that
\* is being cancelled come to an end; the server decides every commit.
PortFairness ==
  /\ WF_portvars(Begin) /\ WF_portvars(InnerCancelled)
  /\ WF_portvars(Persist) /\ WF_portvars(Confirm) /\ WF_portvars(Compensate)
  /\ WF_portvars(Stopped) /\ WF_portvars(Reaped)
  /\ WF_portvars(Settle /\ UNCHANGED cvars)

PortSpec == PortInit /\ [][PortNext]_portvars /\ PortFairness

-----------------------------------------------------------------------------
(***************************************************************************)
(* Properties.                                                              *)
(***************************************************************************)
CTypeOK ==
  /\ PTypeOK
  /\ call.at \in {"idle", "begin", "inner", "persist", "confirm", "compensate", "returned"}
  /\ call.inv \in Invocation \cup {"none"}
  /\ call.result \in Terminal \cup {"none"}
  /\ call.arts \in Snapshots
  /\ call.then \in {"result", "error", "cancelled"}
  /\ call.end \in {"none", "result", "error", "cancelled"}
  /\ call.note \in {"none", "unconfirmed", "uncompensated"}
  /\ waiter \in {"idle", "await", "stopping", "reaping", "reaping_again", "cancelled"}
  /\ cancelling \in BOOLEAN /\ stopError \in BOOLEAN /\ call.begun \in BOOLEAN
  /\ used \subseteq Invocation
  /\ disk \in [Artifact -> {"none", "bytes", "deleted"}]

RowsOf(i) == {b.id : b \in {c \in db.artifacts : c.invocation = i}}

\* The handler runs only while its Invocation is durably running, so no side
\* effect goes unrecorded.
EffectIsRecorded == call.at = "inner" => db.status[call.inv] = "running"

\* A result reaches the agent only after its terminal state and its Artifact
\* rows are durable, even when the acknowledgement of the commit was lost and
\* even when it was confirmed by reading instead.
ExposedIsDurable ==
  call.at = "returned" /\ call.end = "result" =>
    db.status[call.inv] = call.result /\ RowsOf(call.inv) = Elements(call.arts)

\* A begun call that fails without saying that its state is unconfirmed or
\* uncompensated has left a terminal Invocation.
FailureIsSettledOrExplicit ==
  call.at = "returned" /\ call.end = "error" /\ call.note = "none" /\ call.begun =>
    db.status[call.inv] \in Terminal

\* Every committed Artifact row has its bytes on disk.
ArtifactHasBytes == \A b \in db.artifacts : disk[b.id] = "bytes"

\* Neither the agent nor the port takes the bytes of a committed Artifact or
\* commits one whose bytes are gone, however a write and its confirmation fail:
\* only the server can, by applying a commit that it had not decided yet.
CommittedBytesStay ==
  [][ArtifactHasBytes /\ ~ArtifactHasBytes' => inDoubt # {} /\ UNCHANGED cvars]_portvars

\* Once the agent is cancelled, the waiter comes to an end although the task
\* may be in the middle of its database calls.
CancellationEnds == waiter \in {"stopping", "reaping"} ~> waiter = "cancelled"

\* docs/architecture/lifecycle-and-errors.md:5: "From `running`, the record
\* reaches exactly one terminal state."  Here: a begun Invocation whose handler
\* was stopped in order is not left running when no database call has failed.
InterruptedIsTerminal ==
  waiter = "cancelled" /\ call.begun /\ ~stopError /\ faults = 0 =>
    db.status[call.inv] \in Terminal

=============================================================================
