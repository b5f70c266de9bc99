------------------------ MODULE PersistentRunProofs ------------------------
(***************************************************************************)
(* Theorems of CapabilityPort and of PersistentRun, which continues it.     *)
(*   Every step of a call is a step that RunPersistence allows, so its      *)
(* invariants carry over; what is added says when the state of the call's   *)
(* own row is certain.  An undecided commit makes it uncertain, and then    *)
(* the row still reads "running".                                           *)
(*   A Run, for every budget and any number of failures, is open while the  *)
(* service may still write below it; once it has ended nothing is           *)
(* undecided, every transaction that names the Run is refused by its        *)
(* lifecycle, and nobody tries another one.                                 *)
(***************************************************************************)
EXTENDS PersistentRun, RunPersistenceProofs

-----------------------------------------------------------------------------
(***************************************************************************)
(* One Capability call.                                                     *)
(***************************************************************************)
Places == {"idle", "begin", "inner", "persist", "confirm", "compensate", "returned"}

CallRecord ==
  [at : Places, inv : Invocation \cup {"none"}, result : Terminal \cup {"none"},
   arts : Snapshots, then : {"result", "error", "cancelled"}, begun : BOOLEAN,
   end : {"none", "result", "error", "cancelled"},
   note : {"none", "unconfirmed", "uncompensated"}]

CallIsTyped ==
  /\ call \in CallRecord
  /\ call.at # "idle" => call.inv \in Invocation
  /\ call.at \in {"persist", "confirm", "compensate"} => call.result \in Outcomes

\* While the handler runs, and until its end is written, the row is durably
\* running; a commit of that end which is undecided leaves it so.
RowIsCertain ==
  /\ call.at \in {"inner", "persist"} => inDoubt = {} /\ db.status[call.inv] = "running"
  /\ call.at = "confirm" /\ inDoubt # {} => db.status[call.inv] = "running"

\* The call has told the agent that its end is in the database.
EndIsTold ==
  /\ call.at = "returned"
  /\ \/ call.end = "result"
     \/ call.end = "error" /\ call.note = "none" /\ call.begun

EndIsCertain ==
  EndIsTold => inDoubt = {} /\ db.status[call.inv] \in Terminal

\* Nobody has taken a snapshot of a result that is about to be written.
SnapshotsAreThere ==
  call.at = "persist" => \A a \in Elements(call.arts) : disk[a] = "bytes"

PortInv ==
  /\ AInv
  /\ CallIsTyped
  /\ call.at = "begin" => ~call.begun
  /\ disk \in [Artifact -> {"none", "bytes", "deleted"}]
  /\ RowIsCertain /\ EndIsCertain /\ ExposedIsDurable /\ SnapshotsAreThere

-----------------------------------------------------------------------------
(***************************************************************************)
(* The database steps of a call.                                            *)
(***************************************************************************)
\* Elements of a snapshot sequence are Artifacts, and the empty one is allowed.
LEMMA SnapshotElements ==
  /\ <<>> \in Snapshots /\ Elements(<<>>) = {}
  /\ \A arts \in Snapshots : Elements(arts) \subseteq Artifact
<1>1. <<>> \in [1 .. 0 -> Artifact] /\ 0 \in 0 .. MaxArtifacts
  BY ConstantsAssumption
<1>2. <<>> \in Snapshots
  BY <1>1 DEF Snapshots
<1> QED
  BY <1>2 DEF Elements, Snapshots

\* The row that a transaction sets.
LEMMA SetRow ==
  ASSUME NEW tx, NEW r \in Record, r \in DOMAIN tx.set
  PROVE  After(tx).status[r] = tx.set[r] /\ After(tx).artifacts = db.artifacts \cup tx.artifacts
BY DEF After

\* What a transaction that is known to be committed leaves.
LEMMA WriteOk ==
  ASSUME NEW tx, Write(tx, "ok")
  PROVE  inDoubt = {} /\ inDoubt' = {} /\ Accepted(tx) /\ db' = After(tx)
BY DEF Write, WriteDecided, WriteBlocked

\* A transaction of a decided database that is not acknowledged is undecided
\* only while the rows are those from before.
LEMMA WriteError ==
  ASSUME NEW tx, Write(tx, "error"), inDoubt = {}
  PROVE  inDoubt' = {} \/ db' = db
BY DEF Write, WriteDecided, WriteBlocked, RolledBack, CommittedAnyway, Undecided

\* After begin_invocation the row is durably running.
LEMMA BeginOk ==
  ASSUME NEW i \in Invocation, BeginInvocation(i, "ok")
  PROVE  inDoubt' = {} /\ db'.status[i] = "running"
<1> DEFINE tx == [NoRows EXCEPT !.add = {i}, !.set = Each({i}, "running"),
                                !.needs = {Run, node},
                                !.facts = <<Says(i, "requested"), Says(i, "running")>>]
<1>1. Write(tx, "ok")
  BY DEF BeginInvocation
<1>2. DOMAIN tx.set = {i} /\ tx.set[i] = "running" /\ i \in Record
  BY DEF NoRows, Each, Record
<1> HIDE DEF tx
<1>3. inDoubt' = {} /\ db' = After(tx)
  BY <1>1, WriteOk
<1> QED
  BY <1>2, <1>3, SetRow

\* After finish_invocation the row has the result, and the rows of its
\* Artifacts are those it had and the new ones.
LEMMA FinishOk ==
  ASSUME NEW i \in Invocation, NEW result, NEW arts \in Snapshots, NEW skill,
         FinishInvocation(i, result, arts, skill, "ok")
  PROVE  /\ inDoubt' = {} /\ db'.status[i] = result
         /\ db'.artifacts = db.artifacts
              \cup {[id |-> arts[k], invocation |-> i] : k \in DOMAIN arts}
<1> DEFINE tx == [NoRows EXCEPT
                    !.set = Each({i}, result),
                    !.artifacts = {[id |-> arts[k], invocation |-> i] : k \in DOMAIN arts},
                    !.facts = <<[Says(i, result) EXCEPT !.counts = <<Len(arts)>>]>>
                      \o (IF skill /\ result = "succeeded"
                            THEN <<Says(i, "skill.activated")>> ELSE <<>>)
                      \o ArtifactFacts(arts)]
<1>1. Write(tx, "ok")
  BY DEF FinishInvocation, InvocationNotLoaded
<1>2. /\ DOMAIN tx.set = {i} /\ tx.set[i] = result /\ i \in Record
      /\ tx.artifacts = {[id |-> arts[k], invocation |-> i] : k \in DOMAIN arts}
  BY DEF NoRows, Each, Record
<1> HIDE DEF tx
<1>3. inDoubt' = {} /\ db' = After(tx)
  BY <1>1, WriteOk
<1> QED
  BY <1>2, <1>3, SetRow

\* A failing finish_invocation.
LEMMA FinishError ==
  ASSUME NEW i, NEW result, NEW arts, NEW skill, inDoubt = {},
         FinishInvocation(i, result, arts, skill, "error")
  PROVE  inDoubt' = {} \/ db' = db
BY WriteError DEF FinishInvocation, InvocationNotLoaded

\* After the compensation the row is failed.
LEMMA CompensateOk ==
  ASSUME NEW i \in Invocation, CompensateInvocationFailure(i, "ok")
  PROVE  inDoubt' = {} /\ db'.status[i] = "failed"
<1> DEFINE tx == [NoRows EXCEPT !.set = Each({i}, "failed"),
                                !.facts = <<[Says(i, "failed") EXCEPT !.counts = <<0>>]>>]
<1>1. Write(tx, "ok")
  BY DEF CompensateInvocationFailure, InvocationNotLoaded
<1>2. DOMAIN tx.set = {i} /\ tx.set[i] = "failed" /\ i \in Record
  BY DEF NoRows, Each, Record
<1> HIDE DEF tx
<1>3. inDoubt' = {} /\ db' = After(tx)
  BY <1>1, WriteOk
<1> QED
  BY <1>2, <1>3, SetRow

\* The steps of a call are steps of RunPersistence.
LEMMA PortStepsAreAllowed ==
  ASSUME PortInv, [PortNext]_portvars
  PROVE  [PNext]_pvars
<1> DEFINE i == call.inv
<1>1. ASSUME NEW end \in Ends, call.at # "idle", BeginInvocation(i, end)
      PROVE  PNext
  BY <1>1 DEF PNext, InvocationCall, PortInv, CallIsTyped
<1>2. ASSUME NEW end \in Ends, call.at = "persist",
             FinishInvocation(i, call.result, call.arts, FALSE, end)
      PROVE  PNext
  BY <1>2 DEF PNext, InvocationCall, PortInv, CallIsTyped, CallRecord
<1>3. ASSUME NEW end \in Ends, call.at # "idle", CompensateInvocationFailure(i, end)
      PROVE  PNext
  BY <1>3 DEF PNext, InvocationCall, PortInv, CallIsTyped
<1>4. {"ok", "error", "cancelled"} = Ends
  BY DEF Ends
<1>5. CASE Begin
  BY <1>1, <1>4, <1>5 DEF Begin
<1>6. CASE Persist
  BY <1>2, <1>4, <1>6 DEF Persist
<1>7. CASE Confirm
  BY <1>4, <1>7 DEF Confirm, PNext
<1>8. CASE Compensate
  BY <1>3, <1>4, <1>8 DEF Compensate
<1>9. CASE InnerReturns \/ InnerRaises \/ InnerCancelled
  BY <1>9 DEF InnerReturns, InnerRaises, InnerCancelled, InnerOver
<1>10. CASE Cancelled \/ CancelledAgain \/ WaiterStops
  BY <1>10 DEF Cancelled, CancelledAgain, WaiterStops, Stopped, ReapTimeout, Reaped
<1> QED
  BY <1>5, <1>6, <1>7, <1>8, <1>9, <1>10 DEF PortNext, InvocationTask, PNext, portvars

-----------------------------------------------------------------------------
(***************************************************************************)
(* The invariant is inductive.                                              *)
(***************************************************************************)
\* What a call can have become in one step, with the fields that it keeps.
LEMMA CallMoves ==
  ASSUME CallIsTyped
  PROVE  /\ \A at \in Places : Goto(at) =>
              /\ call'.at = at /\ call' \in CallRecord
              /\ call'.inv = call.inv /\ call'.result = call.result
              /\ call'.arts = call.arts /\ call'.then = call.then
              /\ call'.begun = call.begun /\ call'.end = call.end
         /\ \A end \in {"result", "error", "cancelled"},
               note \in {"none", "unconfirmed", "uncompensated"} :
              Return(end, note) =>
                /\ call'.at = "returned" /\ call'.end = end /\ call'.note = note
                /\ call' \in CallRecord
                /\ call'.inv = call.inv /\ call'.result = call.result
                /\ call'.arts = call.arts /\ call'.begun = call.begun
<1>1. call \in CallRecord /\ "returned" \in Places
  BY DEF CallIsTyped, Places
<1>2. ASSUME NEW at \in Places, Goto(at)
      PROVE  /\ call'.at = at /\ call' \in CallRecord
             /\ call'.inv = call.inv /\ call'.result = call.result
             /\ call'.arts = call.arts /\ call'.then = call.then
             /\ call'.begun = call.begun /\ call'.end = call.end
  BY <1>1, <1>2 DEF Goto, CallRecord
<1>3. ASSUME NEW end \in {"result", "error", "cancelled"},
             NEW note \in {"none", "unconfirmed", "uncompensated"}, Return(end, note)
      PROVE  /\ call'.at = "returned" /\ call'.end = end /\ call'.note = note
             /\ call' \in CallRecord
             /\ call'.inv = call.inv /\ call'.result = call.result
             /\ call'.arts = call.arts /\ call'.begun = call.begun
  BY <1>1, <1>3 DEF Return, CallRecord
<1> QED
  BY <1>2, <1>3

\* The steps of begin_invocation.
LEMMA BeginKeepsPortInv ==
  ASSUME PortInv, AInv', Begin
  PROVE  PortInv'
<1>1. call.at = "begin" /\ call.inv \in Invocation /\ ~call.begun /\ disk' = disk
  BY DEF Begin, PortInv, CallIsTyped
<1>2. CASE BeginInvocation(call.inv, "ok") /\ call' = [call EXCEPT !.at = "inner", !.begun = TRUE]
  <2>1. inDoubt' = {} /\ db'.status[call.inv] = "running"
    BY <1>1, <1>2, BeginOk
  <2>2. call' \in CallRecord /\ call'.at = "inner" /\ call'.inv = call.inv
    BY <1>2 DEF PortInv, CallIsTyped, CallRecord, Places
  <2> QED
    BY <1>1, <2>1, <2>2
    DEF PortInv, CallIsTyped, RowIsCertain, EndIsCertain, EndIsTold, ExposedIsDurable,
        SnapshotsAreThere
<1>3. CASE Return("error", "none") \/ Return("cancelled", "none")
  <2>1. /\ call' \in CallRecord /\ call'.at = "returned" /\ call'.inv = call.inv
        /\ ~call'.begun /\ call'.end \in {"error", "cancelled"}
    BY <1>1, <1>3, CallMoves DEF PortInv
  <2> QED
    BY <1>1, <2>1
    DEF PortInv, CallIsTyped, RowIsCertain, EndIsCertain, EndIsTold, ExposedIsDurable,
        SnapshotsAreThere
<1> QED
  BY <1>2, <1>3 DEF Begin

\* The end of the inner call.
LEMMA InnerKeepsPortInv ==
  ASSUME PortInv, AInv', InnerReturns \/ InnerRaises \/ InnerCancelled
  PROVE  PortInv'
<1>1. PICK result \in Outcomes, arts \in Snapshots,
           then \in {"result", "error", "cancelled"} : InnerOver(result, arts, then)
  BY OutcomesAssumption, SnapshotElements DEF InnerReturns, InnerRaises, InnerCancelled
<1>2. /\ call.at = "inner" /\ UNCHANGED pvars
      /\ call' = [call EXCEPT !.at = "persist", !.result = result, !.arts = arts, !.then = then]
      /\ disk' = [a \in Artifact |-> IF a \in Elements(arts) THEN "bytes" ELSE disk[a]]
  BY <1>1 DEF InnerOver
<1>3. /\ call' \in CallRecord /\ call'.at = "persist" /\ call'.inv = call.inv
      /\ call'.result = result /\ call'.arts = arts
  BY <1>2, ConstantsAssumption DEF PortInv, CallIsTyped, CallRecord, Places
<1>4. /\ disk' \in [Artifact -> {"none", "bytes", "deleted"}]
      /\ \A a \in Elements(arts) : disk'[a] = "bytes"
  BY <1>2, SnapshotElements DEF PortInv
<1> QED
  BY <1>2, <1>3, <1>4
  DEF PortInv, CallIsTyped, RowIsCertain, EndIsCertain, EndIsTold, ExposedIsDurable,
      SnapshotsAreThere, pvars

\* Invocations that run own no Artifact row.
LEMMA RunningOwnsNothing ==
  ASSUME ToldOnce(db), NEW i, db.status[i] = "running"
  PROVE  \A b \in db.artifacts : b.invocation # i
BY DEF ToldOnce, Terminal

\* The identities of the rows inserted for a result are its elements.
LEMMA RowsOfResult ==
  ASSUME NEW arts, NEW i
  PROVE  {b.id : b \in {[id |-> arts[k], invocation |-> i] : k \in DOMAIN arts}} = Elements(arts)
<1> DEFINE row(k) == [id |-> arts[k], invocation |-> i]
           rows == {row(k) : k \in DOMAIN arts}
<1>1. \A k \in DOMAIN arts : row(k) \in rows /\ row(k).id = arts[k]
  OBVIOUS
<1>2. \A b \in rows : \E k \in DOMAIN arts : b.id = arts[k]
  OBVIOUS
<1> HIDE DEF rows, row
<1>3. \A x : x \in {b.id : b \in rows} <=> x \in Elements(arts)
  BY <1>1, <1>2 DEF Elements
<1>4. {b.id : b \in rows} = Elements(arts)
  BY <1>3
<1> QED
  BY <1>4 DEF rows, row

\* The terminal transaction.
LEMMA PersistKeepsPortInv ==
  ASSUME PortInv, AInv', Persist
  PROVE  PortInv'
<1> DEFINE i == call.inv
<1>1. /\ call.at = "persist" /\ i \in Invocation /\ call.result \in Terminal
      /\ call.result \in Outcomes /\ call.arts \in Snapshots /\ disk' = disk
      /\ inDoubt = {} /\ db.status[i] = "running"
      /\ call.then \in {"result", "error", "cancelled"}
  BY ConstantsAssumption DEF Persist, PortInv, CallIsTyped, CallRecord, RowIsCertain
<1>2. CASE FinishInvocation(i, call.result, call.arts, FALSE, "ok") /\ Return(call.then, "none")
  <2>1. /\ inDoubt' = {} /\ db'.status[i] = call.result
        /\ db'.artifacts = db.artifacts
             \cup {[id |-> call.arts[k], invocation |-> i] : k \in DOMAIN call.arts}
    BY <1>1, <1>2, FinishOk
  <2>2. \A b \in db.artifacts : b.invocation # i
    BY <1>1, RunningOwnsNothing DEF PortInv, AInv
  <2>3. /\ call' \in CallRecord /\ call'.at = "returned" /\ call'.inv = i
        /\ call'.result = call.result /\ call'.arts = call.arts
    BY <1>1, <1>2, CallMoves DEF PortInv
  <2>4. {b.id : b \in {c \in db'.artifacts : c.invocation = i}} = Elements(call.arts)
    <3> DEFINE new == {[id |-> call.arts[k], invocation |-> i] : k \in DOMAIN call.arts}
    <3>1. {c \in db'.artifacts : c.invocation = i} = new
      BY <2>1, <2>2
    <3>2. {b.id : b \in new} = Elements(call.arts)
      BY RowsOfResult
    <3> QED
      BY <3>1, <3>2
  <2>5. ExposedIsDurable'
    BY <2>1, <2>3, <2>4 DEF ExposedIsDurable, RowsOf
  <2>6. EndIsCertain'
    BY <1>1, <2>1, <2>3 DEF EndIsCertain
  <2> QED
    BY <1>1, <2>3, <2>5, <2>6 DEF PortInv, CallIsTyped, RowIsCertain, SnapshotsAreThere
<1>3. CASE FinishInvocation(i, call.result, call.arts, FALSE, "error") /\ Goto("confirm")
  <2>1. inDoubt' = {} \/ db' = db
    BY <1>1, <1>3, FinishError
  <2>2. /\ call' \in CallRecord /\ call'.at = "confirm" /\ call'.inv = i
        /\ call'.result = call.result
    BY <1>3, CallMoves DEF PortInv, Places
  <2> QED
    BY <1>1, <2>1, <2>2
    DEF PortInv, CallIsTyped, RowIsCertain, EndIsCertain, EndIsTold, ExposedIsDurable,
        SnapshotsAreThere
<1>4. CASE Return("cancelled", "none")
  <2>1. /\ call' \in CallRecord /\ call'.at = "returned" /\ call'.inv = i
        /\ call'.end = "cancelled"
    BY <1>4, CallMoves DEF PortInv
  <2> QED
    BY <1>1, <2>1
    DEF PortInv, CallIsTyped, RowIsCertain, EndIsCertain, EndIsTold, ExposedIsDurable,
        SnapshotsAreThere
<1> QED
  BY <1>2, <1>3, <1>4 DEF Persist

\* The confirmation, with the cleanup.
LEMMA ConfirmKeepsPortInv ==
  ASSUME PortInv, AInv', Confirm
  PROVE  PortInv'
<1> DEFINE i == call.inv
<1>1. /\ call.at = "confirm" /\ i \in Invocation /\ call.result \in Terminal
      /\ call.result \in Outcomes /\ call.then \in {"result", "error", "cancelled"}
      /\ db' = db /\ inDoubt' = inDoubt
      /\ disk \in [Artifact -> {"none", "bytes", "deleted"}]
  BY ConstantsAssumption DEF Confirm, Load, PortInv, CallIsTyped, CallRecord
<1>2. CASE "committed" \in Verdicts /\ Return(call.then, "none") /\ UNCHANGED disk
  <2>1. db.status[i] = call.result /\ RowsOf(i) = Elements(call.arts)
    BY <1>2 DEF Verdicts, InvocationResultState, RowsOf
  <2>2. inDoubt = {}
    BY <1>1, <2>1 DEF PortInv, RowIsCertain, Terminal
  <2>3. /\ call' \in CallRecord /\ call'.at = "returned" /\ call'.inv = i
        /\ call'.result = call.result /\ call'.arts = call.arts
    BY <1>1, <1>2, CallMoves DEF PortInv
  <2>4. ExposedIsDurable'
    BY <1>1, <2>1, <2>3 DEF ExposedIsDurable, RowsOf
  <2>5. EndIsCertain'
    BY <1>1, <2>1, <2>2, <2>3 DEF EndIsCertain
  <2> QED
    BY <1>1, <1>2, <2>3, <2>4, <2>5 DEF PortInv, CallIsTyped, RowIsCertain, SnapshotsAreThere
<1>3. CASE (Return("error", "unconfirmed") \/ Return("cancelled", "none")) /\ UNCHANGED disk
  <2>1. /\ call' \in CallRecord /\ call'.at = "returned" /\ call'.inv = i
        /\ \/ call'.end = "error" /\ call'.note = "unconfirmed"
           \/ call'.end = "cancelled"
    BY <1>3, CallMoves DEF PortInv
  <2> QED
    BY <1>1, <1>3, <2>1
    DEF PortInv, CallIsTyped, RowIsCertain, EndIsCertain, EndIsTold, ExposedIsDurable,
        SnapshotsAreThere
<1>4. CASE CleanUp /\ Goto("compensate")
  <2>1. /\ call' \in CallRecord /\ call'.at = "compensate" /\ call'.inv = i
        /\ call'.result = call.result
    BY <1>4, CallMoves DEF PortInv, Places
  <2>2. disk' \in [Artifact -> {"none", "bytes", "deleted"}]
    BY <1>1, <1>4 DEF CleanUp
  <2> QED
    BY <1>1, <2>1, <2>2
    DEF PortInv, CallIsTyped, RowIsCertain, EndIsCertain, EndIsTold, ExposedIsDurable,
        SnapshotsAreThere
<1> QED
  BY <1>2, <1>3, <1>4 DEF Confirm

\* The compensation.
LEMMA CompensateKeepsPortInv ==
  ASSUME PortInv, AInv', Compensate
  PROVE  PortInv'
<1> DEFINE i == call.inv
<1>1. call.at = "compensate" /\ i \in Invocation /\ disk' = disk
  BY DEF Compensate, PortInv, CallIsTyped
<1>2. CASE CompensateInvocationFailure(i, "ok") /\ Return("error", "none")
  <2>1. inDoubt' = {} /\ db'.status[i] = "failed"
    BY <1>1, <1>2, CompensateOk
  <2>2. call' \in CallRecord /\ call'.at = "returned" /\ call'.inv = i /\ call'.end = "error"
    BY <1>2, CallMoves DEF PortInv
  <2> QED
    BY <1>1, <2>1, <2>2
    DEF PortInv, CallIsTyped, RowIsCertain, EndIsCertain, ExposedIsDurable,
        SnapshotsAreThere, Terminal
<1>3. CASE Return("error", "uncompensated") \/ Return("cancelled", "none")
  <2>1. /\ call' \in CallRecord /\ call'.at = "returned" /\ call'.inv = i
        /\ \/ call'.end = "error" /\ call'.note = "uncompensated"
           \/ call'.end = "cancelled"
    BY <1>3, CallMoves DEF PortInv
  <2> QED
    BY <1>1, <2>1
    DEF PortInv, CallIsTyped, RowIsCertain, EndIsCertain, EndIsTold, ExposedIsDurable,
        SnapshotsAreThere
<1> QED
  BY <1>2, <1>3 DEF Compensate

\* The server's late decision finds no call whose end is certain.
LEMMA SettleKeepsPortInv ==
  ASSUME PortInv, AInv', Settle, UNCHANGED cvars
  PROVE  PortInv'
<1>1. inDoubt # {} /\ inDoubt' = {} /\ call' = call /\ disk' = disk
  BY DEF Settle, cvars
<1>2. call.at \notin {"inner", "persist"} /\ ~EndIsTold
  BY <1>1 DEF PortInv, RowIsCertain, EndIsCertain
<1> QED
  BY <1>1, <1>2
  DEF PortInv, CallIsTyped, RowIsCertain, EndIsCertain, EndIsTold, ExposedIsDurable,
      SnapshotsAreThere

\* The waiter starts a call, takes its end or stops it, without the database.
LEMMA WaiterKeepsPortInv ==
  ASSUME PortInv, AInv', UNCHANGED pvars,
         \/ \E i \in Invocation : Invoke(i)
         \/ Awaited
         \/ UNCHANGED <<call, disk>>
  PROVE  PortInv'
<1>1. ASSUME NEW i \in Invocation, Invoke(i)
      PROVE  PortInv'
  <2>1. /\ call' \in CallRecord /\ call'.at = "begin" /\ call'.inv = i /\ ~call'.begun
        /\ disk' = disk
    BY <1>1, SnapshotElements DEF Invoke, NoCall, CallRecord, Places
  <2> QED
    BY <2>1
    DEF PortInv, CallIsTyped, RowIsCertain, EndIsCertain, EndIsTold, ExposedIsDurable,
        SnapshotsAreThere
<1>2. CASE Awaited
  <2>1. call' \in CallRecord /\ call'.at = "idle" /\ disk' = disk
    BY <1>2 DEF Awaited, PortInv, CallIsTyped, CallRecord, Places
  <2> QED
    BY <2>1
    DEF PortInv, CallIsTyped, RowIsCertain, EndIsCertain, EndIsTold, ExposedIsDurable,
        SnapshotsAreThere
<1>3. CASE UNCHANGED <<call, disk>>
  BY <1>3
  DEF PortInv, CallIsTyped, RowIsCertain, EndIsCertain, EndIsTold, ExposedIsDurable,
      SnapshotsAreThere, RowsOf, pvars
<1> QED
  BY <1>1, <1>2, <1>3

\* Every step of a call and of its waiter keeps the invariant.
LEMMA PortNextKeepsPortInv == PortInv /\ [PortNext]_portvars => PortInv'
<1> SUFFICES ASSUME PortInv, [PortNext]_portvars PROVE PortInv'
  OBVIOUS
<1>1. AInv'
  BY PortStepsAreAllowed, PNextKeepsAInv DEF PortInv
<1>2. CASE InvocationTask
  BY <1>1, <1>2, BeginKeepsPortInv, InnerKeepsPortInv, PersistKeepsPortInv,
     ConfirmKeepsPortInv, CompensateKeepsPortInv DEF InvocationTask
<1>3. CASE Cancelled \/ CancelledAgain \/ WaiterStops
  BY <1>1, <1>3, WaiterKeepsPortInv
  DEF Cancelled, CancelledAgain, WaiterStops, Stopped, ReapTimeout, Reaped
<1>4. CASE (\E i \in Invocation : Invoke(i) /\ UNCHANGED pvars) \/ (Awaited /\ UNCHANGED pvars)
  BY <1>1, <1>4, WaiterKeepsPortInv
<1>5. CASE UNCHANGED portvars
  BY <1>1, <1>5, WaiterKeepsPortInv DEF portvars, cvars
<1>6. CASE Settle /\ UNCHANGED cvars
  BY <1>1, <1>6, SettleKeepsPortInv
<1> QED
  BY <1>2, <1>3, <1>4, <1>5, <1>6 DEF PortNext

\* A started Run satisfies the invariant: its six Events tell how its three
\* records were created and started.
LEMMA PortInitPortInv == PortInit => PortInv
<1> SUFFICES ASSUME PortInit PROVE PortInv
  OBVIOUS
<1> DEFINE states == <<"created", "running">>
           subjects == <<Task, Run, FirstNode>>
<1>1. /\ node = FirstNode /\ inDoubt = {} /\ faults = 0 /\ seq = 6 /\ CInit
      /\ db = [status |-> [r \in Record |-> IF r \in {Task, Run, FirstNode}
                                              THEN "running" ELSE Absent],
               artifacts |-> {},
               events |-> [n \in 1 .. 6 |-> Says(subjects[((n - 1) % 3) + 1],
                                                states[((n - 1) \div 3) + 1])]]
  BY DEF PortInit
<1>2. \A n \in 1 .. 6 : ((n - 1) % 3) + 1 \in 1 .. 3 /\ ((n - 1) \div 3) + 1 \in 1 .. 2
  OBVIOUS
<1>3. \A k \in 1 .. 3 : subjects[k] \in Record
  BY ConstantsAssumption DEF Record
<1>4. \A k \in 1 .. 2 : states[k] \in Status /\ states[k] \in Saying
  BY DEF Status, Initial, Saying
<1>5. \A k \in 1 .. 3, j \in 1 .. 2 :
        /\ Says(subjects[k], states[j]) \in Fact
        /\ Says(subjects[k], states[j]).is \in Status
  BY <1>3, <1>4, SaysIsFact DEF Says
<1> HIDE DEF states, subjects
<1>6. DOMAIN db.events = 1 .. 6 /\ \A n \in 1 .. 6 : db.events[n] \in Fact /\ db.events[n].is \in Status
  BY <1>1, <1>2, <1>5
<1>7. Contiguous(db) /\ LastNumber(db) = 6
  BY <1>6, LastNumberOfContiguous DEF Contiguous
<1>8. IsDatabase(db)
  <2>1. db = [status |-> db.status, artifacts |-> db.artifacts, events |-> db.events]
    BY <1>1
  <2>2. db.status \in [Record -> Status \cup {Absent}] /\ db.artifacts = {}
    BY <1>1 DEF Status
  <2>3. db.events = [n \in DOMAIN db.events |-> db.events[n]]
    BY <1>1
  <2> QED
    BY <1>6, <2>1, <2>2, <2>3 DEF IsDatabase
<1>9. PInv
  BY <1>1, <1>7, <1>8, ConstantsAssumption DEF PInv, PTypeOK, Lengthens
<1>10. ToldOnce(db)
  <2>1. "artifact.created" \notin Status
    BY DEF Status, Initial, Terminal
  <2> QED
    BY <1>1, <1>6, <2>1 DEF ToldOnce, Announcing, Tells
<1>11. CallIsTyped /\ call.at = "idle"
  BY <1>1, SnapshotElements DEF CInit, NoCall, CallIsTyped, CallRecord, Places
<1>12. disk \in [Artifact -> {"none", "bytes", "deleted"}]
  BY <1>1 DEF CInit
<1> QED
  BY <1>1, <1>9, <1>10, <1>11, <1>12
  DEF PortInv, AInv, RowIsCertain, EndIsCertain, EndIsTold, ExposedIsDurable, SnapshotsAreThere

-----------------------------------------------------------------------------
(***************************************************************************)
(* The bytes of committed Artifacts.                                        *)
(***************************************************************************)
\* Whatever becomes of a write, the rows are those from before or after it.
LEMMA WriteEither ==
  ASSUME NEW tx, NEW end, Write(tx, end)
  PROVE  db' = db \/ db'.artifacts = db.artifacts \cup tx.artifacts
BY DEF Write, WriteDecided, WriteBlocked, RolledBack, CommittedAnyway, Undecided, After

\* No snapshot that a cleanup may delete belongs to a row of any Invocation.
LEMMA CleanedOwnsNoRow ==
  ASSUME PortInv, call.at = "confirm", "uncommitted" \in Verdicts
  PROVE  \A b \in db.artifacts : b.id \notin Elements(call.arts)
<1>1. InvocationResultState(call.inv, call.result, call.arts) = "uncommitted"
  BY DEF Verdicts
<1>2. \A a \in Artifact : a \in Elements(call.arts) =>
        ~\E n \in DOMAIN db.events : Tells(db.events[n], a, "artifact.created")
  BY <1>1 DEF InvocationResultState
<1>3. \A b \in db.artifacts :
        /\ b.id \in Artifact
        /\ \E n \in DOMAIN db.events : Tells(db.events[n], b.id, "artifact.created")
  BY DEF PortInv, AInv, ToldOnce, Announcing, PInv, PTypeOK, IsDatabase, ArtifactRow
<1> QED
  BY <1>2, <1>3

\* Only the server takes a committed Artifact's bytes away from it.
LEMMA StepsKeepBytes ==
  ASSUME PortInv, [PortNext]_portvars, ArtifactHasBytes, ~ArtifactHasBytes'
  PROVE  inDoubt # {} /\ UNCHANGED cvars
<1>1. ASSUME db'.artifacts = db.artifacts, disk' = disk
      PROVE  FALSE
  BY <1>1 DEF ArtifactHasBytes
<1>2. CASE Begin
  <2>1. PICK end : BeginInvocation(call.inv, end)
    BY <1>2 DEF Begin
  <2>2. db' = db \/ db'.artifacts = db.artifacts
    <3> DEFINE tx == [NoRows EXCEPT !.add = {call.inv}, !.set = Each({call.inv}, "running"),
                                    !.needs = {Run, node},
                                    !.facts = <<Says(call.inv, "requested"),
                                                Says(call.inv, "running")>>]
    <3>1. Write(tx, end) /\ tx.artifacts = {}
      BY <2>1 DEF BeginInvocation, NoRows
    <3> HIDE DEF tx
    <3> QED
      BY <3>1, WriteEither
  <2> QED
    BY <1>1, <1>2, <2>2 DEF Begin
<1>3. CASE Compensate
  <2>1. PICK end : CompensateInvocationFailure(call.inv, end)
    BY <1>3 DEF Compensate
  <2>2. db' = db \/ db'.artifacts = db.artifacts
    <3> DEFINE tx == [NoRows EXCEPT !.set = Each({call.inv}, "failed"),
                                    !.facts = <<[Says(call.inv, "failed")
                                                   EXCEPT !.counts = <<0>>]>>]
    <3>1. db' = db \/ Write(tx, end)
      BY <2>1 DEF CompensateInvocationFailure, InvocationNotLoaded, pvars
    <3>2. tx.artifacts = {}
      BY DEF NoRows
    <3> HIDE DEF tx
    <3> QED
      BY <3>1, <3>2, WriteEither
  <2> QED
    BY <1>1, <1>3, <2>2 DEF Compensate
<1>4. CASE Persist
  <2>1. PICK end : FinishInvocation(call.inv, call.result, call.arts, FALSE, end)
    BY <1>4 DEF Persist
  <2> DEFINE rows == {[id |-> call.arts[k], invocation |-> call.inv] : k \in DOMAIN call.arts}
  <2>2. db' = db \/ db'.artifacts = db.artifacts \cup rows
    <3> DEFINE tx == [NoRows EXCEPT
                        !.set = Each({call.inv}, call.result), !.artifacts = rows,
                        !.facts = <<[Says(call.inv, call.result)
                                       EXCEPT !.counts = <<Len(call.arts)>>]>>
                          \o (IF FALSE /\ call.result = "succeeded"
                                THEN <<Says(call.inv, "skill.activated")>> ELSE <<>>)
                          \o ArtifactFacts(call.arts)]
    <3>1. db' = db \/ Write(tx, end)
      BY <2>1 DEF FinishInvocation, InvocationNotLoaded
    <3>2. tx.artifacts = rows
      BY DEF NoRows
    <3> HIDE DEF tx, rows
    <3> QED
      BY <3>1, <3>2, WriteEither
  <2>3. \A b \in rows : disk[b.id] = "bytes"
    BY <1>4 DEF Persist, PortInv, SnapshotsAreThere, Elements
  <2> QED
    BY <1>1, <1>4, <2>2, <2>3 DEF Persist, ArtifactHasBytes
<1>5. CASE Confirm
  <2>1. db' = db /\ call.at = "confirm"
    BY <1>5 DEF Confirm, Load
  <2>2. CASE UNCHANGED disk
    BY <1>1, <2>1, <2>2
  <2>3. CASE "uncommitted" \in Verdicts /\ CleanUp
    <3>1. \A b \in db.artifacts : b.id \notin Elements(call.arts) /\ b.id \in Artifact
      BY <2>1, <2>3, CleanedOwnsNoRow DEF PortInv, AInv, PInv, PTypeOK, IsDatabase, ArtifactRow
    <3>2. \A a \in Artifact : a \notin Elements(call.arts) => disk'[a] = disk[a]
      BY <2>3 DEF CleanUp
    <3> QED
      BY <2>1, <3>1, <3>2 DEF ArtifactHasBytes
  <2> QED
    BY <1>5, <2>2, <2>3 DEF Confirm
<1>6. CASE InnerReturns \/ InnerRaises \/ InnerCancelled
  <2>1. PICK arts : /\ disk' = [a \in Artifact |-> IF a \in Elements(arts) THEN "bytes" ELSE disk[a]]
                    /\ db' = db
    BY <1>6 DEF InnerReturns, InnerRaises, InnerCancelled, InnerOver, pvars
  <2>2. \A b \in db.artifacts : b.id \in Artifact
    BY DEF PortInv, AInv, PInv, PTypeOK, IsDatabase, ArtifactRow
  <2> QED
    BY <2>1, <2>2 DEF ArtifactHasBytes
<1>7. CASE \/ \E i \in Invocation : Invoke(i) /\ UNCHANGED pvars
           \/ Awaited /\ UNCHANGED pvars
           \/ Cancelled \/ CancelledAgain \/ WaiterStops
           \/ UNCHANGED portvars
  <2>1. db' = db /\ disk' = disk
    BY <1>7
    DEF Invoke, Awaited, Cancelled, CancelledAgain, WaiterStops, Stopped, ReapTimeout, Reaped,
        portvars, pvars, cvars
  <2> QED
    BY <1>1, <2>1
<1> QED
  BY <1>2, <1>3, <1>4, <1>5, <1>6, <1>7 DEF PortNext, InvocationTask, Settle

-----------------------------------------------------------------------------
(***************************************************************************)
(* The theorems.                                                            *)
(***************************************************************************)
\* A handler runs only while its Invocation is durably running, whatever
\* commits late and whoever is cancelled.
THEOREM EffectsAreRecorded == PortSpec => []EffectIsRecorded
<1>1. PortInv => EffectIsRecorded
  BY DEF PortInv, RowIsCertain, EffectIsRecorded
<1> QED
  BY <1>1, PortInitPortInv, PortNextKeepsPortInv, PTL DEF PortSpec

\* A result that reaches the agent is in the database, with its Artifact rows.
THEOREM ResultsAreDurable == PortSpec => []ExposedIsDurable
<1>1. PortInv => ExposedIsDurable
  BY DEF PortInv
<1> QED
  BY <1>1, PortInitPortInv, PortNextKeepsPortInv, PTL DEF PortSpec

\* A begun call that fails without a note has left a terminal Invocation.
THEOREM FailuresAreSettled == PortSpec => []FailureIsSettledOrExplicit
<1>1. PortInv => FailureIsSettledOrExplicit
  BY DEF PortInv, EndIsCertain, EndIsTold, FailureIsSettledOrExplicit
<1> QED
  BY <1>1, PortInitPortInv, PortNextKeepsPortInv, PTL DEF PortSpec

\* Neither the agent nor the port takes the bytes of a committed Artifact.
THEOREM BytesStay == PortSpec => CommittedBytesStay
<1>1. PortInv /\ [PortNext]_portvars =>
        [ArtifactHasBytes /\ ~ArtifactHasBytes' => inDoubt # {} /\ UNCHANGED cvars]_portvars
  BY StepsKeepBytes
<1> QED
  BY <1>1, PortInitPortInv, PortNextKeepsPortInv, PTL DEF PortSpec, CommittedBytesStay

-----------------------------------------------------------------------------
(***************************************************************************)
(* The Run.                                                                 *)
(***************************************************************************)

\* Where the service, or a chat session, may write without naming the Run.
OpenPlaces == {"idle", "initialize", "start", "add_node", "start_node", "agent", "finish"}

RunIsOpen == \A d \in {db} \cup inDoubt : d.status[Run] \notin Terminal

EndIsDecided == db.status[Run] \in Terminal => inDoubt = {}

CallIsOver == call.at \in {"idle", "returned"}

RecordInv ==
  /\ svc \in OpenPlaces => RunIsOpen
  /\ EndIsDecided
  /\ node \in Node
  /\ CallIsTyped
  /\ CallIsOver \/ At("waiting")

\* What TerminalRunIsSilent says of one step.
EndedRunStays == db.status[Run] \in Terminal => UNCHANGED db

-----------------------------------------------------------------------------
(***************************************************************************)
(* Transactions and the Run.                                                *)
(***************************************************************************)
\* The Run is no other record.
LEMMA RunIsARecord ==
  Run \in Record /\ Run # Task /\ Run \notin Node /\ Run \notin Invocation
BY ConstantsAssumption DEF Record

\* A transaction below the Run leaves an open one open.
LEMMA WriteBelowRun ==
  ASSUME NEW tx, NEW end, Write(tx, end), Run \notin DOMAIN tx.set, RunIsOpen
  PROVE  RunIsOpen'
<1>1. After(tx).status[Run] = db.status[Run]
  BY RunIsARecord DEF After
<1>2. \A d \in {db'} \cup inDoubt' :
        d = After(tx) \/ d \in {db} \cup inDoubt
  BY DEF Write, WriteDecided, WriteBlocked, RolledBack, CommittedAnyway, Undecided
<1> QED
  BY <1>1, <1>2 DEF RunIsOpen

\* A transaction that moves the Run is refused once the Run has ended.
LEMMA EndedRunRefuses ==
  ASSUME NEW tx, Run \in DOMAIN tx.set, Accepted(tx)
  PROVE  db.status[Run] \notin Terminal
BY DEF Accepted, EnsureTransition, Transitions, Terminal, Status, Initial, Absent

\* It leaves nothing undecided about a Run that has ended, and an acknowledged
\* one leaves the Run as it says.
LEMMA WriteOfRun ==
  ASSUME NEW tx, NEW end, Write(tx, end), Run \in DOMAIN tx.set, EndIsDecided
  PROVE  /\ EndIsDecided' /\ EndedRunStays
         /\ end = "ok" => inDoubt' = {} /\ db'.status[Run] = tx.set[Run]
<1>1. After(tx).status[Run] = tx.set[Run]
  BY RunIsARecord DEF After
<1>2. end = "ok" => inDoubt' = {} /\ db'.status[Run] = tx.set[Run]
  BY <1>1, WriteOk
<1>3. \/ UNCHANGED <<db, inDoubt>>
      \/ inDoubt' = {} /\ db' = db
      \/ Accepted(tx) /\ inDoubt' = {}
      \/ Accepted(tx) /\ db' = db
  BY DEF Write, WriteDecided, WriteBlocked, RolledBack, CommittedAnyway, Undecided
<1>4. EndIsDecided' /\ EndedRunStays
  BY <1>3, EndedRunRefuses DEF EndIsDecided, EndedRunStays
<1> QED
  BY <1>2, <1>4

\* The methods that move the Run.
LEMMA MethodsOfRun ==
  ASSUME NEW end, EndIsDecided, node \in Node
  PROVE  /\ Initialize(end) =>
              /\ EndIsDecided' /\ EndedRunStays /\ node' = node
              /\ end = "ok" => inDoubt' = {} /\ db'.status[Run] = "created"
         /\ Start(end) =>
              /\ EndIsDecided' /\ EndedRunStays /\ node' = node
              /\ end = "ok" => inDoubt' = {} /\ db'.status[Run] = "running"
         /\ \A status, counts : Finish(status, counts, end) \/ FinishRun(status, counts, end) =>
              /\ EndIsDecided' /\ EndedRunStays /\ node' = node
              /\ end = "ok" => inDoubt' = {} /\ db'.status[Run] = status
<1>1. ASSUME NEW S, NEW s, Run \in S
      PROVE  Run \in DOMAIN Each(S, s) /\ Each(S, s)[Run] = s
  BY <1>1 DEF Each
<1>2. ASSUME Initialize(end)
      PROVE  /\ EndIsDecided' /\ EndedRunStays /\ node' = node
             /\ end = "ok" => inDoubt' = {} /\ db'.status[Run] = "created"
  <2>1. PICK tx : /\ tx.set = Each({Task, Run, node}, "created")
                  /\ Write(tx, end) /\ node' = node
    BY <1>2 DEF Initialize, NoRows
  <2> QED
    BY <1>1, <2>1, WriteOfRun
<1>3. ASSUME Start(end)
      PROVE  /\ EndIsDecided' /\ EndedRunStays /\ node' = node
             /\ end = "ok" => inDoubt' = {} /\ db'.status[Run] = "running"
  <2>1. PICK tx : /\ tx.set = Each({Task, Run, node}, "running")
                  /\ Write(tx, end) /\ node' = node
    BY <1>3 DEF Start, NoRows
  <2> QED
    BY <1>1, <2>1, WriteOfRun
<1>4. ASSUME NEW status, NEW counts, Finish(status, counts, end) \/ FinishRun(status, counts, end)
      PROVE  /\ EndIsDecided' /\ EndedRunStays /\ node' = node
             /\ end = "ok" => inDoubt' = {} /\ db'.status[Run] = status
  <2>1. PICK tx : /\ \/ tx.set = Each({node, Run, Task}, status)
                     \/ tx.set = Each({Run, Task}, status)
                  /\ Write(tx, end) /\ node' = node
    BY <1>4 DEF Finish, FinishRun, NoRows
  <2> QED
    BY <1>1, <2>1, WriteOfRun
<1> QED
  BY <1>2, <1>3, <1>4

\* The methods below the Run.
LEMMA MethodsBelowRun ==
  ASSUME NEW end, RunIsOpen, node \in Node
  PROVE  /\ \A repair, invalid :
              ModelRequested(repair, end) \/ ModelCompleted(repair, end)
                \/ ModelFailed(invalid, repair, end) => RunIsOpen' /\ node' = node
         /\ \A i \in Invocation :
              /\ BeginInvocation(i, end) \/ CompensateInvocationFailure(i, end) =>
                   RunIsOpen' /\ node' = node
              /\ \A result, arts, skill :
                   FinishInvocation(i, result, arts, skill, end) =>
                     RunIsOpen' /\ node' = node
         /\ \A n \in Node : AddNode(n, end) => RunIsOpen' /\ node' \in Node
         /\ StartNode(end) => RunIsOpen' /\ node' = node
         /\ \A status : FinishNode(status, end) => RunIsOpen' /\ node' = node
<1>1. ASSUME NEW S, NEW s, Run \notin S
      PROVE  Run \notin DOMAIN Each(S, s)
  BY <1>1 DEF Each
<1>2. UNCHANGED pvars => RunIsOpen' /\ node' = node
  BY DEF RunIsOpen, pvars
<1>3. ASSUME NEW i, NEW e, InvocationNotLoaded(i, e)
      PROVE  RunIsOpen' /\ node' = node
  BY <1>3 DEF InvocationNotLoaded, RunIsOpen
<1>4. ASSUME NEW facts, WriteModelFacts(facts, end)
      PROVE  RunIsOpen' /\ node' = node
  <2>1. PICK tx : tx.set = Each({}, Absent) /\ Write(tx, end) /\ node' = node
    BY <1>4 DEF WriteModelFacts, NoRows
  <2> QED
    BY <1>1, <2>1, WriteBelowRun
<1>5. \A repair, invalid :
        ModelRequested(repair, end) \/ ModelCompleted(repair, end)
          \/ ModelFailed(invalid, repair, end) => RunIsOpen' /\ node' = node
  BY <1>4 DEF ModelRequested, ModelCompleted, ModelFailed
<1>6. ASSUME NEW i \in Invocation,
             BeginInvocation(i, end) \/ CompensateInvocationFailure(i, end)
      PROVE  RunIsOpen' /\ node' = node
  <2>1. CASE \E tx : DOMAIN tx.set = {i} /\ Write(tx, end) /\ node' = node
    BY <2>1, WriteBelowRun, RunIsARecord
  <2> QED
    BY <1>2, <1>3, <1>6, <2>1 DEF BeginInvocation, CompensateInvocationFailure, NoRows, Each
<1>7. ASSUME NEW i \in Invocation, NEW result, NEW arts, NEW skill,
             FinishInvocation(i, result, arts, skill, end)
      PROVE  RunIsOpen' /\ node' = node
  <2>1. CASE \E tx : DOMAIN tx.set = {i} /\ Write(tx, end) /\ node' = node
    BY <2>1, WriteBelowRun, RunIsARecord
  <2> QED
    BY <1>3, <1>7, <2>1 DEF FinishInvocation, NoRows, Each
<1>8. ASSUME NEW n \in Node, AddNode(n, end)
      PROVE  RunIsOpen' /\ node' \in Node
  <2>1. PICK tx : tx.set = Each({n}, "created") /\ Write(tx, end)
    BY <1>8 DEF AddNode, NoRows
  <2>2. node' \in Node
    BY <1>8 DEF AddNode
  <2> QED
    BY <1>1, <2>1, <2>2, WriteBelowRun, RunIsARecord
<1>9. ASSUME NEW status, StartNode(end) \/ FinishNode(status, end)
      PROVE  RunIsOpen' /\ node' = node
  <2>1. PICK tx, s : tx.set = Each({node}, s) /\ Write(tx, end) /\ node' = node
    BY <1>9 DEF StartNode, FinishNode, NoRows
  <2> QED
    BY <1>1, <2>1, WriteBelowRun, RunIsARecord
<1> QED
  BY <1>5, <1>6, <1>7, <1>8, <1>9

-----------------------------------------------------------------------------
(***************************************************************************)
(* The records of a Run.                                                    *)
(***************************************************************************)
\* Only a call that is under way takes a step, and it stays typed.
LEMMA TaskKeepsTypes ==
  ASSUME CallIsTyped, InvocationTask
  PROVE  CallIsTyped' /\ ~CallIsOver /\ call.inv \in Invocation
<1>1. ~CallIsOver
  BY DEF InvocationTask, Begin, InnerReturns, InnerRaises, InnerCancelled, InnerOver, Persist,
         Confirm, Compensate, CallIsOver
<1>2. call.inv \in Invocation /\ call \in CallRecord
  BY <1>1 DEF CallIsOver, CallIsTyped
<1> SUFFICES CallIsTyped'
  BY <1>1, <1>2
<1>3. CASE \/ \E at \in {"confirm", "compensate"} :
                Goto(at) /\ call.at \in {"persist", "confirm", "compensate"}
           \/ \E end \in {"result", "error", "cancelled"},
                 note \in {"none", "unconfirmed", "uncompensated"} : Return(end, note)
  BY <1>2, <1>3, CallMoves DEF CallIsTyped, Places
<1>4. CASE Begin
  <2>1. CASE call' = [call EXCEPT !.at = "inner", !.begun = TRUE]
    BY <1>2, <2>1 DEF CallIsTyped, CallRecord, Places
  <2> QED
    BY <1>3, <1>4, <2>1 DEF Begin
<1>5. CASE InnerReturns \/ InnerRaises \/ InnerCancelled
  <2>1. PICK result \in Outcomes, arts \in Snapshots,
             then \in {"result", "error", "cancelled"} : InnerOver(result, arts, then)
    BY <1>5, OutcomesAssumption, SnapshotElements DEF InnerReturns, InnerRaises, InnerCancelled
  <2> QED
    BY <1>2, <2>1, ConstantsAssumption DEF InnerOver, CallIsTyped, CallRecord, Places
<1>6. call.then \in {"result", "error", "cancelled"}
  BY <1>2 DEF CallRecord
<1>7. CASE Persist \/ Confirm \/ Compensate
  BY <1>3, <1>6, <1>7 DEF Persist, Confirm, Compensate
<1> QED
  BY <1>1, <1>2, <1>4, <1>5, <1>7 DEF InvocationTask

\* The invocation task writes below the Run, while the agent waits for it.
LEMMA TaskKeepsRecordInv ==
  ASSUME RecordInv, InvocationTask, UNCHANGED svars
  PROVE  RecordInv' /\ EndedRunStays
<1>1. CallIsTyped' /\ ~CallIsOver /\ call.inv \in Invocation
  BY TaskKeepsTypes DEF RecordInv
<1>2. At("waiting") /\ svc = "agent" /\ RunIsOpen /\ node \in Node
  BY <1>1 DEF RecordInv, At, OpenPlaces
<1>3. RunIsOpen' /\ node' \in Node
  <2>1. CASE UNCHANGED pvars
    BY <1>2, <2>1 DEF RunIsOpen, pvars
  <2>2. CASE \E end : Load(end)
    BY <1>2, <2>2 DEF RunIsOpen, Load
  <2>3. CASE \E end : \/ BeginInvocation(call.inv, end) \/ CompensateInvocationFailure(call.inv, end)
                      \/ FinishInvocation(call.inv, call.result, call.arts, FALSE, end)
    <3>1. PICK end : \/ BeginInvocation(call.inv, end)
                     \/ CompensateInvocationFailure(call.inv, end)
                     \/ FinishInvocation(call.inv, call.result, call.arts, FALSE, end)
      BY <2>3
    <3> QED
      BY <1>1, <1>2, <3>1, MethodsBelowRun
  <2>4. CASE InnerReturns \/ InnerRaises \/ InnerCancelled
    BY <2>1, <2>4 DEF InnerReturns, InnerRaises, InnerCancelled, InnerOver
  <2> QED
    BY <2>2, <2>3, <2>4 DEF InvocationTask, Begin, Persist, Confirm, Compensate
<1>4. RunIsOpen' => EndIsDecided'
  BY DEF RunIsOpen, EndIsDecided
<1>5. EndedRunStays
  BY <1>2 DEF RunIsOpen, EndedRunStays
<1>6. At("waiting")'
  BY <1>2 DEF At, svars
<1> QED
  BY <1>1, <1>3, <1>4, <1>5, <1>6 DEF RecordInv

\* Where an await on persistence may lead the agent.
LEMMA AgentPlaces ==
  ASSUME NEW p, svc = "agent"
  PROVE  /\ \A at : GoOn(at, p) => svc' = "agent" /\ agent' = at
         /\ \A status : Leave(status, p) => svc' = "finish"
         /\ Stop(p) => svc' = "finish"
         /\ \A end, at : Awaiting(end, at, p) => svc' \in {"agent", "finish"}
BY DEF GoOn, Leave, Stop, Awaiting

\* The agent works until it leaves with an outcome.
LEMMA AgentLeaves ==
  ASSUME Agent \/ CallCancelled
  PROVE  svc = "agent" /\ svc' \in {"agent", "finish"}
<1>1. svc = "agent"
  BY DEF Agent, CallCancelled, TurnBudgetSpent, RequestTurn, RefusedRequest, ModelAnswers,
         RecordAnswer, RecordFailure, Answer, CallCapability, RoundOver, CallReturns, CallStopped,
         At
<1>2. CASE \/ TurnBudgetSpent \/ RequestTurn \/ RefusedRequest \/ ModelAnswers
           \/ RecordAnswer \/ RecordFailure
  BY <1>1, <1>2, AgentPlaces
  DEF TurnBudgetSpent, RequestTurn, RefusedRequest, ModelAnswers, RecordAnswer, RecordFailure
<1>3. CASE \/ Answer \/ CallCapability \/ RoundOver \/ CallReturns \/ CallStopped
           \/ CallCancelled
  BY <1>1, <1>3, AgentPlaces
  DEF Answer, CallCapability, RoundOver, CallReturns, CallStopped, CallCancelled
<1> QED
  BY <1>1, <1>2, <1>3 DEF Agent

\* The agent writes below the Run, and begins a call only when none is under way.
LEMMA AgentKeepsRecordInv ==
  ASSUME RecordInv, Agent \/ CallCancelled
  PROVE  RecordInv' /\ EndedRunStays
<1>1. svc = "agent"
  BY AgentLeaves
<1>2. RunIsOpen /\ node \in Node /\ CallIsTyped
  BY <1>1 DEF RecordInv, OpenPlaces
<1>3. SUFFICES /\ svc' \in {"agent", "finish"}
               /\ RunIsOpen' /\ node' \in Node /\ CallIsTyped'
               /\ CallIsOver' \/ At("waiting")'
  <2>1. RunIsOpen' => EndIsDecided'
    BY DEF RunIsOpen, EndIsDecided
  <2>2. EndedRunStays
    BY <1>2 DEF RunIsOpen, EndedRunStays
  <2> QED
    BY <1>3, <2>1, <2>2 DEF RecordInv
<1>4. UNCHANGED pvars => RunIsOpen' /\ node' \in Node
  BY <1>2 DEF RunIsOpen, pvars
<1>5. UNCHANGED call => CallIsTyped' /\ (CallIsOver => CallIsOver')
  BY <1>2 DEF CallIsTyped, CallIsOver
<1>6. CASE RequestTurn \/ RecordAnswer \/ RecordFailure
  <2>1. CallIsOver /\ UNCHANGED call
    BY <1>6 DEF RequestTurn, RecordAnswer, RecordFailure, RecordInv, At, cvars
  <2>2. PICK end, invalid :
          \/ ModelRequested(turn.repair, end) \/ ModelCompleted(turn.repair, end)
          \/ ModelFailed(invalid, turn.repair, end)
    BY <1>6 DEF RequestTurn, RecordAnswer, RecordFailure
  <2>4. RunIsOpen' /\ node' \in Node
    BY <1>2, <2>2, MethodsBelowRun
  <2>3. svc' \in {"agent", "finish"}
    BY <1>1, <1>6, AgentPlaces DEF RequestTurn, RecordAnswer, RecordFailure
  <2> QED
    BY <1>5, <2>1, <2>3, <2>4
<1>7. CASE TurnBudgetSpent \/ RefusedRequest \/ ModelAnswers \/ Answer \/ RoundOver
  <2>1. CallIsOver /\ UNCHANGED call /\ UNCHANGED pvars
    BY <1>7 DEF TurnBudgetSpent, RefusedRequest, ModelAnswers, Answer, RoundOver, RecordInv, At,
                cvars
  <2>2. svc' \in {"agent", "finish"}
    BY <1>1, <1>7, AgentPlaces DEF TurnBudgetSpent, RefusedRequest, ModelAnswers, Answer, RoundOver
  <2> QED
    BY <1>4, <1>5, <2>1, <2>2
<1>8. CASE CallCapability
  <2>1. PICK i \in Invocation : Invoke(i)
    BY <1>8 DEF CallCapability
  <2>2. CallIsTyped'
    BY <2>1, SnapshotElements DEF Invoke, NoCall, CallIsTyped, CallRecord, Places
  <2>3. svc' = "agent" /\ agent' = "waiting"
    BY <1>1, <1>8, AgentPlaces DEF CallCapability
  <2>4. At("waiting")' /\ UNCHANGED pvars
    BY <1>8, <2>3 DEF At, CallCapability
  <2> QED
    BY <1>4, <2>2, <2>3, <2>4
<1>9. CASE CallReturns
  <2>1. call' = [call EXCEPT !.at = "idle"] /\ UNCHANGED pvars
    BY <1>9 DEF CallReturns, Awaited
  <2>2. CallIsTyped' /\ CallIsOver'
    BY <1>2, <2>1 DEF CallIsTyped, CallRecord, Places, CallIsOver
  <2>3. svc' \in {"agent", "finish"}
    BY <1>1, <1>9, AgentPlaces DEF CallReturns
  <2> QED
    BY <1>4, <2>1, <2>2, <2>3
<1>10. CASE CallCancelled
  <2>1. UNCHANGED <<call, svc, agent>> /\ UNCHANGED pvars
    BY <1>10 DEF CallCancelled, Cancelled, CancelInvocation
  <2>2. At("waiting")'
    BY <1>10, <2>1 DEF CallCancelled, At
  <2> QED
    BY <1>1, <1>4, <1>5, <2>1, <2>2
<1>11. CASE CallStopped
  <2>1. UNCHANGED call /\ UNCHANGED pvars /\ At("waiting")
    BY <1>11 DEF CallStopped, WaiterStops, Stopped, ReapTimeout, Reaped
  <2>2. CASE waiter' = "cancelled"
    <3>1. CallIsOver
      BY <1>11, <2>2 DEF CallStopped, WaiterStops, Stopped, ReapTimeout, Reaped, CancelInvocation,
                         CallIsOver
    <3>2. svc' = "finish"
      BY <1>1, <1>11, <2>2, AgentPlaces DEF CallStopped
    <3> QED
      BY <1>4, <1>5, <2>1, <3>1, <3>2
  <2>3. CASE waiter' # "cancelled"
    <3>1. svc' = svc /\ agent' = agent
      BY <1>11, <2>3 DEF CallStopped
    <3> QED
      BY <1>1, <1>4, <1>5, <2>1, <3>1 DEF At
  <2> QED
    BY <2>2, <2>3
<1> QED
  BY <1>6, <1>7, <1>8, <1>9, <1>10, <1>11 DEF Agent

\* A step of the service outside of the agent: it may leave the Run open only
\* where it goes on below it.
LEMMA ServiceKeepsRecordInv ==
  ASSUME RecordInv, svc # "agent", UNCHANGED call, node' \in Node, EndIsDecided',
         svc' \in OpenPlaces => RunIsOpen'
  PROVE  RecordInv'
BY DEF RecordInv, At, CallIsTyped, CallIsOver

\* Reading the aggregate changes nothing.
LEMMA LoadStays ==
  ASSUME RecordInv, NEW end, Load(end)
  PROVE  EndIsDecided' /\ EndedRunStays /\ node' \in Node /\ (RunIsOpen => RunIsOpen')
BY DEF RecordInv, Load, EndIsDecided, EndedRunStays, RunIsOpen

\* Where Goes leads.
LEMMA GoesSomewhere ==
  ASSUME NEW end \in Ends, NEW ok, NEW error, Goes(end, ok, error)
  PROVE  /\ end = "ok" => svc' = ok
         /\ end = "error" => svc' = error
         /\ end = "cancelled" => svc' \in {"dead", "interrupt"}
         /\ end \in {"ok", "error", "cancelled"}
BY LimitsAssumption DEF Goes, Ends

\* The setup, which chat sessions share.
LEMMA SetupKeepsRecordInv ==
  ASSUME RecordInv, Setup
  PROVE  RecordInv' /\ EndedRunStays
<1>1. svc \in {"initialize", "start"} /\ UNCHANGED call /\ EndIsDecided /\ node \in Node
  BY DEF Setup, Service, RecordInv, cvars
<1>2. PICK end \in Ends : \/ Initialize(end) /\ Goes(end, "start", "recover")
                          \/ Start(end) /\ Goes(end, "agent", "recover")
  BY DEF Setup
<1>3. /\ EndIsDecided' /\ EndedRunStays /\ node' = node
      /\ end = "ok" => inDoubt' = {} /\ db'.status[Run] \in {"created", "running"}
  BY <1>1, <1>2, MethodsOfRun
<1>4. end = "ok" => RunIsOpen'
  BY <1>3 DEF RunIsOpen, Terminal
<1>5. svc' \in OpenPlaces => end = "ok"
  BY <1>2, GoesSomewhere DEF OpenPlaces, Ends
<1> QED
  BY <1>1, <1>3, <1>4, <1>5, ServiceKeepsRecordInv

\* The recovery, which chat sessions share.
LEMMA RecoveryKeepsRecordInv ==
  ASSUME RecordInv,
         \/ RecoverLoad \/ RecoverMatch
         \/ Recovering("recover_start", "recover_finish")
         \/ Recovering("recover_finish", "recover_match")
  PROVE  RecordInv' /\ EndedRunStays
<1>1. /\ svc \in {"recover", "recover_start", "recover_finish", "recover_match"}
      /\ UNCHANGED call /\ EndIsDecided /\ node \in Node
  BY DEF RecoverLoad, RecoverMatch, Recovering, Service, RecordInv, cvars
<1>2. PICK end \in Ends : \/ Load(end) \/ Start(end) \/ Finish(outcome.status, outcome.counts, end)
  BY DEF RecoverLoad, RecoverMatch, Recovering
<1>3. EndIsDecided' /\ EndedRunStays /\ node' \in Node
  BY <1>1, <1>2, MethodsOfRun, LoadStays
<1>4. svc' \notin OpenPlaces
  BY GoesSomewhere
  DEF RecoverLoad, RecoverMatch, Recovering, Returns, Recovery, OpenPlaces, Ends
<1> QED
  BY <1>1, <1>3, <1>4, ServiceKeepsRecordInv

\* The final transaction and the match after it.
LEMMA FinalKeepsRecordInv ==
  ASSUME RecordInv, Finalize \/ MatchTerminal
  PROVE  RecordInv' /\ EndedRunStays
<1>1. svc \in {"finish", "match"} /\ UNCHANGED call /\ EndIsDecided /\ node \in Node
  BY DEF Finalize, MatchTerminal, Service, RecordInv, cvars
<1>2. PICK end \in Ends : Load(end) \/ Finish(outcome.status, outcome.counts, end)
  BY DEF Finalize, MatchTerminal
<1>3. EndIsDecided' /\ EndedRunStays /\ node' \in Node
  BY <1>1, <1>2, MethodsOfRun, LoadStays
<1>4. svc' \notin OpenPlaces
  BY GoesSomewhere DEF Finalize, MatchTerminal, Returns, OpenPlaces, Ends
<1> QED
  BY <1>1, <1>3, <1>4, ServiceKeepsRecordInv

\* A commit that is decided late does not concern a Run that has ended.
LEMMA SettleKeepsRecordInv ==
  ASSUME RecordInv, Settle, UNCHANGED <<call, svc, agent>>
  PROVE  RecordInv' /\ EndedRunStays
BY DEF RecordInv, Settle, RunIsOpen, EndIsDecided, EndedRunStays, CallIsTyped, CallIsOver, At

\* Every step of a Run keeps the invariant, and an ended Run as it is.
LEMMA RunNextKeepsRecordInv ==
  ASSUME RecordInv, [RunNext]_runvars
  PROVE  RecordInv' /\ EndedRunStays
<1>1. CASE UNCHANGED runvars
  BY <1>1 DEF runvars, pvars, cvars, svars, RecordInv, RunIsOpen, EndIsDecided, EndedRunStays,
              CallIsTyped, CallIsOver, At
<1>2. CASE Runtime
  BY <1>2, SetupKeepsRecordInv, RecoveryKeepsRecordInv, FinalKeepsRecordInv DEF Runtime
<1>3. CASE Settle /\ UNCHANGED <<cvars, svars>>
  BY <1>3, SettleKeepsRecordInv DEF cvars, svars
<1> QED
  BY <1>1, <1>2, <1>3, AgentKeepsRecordInv, TaskKeepsRecordInv DEF RunNext

\* In the beginning there is no Run.
LEMMA InitRecordInv ==
  ASSUME PInit, CInit
  PROVE  RecordInv
<1>1. db.status[Run] = Absent /\ inDoubt = {} /\ node \in Node
  BY ConstantsAssumption, RunIsARecord DEF PInit
<1>2. call \in CallRecord /\ call.at = "idle"
  BY SnapshotElements DEF CInit, NoCall, CallRecord, Places
<1> QED
  BY <1>1, <1>2 DEF RecordInv, RunIsOpen, EndIsDecided, CallIsTyped, CallIsOver, Terminal, Absent

-----------------------------------------------------------------------------
(***************************************************************************)
(* What execute reports.                                                    *)
(***************************************************************************)
\* The service, or a chat session, is about to end the Run.
ClosingPlaces ==
  {"finish", "match", "recover", "recover_start", "recover_finish", "recover_match", "done",
   "fail_finish", "fail_run", "fail_match",
   "close_run", "close_match", "close_fail", "close_fail_match"}

RecoveryPlaces == {"recover", "recover_start", "recover_finish", "recover_match"}

\* A call that returns to an agent that was not cancelled has a result or raises.
CallTells ==
  /\ waiter \in {"idle", "await"} => ~cancelling
  /\ waiter = "await" /\ call.at = "returned" => call.end = "error" \/ call.result \in Terminal

StopIsNamed == waiter \in {"stopping", "reaping", "reaping_again"} => stop \in Reasons

OutcomeIsShaped == outcome = [status |-> outcome.status, counts |-> outcome.counts]

ReportInv ==
  /\ OutcomeIsShaped
  /\ svc \in ClosingPlaces => outcome.status \in Terminal
  /\ svc \in RecoveryPlaces => outcome.status = "failed"
  /\ CallTells /\ StopIsNamed
  /\ PersistedMeansDurable

\* The invocation task keeps its word.
LEMMA TaskKeepsReportInv ==
  ASSUME RecordInv, ReportInv, InvocationTask, UNCHANGED svars
  PROVE  ReportInv'
<1>1. svc = "agent" /\ CallIsTyped /\ UNCHANGED svars
  BY TaskKeepsTypes DEF RecordInv, At
<1>2. CallTells'
  <2>1. UNCHANGED waiter /\ (UNCHANGED cancelling \/ ~cancelling')
    BY DEF InvocationTask, Begin, InnerReturns, InnerRaises, InnerCancelled, InnerOver, Persist,
           Confirm, Compensate, Interrupted, Undisturbed
  <2>2. ASSUME waiter = "await", call'.at = "returned"
        PROVE  call'.end = "error" \/ call'.result \in Terminal
    <3>1. ~cancelling /\ call \in CallRecord
      BY <1>1, <2>2 DEF ReportInv, CallTells, CallIsTyped
    <3>2. CASE Begin
      BY <1>1, <2>2, <3>1, <3>2, CallMoves DEF Begin, Interrupted, CallRecord
    <3>3. CASE InnerReturns \/ InnerRaises \/ InnerCancelled
      BY <2>2, <3>1, <3>3
      DEF InnerReturns, InnerRaises, InnerCancelled, InnerOver, CallRecord
    <3>4. CASE Persist \/ Confirm \/ Compensate
      <4>1. call.result \in Terminal
        BY <1>1, <3>4, ConstantsAssumption DEF Persist, Confirm, Compensate, CallIsTyped
      <4>2. call'.result = call.result
        BY <3>1, <3>4 DEF Persist, Confirm, Compensate, Return, Goto, CallRecord
      <4> QED
        BY <4>1, <4>2
    <3> QED
      BY <3>2, <3>3, <3>4 DEF InvocationTask
  <2> QED
    BY <2>1, <2>2 DEF ReportInv, CallTells
<1>3. UNCHANGED waiter
  BY DEF InvocationTask, Begin, InnerReturns, InnerRaises, InnerCancelled, InnerOver, Persist,
         Confirm, Compensate
<1> QED
  BY <1>1, <1>2, <1>3
  DEF ReportInv, svars, OutcomeIsShaped, StopIsNamed, PersistedMeansDurable, ClosingPlaces,
      RecoveryPlaces

\* The outcome of an agent that leaves.
LEMMA LeavesWithOutcome ==
  ASSUME NEW status, NEW p, Leave(status, p)
  PROVE  svc' = "finish" /\ outcome'.status = status /\ OutcomeIsShaped'
BY DEF Leave, OutcomeIsShaped

\* However the agent ends, its outcome is a terminal state.
LEMMA AgentKeepsReportInv ==
  ASSUME RecordInv, ReportInv, Agent \/ CallCancelled
  PROVE  ReportInv'
<1>1. SUFFICES /\ CallTells' /\ StopIsNamed'
               /\ \/ svc' = "agent" /\ UNCHANGED outcome
                  \/ \E status \in Terminal : \E p : Leave(status, p)
  BY <1>1, LeavesWithOutcome
  DEF ReportInv, OutcomeIsShaped, PersistedMeansDurable, ClosingPlaces, RecoveryPlaces
<1>2. svc = "agent"
  BY AgentLeaves
<1>3. UNCHANGED cvars /\ (UNCHANGED stop \/ stop' \in Reasons) => CallTells' /\ StopIsNamed'
  BY DEF ReportInv, CallTells, StopIsNamed, cvars
<1>4. Reasons \subseteq Terminal /\ {"succeeded", "failed", "timed_out"} \subseteq Terminal
  BY DEF Reasons, Terminal
<1>5. ASSUME NEW p, Stop(p)
      PROVE  stop' \in Reasons /\ \E status \in Terminal : Leave(status, p)
  BY <1>4, <1>5 DEF Stop
<1>6. ASSUME NEW end, NEW at, NEW p, Awaiting(end, at, p)
      PROVE  /\ UNCHANGED stop \/ stop' \in Reasons
             /\ \/ svc' = "agent" /\ UNCHANGED outcome
                \/ \E status \in Terminal : \E q : Leave(status, q)
  BY <1>2, <1>4, <1>5, <1>6 DEF Awaiting, GoOn
<1>7. CASE RequestTurn \/ RecordAnswer
  BY <1>3, <1>6, <1>7 DEF RequestTurn, RecordAnswer
<1>8. CASE RecordFailure
  BY <1>2, <1>3, <1>4, <1>5, <1>8 DEF RecordFailure
<1>9. CASE ModelAnswers
  BY <1>2, <1>3, <1>5, <1>9 DEF ModelAnswers, GoOn
<1>10. CASE TurnBudgetSpent \/ RefusedRequest \/ Answer
  BY <1>3, <1>4, <1>10 DEF TurnBudgetSpent, RefusedRequest, Answer
<1>11. CASE RoundOver
  BY <1>2, <1>3, <1>4, <1>11 DEF RoundOver
<1>12. CASE CallCapability
  <2>1. waiter = "idle" /\ waiter' = "await" /\ UNCHANGED cancelling /\ call'.at = "begin"
    BY <1>12 DEF CallCapability, Invoke, NoCall
  <2> QED
    BY <1>2, <1>12, <2>1 DEF CallCapability, GoOn, ReportInv, CallTells, StopIsNamed
<1>13. CASE CallReturns
  <2>1. waiter = "await" /\ waiter' = "idle" /\ UNCHANGED cancelling /\ call.at = "returned"
    BY <1>13 DEF CallReturns, Awaited
  <2>2. CallTells' /\ StopIsNamed'
    BY <2>1 DEF ReportInv, CallTells, StopIsNamed
  <2>3. call.end = "error" \/ call.result \in Terminal
    BY <2>1 DEF ReportInv, CallTells
  <2> QED
    BY <1>2, <1>4, <1>13, <2>2, <2>3 DEF CallReturns, GoOn
<1>14. CASE CallCancelled
  BY <1>2, <1>14 DEF CallCancelled, Cancelled, CancelInvocation, CallTells, StopIsNamed
<1>15. CASE CallStopped
  <2>1. /\ waiter \in {"stopping", "reaping", "reaping_again"} /\ UNCHANGED stop
        /\ waiter' \in {"reaping", "reaping_again", "cancelled"}
    BY <1>15 DEF CallStopped, WaiterStops, Stopped, ReapTimeout, Reaped, CancelInvocation
  <2>2. stop \in Reasons
    BY <2>1 DEF ReportInv, StopIsNamed
  <2>3. CallTells' /\ StopIsNamed'
    BY <2>1, <2>2 DEF CallTells, StopIsNamed
  <2> QED
    BY <1>2, <1>4, <1>15, <2>2, <2>3 DEF CallStopped
<1> QED
  BY <1>7, <1>8, <1>9, <1>10, <1>11, <1>12, <1>13, <1>14, <1>15 DEF Agent

\* A step of the service outside of the agent that does not end execute.
LEMMA ServiceKeepsReportInv ==
  ASSUME ReportInv, UNCHANGED <<cvars, stop>>,
         \/ UNCHANGED outcome \/ Failed,
         svc' \in ClosingPlaces => outcome'.status \in Terminal,
         svc' \in RecoveryPlaces => outcome'.status = "failed",
         svc' = "done" /\ persisted' => db'.status[Run] = outcome'.status
  PROVE  ReportInv'
<1>1. OutcomeIsShaped'
  BY DEF ReportInv, OutcomeIsShaped, Failed
<1>2. CallTells' /\ StopIsNamed'
  BY DEF ReportInv, CallTells, StopIsNamed, cvars
<1> QED
  BY <1>1, <1>2 DEF ReportInv, PersistedMeansDurable

\* The outcome that storage failures get.
LEMMA FailedStatus ==
  ASSUME OutcomeIsShaped, Failed
  PROVE  outcome'.status = "failed"
BY DEF OutcomeIsShaped, Failed

\* The setup reports nothing.
LEMMA SetupKeepsReportInv ==
  ASSUME ReportInv, Setup
  PROVE  ReportInv'
<1>1. PICK end \in Ends :
        /\ Goes(end, "start", "recover") \/ Goes(end, "agent", "recover")
        /\ IF end = "error" THEN Failed ELSE UNCHANGED outcome
  BY DEF Setup
<1>2. UNCHANGED <<cvars, stop>>
  BY DEF Setup, Service
<1>3. svc' \in {"start", "agent", "dead", "interrupt"} \/ (svc' = "recover" /\ Failed)
  BY <1>1, GoesSomewhere DEF Ends
<1>4. Failed => outcome'.status = "failed"
  BY FailedStatus DEF ReportInv
<1> QED
  BY <1>1, <1>2, <1>3, <1>4, ServiceKeepsReportInv DEF ClosingPlaces, RecoveryPlaces, Terminal

\* The recovery reports what it has written or read.
LEMMA RecoveryKeepsReportInv ==
  ASSUME ReportInv,
         \/ RecoverLoad \/ RecoverMatch
         \/ Recovering("recover_start", "recover_finish")
         \/ Recovering("recover_finish", "recover_match")
  PROVE  ReportInv'
<1>1. UNCHANGED <<cvars, stop, outcome>> /\ svc \in RecoveryPlaces
  BY DEF RecoverLoad, RecoverMatch, Recovering, Service, RecoveryPlaces
<1>2. outcome.status = "failed"
  BY <1>1 DEF ReportInv
<1>3. svc' = "done" /\ persisted' => db'.status[Run] = outcome.status
  <2>1. CASE Recovering("recover_start", "recover_finish")
          \/ Recovering("recover_finish", "recover_match")
    BY <2>1, GoesSomewhere DEF Recovering, Returns, Ends
  <2>2. CASE RecoverLoad
    BY <2>2, GoesSomewhere DEF RecoverLoad, Recovery, Returns, Load, Ends
  <2>3. CASE RecoverMatch
    BY <2>3, GoesSomewhere DEF RecoverMatch, Returns, Load, Ends
  <2> QED
    BY <2>1, <2>2, <2>3
<1> QED
  BY <1>1, <1>2, <1>3, ServiceKeepsReportInv DEF Terminal

\* execute reports a final transaction only when it was acknowledged or found.
LEMMA FinalKeepsReportInv ==
  ASSUME RecordInv, ReportInv, Finalize \/ MatchTerminal
  PROVE  ReportInv'
<1>1. UNCHANGED <<cvars, stop>> /\ outcome.status \in Terminal
  BY DEF Finalize, MatchTerminal, Service, ReportInv, ClosingPlaces
<1>2. CASE Finalize
  <2>1. PICK end \in Ends : /\ Finish(outcome.status, outcome.counts, end)
                            /\ IF end = "ok" THEN Returns(TRUE) ELSE Goes(end, "done", "match")
    BY <1>2 DEF Finalize
  <2>2. end = "ok" => db'.status[Run] = outcome.status
    BY <2>1, MethodsOfRun DEF RecordInv
  <2>3. svc' = "done" => end = "ok"
    <3>1. Goes(end, "done", "match") => svc' \in {"match", "dead", "interrupt"} \/ end = "ok"
      BY GoesSomewhere
    <3> QED
      BY <2>1, <3>1
  <2>4. svc' \notin RecoveryPlaces /\ UNCHANGED outcome
    BY <1>2, <2>1, GoesSomewhere DEF Finalize, Returns, RecoveryPlaces, Ends
  <2> QED
    BY <1>1, <2>2, <2>3, <2>4, ServiceKeepsReportInv
<1>3. CASE MatchTerminal
  <2>1. PICK end \in Ends :
          /\ Load(end)
          /\ IF end = "ok" /\ db.status[Run] = outcome.status
               THEN Returns(TRUE) /\ UNCHANGED outcome
               ELSE Goes(end, "recover", "recover") /\ Failed
    BY <1>3 DEF MatchTerminal
  <2>2. CASE end = "ok" /\ db.status[Run] = outcome.status
    <3>1. svc' = "done" /\ UNCHANGED outcome /\ db'.status[Run] = outcome.status
      BY <2>1, <2>2 DEF Returns, Load
    <3> QED
      BY <1>1, <3>1, ServiceKeepsReportInv DEF RecoveryPlaces
  <2>3. CASE ~(end = "ok" /\ db.status[Run] = outcome.status)
    <3>1. Failed /\ svc' \in {"recover", "dead", "interrupt"}
      <4>1. Failed /\ Goes(end, "recover", "recover")
        BY <2>1, <2>3
      <4> QED
        BY <4>1, GoesSomewhere
    <3>2. outcome'.status = "failed"
      BY <3>1, FailedStatus DEF ReportInv
    <3> QED
      BY <1>1, <3>1, <3>2, ServiceKeepsReportInv DEF Terminal
  <2> QED
    BY <2>2, <2>3
<1> QED
  BY <1>2, <1>3

\* What was reported is an end, which no late commit changes.
LEMMA SettleKeepsReportInv ==
  ASSUME RecordInv, ReportInv, Settle, UNCHANGED <<cvars, svars>>
  PROVE  ReportInv'
<1>1. svc = "done" /\ persisted => db.status[Run] \in Terminal
  BY DEF ReportInv, PersistedMeansDurable, ClosingPlaces
<1>2. ~(svc = "done" /\ persisted)
  BY <1>1 DEF RecordInv, EndIsDecided, Settle
<1> QED
  BY <1>2
  DEF ReportInv, OutcomeIsShaped, CallTells, StopIsNamed, PersistedMeansDurable, cvars, svars

\* Every step of a Run keeps what execute may report.
LEMMA RunNextKeepsReportInv ==
  ASSUME RecordInv, ReportInv, [RunNext]_runvars
  PROVE  ReportInv'
<1>1. CASE UNCHANGED runvars
  BY <1>1
  DEF runvars, pvars, cvars, svars, ReportInv, OutcomeIsShaped, CallTells, StopIsNamed,
      PersistedMeansDurable
<1>2. CASE Runtime
  BY <1>2, SetupKeepsReportInv, RecoveryKeepsReportInv, FinalKeepsReportInv DEF Runtime
<1> QED
  BY <1>1, <1>2, AgentKeepsReportInv, TaskKeepsReportInv, SettleKeepsReportInv DEF RunNext

RunInv == RecordInv /\ ReportInv

\* execute starts with nothing to report.
LEMMA InitRunInv == RunInit => RunInv
<1> SUFFICES ASSUME RunInit PROVE ReportInv
  BY InitRecordInv DEF RunInit, RunInv
<1> QED
  BY DEF RunInit, CInit, NoCall, NoOutcome, ReportInv, OutcomeIsShaped, CallTells, StopIsNamed,
         PersistedMeansDurable, ClosingPlaces, RecoveryPlaces

\* The invariant is inductive.
LEMMA RunNextKeepsRunInv == RunInv /\ [RunNext]_runvars => RunInv'
BY RunNextKeepsRecordInv, RunNextKeepsReportInv DEF RunInv

-----------------------------------------------------------------------------
(***************************************************************************)
(* The theorems.                                                            *)
(***************************************************************************)
\* For any number of failing calls and whatever commits late: what execute
\* reports as persisted is in the database, and stays there.
THEOREM ReportsAreDurable == RunSpec => []PersistedMeansDurable
<1>1. RunInv => PersistedMeansDurable
  BY DEF RunInv, ReportInv
<1> QED
  BY <1>1, InitRunInv, RunNextKeepsRunInv, PTL DEF RunSpec

\* Neither a retry nor the recovery nor a Capability task writes about a Run
\* that has ended.
THEOREM EndedRunsAreSilent == RunSpec => TerminalRunIsSilent
<1>1. RunInv /\ [RunNext]_runvars =>
        [db.status[Run] \in Terminal => UNCHANGED db]_runvars
  BY RunNextKeepsRecordInv DEF RunInv, EndedRunStays
<1> QED
  BY <1>1, InitRunInv, RunNextKeepsRunInv, PTL DEF RunSpec, TerminalRunIsSilent

\* The counts of an agent and of its outcome are numbers.
CountsAreTyped ==
  /\ turn \in [repair : BOOLEAN, failure : Failures \cup {"none"}]
  /\ progress \in [turns : Nat, calls : Nat, arts : Nat, repairs : Nat]
  /\ outcome.counts \in [1 .. 3 -> Nat]

\* A sequence of three numbers is a function from 1 .. 3 to the numbers.
LEMMA Triple ==
  /\ \A a, b, c \in Nat : <<a, b, c>> \in [1 .. 3 -> Nat]
  /\ \A s \in [1 .. 3 -> Nat] : s \in Seq(Nat) /\ s[1] \in Nat /\ s[2] \in Nat /\ s[3] \in Nat
<1>1. ASSUME NEW a \in Nat, NEW b \in Nat, NEW c \in Nat
      PROVE  <<a, b, c>> \in [1 .. 3 -> Nat]
  <2>1. <<a, b, c>> \in Seq(Nat) /\ Len(<<a, b, c>>) = 3
    OBVIOUS
  <2> QED
    BY <2>1
<1>2. \A s \in [1 .. 3 -> Nat] : s[1] \in Nat /\ s[2] \in Nat /\ s[3] \in Nat
  OBVIOUS
<1>3. \A n \in Nat : \A s \in [1 .. n -> Nat] : s \in Seq(Nat)
  OBVIOUS
<1> QED
  BY <1>1, <1>2, <1>3

\* An agent that leaves takes the counts of its progress along.
LEMMA LeaveCounts ==
  ASSUME NEW status, NEW p \in [turns : Nat, calls : Nat, arts : Nat, repairs : Nat],
         Leave(status, p)
  PROVE  /\ UNCHANGED turn /\ progress' = p
         /\ outcome'.counts = <<p.turns, p.calls, p.arts>>
         /\ outcome'.counts \in [1 .. 3 -> Nat]
<1>1. p.turns \in Nat /\ p.calls \in Nat /\ p.arts \in Nat
  OBVIOUS
<1>2. outcome'.counts = <<p.turns, p.calls, p.arts>>
  BY DEF Leave
<1> QED
  BY <1>1, <1>2, Triple DEF Leave

\* A step of the agent leaves what it counts a number.
LEMMA ProgressGrows ==
  ASSUME NEW p \in [turns : Nat, calls : Nat, arts : Nat, repairs : Nat], NEW n \in Nat
  PROVE  LET P == [turns : Nat, calls : Nat, arts : Nat, repairs : Nat]
         IN /\ [p EXCEPT !.turns = @ + 1] \in P /\ [p EXCEPT !.calls = @ + 1] \in P
            /\ [p EXCEPT !.repairs = @ + 1] \in P /\ [p EXCEPT !.arts = @ + n] \in P
OBVIOUS

\* The agent counts by ones and by the lengths of its results.
LEMMA AgentKeepsCounts ==
  ASSUME CountsAreTyped, CallIsTyped, Agent \/ CallCancelled
  PROVE  CountsAreTyped'
<1> DEFINE P == [turns : Nat, calls : Nat, arts : Nat, repairs : Nat]
           T == [repair : BOOLEAN, failure : Failures \cup {"none"}]
<1>1. turn \in T /\ progress \in P /\ outcome.counts \in [1 .. 3 -> Nat]
  BY DEF CountsAreTyped
<1>2. ASSUME NEW p \in P, \E status : Leave(status, p)
      PROVE  CountsAreTyped'
  BY <1>1, <1>2, LeaveCounts DEF CountsAreTyped
<1>3. ASSUME NEW p \in P, Stop(p)
      PROVE  CountsAreTyped'
  BY <1>2, <1>3 DEF Stop
<1>4. ASSUME turn' \in T, progress' \in P, UNCHANGED outcome
      PROVE  CountsAreTyped'
  BY <1>1, <1>4 DEF CountsAreTyped
<1>5. ASSUME NEW p \in P, NEW at, GoOn(at, p)
      PROVE  CountsAreTyped'
  BY <1>1, <1>4, <1>5 DEF GoOn
<1>6. ASSUME NEW p \in P, NEW end, NEW at, Awaiting(end, at, p)
      PROVE  CountsAreTyped'
  BY <1>2, <1>3, <1>5, <1>6 DEF Awaiting
<1>7. /\ [progress EXCEPT !.turns = @ + 1] \in P /\ [progress EXCEPT !.calls = @ + 1] \in P
      /\ [progress EXCEPT !.repairs = @ + 1] \in P
      /\ [progress EXCEPT !.arts = @ + Len(call.arts)] \in P
  <2>1. Len(call.arts) \in Nat
    <3>1. call.arts \in Snapshots
      BY DEF CallIsTyped, CallRecord
    <3>2. \A s \in Snapshots : s \in Seq(Artifact)
      BY DEF Snapshots
    <3> QED
      BY <3>1, <3>2
  <2> QED
    BY <1>1, <2>1, ProgressGrows
<1>8. [repair |-> TRUE, failure |-> "none"] \in T /\ [repair |-> FALSE, failure |-> "none"] \in T
  OBVIOUS
<1>9. \A f \in Failures : [turn EXCEPT !.failure = f] \in T
  BY <1>1
<1> HIDE DEF P, T
<1>10. CASE RequestTurn \/ RecordAnswer
  BY <1>1, <1>6, <1>7, <1>10 DEF RequestTurn, RecordAnswer
<1>11. CASE RecordFailure
  <2>1. \/ turn' = [repair |-> TRUE, failure |-> "none"]
           /\ progress' = [progress EXCEPT !.repairs = @ + 1] /\ UNCHANGED outcome
        \/ \E status : Leave(status, progress)
        \/ Stop(progress)
    BY <1>11 DEF RecordFailure
  <2> QED
    BY <1>1, <1>2, <1>3, <1>4, <1>7, <1>8, <2>1
<1>12. CASE ModelAnswers
  <2>1. \/ GoOn("completed", progress)
        \/ \E f \in Failures : turn' = [turn EXCEPT !.failure = f] /\ UNCHANGED <<progress, outcome>>
        \/ Stop(progress)
    BY <1>12 DEF ModelAnswers
  <2> QED
    BY <1>1, <1>3, <1>4, <1>5, <1>9, <2>1
<1>13. CASE TurnBudgetSpent \/ RefusedRequest \/ Answer
  BY <1>1, <1>2, <1>7, <1>13 DEF TurnBudgetSpent, RefusedRequest, Answer
<1>14. CASE RoundOver
  <2>1. \/ \E status : Leave(status, progress)
        \/ turn' = [repair |-> FALSE, failure |-> "none"] /\ UNCHANGED <<progress, outcome>>
    BY <1>14 DEF RoundOver
  <2> QED
    BY <1>1, <1>2, <1>4, <1>8, <2>1
<1>15. CASE CallCapability
  BY <1>5, <1>7, <1>15 DEF CallCapability
<1>16. CASE CallReturns
  BY <1>1, <1>2, <1>5, <1>7, <1>16 DEF CallReturns
<1>17. CASE CallCancelled
  BY <1>1, <1>4, <1>17 DEF CallCancelled
<1>18. CASE CallStopped
  BY <1>1, <1>2, <1>4, <1>18 DEF CallStopped
<1> QED
  BY <1>10, <1>11, <1>12, <1>13, <1>14, <1>15, <1>16, <1>17, <1>18 DEF Agent

\* The service changes at most the status of an outcome.
LEMMA ServiceKeepsCounts ==
  ASSUME CountsAreTyped, OutcomeIsShaped, UNCHANGED <<turn, progress>>,
         UNCHANGED outcome \/ Failed
  PROVE  CountsAreTyped'
<1>1. outcome'.counts = outcome.counts
  BY DEF OutcomeIsShaped, Failed
<1> QED
  BY <1>1 DEF CountsAreTyped

\* What a method call does to the rows, whoever makes it.
LEMMA AgentSteps ==
  ASSUME PInv, CountsAreTyped, Agent \/ CallCancelled
  PROVE  Stepped
<1>1. node \in Node /\ turn.repair \in BOOLEAN
  BY DEF PInv, PTypeOK, CountsAreTyped
<1>2. UNCHANGED pvars => Stepped
  BY DEF pvars, Quiet, Stepped
<1>3. CASE RequestTurn \/ RecordAnswer \/ RecordFailure
  <2>1. CASE RequestTurn
    BY <1>1, <2>1, ModelRequestedWrites DEF RequestTurn, Stepped
  <2>2. CASE RecordAnswer
    BY <1>1, <2>2, ModelEndedWrites DEF RecordAnswer, Stepped
  <2>3. CASE RecordFailure
    <3> DEFINE invalid == turn.failure \in {"invalid", "repairable"}
    <3>1. PICK end \in Ends : ModelFailed(invalid, turn.repair, end)
      BY <2>3 DEF RecordFailure
    <3>2. invalid \in BOOLEAN
      OBVIOUS
    <3> HIDE DEF invalid
    <3> QED
      BY <1>1, <3>1, <3>2, ModelEndedWrites DEF Stepped
  <2> QED
    BY <1>3, <2>1, <2>2, <2>3
<1> QED
  BY <1>2, <1>3
  DEF Agent, TurnBudgetSpent, RefusedRequest, ModelAnswers, Answer, CallCapability, RoundOver,
      CallReturns, CallStopped, CallCancelled, Cancelled, WaiterStops, Stopped, ReapTimeout, Reaped

\* Every step of a call's task is one transaction, or none.
LEMMA TaskSteps ==
  ASSUME PInv, CallIsTyped, InvocationTask
  PROVE  Stepped
<1>1. node \in Node /\ call \in CallRecord /\ (call.at # "idle" => call.inv \in Invocation)
  BY DEF PInv, PTypeOK, CallIsTyped
<1>2. UNCHANGED pvars \/ (\E end : Load(end)) => Stepped
  BY DEF pvars, Load, Quiet, Stepped
<1>3. CASE InnerReturns \/ InnerRaises \/ InnerCancelled
  BY <1>2, <1>3 DEF InnerReturns, InnerRaises, InnerCancelled, InnerOver
<1>4. CASE Begin
  <2>1. PICK end : BeginInvocation(call.inv, end)
    BY <1>4 DEF Begin
  <2>2. call.inv \in Invocation
    BY <1>1, <1>4 DEF Begin
  <2> QED
    BY <1>1, <2>1, <2>2, BeginInvocationWrites DEF Stepped
<1>5. CASE Persist
  <2>1. PICK end : FinishInvocation(call.inv, call.result, call.arts, FALSE, end)
    BY <1>5 DEF Persist
  <2>2. call.inv \in Invocation /\ call.result \in Terminal /\ call.arts \in Snapshots
    BY <1>1, <1>5, ConstantsAssumption DEF Persist, CallIsTyped, CallRecord
  <2> QED
    BY <1>1, <2>1, <2>2, FinishInvocationWrites DEF Stepped
<1>6. CASE Confirm
  BY <1>2, <1>6 DEF Confirm
<1>7. CASE Compensate
  <2>1. PICK end : CompensateInvocationFailure(call.inv, end)
    BY <1>7 DEF Compensate
  <2>2. call.inv \in Invocation
    BY <1>1, <1>7 DEF Compensate
  <2> QED
    BY <1>1, <2>1, <2>2, CompensateWrites DEF Stepped
<1> QED
  BY <1>3, <1>4, <1>5, <1>6, <1>7 DEF InvocationTask

\* Every step of the service is one transaction, or none.
LEMMA ServiceSteps ==
  ASSUME PInv, CountsAreTyped, ReportInv, Runtime
  PROVE  Stepped
<1>1. node \in Node /\ outcome.counts \in Seq(Nat)
  BY Triple DEF PInv, PTypeOK, CountsAreTyped
<1>2. ASSUME NEW end, Load(end)
      PROVE  Stepped
  BY <1>2 DEF Load, Quiet, Stepped
<1>3. ASSUME NEW end, Initialize(end) \/ Start(end)
      PROVE  Stepped
  BY <1>1, <1>3, InitializeWrites, StartWrites, RecordsAndWords DEF Stepped
<1>4. ASSUME NEW end, svc \in ClosingPlaces, Finish(outcome.status, outcome.counts, end)
      PROVE  Stepped
  BY <1>1, <1>4, FinishWrites DEF Stepped, ReportInv
<1>5. CASE Setup
  BY <1>3, <1>5 DEF Setup
<1>6. CASE MatchTerminal \/ RecoverLoad \/ RecoverMatch
  BY <1>2, <1>6 DEF MatchTerminal, RecoverLoad, RecoverMatch
<1>7. CASE \/ Finalize \/ Recovering("recover_start", "recover_finish")
           \/ Recovering("recover_finish", "recover_match")
  <2>1. svc \in ClosingPlaces
    BY <1>7 DEF Finalize, Recovering, Service, ClosingPlaces
  <2>2. \E end : Start(end) \/ Finish(outcome.status, outcome.counts, end)
    BY <1>7 DEF Finalize, Recovering
  <2> QED
    BY <1>3, <1>4, <2>1, <2>2
<1> QED
  BY <1>5, <1>6, <1>7 DEF Runtime

\* What a Run never breaks, whatever fails.
SoundInv == SInv /\ RunInv /\ CountsAreTyped

\* A step keeps the invariant of the earlier sections, and the types of the
\* counts, and moves the rows by one transaction.
LEMMA RunNextKeepsSoundInv ==
  ASSUME SoundInv, [RunNext]_runvars
  PROVE  SoundInv' /\ Stepped
<1>1. PInv /\ CallIsTyped /\ ReportInv /\ CountsAreTyped /\ RunInv /\ SInv
  BY DEF SoundInv, SInv, AInv, RunInv, RecordInv
<1>2. Stepped
  <2>1. CASE UNCHANGED runvars
    BY <2>1 DEF runvars, pvars, Quiet, Stepped
  <2>2. CASE Settle
    BY <2>2 DEF Stepped
  <2> QED
    BY <1>1, <2>1, <2>2, AgentSteps, TaskSteps, ServiceSteps DEF RunNext
<1>3. CountsAreTyped'
  <2>1. CASE \/ UNCHANGED runvars
             \/ Settle /\ UNCHANGED <<cvars, svars>>
             \/ InvocationTask /\ UNCHANGED svars
    <3>1. UNCHANGED <<turn, progress, outcome>>
      BY <2>1 DEF runvars, svars
    <3> QED
      BY <1>1, <3>1, ServiceKeepsCounts DEF ReportInv
  <2>2. CASE Runtime
    <3>1. UNCHANGED <<turn, progress>> /\ (UNCHANGED outcome \/ Failed)
      BY <2>2
      DEF Runtime, Setup, Finalize, MatchTerminal, RecoverLoad, RecoverMatch, Recovering, Service
    <3> QED
      BY <1>1, <3>1, ServiceKeepsCounts DEF ReportInv
  <2>3. CASE Agent \/ CallCancelled
    BY <1>1, <2>3, AgentKeepsCounts
  <2> QED
    BY <2>1, <2>2, <2>3 DEF RunNext
<1>4. SInv'
  BY <1>1, <1>2, SteppedKeepsSInv
<1> QED
  BY <1>1, <1>2, <1>3, <1>4, RunNextKeepsRunInv DEF SoundInv

\* The invariant of the port holds at first.
LEMMA InitSInv == PInit => SInv
<1> SUFFICES ASSUME PInit PROVE SInv
  OBVIOUS
<1>1. PInv
  BY PInitPInv
<1>2. db.artifacts = {} /\ DOMAIN db.events = {} /\ inDoubt = {}
  BY DEF PInit
<1>3. IsFiniteSet({})
  BY FS_EmptySet
<1> QED
  BY <1>1, <1>2, <1>3 DEF SInv, AInv, ToldOnce, Sound

\* And so does the invariant of the Run.
LEMMA InitSoundInv == RunInit => SoundInv
<1> SUFFICES ASSUME RunInit PROVE SoundInv
  OBVIOUS
<1>1. SInv /\ RunInv
  BY InitSInv, InitRunInv DEF RunInit
<1>2. outcome.counts = <<0, 0, 0>>
  BY DEF RunInit, NoOutcome
<1>3. CountsAreTyped
  BY <1>2, Triple DEF RunInit, CountsAreTyped
<1> QED
  BY <1>1, <1>3 DEF SoundInv

-----------------------------------------------------------------------------
(***************************************************************************)
(* The trace: wherever the agent may still succeed, the rows have the shape  *)
(* its place calls for and the counts of its progress, added to those that  *)
(* a session had before.  Calm says more of a run in which nothing failed   *)
(* and nobody was cancelled.                                                *)
(***************************************************************************)
\* d has the shape of Ready, and the counts of progress p added to base.
Reached(d, n, s, t, open, base, p) ==
  /\ Ready(d, n, s, t, open)
  /\ Counts(d, base[1] + p.turns, base[2] + p.calls, base[3] + p.arts)

\* The progress before the call that is under way, and with its Artifacts.
Before(p) == [p EXCEPT !.calls = @ - 1]
Holding(p, c) == [p EXCEPT !.arts = @ + Len(c.arts)]

RunningAt(d, n, open, base, p) == Reached(d, n, "running", "running", open, base, p)

\* The rows during a call that the agent waits for.
CallTrack(base) ==
  /\ call.then # "cancelled"
  /\ call.then = "error" => call.arts = <<>>
  /\ call.at = "begin" => inDoubt = {} /\ RunningAt(db, node, {}, base, Before(progress))
  /\ call.at \in {"inner", "persist"} =>
       inDoubt = {} /\ RunningAt(db, node, {call.inv}, base, progress)
  /\ call.at = "confirm" =>
       /\ inDoubt # {} => RunningAt(db, node, {call.inv}, base, progress)
       /\ \A d \in {db} \cup inDoubt :
            \/ RunningAt(d, node, {call.inv}, base, progress)
            \/ RunningAt(d, node, {}, base, Holding(progress, call))
  /\ call.at = "returned" =>
       /\ call.end \in {"result", "error"}
       /\ call.end = "result" =>
            inDoubt = {} /\ RunningAt(db, node, {}, base, Holding(progress, call))

\* The counts of an outcome added to those from before.
Sum(base, counts) == [k \in 1 .. 3 |-> base[k] + counts[k]]
CountsAre(d, c) == Counts(d, c[1], c[2], c[3])

Track(base) ==
  /\ svc = "initialize" =>
       /\ agent # "waiting"
       /\ inDoubt = {} /\ Reached(db, node, Absent, Absent, {}, base, progress)
  /\ svc = "start" =>
       /\ agent # "waiting"
       /\ inDoubt = {} /\ Reached(db, node, "created", "created", {}, base, progress)
  /\ svc = "agent" /\ agent # "waiting" =>
       inDoubt = {} /\ RunningAt(db, node, {}, base, progress)
  /\ svc = "agent" /\ agent = "waiting" /\ waiter = "await" => CallTrack(base)
  /\ svc = "finish" /\ outcome.status = "succeeded" =>
       /\ inDoubt = {} /\ Ready(db, node, "running", "running", {})
       /\ CountsAre(db, Sum(base, outcome.counts))

\* Nothing has failed and nobody was cancelled.
Calm == faults = 0 /\ stop = "none"

\* Nothing stands against the next write, nor against the next call.
Fresh ==
  /\ inDoubt = {} /\ seq = LastNumber(db)
  /\ \A i \in Invocation \ used : db.status[i] = Absent
  /\ \A b \in db.artifacts : disk[b.id] # "none"

CalmCall(base) ==
  /\ waiter = "await"
  /\ call.at \in {"begin", "inner", "persist", "returned"}
  /\ call.inv \in used
  /\ call.at = "begin" => db.status[call.inv] = Absent
  /\ call.at = "persist" => /\ RowIds(db) \cap Elements(call.arts) = {}
                            /\ \A a \in Elements(call.arts) : disk[a] # "none"
  /\ call.at = "returned" /\ call.end = "error" => RunningAt(db, node, {}, base, progress)

\* The counts of an outcome are those of d, but for a refused request.
Tally(d, c) ==
  \/ CountsAre(d, c)
  \/ ~RequestsFit /\ Counts(d, c[1] - 1, c[2], c[3])

\* A result that would exceed this is not held by the outcome.
FitsBudget(d) == Cardinality(d.artifacts) <= ArtifactBudget

Calmly(base) ==
  Calm =>
    /\ svc \notin RecoveryPlaces \cup {"match"}
    /\ svc \in {"initialize", "start", "agent", "finish"} => Fresh
    /\ svc = "agent" /\ agent = "waiting" => CalmCall(base)
    /\ svc = "finish" =>
         /\ Ready(db, node, "running", "running", {})
         /\ FitsBudget(db) => Tally(db, Sum(base, outcome.counts))

\* A Run that is durably succeeded, or will be, has a complete trace.
SuccessInv ==
  \A d \in {db} \cup inDoubt : d.status[Run] = "succeeded" => InspectConsistency(d) = {}

\* What execute leaves when nothing has failed.
QuietEnd ==
  svc = "done" /\ Calm =>
    /\ persisted
    /\ FitsBudget(db) => InspectConsistency(db) \subseteq Excused

-----------------------------------------------------------------------------
\* Failing calls and cancellations are not taken back.
LEMMA CalmBefore ==
  ASSUME PInv, Stepped, stop' = stop \/ stop' \in Reasons, Calm'
  PROVE  Calm /\ faults = 0 /\ faults' = 0
<1>1. faults \in Nat /\ faults' = 0 /\ stop = "none"
  BY ConstantsAssumption DEF PInv, PTypeOK, Calm, Reasons
<1>2. CASE Quiet \/ Settle
  BY <1>1, <1>2 DEF Quiet, Settle, Calm
<1>3. ASSUME NEW tx, NEW end, Write(tx, end)
      PROVE  faults = 0
  BY <1>1, <1>3 DEF Write, WriteDecided, WriteBlocked, Resync
<1> QED
  BY <1>1, <1>2, <1>3 DEF Stepped, Calm

\* An agent that was told to stop stays told.
LEMMA StopStays ==
  ASSUME [RunNext]_runvars
  PROVE  stop' = stop \/ stop' \in Reasons
<1>1. CASE UNCHANGED runvars \/ Runtime \/ (InvocationTask /\ UNCHANGED svars)
           \/ (Settle /\ UNCHANGED <<cvars, svars>>)
  BY <1>1 DEF runvars, svars, Runtime, Setup, Finalize, MatchTerminal, RecoverLoad, RecoverMatch,
              Recovering, Service
<1>2. CASE Agent \/ CallCancelled
  BY <1>2 DEF Agent, CallCancelled, TurnBudgetSpent, RequestTurn, RefusedRequest, ModelAnswers,
    RecordAnswer, RecordFailure, Answer, CallCapability, RoundOver, CallReturns, CallStopped,
    Awaiting, GoOn, Stop
<1> QED
  BY <1>1, <1>2 DEF RunNext

\* The agent goes on, where it may still succeed.
LEMMA GoesOn ==
  ASSUME NEW base, svc' = "agent", agent' # "waiting",
         inDoubt' = {}, RunningAt(db', node', {}, base, progress'),
         Calm' => Fresh'
  PROVE  Track(base)' /\ Calmly(base)'
BY DEF Track, Calmly, RecoveryPlaces

\* The agent leaves.
LEMMA Leaves ==
  ASSUME NEW base \in [1 .. 3 -> Nat], NEW status,
         NEW p \in [turns : Nat, calls : Nat, arts : Nat, repairs : Nat], Leave(status, p),
         status = "succeeded" => inDoubt' = {} /\ RunningAt(db', node', {}, base, p),
         Calm' => /\ Fresh' /\ Ready(db', node', "running", "running", {})
                  /\ FitsBudget(db') =>
                       \/ RunningAt(db', node', {}, base, p)
                       \/ ~RequestsFit /\ Counts(db', base[1] + p.turns - 1, base[2] + p.calls,
                                                 base[3] + p.arts)
  PROVE  Track(base)' /\ Calmly(base)'
<1>1. /\ svc' = "finish" /\ outcome'.status = status
      /\ outcome'.counts = <<p.turns, p.calls, p.arts>>
  BY DEF Leave
<1>2. /\ Sum(base, outcome'.counts)[1] = base[1] + p.turns
      /\ Sum(base, outcome'.counts)[2] = base[2] + p.calls
      /\ Sum(base, outcome'.counts)[3] = base[3] + p.arts
  BY <1>1 DEF Sum
<1>3. /\ RunningAt(db', node', {}, base, p) => /\ CountsAre(db', Sum(base, outcome'.counts))
                                               /\ Ready(db', node', "running", "running", {})
  BY <1>2 DEF RunningAt, Reached, CountsAre
<1>4. Track(base)'
  BY <1>1, <1>3 DEF Track
<1>5. Calmly(base)'
  BY <1>1, <1>2, <1>3 DEF Calmly, Tally, RecoveryPlaces
<1> QED
  BY <1>4, <1>5

\* A write of the agent: the rows when it is acknowledged, and that it is
\* acknowledged when nothing has failed.
LEMMA Acknowledged ==
  ASSUME SInv, NEW tx, NEW end, Transaction(tx), Write(tx, end)
  PROVE  /\ end = "ok" => Accepted(tx) /\ db' = After(tx) /\ inDoubt' = {}
         /\ Accepted(tx) /\ inDoubt = {} /\ end # "cancelled" /\ faults = 0 /\ faults' = 0 =>
              end = "ok" /\ seq' = LastNumber(db')
<1>1. PInv /\ Typed(tx) /\ Len(tx.facts) > 0
  BY DEF SInv, AInv, Transaction, Told
<1> QED
  BY <1>1, WriteOk, AcceptedIsCommitted

\* Rows of calls and Artifacts that stay let the next call begin.
LEMMA FreshStays ==
  ASSUME Fresh, used \subseteq used', UNCHANGED disk, inDoubt' = {}, seq' = LastNumber(db'),
         SameCalls(db', db)
  PROVE  Fresh'
BY DEF Fresh, SameCalls

Progressions == [turns : Nat, calls : Nat, arts : Nat, repairs : Nat]

\* What a write of the agent leaves, when it is acknowledged and when nothing
\* has failed.
LEMMA AgentWrites ==
  ASSUME SoundInv, NEW base, Track(base), Calmly(base), svc = "agent", agent # "waiting",
         NEW end, NEW tx, Transaction(tx), Write(tx, end), node' = node, UNCHANGED cvars,
         stop' = stop \/ stop' \in Reasons, NEW p,
         Accepted(tx) => RunningAt(After(tx), node, {}, base, p) /\ SameCalls(After(tx), db),
         seq = LastNumber(db) => Accepted(tx)
  PROVE  /\ end = "ok" => inDoubt' = {} /\ RunningAt(db', node', {}, base, p)
         /\ Calm' /\ end # "cancelled" => end = "ok" /\ Fresh'
<1>1. SInv /\ PInv /\ node \in Node
  BY DEF SoundInv, SInv, AInv, PInv, PTypeOK
<1>2. inDoubt = {}
  BY DEF Track
<1>3. end = "ok" => Accepted(tx) /\ db' = After(tx) /\ inDoubt' = {}
  BY <1>1, Acknowledged
<1>4. ASSUME Calm', end # "cancelled"
      PROVE  end = "ok" /\ Fresh'
  <2>1. Stepped
    BY <1>1 DEF Stepped
  <2>2. Calm /\ faults = 0 /\ faults' = 0
    BY <1>1, <1>4, <2>1, CalmBefore
  <2>3. Fresh
    BY <2>2 DEF Calmly
  <2>4. end = "ok" /\ seq' = LastNumber(db')
    BY <1>1, <1>2, <1>4, <2>2, <2>3, Acknowledged DEF Fresh
  <2> QED
    BY <1>3, <2>3, <2>4, FreshStays DEF cvars
<1> QED
  BY <1>3, <1>4

\* An await on persistence leads on, or out of the agent.
LEMMA AwaitingLeads ==
  ASSUME NEW base \in [1 .. 3 -> Nat], NEW end, NEW at, at # "waiting", NEW p \in Progressions,
         Awaiting(end, at, p), svc = "agent",
         end = "ok" => inDoubt' = {} /\ RunningAt(db', node', {}, base, p),
         Calm' /\ end # "cancelled" => end = "ok" /\ Fresh'
  PROVE  Track(base)' /\ Calmly(base)'
<1>1. CASE end = "ok"
  <2>1. GoOn(at, p)
    BY <1>1 DEF Awaiting
  <2>2. svc' = "agent" /\ agent' = at /\ progress' = p
    BY <2>1 DEF GoOn
  <2> QED
    BY <1>1, <2>2, GoesOn
<1>2. CASE end = "error"
  <2>1. Leave("failed", p) /\ ~Calm'
    BY <1>2 DEF Awaiting
  <2> QED
    BY <2>1, Leaves DEF Progressions
<1>3. CASE end = "cancelled"
  <2>1. PICK reason \in Reasons : stop' = reason /\ Leave(reason, p)
    BY <1>3 DEF Awaiting, Stop
  <2>2. ~Calm' /\ reason # "succeeded"
    BY <2>1 DEF Calm, Reasons
  <2> QED
    BY <2>1, <2>2, Leaves DEF Progressions
<1> QED
  BY <1>1, <1>2, <1>3 DEF Awaiting

\* A stop request leaves the rows and what the agent counted.
LEMMA StopLeads ==
  ASSUME NEW base \in [1 .. 3 -> Nat], NEW p \in Progressions, Stop(p)
  PROVE  Track(base)' /\ Calmly(base)'
<1>1. PICK reason \in Reasons : stop' = reason /\ Leave(reason, p)
  BY DEF Stop
<1>2. ~Calm' /\ reason # "succeeded"
  BY <1>1 DEF Calm, Reasons
<1> QED
  BY <1>1, <1>2, Leaves DEF Progressions

\* The rows where the agent is between its awaits.
LEMMA AgentCounts ==
  ASSUME SoundInv, NEW base, Track(base), svc = "agent", agent # "waiting"
  PROVE  /\ progress \in Progressions /\ turn.repair \in BOOLEAN
         /\ PInv /\ SInv /\ node \in Node
         /\ inDoubt = {} /\ RunningAt(db, node, {}, base, progress)
         /\ Ready(db, node, "running", "running", {})
         /\ Counts(db, base[1] + progress.turns, base[2] + progress.calls, base[3] + progress.arts)
BY DEF SoundInv, CountsAreTyped, Progressions, SInv, AInv, PInv, PTypeOK, Track, RunningAt, Reached

\* The model call.
LEMMA ModelStepsKeepTrack ==
  ASSUME SoundInv, NEW base \in [1 .. 3 -> Nat], Track(base), Calmly(base),
         RequestTurn \/ RecordAnswer \/ RecordFailure, stop' = stop \/ stop' \in Reasons
  PROVE  Track(base)' /\ Calmly(base)'
<1>1. svc = "agent" /\ agent # "waiting" /\ UNCHANGED cvars
  BY DEF RequestTurn, RecordAnswer, RecordFailure, At
<1>2. /\ progress \in Progressions /\ turn.repair \in BOOLEAN
      /\ PInv /\ SInv /\ node \in Node
      /\ inDoubt = {} /\ Ready(db, node, "running", "running", {})
      /\ Counts(db, base[1] + progress.turns, base[2] + progress.calls, base[3] + progress.arts)
  BY <1>1, AgentCounts
<1>3. CASE RequestTurn
  <2> DEFINE p == [progress EXCEPT !.turns = @ + 1]
  <2>1. PICK end \in Ends : ModelRequested(turn.repair, end) /\ Awaiting(end, "model", p)
    BY <1>3 DEF RequestTurn
  <2>2. /\ p \in Progressions /\ base[1] + progress.turns + 1 = base[1] + p.turns
        /\ p.calls = progress.calls /\ p.arts = progress.arts
    BY <1>2 DEF Progressions
  <2> HIDE DEF p
  <2>3. /\ node' = node
        /\ \E tx : /\ Transaction(tx) /\ Write(tx, end)
                   /\ Accepted(tx) => /\ Ready(After(tx), node, "running", "running", {})
                                      /\ Counts(After(tx), base[1] + progress.turns + 1,
                                                base[2] + progress.calls, base[3] + progress.arts)
                                      /\ SameCalls(After(tx), db)
                   /\ seq = LastNumber(db) => Accepted(tx)
    BY <1>2, <2>1, ModelRequestedLeads
  <2>4. PICK tx : /\ Transaction(tx) /\ Write(tx, end)
                  /\ Accepted(tx) => RunningAt(After(tx), node, {}, base, p) /\ SameCalls(After(tx), db)
                  /\ seq = LastNumber(db) => Accepted(tx)
    BY <2>2, <2>3 DEF RunningAt, Reached
  <2>5. /\ end = "ok" => inDoubt' = {} /\ RunningAt(db', node', {}, base, p)
        /\ Calm' /\ end # "cancelled" => end = "ok" /\ Fresh'
    BY <1>1, <2>3, <2>4, AgentWrites
  <2> QED
    BY <1>1, <2>1, <2>2, <2>5, AwaitingLeads
<1>4. ASSUME NEW end, NEW invalid \in BOOLEAN,
             ModelCompleted(turn.repair, end) \/ ModelFailed(invalid, turn.repair, end)
      PROVE  /\ end = "ok" => inDoubt' = {} /\ RunningAt(db', node', {}, base, progress)
             /\ Calm' /\ end # "cancelled" => end = "ok" /\ Fresh'
  <2>1. /\ node' = node
        /\ \E tx : /\ Transaction(tx) /\ Write(tx, end)
                   /\ Accepted(tx) => /\ Ready(After(tx), node, "running", "running", {})
                                      /\ Counts(After(tx), base[1] + progress.turns,
                                                base[2] + progress.calls, base[3] + progress.arts)
                                      /\ SameCalls(After(tx), db)
                   /\ seq = LastNumber(db) => Accepted(tx)
    BY <1>2, <1>4, ModelEndedLeads
  <2>2. PICK tx : /\ Transaction(tx) /\ Write(tx, end)
                  /\ Accepted(tx) => RunningAt(After(tx), node, {}, base, progress) /\ SameCalls(After(tx), db)
                  /\ seq = LastNumber(db) => Accepted(tx)
    BY <2>1 DEF RunningAt, Reached
  <2> QED
    BY <1>1, <2>1, <2>2, AgentWrites
<1>5. CASE RecordAnswer
  <2>1. PICK end \in Ends : ModelCompleted(turn.repair, end) /\ Awaiting(end, "decide", progress)
    BY <1>5 DEF RecordAnswer
  <2>2. /\ end = "ok" => inDoubt' = {} /\ RunningAt(db', node', {}, base, progress)
        /\ Calm' /\ end # "cancelled" => end = "ok" /\ Fresh'
    BY <1>4, <2>1
  <2> QED
    BY <1>1, <1>2, <2>1, <2>2, AwaitingLeads
<1>6. CASE RecordFailure
  <2> DEFINE invalid == turn.failure \in {"invalid", "repairable"}
             p == [progress EXCEPT !.repairs = @ + 1]
  <2>1. PICK end \in Ends :
          /\ ModelFailed(invalid, turn.repair, end)
          /\ \/ end = "ok" /\ agent' = "turn" /\ progress' = p /\ UNCHANGED svc
             \/ /\ end # "cancelled"
                /\ Leave(IF end = "ok" /\ turn.failure = "late" THEN "timed_out" ELSE "failed", progress)
             \/ end = "cancelled" /\ Stop(progress)
    BY <1>6 DEF RecordFailure
  <2>2. /\ p.turns = progress.turns /\ p.calls = progress.calls /\ p.arts = progress.arts
    BY <1>2 DEF Progressions
  <2>3. invalid \in BOOLEAN
    OBVIOUS
  <2> HIDE DEF invalid, p
  <2>4. /\ end = "ok" => inDoubt' = {} /\ RunningAt(db', node', {}, base, progress)
        /\ Calm' /\ end # "cancelled" => end = "ok" /\ Fresh'
    BY <1>4, <2>1, <2>3
  <2>5. CASE end = "ok" /\ agent' = "turn" /\ progress' = p /\ UNCHANGED svc
    <3>1. RunningAt(db', node', {}, base, progress')
      BY <2>2, <2>4, <2>5 DEF RunningAt, Reached
    <3> QED
      BY <1>1, <2>4, <2>5, <3>1, GoesOn
  <2>6. ASSUME NEW status, status # "succeeded", end # "cancelled", Leave(status, progress)
        PROVE  Track(base)' /\ Calmly(base)'
    <3>1. Calm' => /\ Fresh' /\ Ready(db', node', "running", "running", {})
                   /\ RunningAt(db', node', {}, base, progress)
      BY <2>4, <2>6 DEF RunningAt, Reached
    <3> QED
      BY <1>2, <2>6, <3>1, Leaves DEF Progressions
  <2>7. CASE end = "cancelled" /\ Stop(progress)
    BY <1>2, <2>7, StopLeads
  <2> QED
    BY <2>1, <2>5, <2>6, <2>7
<1> QED
  BY <1>3, <1>5, <1>6

\* The steps of the agent that touch no row.
LEMMA PlainStepsKeepTrack ==
  ASSUME SoundInv, NEW base \in [1 .. 3 -> Nat], Track(base), Calmly(base),
         \/ TurnBudgetSpent \/ RefusedRequest \/ ModelAnswers
         \/ Answer \/ RoundOver,
         stop' = stop \/ stop' \in Reasons
  PROVE  Track(base)' /\ Calmly(base)'
<1>1. svc = "agent" /\ agent # "waiting" /\ UNCHANGED cvars /\ UNCHANGED pvars
  BY DEF TurnBudgetSpent, RefusedRequest, ModelAnswers, Answer, RoundOver, At
<1>2. /\ progress \in Progressions /\ PInv /\ inDoubt = {}
      /\ RunningAt(db, node, {}, base, progress) /\ Ready(db, node, "running", "running", {})
      /\ Counts(db, base[1] + progress.turns, base[2] + progress.calls, base[3] + progress.arts)
  BY <1>1, AgentCounts
<1>3. Calm' => Calm
  <2>1. Stepped
    BY <1>1 DEF Stepped, Quiet, pvars
  <2> QED
    BY <1>2, <2>1, CalmBefore
<1>4. /\ inDoubt' = {} /\ RunningAt(db', node', {}, base, progress)
      /\ Ready(db', node', "running", "running", {})
      /\ Calm' => Fresh'
  <2>1. db' = db /\ node' = node /\ inDoubt' = inDoubt /\ seq' = seq
    BY <1>1 DEF pvars
  <2>2. Fresh => Fresh'
    BY <1>1, <2>1 DEF Fresh, cvars
  <2> QED
    BY <1>1, <1>2, <1>3, <2>1, <2>2 DEF Calmly
<1>5. ASSUME NEW status, Leave(status, progress)
      PROVE  Track(base)' /\ Calmly(base)'
  BY <1>2, <1>4, <1>5, Leaves DEF Progressions
<1>6. ASSUME svc' = "agent", agent' # "waiting", progress' = progress
      PROVE  Track(base)' /\ Calmly(base)'
  BY <1>4, <1>6, GoesOn
<1>7. CASE TurnBudgetSpent \/ Answer
  BY <1>5, <1>7 DEF TurnBudgetSpent, Answer
<1>8. CASE RefusedRequest
  <2> DEFINE p == [progress EXCEPT !.turns = @ + 1]
  <2>1. Leave("failed", p) /\ ~RequestsFit
    BY <1>8 DEF RefusedRequest
  <2>2. /\ p \in Progressions /\ base[1] + p.turns - 1 = base[1] + progress.turns
        /\ p.calls = progress.calls /\ p.arts = progress.arts
    BY <1>2 DEF Progressions
  <2> HIDE DEF p
  <2>3. Counts(db', base[1] + p.turns - 1, base[2] + p.calls, base[3] + p.arts)
    BY <1>4, <2>2 DEF RunningAt, Reached
  <2> QED
    BY <1>4, <2>1, <2>2, <2>3, Leaves DEF Progressions
<1>9. CASE ModelAnswers
  <2>1. \/ svc' = "agent" /\ agent' # "waiting" /\ progress' = progress
        \/ Stop(progress)
    BY <1>1, <1>9 DEF ModelAnswers, GoOn
  <2> QED
    BY <1>2, <1>6, <2>1, StopLeads
<1>10. CASE RoundOver
  <2>1. \/ svc' = "agent" /\ agent' # "waiting" /\ progress' = progress
        \/ Leave("failed", progress)
    BY <1>1, <1>10 DEF RoundOver
  <2> QED
    BY <1>5, <1>6, <2>1
<1> QED
  BY <1>7, <1>8, <1>9, <1>10

\* The agent waits for its call.
LEMMA Waits ==
  ASSUME NEW base, svc' = "agent", agent' = "waiting",
         waiter' = "await" => CallTrack(base)',
         Calm' => Fresh' /\ CalmCall(base)'
  PROVE  Track(base)' /\ Calmly(base)'
BY DEF Track, Calmly, RecoveryPlaces

\* The rows depend on the counts alone.
LEMMA SameCounts ==
  ASSUME NEW d, NEW n, NEW open, NEW base, NEW p, NEW q,
         RunningAt(d, n, open, base, p), q.turns = p.turns, q.calls = p.calls, q.arts = p.arts
  PROVE  RunningAt(d, n, open, base, q)
BY DEF RunningAt, Reached

\* A call begins.
LEMMA CallCapabilityKeepsTrack ==
  ASSUME SoundInv, NEW base \in [1 .. 3 -> Nat], Track(base), Calmly(base), CallCapability
  PROVE  Track(base)' /\ Calmly(base)'
<1>1. svc = "agent" /\ agent # "waiting" /\ UNCHANGED pvars
  BY DEF CallCapability, At
<1>2. PICK i \in Invocation : Invoke(i)
  BY DEF CallCapability
<1>3. /\ svc' = "agent" /\ agent' = "waiting" /\ UNCHANGED stop
      /\ progress' = [progress EXCEPT !.calls = @ + 1]
  BY <1>1 DEF CallCapability, GoOn
<1>4. /\ progress \in Progressions /\ PInv /\ inDoubt = {}
      /\ RunningAt(db, node, {}, base, progress)
  BY <1>1, AgentCounts
<1>5. /\ call'.at = "begin" /\ call'.inv = i /\ call'.then = "result" /\ waiter' = "await"
      /\ used' = used \cup {i} /\ i \notin used /\ UNCHANGED disk
  BY <1>2 DEF Invoke, NoCall
<1>6. /\ Before(progress').turns = progress.turns /\ Before(progress').calls = progress.calls
      /\ Before(progress').arts = progress.arts
  BY <1>3, <1>4 DEF Before, Progressions
<1>7. db' = db /\ node' = node /\ inDoubt' = {} /\ seq' = seq
  BY <1>1, <1>4 DEF pvars
<1>8. RunningAt(db', node', {}, base, Before(progress'))
  BY <1>4, <1>6, <1>7, SameCounts
<1>9. CallTrack(base)'
  BY <1>5, <1>7, <1>8 DEF CallTrack
<1>10. ASSUME Calm'
       PROVE  Fresh' /\ CalmCall(base)'
  <2>1. Stepped
    BY <1>1 DEF Stepped, Quiet, pvars
  <2>2. Fresh
    BY <1>1, <1>3, <1>4, <1>10, <2>1, CalmBefore DEF Calmly
  <2>3. Fresh'
    BY <1>5, <1>7, <2>2 DEF Fresh
  <2>4. db'.status[i] = Absent
    BY <1>5, <1>7, <2>2 DEF Fresh
  <2> QED
    BY <1>5, <2>3, <2>4 DEF CalmCall
<1> QED
  BY <1>3, <1>9, <1>10, Waits

\* What the agent makes of the end of its call.
LEMMA CallReturnsKeepsTrack ==
  ASSUME SoundInv, NEW base \in [1 .. 3 -> Nat], Track(base), Calmly(base), CallReturns,
         stop' = stop \/ stop' \in Reasons
  PROVE  Track(base)' /\ Calmly(base)'
<1>1. /\ svc = "agent" /\ agent = "waiting" /\ waiter = "await" /\ call.at = "returned"
      /\ UNCHANGED <<used, disk>> /\ UNCHANGED pvars
  BY DEF CallReturns, At, Awaited
<1>2. /\ call.end \in {"result", "error"}
      /\ call.end = "result" =>
           inDoubt = {} /\ RunningAt(db, node, {}, base, Holding(progress, call))
  BY <1>1 DEF Track, CallTrack
<1>3. progress \in Progressions /\ PInv /\ Len(call.arts) \in Nat
  <2>1. call.arts \in Snapshots
    BY DEF SoundInv, RunInv, RecordInv, CallIsTyped, CallRecord
  <2>2. \A s \in Snapshots : s \in Seq(Artifact)
    BY DEF Snapshots
  <2> QED
    BY <2>1, <2>2 DEF SoundInv, CountsAreTyped, Progressions, SInv, AInv
<1>4. db' = db /\ node' = node /\ inDoubt' = inDoubt /\ seq' = seq
  BY <1>1 DEF pvars
<1>5. ASSUME Calm'
      PROVE  /\ Fresh' /\ inDoubt' = {}
             /\ call.end = "error" => RunningAt(db', node', {}, base, progress)
  <2>1. Stepped
    BY <1>1 DEF Stepped, Quiet, pvars
  <2>2. Fresh /\ CalmCall(base)
    BY <1>1, <1>3, <1>5, <2>1, CalmBefore DEF Calmly
  <2>3. Fresh'
    BY <1>1, <1>4, <2>2 DEF Fresh
  <2>4. call.end = "error" => RunningAt(db', node', {}, base, progress)
    BY <1>1, <1>4, <2>2 DEF CalmCall
  <2> QED
    BY <2>3, <2>4 DEF Fresh
<1> DEFINE held == Holding(progress, call)
<1>6. held \in Progressions
  BY <1>3 DEF Holding, Progressions
<1>7. \/ call.end = "error" /\ Leave("failed", progress)
      \/ call.end = "result" /\ held.arts > ArtifactBudget /\ Leave("failed", progress)
      \/ call.end = "result" /\ GoOn("calls", held)
      \/ call.end = "result" /\ Leave(call.result, held)
  BY <1>2 DEF CallReturns, Holding
<1> HIDE DEF held
<1>8. CASE call.end = "error" /\ Leave("failed", progress)
  <2>1. Calm' => /\ Fresh' /\ Ready(db', node', "running", "running", {})
                 /\ RunningAt(db', node', {}, base, progress)
    BY <1>5, <1>8 DEF RunningAt, Reached
  <2> QED
    BY <1>3, <1>8, <2>1, Leaves DEF Progressions
<1>9. CASE call.end = "result" /\ held.arts > ArtifactBudget /\ Leave("failed", progress)
  <2>1. RunningAt(db', node', {}, base, held)
    BY <1>2, <1>4, <1>9 DEF held
  <2>2. base[3] \in Nat /\ held.arts \in Nat /\ ArtifactBudget \in Nat
    BY <1>6, LimitsAssumption DEF Progressions
  <2>3. ~FitsBudget(db')
    BY <1>9, <2>1, <2>2 DEF FitsBudget, RunningAt, Reached, Counts
  <2>4. Calm' => Fresh' /\ Ready(db', node', "running", "running", {})
    BY <1>5, <2>1 DEF RunningAt, Reached
  <2> QED
    BY <1>3, <1>9, <2>3, <2>4, Leaves DEF Progressions
<1>10. CASE call.end = "result" /\ GoOn("calls", held)
  <2>1. svc' = "agent" /\ agent' # "waiting" /\ progress' = held
    BY <1>1, <1>10 DEF GoOn
  <2> QED
    BY <1>2, <1>4, <1>5, <1>10, <2>1, GoesOn DEF held
<1>11. CASE call.end = "result" /\ Leave(call.result, held)
  <2>1. inDoubt' = {} /\ RunningAt(db', node', {}, base, held)
    BY <1>2, <1>4, <1>11 DEF held
  <2>2. Ready(db', node', "running", "running", {})
    BY <2>1 DEF RunningAt, Reached
  <2> QED
    BY <1>5, <1>6, <1>11, <2>1, <2>2, Leaves DEF Progressions
<1> QED
  BY <1>7, <1>8, <1>9, <1>10, <1>11

\* A cancelled agent promises nothing.
LEMMA CancelledCallKeepsTrack ==
  ASSUME SoundInv, NEW base \in [1 .. 3 -> Nat], CallCancelled \/ CallStopped
  PROVE  Track(base)' /\ Calmly(base)'
<1>1. svc = "agent" /\ agent = "waiting"
  BY DEF CallCancelled, CallStopped, At
<1>2. CASE CallCancelled
  <2>1. svc' = "agent" /\ agent' = "waiting" /\ waiter' # "await" /\ ~Calm'
    BY <1>1, <1>2 DEF CallCancelled, Cancelled, CancelInvocation, Calm, Reasons
  <2> QED
    BY <2>1, Waits
<1>3. CASE CallStopped
  <2>1. waiter \in {"stopping", "reaping", "reaping_again"} /\ waiter' # "await" /\ UNCHANGED stop
    BY <1>3 DEF CallStopped, WaiterStops, Stopped, ReapTimeout, Reaped, CancelInvocation
  <2>2. stop \in Reasons
    BY <2>1 DEF SoundInv, RunInv, ReportInv, StopIsNamed
  <2>3. ~Calm' /\ "succeeded" \notin Reasons
    BY <2>1, <2>2 DEF Calm, Reasons
  <2>4. CASE svc' = "agent" /\ agent' = "waiting"
    BY <2>1, <2>3, <2>4, Waits
  <2>5. ASSUME NEW status, status # "succeeded", Leave(status, progress)
        PROVE  Track(base)' /\ Calmly(base)'
    <3>1. progress \in Progressions
      BY DEF SoundInv, CountsAreTyped, Progressions
    <3> QED
      BY <2>3, <2>5, <3>1, Leaves DEF Progressions
  <2>6. \/ svc' = "agent" /\ agent' = "waiting"
        \/ Leave("failed", progress) \/ Leave(stop, progress)
    BY <1>1, <1>3 DEF CallStopped
  <2> QED
    BY <2>2, <2>3, <2>4, <2>5, <2>6
<1> QED
  BY <1>2, <1>3

\* All steps of the agent.
LEMMA AgentKeepsTrack ==
  ASSUME SoundInv, NEW base \in [1 .. 3 -> Nat], Track(base), Calmly(base),
         Agent \/ CallCancelled
  PROVE  Track(base)' /\ Calmly(base)'
<1>1. stop' = stop \/ stop' \in Reasons
  BY StopStays DEF RunNext
<1> QED
  BY <1>1, ModelStepsKeepTrack, PlainStepsKeepTrack, CallCapabilityKeepsTrack,
     CallReturnsKeepsTrack, CancelledCallKeepsTrack DEF Agent

\* A call whose agent waits for it is not interrupted.
LEMMA AwaitedTask ==
  ASSUME SoundInv, InvocationTask, UNCHANGED svars
  PROVE  /\ svc = "agent" /\ agent = "waiting" /\ svc' = "agent" /\ agent' = "waiting"
         /\ progress' = progress /\ stop' = stop
         /\ call.at \in Places \ {"idle", "returned"} /\ call \in CallRecord
         /\ call.inv \in Invocation /\ waiter' = waiter /\ used' = used
         /\ waiter = "await" => ~cancelling
         /\ PInv /\ SInv /\ node \in Node /\ progress \in Progressions
         /\ Calm' => Calm /\ faults = 0 /\ faults' = 0
<1>1. /\ RecordInv /\ CallIsTyped /\ SInv /\ PInv /\ CallTells
      /\ progress \in Progressions /\ node \in Node
  BY DEF SoundInv, RunInv, ReportInv, RecordInv, SInv, AInv, CountsAreTyped, Progressions
<1>2. ~CallIsOver /\ call.inv \in Invocation
  BY <1>1, TaskKeepsTypes
<1>3. svc = "agent" /\ agent = "waiting"
  BY <1>1, <1>2 DEF RecordInv, At
<1>4. Stepped
  BY <1>1, TaskSteps
<1>5. waiter' = waiter /\ used' = used
  BY DEF InvocationTask, Begin, InnerReturns, InnerRaises, InnerCancelled, InnerOver, Persist,
         Confirm, Compensate
<1>6. Calm' => Calm /\ faults = 0 /\ faults' = 0
  BY <1>1, <1>4, CalmBefore DEF svars
<1> QED
  BY <1>1, <1>2, <1>3, <1>5, <1>6 DEF svars, CallTells, CallIsTyped, CallRecord, CallIsOver, Places

\* begin_invocation.
LEMMA BeginKeepsTrack ==
  ASSUME SoundInv, NEW base \in [1 .. 3 -> Nat], Track(base), Calmly(base),
         Begin, UNCHANGED svars, waiter = "await"
  PROVE  CallTrack(base)' /\ (Calm' => Fresh' /\ CalmCall(base)')
<1> DEFINE i == call.inv
           p == Before(progress)
<1>1. /\ svc = "agent" /\ agent = "waiting" /\ progress' = progress /\ i \in Invocation
      /\ ~cancelling /\ PInv /\ SInv /\ node \in Node /\ progress \in Progressions
      /\ Calm' => Calm /\ faults = 0 /\ faults' = 0
      /\ call \in CallRecord /\ waiter' = waiter /\ used' = used
  BY AwaitedTask DEF InvocationTask
<1>2. call.at = "begin" /\ disk' = disk
  BY DEF Begin
<1>3. /\ call.then # "cancelled" /\ (call.then = "error" => call.arts = <<>>)
      /\ inDoubt = {} /\ RunningAt(db, node, {}, base, p)
  BY <1>1, <1>2 DEF Track, CallTrack
<1>4. /\ p.turns = progress.turns /\ p.arts = progress.arts
      /\ base[2] + p.calls + 1 = base[2] + progress.calls
  BY <1>1 DEF Before, Progressions
<1> HIDE DEF p, i
<1>5. PICK end \in {"ok", "error"} :
        /\ BeginInvocation(i, end)
        /\ end = "ok" => call' = [call EXCEPT !.at = "inner", !.begun = TRUE]
        /\ end = "error" => Return("error", "none")
  BY <1>1 DEF Begin, Undisturbed, Interrupted, i
<1>6. /\ Ready(db, node, "running", "running", {})
      /\ Counts(db, base[1] + p.turns, base[2] + p.calls, base[3] + p.arts)
  BY <1>3 DEF RunningAt, Reached
<1>7. /\ node' = node
      /\ \E tx : /\ Transaction(tx) /\ Write(tx, end)
                 /\ Accepted(tx) =>
                      /\ Ready(After(tx), node, "running", "running", {i})
                      /\ Counts(After(tx), base[1] + p.turns, base[2] + p.calls + 1, base[3] + p.arts)
                      /\ After(tx).artifacts = db.artifacts
                      /\ \A j \in Invocation \ {i} : After(tx).status[j] = db.status[j]
                 /\ seq = LastNumber(db) /\ db.status[i] = Absent => Accepted(tx)
  BY <1>1, <1>5, <1>6, BeginLeads
<1>8. PICK tx : /\ Transaction(tx) /\ Write(tx, end)
                /\ Accepted(tx) => /\ RunningAt(After(tx), node, {i}, base, progress)
                                   /\ After(tx).artifacts = db.artifacts
                                   /\ \A j \in Invocation \ {i} : After(tx).status[j] = db.status[j]
                /\ seq = LastNumber(db) /\ db.status[i] = Absent => Accepted(tx)
  BY <1>4, <1>7 DEF RunningAt, Reached
<1>9. /\ end = "ok" => Accepted(tx) /\ db' = After(tx) /\ inDoubt' = {}
      /\ Calm' /\ Accepted(tx) => end = "ok" /\ seq' = LastNumber(db')
  BY <1>1, <1>3, <1>8, Acknowledged
<1>10. end = "ok" => /\ call'.at = "inner" /\ call'.then = call.then /\ call'.arts = call.arts
                     /\ call'.inv = i
  BY <1>1, <1>5 DEF CallRecord, i
<1>11. end = "error" => /\ call'.at = "returned" /\ call'.end = "error"
                        /\ call'.then = call.then /\ call'.arts = call.arts
  BY <1>1, <1>5 DEF CallRecord, Return
<1>12. CallTrack(base)'
  <2>1. CASE end = "ok"
    BY <1>1, <1>3, <1>7, <1>8, <1>9, <1>10, <2>1 DEF CallTrack
  <2>2. CASE end = "error"
    BY <1>3, <1>11, <2>2 DEF CallTrack
  <2> QED
    BY <1>5, <2>1, <2>2
<1>13. ASSUME Calm'
       PROVE  Fresh' /\ CalmCall(base)'
  <2>1. Fresh /\ CalmCall(base)
    BY <1>1, <1>13 DEF Calmly
  <2>2. Accepted(tx)
    BY <1>2, <1>8, <2>1 DEF Fresh, CalmCall, i
  <2>3. end = "ok" /\ seq' = LastNumber(db') /\ db' = After(tx) /\ inDoubt' = {}
    BY <1>9, <1>13, <2>2
  <2>4. i \in used
    BY <2>1 DEF CalmCall, i
  <2>5. Fresh'
    BY <1>1, <1>2, <1>8, <2>1, <2>2, <2>3, <2>4 DEF Fresh
  <2>6. CalmCall(base)'
    BY <1>1, <1>10, <2>1, <2>3, <2>4 DEF CalmCall
  <2> QED
    BY <2>5, <2>6
<1> QED
  BY <1>12, <1>13

\* The inner call.
LEMMA InnerKeepsTrack ==
  ASSUME SoundInv, NEW base \in [1 .. 3 -> Nat], Track(base), Calmly(base),
         InnerReturns \/ InnerRaises \/ InnerCancelled, UNCHANGED svars, waiter = "await"
  PROVE  CallTrack(base)' /\ (Calm' => Fresh' /\ CalmCall(base)')
<1>1. /\ svc = "agent" /\ agent = "waiting" /\ progress' = progress
      /\ ~cancelling
      /\ Calm' => Calm
      /\ call \in CallRecord /\ waiter' = waiter /\ used' = used
  BY AwaitedTask DEF InvocationTask
<1>2. PICK result, arts, then :
        /\ InnerOver(result, arts, then) /\ then # "cancelled" /\ (then = "error" => arts = <<>>)
        /\ \A a \in Elements(arts) : disk[a] = "none"
        /\ arts \in Snapshots
  <2>1. CASE InnerReturns
    BY <2>1, SnapshotElements DEF InnerReturns
  <2>2. CASE InnerRaises
    BY <2>2, SnapshotElements DEF InnerRaises
  <2> QED
    BY <1>1, <2>1, <2>2 DEF InnerCancelled, Interrupted
<1>3. /\ call'.at = "persist" /\ call'.arts = arts /\ call'.then = then /\ call'.inv = call.inv
      /\ disk' = [a \in Artifact |-> IF a \in Elements(arts) THEN "bytes" ELSE disk[a]]
      /\ UNCHANGED pvars /\ call.at = "inner"
  BY <1>1, <1>2 DEF InnerOver, CallRecord
<1>4. db' = db /\ node' = node /\ inDoubt' = inDoubt /\ seq' = seq
  BY <1>3 DEF pvars
<1>5. inDoubt = {} /\ RunningAt(db, node, {call.inv}, base, progress)
  BY <1>1, <1>3 DEF Track, CallTrack
<1>6. CallTrack(base)'
  BY <1>1, <1>2, <1>3, <1>4, <1>5 DEF CallTrack
<1>7. ASSUME Calm'
      PROVE  Fresh' /\ CalmCall(base)'
  <2>1. Fresh /\ CalmCall(base)
    BY <1>1, <1>7 DEF Calmly
  <2>2. \A a \in Elements(arts) : a \in Artifact /\ disk'[a] = "bytes"
    BY <1>2, <1>3, SnapshotElements
  <2>3. \A b \in db.artifacts : b.id \in Artifact
    BY AwaitedTask DEF PInv, PTypeOK, IsDatabase, ArtifactRow, InvocationTask
  <2>4. Fresh'
    <3>1. \A b \in db.artifacts : disk'[b.id] # "none"
      BY <1>3, <2>1, <2>3 DEF Fresh
    <3> QED
      BY <1>1, <1>4, <2>1, <3>1 DEF Fresh
  <2>5. RowIds(db) \cap Elements(arts) = {}
    BY <1>2, <2>1 DEF Fresh, RowIds
  <2>6. CalmCall(base)'
    BY <1>1, <1>3, <1>4, <2>1, <2>2, <2>5 DEF CalmCall
  <2> QED
    BY <2>4, <2>6
<1> QED
  BY <1>6, <1>7

\* What the terminal transaction of a call leaves.
EndedCall(i, result, list, turns, calls, arts, end) ==
  \/ InvocationNotLoaded(i, end) /\ Quiet /\ end # "ok"
  \/ /\ node' = node
     /\ \E tx : /\ Transaction(tx) /\ Write(tx, end)
                /\ Accepted(tx) =>
                     /\ Ready(After(tx), node, "running", "running", {})
                     /\ After(tx).status[i] = result
                     /\ Counts(After(tx), turns, calls, arts + Len(list))
                     /\ RowIds(After(tx)) = RowIds(db) \cup Elements(list)
                     /\ \A j \in Invocation \ {i} : After(tx).status[j] = db.status[j]
                /\ seq = LastNumber(db) /\ RowIds(db) \cap Elements(list) = {} => Accepted(tx)

\* FinishInvocationLeads in those words.
LEMMA EndedCallIsWritten ==
  ASSUME PInv, NEW end, NEW i \in Invocation, NEW result \in Terminal, NEW skill \in BOOLEAN,
         NEW list \in Snapshots, FinishInvocation(i, result, list, skill, end),
         NEW turns, NEW calls, NEW arts, Counts(db, turns, calls, arts),
         Ready(db, node, "running", "running", {i})
  PROVE  EndedCall(i, result, list, turns, calls, arts, end)
BY FinishInvocationLeads DEF EndedCall

\* The terminal transaction of a call.
LEMMA PersistKeepsTrack ==
  ASSUME SoundInv, NEW base \in [1 .. 3 -> Nat], Track(base), Calmly(base),
         Persist, UNCHANGED svars, waiter = "await"
  PROVE  CallTrack(base)' /\ (Calm' => Fresh' /\ CalmCall(base)')
<1> DEFINE i == call.inv
           p == Holding(progress, call)
<1>1. /\ svc = "agent" /\ agent = "waiting" /\ progress' = progress /\ i \in Invocation
      /\ ~cancelling /\ PInv /\ SInv /\ node \in Node /\ progress \in Progressions
      /\ Calm' => Calm /\ faults = 0 /\ faults' = 0
      /\ call \in CallRecord /\ waiter' = waiter /\ used' = used
  BY AwaitedTask DEF InvocationTask
<1>2. call.at = "persist" /\ disk' = disk
  BY DEF Persist
<1>3. /\ call.then # "cancelled" /\ (call.then = "error" => call.arts = <<>>)
      /\ inDoubt = {} /\ RunningAt(db, node, {i}, base, progress)
  BY <1>1, <1>2 DEF Track, CallTrack
<1>4. call.result \in Terminal /\ call.arts \in Snapshots /\ call.then \in {"result", "error"}
  BY <1>1, <1>2, <1>3, ConstantsAssumption DEF SoundInv, RunInv, RecordInv, CallIsTyped, CallRecord
<1>5. /\ p.turns = progress.turns /\ p.calls = progress.calls
      /\ base[3] + progress.arts + Len(call.arts) = base[3] + p.arts
      /\ call.arts = <<>> => p.arts = progress.arts
  <2>1. \A s \in Snapshots : s \in Seq(Artifact)
    BY DEF Snapshots
  <2> QED
    BY <1>1, <1>4, <2>1 DEF Holding, Progressions
<1> HIDE DEF p
<1>6. PICK end \in {"ok", "error"} :
        /\ FinishInvocation(i, call.result, call.arts, FALSE, end)
        /\ end = "ok" => Return(call.then, "none")
        /\ end = "error" => Goto("confirm")
  BY <1>1 DEF Persist, Undisturbed, Interrupted
<1>7. CallIsTyped
  BY DEF SoundInv, RunInv, RecordInv
<1>8. /\ call'.arts = call.arts /\ call'.inv = i
      /\ end = "ok" => /\ call'.at = "returned" /\ call'.end = call.then
                       /\ call'.then = call.then
      /\ end = "error" => call'.at = "confirm" /\ call'.then = call.then
  <2>1. CASE end = "ok"
    <3>1. call' = [call EXCEPT !.at = "returned", !.end = call.then, !.note = "none"]
      BY <1>6, <2>1 DEF Return
    <3> QED
      BY <1>1, <2>1, <3>1 DEF CallRecord
  <2>2. CASE end = "error"
    <3>1. call' = [call EXCEPT !.at = "confirm"]
      BY <1>6, <2>2 DEF Goto
    <3> QED
      BY <1>1, <2>2, <3>1 DEF CallRecord
  <2> QED
    BY <1>6, <2>1, <2>2
<1>9. Holding(progress', call') = p
  BY <1>1, <1>8 DEF Holding, p
<1>10. /\ Ready(db, node, "running", "running", {i})
       /\ Counts(db, base[1] + progress.turns, base[2] + progress.calls, base[3] + progress.arts)
  BY <1>3 DEF RunningAt, Reached
<1> HIDE DEF i
<1>11. \/ InvocationNotLoaded(i, end) /\ Quiet /\ end # "ok"
       \/ /\ node' = node
          /\ \E tx : /\ Transaction(tx) /\ Write(tx, end)
                     /\ Accepted(tx) =>
                          /\ Ready(After(tx), node, "running", "running", {})
                          /\ After(tx).status[i] = call.result
                          /\ Counts(After(tx), base[1] + progress.turns, base[2] + progress.calls,
                                    base[3] + progress.arts + Len(call.arts))
                          /\ RowIds(After(tx)) = RowIds(db) \cup Elements(call.arts)
                          /\ \A j \in Invocation \ {i} : After(tx).status[j] = db.status[j]
                     /\ seq = LastNumber(db) /\ RowIds(db) \cap Elements(call.arts) = {} => Accepted(tx)
  <2>1. PICK skill \in BOOLEAN : FinishInvocation(i, call.result, call.arts, skill, end)
    BY <1>6
  <2>2. /\ PInv /\ i \in Invocation /\ call.result \in Terminal /\ call.arts \in Snapshots
        /\ FinishInvocation(i, call.result, call.arts, skill, end)
        /\ Ready(db, node, "running", "running", {i})
        /\ Counts(db, base[1] + progress.turns, base[2] + progress.calls, base[3] + progress.arts)
    BY <1>1, <1>4, <1>10, <2>1
  <2>3. EndedCall(i, call.result, call.arts, base[1] + progress.turns,
                  base[2] + progress.calls, base[3] + progress.arts, end)
    BY <2>2, EndedCallIsWritten
  <2> QED
    BY <2>3 DEF EndedCall
<1>12. CASE InvocationNotLoaded(i, end) /\ Quiet /\ end # "ok"
  <2>1. db' = db /\ node' = node /\ inDoubt' = inDoubt /\ end = "error"
    BY <1>6, <1>12 DEF Quiet
  <2>2. CallTrack(base)'
    <3>1. call'.at = "confirm" /\ call'.then = call.then /\ call'.arts = call.arts /\ call'.inv = i
      BY <1>8, <2>1
    <3>2. inDoubt' = {} /\ RunningAt(db', node', {i}, base, progress')
      BY <1>1, <1>3, <2>1
    <3> QED
      BY <1>3, <3>1, <3>2 DEF CallTrack
  <2>3. ~Calm'
    <3>1. db.status[i] # Absent
      BY <1>1, <1>10, Moves DEF Ready
    <3>2. ASSUME Calm'
          PROVE  FALSE
      BY <1>1, <1>12, <2>1, <3>1, <3>2 DEF InvocationNotLoaded
    <3> QED
      BY <3>2
  <2> QED
    BY <2>2, <2>3
<1>13. ASSUME NEW tx, Transaction(tx), Write(tx, end), node' = node,
              Accepted(tx) => /\ RunningAt(After(tx), node, {}, base, p)
                              /\ RowIds(After(tx)) = RowIds(db) \cup Elements(call.arts)
                              /\ \A j \in Invocation \ {i} : After(tx).status[j] = db.status[j],
              seq = LastNumber(db) /\ RowIds(db) \cap Elements(call.arts) = {} => Accepted(tx)
       PROVE  CallTrack(base)' /\ (Calm' => Fresh' /\ CalmCall(base)')
  <2>1. /\ end = "ok" => Accepted(tx) /\ db' = After(tx) /\ inDoubt' = {}
        /\ Calm' /\ Accepted(tx) => end = "ok" /\ seq' = LastNumber(db')
    BY <1>1, <1>3, <1>6, <1>13, Acknowledged
  <2>2. end = "error" => /\ inDoubt' # {} => db' = db
                         /\ \A d \in {db'} \cup inDoubt' : d = db \/ (Accepted(tx) /\ d = After(tx))
    BY <1>3, <1>13
    DEF Write, WriteDecided, WriteBlocked, RolledBack, CommittedAnyway, Undecided
  <2>3. CallTrack(base)'
    <3>1. CASE end = "ok"
      BY <1>1, <1>3, <1>4, <1>8, <1>9, <1>13, <2>1, <3>1 DEF CallTrack
    <3>2. CASE end = "error"
      <4>1. call'.at = "confirm" /\ call'.then = call.then /\ call'.arts = call.arts /\ call'.inv = i
        BY <1>8, <3>2
      <4>2. inDoubt' # {} => RunningAt(db', node', {i}, base, progress')
        BY <1>1, <1>3, <1>13, <2>2, <3>2
      <4>3. \A d \in {db'} \cup inDoubt' : \/ RunningAt(d, node', {i}, base, progress')
                                           \/ RunningAt(d, node', {}, base, p)
        BY <1>1, <1>3, <1>13, <2>2, <3>2
      <4> QED
        BY <1>3, <1>9, <4>1, <4>2, <4>3 DEF CallTrack
    <3> QED
      BY <1>6, <3>1, <3>2
  <2>4. ASSUME Calm'
        PROVE  Fresh' /\ CalmCall(base)'
    <3>1. Fresh /\ CalmCall(base)
      BY <1>1, <2>4 DEF Calmly
    <3>2. /\ RowIds(db) \cap Elements(call.arts) = {} /\ i \in used
          /\ \A a \in Elements(call.arts) : disk[a] # "none"
      BY <1>2, <3>1 DEF CalmCall, i
    <3>3. Accepted(tx)
      BY <1>13, <3>1, <3>2 DEF Fresh
    <3>4. end = "ok" /\ seq' = LastNumber(db') /\ db' = After(tx) /\ inDoubt' = {}
      BY <2>1, <2>4, <3>3
    <3>5. \A b \in db'.artifacts : b.id \in RowIds(db) \cup Elements(call.arts)
      BY <1>13, <3>3, <3>4 DEF RowIds
    <3>6. \A b \in db'.artifacts : disk[b.id] # "none"
      BY <3>1, <3>2, <3>5 DEF Fresh, RowIds
    <3>7. Fresh'
      BY <1>1, <1>2, <1>13, <3>1, <3>2, <3>3, <3>4, <3>6 DEF Fresh
    <3>8. RunningAt(db', node', {}, base, p)
      BY <1>13, <3>3, <3>4
    <3>9. call.then = "error" => RunningAt(db', node', {}, base, progress')
      BY <1>1, <1>3, <1>5, <3>8, SameCounts
    <3>10. CalmCall(base)'
      BY <1>1, <1>8, <3>1, <3>2, <3>4, <3>9 DEF CalmCall
    <3> QED
      BY <3>7, <3>10
  <2> QED
    BY <2>3, <2>4
<1>14. CASE /\ node' = node
            /\ \E tx : /\ Transaction(tx) /\ Write(tx, end)
                       /\ Accepted(tx) =>
                            /\ RunningAt(After(tx), node, {}, base, p)
                            /\ RowIds(After(tx)) = RowIds(db) \cup Elements(call.arts)
                            /\ \A j \in Invocation \ {i} : After(tx).status[j] = db.status[j]
                       /\ seq = LastNumber(db) /\ RowIds(db) \cap Elements(call.arts) = {} => Accepted(tx)
  BY <1>13, <1>14
<1> QED
  BY <1>5, <1>11, <1>12, <1>14 DEF RunningAt, Reached

\* Reading what has become of it, and compensation.
LEMMA ConfirmKeepsTrack ==
  ASSUME SoundInv, NEW base \in [1 .. 3 -> Nat], Track(base), Calmly(base),
         Confirm \/ Compensate, UNCHANGED svars, waiter = "await"
  PROVE  CallTrack(base)' /\ (Calm' => Fresh' /\ CalmCall(base)')
<1>1. /\ svc = "agent" /\ agent = "waiting" /\ progress' = progress /\ call.inv \in Invocation
      /\ ~cancelling /\ PInv
      /\ Calm' => Calm
      /\ call \in CallRecord
  BY AwaitedTask DEF InvocationTask
<1>2. ~Calm'
  BY <1>1 DEF Calmly, CalmCall, Confirm, Compensate
<1>3. CallTrack(base) /\ CallIsTyped
  BY <1>1 DEF Track, SoundInv, RunInv, RecordInv
<1>4. call.then \in {"result", "error"} /\ (call.then = "error" => call.arts = <<>>)
  BY <1>1, <1>3 DEF CallTrack, CallRecord
<1>5. ASSUME NEW note, Return("error", note)
      PROVE  CallTrack(base)'
  <2>1. /\ call'.at = "returned" /\ call'.end = "error"
        /\ call'.then = call.then /\ call'.arts = call.arts
    BY <1>1, <1>5 DEF Return, CallRecord
  <2> QED
    BY <1>4, <2>1 DEF CallTrack
<1>6. ASSUME Goto("compensate")
      PROVE  CallTrack(base)'
  <2>1. call'.at = "compensate" /\ call'.then = call.then /\ call'.arts = call.arts
    BY <1>1, <1>6 DEF Goto, CallRecord
  <2> QED
    BY <1>4, <2>1 DEF CallTrack
<1>7. ASSUME call.at = "confirm", Load("ok"), "committed" \in Verdicts, Return(call.then, "none")
      PROVE  CallTrack(base)'
  <2>1. db' = db /\ node' = node /\ inDoubt' = inDoubt
    BY <1>7 DEF Load
  <2>2. db.status[call.inv] = call.result /\ call.result \in Terminal
    BY <1>3, <1>7, ConstantsAssumption DEF Verdicts, InvocationResultState, CallIsTyped
  <2>3. ~RunningAt(db, node, {call.inv}, base, progress)
    BY <1>1, <2>2 DEF RunningAt, Reached, Ready, Terminal
  <2>4. inDoubt = {} /\ RunningAt(db, node, {}, base, Holding(progress, call))
    BY <1>3, <1>7, <2>3 DEF CallTrack
  <2>5. /\ call'.at = "returned" /\ call'.end = call.then
        /\ call'.then = call.then /\ call'.arts = call.arts
    BY <1>1, <1>7 DEF Return, CallRecord
  <2>6. Holding(progress', call') = Holding(progress, call)
    BY <1>1, <2>5 DEF Holding
  <2> QED
    BY <1>4, <2>1, <2>4, <2>5, <2>6 DEF CallTrack
<1>8. CASE Confirm
  BY <1>1, <1>5, <1>6, <1>7, <1>8, <1>2 DEF Confirm, Undisturbed, Interrupted
<1>9. CASE Compensate
  BY <1>1, <1>2, <1>5, <1>9 DEF Compensate, Undisturbed, Interrupted
<1> QED
  BY <1>8, <1>9

\* All steps of the call.
LEMMA TaskKeepsTrack ==
  ASSUME SoundInv, NEW base \in [1 .. 3 -> Nat], Track(base), Calmly(base),
         InvocationTask, UNCHANGED svars
  PROVE  Track(base)' /\ Calmly(base)'
<1>1. /\ svc' = "agent" /\ agent' = "waiting" /\ svc = "agent" /\ agent = "waiting"
      /\ waiter' = waiter
      /\ Calm' => Calm
  BY AwaitedTask
<1>2. CASE waiter = "await"
  <2>1. CallTrack(base)' /\ (Calm' => Fresh' /\ CalmCall(base)')
    BY <1>2, BeginKeepsTrack, InnerKeepsTrack, PersistKeepsTrack, ConfirmKeepsTrack
    DEF InvocationTask
  <2> QED
    BY <1>1, <2>1, Waits
<1>3. CASE waiter # "await"
  <2>1. ~Calm'
    BY <1>1, <1>3 DEF Calmly, CalmCall
  <2> QED
    BY <1>1, <1>3, <2>1, Waits
<1> QED
  BY <1>2, <1>3

\* Where nothing is promised of the rows.
LEMMA Closes ==
  ASSUME NEW base, svc' \notin OpenPlaces, Calm' => svc' \notin RecoveryPlaces \cup {"match"}
  PROVE  Track(base)' /\ Calmly(base)'
BY DEF Track, Calmly, OpenPlaces

\* A commit that is decided late.
LEMMA SettleKeepsTrack ==
  ASSUME NEW base, Track(base), Calmly(base), Settle, UNCHANGED <<cvars, svars>>
  PROVE  Track(base)' /\ Calmly(base)'
<1>1. inDoubt # {} /\ inDoubt' = {} /\ db' \in {db} \cup inDoubt /\ UNCHANGED <<node, faults>>
  BY DEF Settle
<1>2. /\ UNCHANGED <<call, waiter, used, disk>>
      /\ UNCHANGED <<svc, agent, progress, stop, outcome>>
  BY DEF cvars, svars
<1>3. CallTrack(base) => CallTrack(base)'
  <2>1. ASSUME CallTrack(base), call.at = "confirm"
        PROVE  \/ RunningAt(db', node', {call'.inv}, base, progress')
               \/ RunningAt(db', node', {}, base, Holding(progress', call'))
    BY <1>1, <1>2, <2>1 DEF CallTrack
  <2> QED
    BY <1>1, <1>2, <2>1 DEF CallTrack
<1>4. Track(base)'
  BY <1>1, <1>2, <1>3 DEF Track
<1>5. ASSUME Calm'
      PROVE  Calm /\ ~Fresh
  BY <1>1, <1>2, <1>5 DEF Calm, Fresh
<1>6. Calmly(base)'
  BY <1>2, <1>5 DEF Calmly
<1> QED
  BY <1>4, <1>6

\* Where a write of the service leads when nothing has failed.
LEMMA ServiceWrites ==
  ASSUME SoundInv, NEW end \in Ends, NEW tx, Transaction(tx), Write(tx, end), node' = node,
         UNCHANGED <<cvars, stop>>, Fresh, Accepted(tx), Calm', end # "cancelled"
  PROVE  end = "ok" /\ (SameCalls(After(tx), db) => Fresh')
<1>1. SInv /\ PInv /\ node \in Node
  BY DEF SoundInv, SInv, AInv, PInv, PTypeOK
<1>2. Stepped
  BY <1>1 DEF Stepped
<1>3. faults = 0 /\ faults' = 0 /\ inDoubt = {}
  BY <1>1, <1>2, CalmBefore DEF Fresh
<1>4. end = "ok" /\ seq' = LastNumber(db')
  BY <1>1, <1>3, Acknowledged
<1>5. db' = After(tx) /\ inDoubt' = {}
  BY <1>1, <1>4, Acknowledged
<1> QED
  BY <1>4, <1>5, FreshStays DEF cvars

\* The setup.
LEMMA SetupKeepsTrack ==
  ASSUME SoundInv, NEW base \in [1 .. 3 -> Nat], Track(base), Calmly(base), Setup
  PROVE  Track(base)' /\ Calmly(base)'
<1>1. SInv /\ PInv /\ node \in Node /\ UNCHANGED <<cvars, stop, agent, progress>>
  BY DEF SoundInv, SInv, AInv, PInv, PTypeOK, Setup, Service
<1>2. PICK end \in Ends :
        \/ svc = "initialize" /\ Initialize(end) /\ Goes(end, "start", "recover")
        \/ svc = "start" /\ Start(end) /\ Goes(end, "agent", "recover")
  BY DEF Setup, Service
<1>3. inDoubt = {} /\ agent # "waiting"
  BY <1>2 DEF Track
<1>4. ASSUME NEW tx, Transaction(tx), Write(tx, end), node' = node,
             seq = LastNumber(db) => Accepted(tx),
             Accepted(tx) => SameCalls(After(tx), db)
      PROVE  /\ end = "ok" => inDoubt' = {} /\ db' = After(tx) /\ Accepted(tx)
             /\ Calm' => end # "error" /\ (end = "ok" => Fresh')
  <2>1. end = "ok" => inDoubt' = {} /\ db' = After(tx) /\ Accepted(tx)
    BY <1>1, <1>4, Acknowledged
  <2>2. ASSUME Calm'
        PROVE  end # "error" /\ (end = "ok" => Fresh')
    <3>1. Stepped
      BY <1>1, <1>4 DEF Stepped
    <3>2. Fresh
      BY <1>1, <1>2, <2>2, <3>1, CalmBefore DEF Calmly
    <3>3. Accepted(tx)
      BY <1>4, <3>2 DEF Fresh
    <3> QED
      BY <1>1, <1>4, <2>2, <3>2, <3>3, ServiceWrites
  <2> QED
    BY <2>1, <2>2
<1>5. CASE svc = "initialize" /\ Initialize(end) /\ Goes(end, "start", "recover")
  <2>1. /\ Ready(db, node, Absent, Absent, {})
        /\ Counts(db, base[1] + progress.turns, base[2] + progress.calls, base[3] + progress.arts)
    BY <1>5 DEF Track, Reached
  <2>2. node' = node
    BY <1>5 DEF Initialize
  <2>3. PICK tx : /\ Transaction(tx) /\ Write(tx, end)
                  /\ Accepted(tx) => /\ Reached(After(tx), node, "created", "created", {}, base, progress)
                                     /\ SameCalls(After(tx), db)
                  /\ seq = LastNumber(db) => Accepted(tx)
    BY <1>1, <1>5, <2>1, InitializeLeads DEF Reached
  <2>4. /\ end = "ok" => /\ inDoubt' = {}
                         /\ Reached(db', node', "created", "created", {}, base, progress')
        /\ Calm' => end # "error" /\ (end = "ok" => Fresh')
    BY <1>1, <1>4, <2>2, <2>3
  <2>5. CASE end = "ok"
    <3>1. svc' = "start" /\ agent' # "waiting"
      BY <1>1, <1>3, <1>5, <2>5, GoesSomewhere
    <3> QED
      BY <2>4, <2>5, <3>1 DEF Track, Calmly, RecoveryPlaces
  <2>6. CASE end # "ok"
    <3>1. svc' \in {"dead", "interrupt"} \/ (svc' = "recover" /\ end = "error")
      BY <1>5, <2>6, GoesSomewhere
    <3> QED
      BY <2>4, <3>1, Closes DEF OpenPlaces, RecoveryPlaces
  <2> QED
    BY <2>5, <2>6
<1>6. CASE svc = "start" /\ Start(end) /\ Goes(end, "agent", "recover")
  <2>1. /\ Ready(db, node, "created", "created", {})
        /\ Counts(db, base[1] + progress.turns, base[2] + progress.calls, base[3] + progress.arts)
    BY <1>6 DEF Track, Reached
  <2>2. node' = node
    BY <1>6 DEF Start
  <2>3. PICK tx : /\ Transaction(tx) /\ Write(tx, end)
                  /\ Accepted(tx) => /\ RunningAt(After(tx), node, {}, base, progress)
                                     /\ SameCalls(After(tx), db)
                  /\ seq = LastNumber(db) => Accepted(tx)
    BY <1>1, <1>6, <2>1, StartLeads DEF RunningAt, Reached
  <2>4. /\ end = "ok" => inDoubt' = {} /\ RunningAt(db', node', {}, base, progress')
        /\ Calm' => end # "error" /\ (end = "ok" => Fresh')
    BY <1>1, <1>4, <2>2, <2>3
  <2>5. CASE end = "ok"
    <3>1. svc' = "agent" /\ agent' # "waiting"
      BY <1>1, <1>3, <1>6, <2>5, GoesSomewhere
    <3> QED
      BY <2>4, <2>5, <3>1, GoesOn
  <2>6. CASE end # "ok"
    <3>1. svc' \in {"dead", "interrupt"} \/ (svc' = "recover" /\ end = "error")
      BY <1>6, <2>6, GoesSomewhere
    <3> QED
      BY <2>4, <3>1, Closes DEF OpenPlaces, RecoveryPlaces
  <2> QED
    BY <2>5, <2>6
<1> QED
  BY <1>2, <1>5, <1>6

-----------------------------------------------------------------------------
\* The trace that an accepted final transaction leaves.
LEMMA EndedTrace ==
  ASSUME SInv, NEW tx, Transaction(tx), Accepted(tx), NEW status, NEW k, NEW c,
         Ended(After(tx), status, k, c), NEW turns, Counts(After(tx), turns, c[2], c[3])
  PROVE  InspectConsistency(After(tx)) =
           IF c[1] = turns THEN {} ELSE {"model_turn_count_mismatch"}
<1>1. PInv /\ ToldOnce(db) /\ Sound(db) /\ Typed(tx)
  BY DEF SInv, AInv, Transaction
<1>2. /\ IsDatabase(After(tx)) /\ Contiguous(After(tx))
      /\ ToldOnce(After(tx)) /\ Sound(After(tx))
  BY <1>1, AcceptedContinues, AcceptedKeepsToldOnce, AcceptedKeepsSound
<1>3. /\ c[2] = Cardinality(CalledIn(After(tx))) /\ c[3] = Cardinality(After(tx).artifacts)
      /\ turns = Cardinality(Of(After(tx), {"model.requested"}))
  BY DEF Counts, Asked
<1>4. InspectConsistency(After(tx)) =
        IF c[1] = Cardinality(Of(After(tx), {"model.requested"}))
          THEN {} ELSE {"model_turn_count_mismatch"}
  BY <1>2, <1>3, EndedIsConsistent
<1> QED
  BY <1>3, <1>4

\* A write keeps the promise of success when its transaction does.
LEMMA WriteKeepsSuccess ==
  ASSUME SuccessInv, NEW tx, NEW end, Write(tx, end),
         Accepted(tx) /\ After(tx).status[Run] = "succeeded" => InspectConsistency(After(tx)) = {}
  PROVE  SuccessInv'
<1>1. \A d \in {db'} \cup inDoubt' :
        d \in {db} \cup inDoubt \/ (Accepted(tx) /\ d = After(tx))
  BY DEF Write, WriteDecided, WriteBlocked, RolledBack, CommittedAnyway, Undecided
<1> QED
  BY <1>1 DEF SuccessInv

\* The transactions that move the Run elsewhere.
LEMMA OtherEndsKeepSuccess ==
  ASSUME SuccessInv, NEW end,
         \/ Initialize(end) \/ Start(end)
         \/ \E status, counts :
              status # "succeeded" /\ (Finish(status, counts, end) \/ FinishRun(status, counts, end))
  PROVE  SuccessInv'
<1>1. ASSUME NEW S, NEW s, Run \in S
      PROVE  Run \in DOMAIN Each(S, s) /\ Each(S, s)[Run] = s
  BY <1>1 DEF Each
<1>2. PICK tx, S, s : /\ Write(tx, end) /\ tx.set = Each(S, s) /\ Run \in S /\ s # "succeeded"
  <2>1. ASSUME Initialize(end)
        PROVE  \E tx : tx.set = Each({Task, Run, node}, "created") /\ Write(tx, end)
    BY <2>1 DEF Initialize, NoRows
  <2>2. ASSUME Start(end)
        PROVE  \E tx : tx.set = Each({Task, Run, node}, "running") /\ Write(tx, end)
    BY <2>2 DEF Start, NoRows
  <2>3. ASSUME NEW status, NEW counts, Finish(status, counts, end)
        PROVE  \E tx : tx.set = Each({node, Run, Task}, status) /\ Write(tx, end)
    BY <2>3 DEF Finish, NoRows
  <2>4. ASSUME NEW status, NEW counts, FinishRun(status, counts, end)
        PROVE  \E tx : tx.set = Each({Run, Task}, status) /\ Write(tx, end)
    BY <2>4 DEF FinishRun, NoRows
  <2>5. Run \in {Task, Run, node} /\ Run \in {node, Run, Task} /\ Run \in {Run, Task}
    OBVIOUS
  <2>6. CASE Initialize(end) \/ Start(end)
    BY <2>1, <2>2, <2>5, <2>6
  <2>7. CASE \E status, counts :
               status # "succeeded" /\ (Finish(status, counts, end) \/ FinishRun(status, counts, end))
    BY <2>3, <2>4, <2>5, <2>7
  <2> QED
    BY <2>6, <2>7
<1>3. After(tx).status[Run] # "succeeded"
  BY <1>1, <1>2, RunIsARecord DEF After
<1> QED
  BY <1>2, <1>3, WriteKeepsSuccess

\* A service that only reads.
LEMMA LoadKeepsSuccess ==
  ASSUME SuccessInv, NEW end, Load(end)
  PROVE  SuccessInv'
BY DEF Load, SuccessInv

\* A Run that is open has not succeeded.
LEMMA OpenKeepsSuccess ==
  ASSUME RunIsOpen'
  PROVE  SuccessInv'
BY DEF RunIsOpen, SuccessInv, Terminal

\* The final transaction.
LEMMA FinalizeKeepsTrack ==
  ASSUME SoundInv, SuccessInv, NEW base \in [1 .. 3 -> Nat], Track(base), Calmly(base), Finalize,
         base = <<0, 0, 0>>
  PROVE  Track(base)' /\ Calmly(base)' /\ SuccessInv' /\ QuietEnd'
<1>1. /\ SInv /\ PInv /\ node \in Node /\ UNCHANGED <<cvars, stop, outcome>> /\ svc = "finish"
      /\ outcome.status \in Terminal /\ outcome.counts \in [1 .. 3 -> Nat]
  BY DEF SoundInv, SInv, AInv, PInv, PTypeOK, Finalize, Service, CountsAreTyped, RunInv, ReportInv,
         ClosingPlaces
<1>2. PICK end \in Ends : /\ Finish(outcome.status, outcome.counts, end)
                          /\ IF end = "ok" THEN Returns(TRUE) ELSE Goes(end, "done", "match")
  BY DEF Finalize
<1> DEFINE status == outcome.status
           c == outcome.counts
<1>3. /\ c \in Seq(Nat) /\ c[1] \in Nat /\ c[2] \in Nat /\ c[3] \in Nat
      /\ Sum(base, c)[1] = c[1] /\ Sum(base, c)[2] = c[2] /\ Sum(base, c)[3] = c[3]
  BY <1>1, Triple DEF Sum
<1>4. status \in Terminal /\ Finish(status, c, end)
  BY <1>1, <1>2
<1> HIDE DEF status, c
<1>5. ASSUME NEW turns, Ready(db, node, "running", "running", {}), Counts(db, turns, c[2], c[3])
      PROVE  \E tx : /\ Transaction(tx) /\ Write(tx, end) /\ node' = node
                     /\ Accepted(tx) =>
                          InspectConsistency(After(tx)) =
                            IF c[1] = turns THEN {} ELSE {"model_turn_count_mismatch"}
                     /\ seq = LastNumber(db) => Accepted(tx)
  <2>1. /\ node' = node
        /\ \E tx : /\ Transaction(tx) /\ Write(tx, end)
                   /\ Accepted(tx) => /\ \E k : Ended(After(tx), status, k, c)
                                      /\ Counts(After(tx), turns, c[2], c[3])
                   /\ seq = LastNumber(db) => Accepted(tx)
    BY <1>1, <1>3, <1>4, <1>5, FinishLeads
  <2> QED
    BY <1>1, <2>1, EndedTrace
<1>6. SuccessInv'
  <2>1. CASE status = "succeeded"
    <3>1. Ready(db, node, "running", "running", {}) /\ Counts(db, c[1], c[2], c[3])
      BY <1>1, <1>3, <2>1 DEF Track, CountsAre, status, c
    <3>2. PICK tx : /\ Write(tx, end)
                    /\ Accepted(tx) => InspectConsistency(After(tx)) = {}
      BY <1>5, <3>1
    <3> QED
      BY <3>2, WriteKeepsSuccess
  <2>2. CASE status # "succeeded"
    BY <1>4, <2>2, OtherEndsKeepSuccess
  <2> QED
    BY <2>1, <2>2
<1>7. ASSUME Calm'
      PROVE  /\ end # "error"
             /\ end = "ok" => (FitsBudget(db') => InspectConsistency(db') \subseteq Excused)
  <2>1. \E e : Finish(status, c, e) /\ Stepped
    BY <1>1, <1>3, <1>4, FinishWrites DEF Stepped
  <2>2. Calm /\ Fresh /\ Ready(db, node, "running", "running", {})
    BY <1>1, <1>7, <2>1, CalmBefore DEF Calmly
  <2>3. FitsBudget(db) => \/ Counts(db, c[1], c[2], c[3])
                          \/ ~RequestsFit /\ Counts(db, c[1] - 1, c[2], c[3])
    BY <1>1, <1>3, <2>2 DEF Calmly, Tally, CountsAre, c
  <2>4. PICK tx : /\ Transaction(tx) /\ Write(tx, end) /\ tx.needs = {}
                  /\ Shape(tx, {}, {node, Run, Task}, status, {}) /\ node' = node
    BY <1>1, <1>3, <1>4, FinishWrites
  <2>5. Accepted(tx)
    <3>1. \A r \in {node, Run, Task} : db.status[r] # Absent /\ EnsureTransition(db.status[r], status)
      BY <1>4, <2>2, Moves DEF Ready
    <3>2. Typed(tx) /\ seq = LastNumber(db)
      BY <2>2, <2>4 DEF Transaction, Fresh
    <3> QED
      BY <1>1, <2>4, <3>1, <3>2, IsAccepted
  <2>6. end # "cancelled" => end = "ok"
    BY <1>1, <1>7, <2>2, <2>4, <2>5, ServiceWrites
  <2>7. ASSUME end = "ok", FitsBudget(db')
        PROVE  InspectConsistency(db') \subseteq Excused
    <3>1. FitsBudget(db)
      <4>1. db' = After(tx) /\ After(tx).artifacts = db.artifacts
        BY <1>1, <2>4, <2>7, Acknowledged DEF Shape, After
      <4> QED
        BY <2>7, <4>1 DEF FitsBudget
    <3>2. ASSUME NEW turns, Counts(db, turns, c[2], c[3])
          PROVE  InspectConsistency(db') =
                   IF c[1] = turns THEN {} ELSE {"model_turn_count_mismatch"}
      <4>1. PICK t : /\ Transaction(t) /\ Write(t, end)
                     /\ Accepted(t) => InspectConsistency(After(t)) =
                                         IF c[1] = turns THEN {} ELSE {"model_turn_count_mismatch"}
        BY <1>5, <2>2, <3>2
      <4>2. Accepted(t) /\ db' = After(t)
        BY <1>1, <2>7, <4>1, Acknowledged
      <4> QED
        BY <4>1, <4>2
    <3>3. CASE Counts(db, c[1], c[2], c[3])
      BY <3>2, <3>3
    <3>4. CASE ~RequestsFit /\ Counts(db, c[1] - 1, c[2], c[3])
      BY <3>2, <3>4 DEF Excused
    <3> QED
      BY <2>3, <3>1, <3>3, <3>4
  <2> QED
    BY <2>6, <2>7 DEF Ends
<1>8. svc' \in {"done", "match", "dead", "interrupt"}
      /\ (svc' = "match" => end = "error") /\ (svc' = "done" => end = "ok" /\ persisted')
  BY <1>2, GoesSomewhere DEF Returns, Ends
<1>9. Track(base)' /\ Calmly(base)'
  BY <1>7, <1>8, Closes DEF OpenPlaces, RecoveryPlaces
<1>10. QuietEnd'
  BY <1>7, <1>8 DEF QuietEnd
<1> QED
  BY <1>6, <1>9, <1>10

\* Reading the outcome back, and recovery: something has failed before.
LEMMA RecoveryKeepsTrack ==
  ASSUME SoundInv, SuccessInv, NEW base, Calmly(base), Stepped,
         \/ MatchTerminal \/ RecoverLoad \/ RecoverMatch
         \/ Recovering("recover_start", "recover_finish")
         \/ Recovering("recover_finish", "recover_match")
  PROVE  Track(base)' /\ Calmly(base)' /\ SuccessInv' /\ ~Calm'
<1>1. /\ svc \in RecoveryPlaces \cup {"match"} /\ UNCHANGED stop /\ PInv
      /\ svc \in RecoveryPlaces => outcome.status = "failed"
  BY DEF MatchTerminal, RecoverLoad, RecoverMatch, Recovering, Service, RecoveryPlaces, SoundInv,
         SInv, AInv, RunInv, ReportInv
<1>2. ~Calm'
  BY <1>1, CalmBefore DEF Calmly
<1>3. svc' \notin OpenPlaces
  <2>1. CASE MatchTerminal
    BY <2>1, GoesSomewhere DEF MatchTerminal, Returns, OpenPlaces, Ends
  <2>2. CASE RecoverLoad \/ RecoverMatch
    BY <2>2, GoesSomewhere DEF RecoverLoad, RecoverMatch, Returns, Recovery, OpenPlaces, Ends
  <2>3. CASE \/ Recovering("recover_start", "recover_finish")
             \/ Recovering("recover_finish", "recover_match")
    BY <2>3, GoesSomewhere DEF Recovering, Returns, OpenPlaces, Ends
  <2> QED
    BY <2>1, <2>2, <2>3
<1>4. SuccessInv'
  <2>1. CASE MatchTerminal \/ RecoverLoad \/ RecoverMatch
    BY <2>1, LoadKeepsSuccess DEF MatchTerminal, RecoverLoad, RecoverMatch
  <2>2. CASE \/ Recovering("recover_start", "recover_finish")
             \/ Recovering("recover_finish", "recover_match")
    <3>1. outcome.status = "failed"
      BY <1>1, <2>2 DEF Recovering, Service, RecoveryPlaces
    <3>2. PICK end : Start(end) \/ Finish(outcome.status, outcome.counts, end)
      BY <2>2 DEF Recovering
    <3> QED
      BY <3>1, <3>2, OtherEndsKeepSuccess
  <2> QED
    BY <2>1, <2>2
<1> QED
  BY <1>2, <1>3, <1>4, Closes

Zero == <<0, 0, 0>>

TraceInv == SoundInv /\ SuccessInv /\ QuietEnd /\ Track(Zero) /\ Calmly(Zero)

\* The invariant is inductive.
LEMMA RunNextKeepsTraceInv ==
  ASSUME TraceInv, [RunNext]_runvars
  PROVE  TraceInv'
<1>1. SoundInv' /\ Stepped /\ Zero \in [1 .. 3 -> Nat] /\ RecordInv
  BY RunNextKeepsSoundInv, Triple DEF TraceInv, Zero, SoundInv, RunInv
<1>2. SoundInv /\ SuccessInv /\ QuietEnd /\ Track(Zero) /\ Calmly(Zero)
  BY DEF TraceInv
<1>3. svc' \in OpenPlaces => SuccessInv' /\ QuietEnd'
  <2>1. svc' \in OpenPlaces => RunIsOpen' /\ QuietEnd'
    BY <1>1 DEF SoundInv, RunInv, RecordInv, QuietEnd, OpenPlaces
  <2> QED
    BY <2>1, OpenKeepsSuccess
<1>4. CASE UNCHANGED runvars
  <2>1. /\ db' = db /\ seq' = seq /\ node' = node /\ inDoubt' = inDoubt /\ faults' = faults
        /\ call' = call /\ waiter' = waiter /\ used' = used /\ disk' = disk
        /\ svc' = svc /\ agent' = agent /\ progress' = progress /\ stop' = stop
        /\ outcome' = outcome /\ persisted' = persisted
    BY <1>4 DEF runvars, pvars, cvars, svars
  <2>2. CallTrack(Zero) => CallTrack(Zero)'
    BY <2>1 DEF CallTrack
  <2>3. Track(Zero)'
    BY <1>2, <2>1, <2>2 DEF Track
  <2>4. (Fresh => Fresh') /\ (CalmCall(Zero) => CalmCall(Zero)') /\ (Calm' => Calm)
    BY <2>1 DEF Fresh, CalmCall, Calm
  <2>5. Calmly(Zero)'
    BY <1>2, <2>1, <2>4 DEF Calmly
  <2>6. SuccessInv' /\ QuietEnd'
    BY <1>2, <2>1 DEF SuccessInv, QuietEnd, Calm
  <2> QED
    BY <1>1, <2>3, <2>5, <2>6 DEF TraceInv
<1>5. CASE Agent \/ CallCancelled
  <2>1. svc' \in OpenPlaces
    BY <1>5, AgentLeaves DEF OpenPlaces
  <2> QED
    BY <1>1, <1>2, <1>3, <1>5, <2>1, AgentKeepsTrack DEF TraceInv
<1>6. CASE InvocationTask /\ UNCHANGED svars
  <2>1. svc' \in OpenPlaces
    BY <1>2, <1>6, AwaitedTask DEF OpenPlaces
  <2> QED
    BY <1>1, <1>2, <1>3, <1>6, <2>1, TaskKeepsTrack DEF TraceInv
<1>7. CASE Setup
  <2>1. SuccessInv'
    BY <1>2, <1>7, OtherEndsKeepSuccess DEF Setup
  <2>2. svc' # "done"
    BY <1>7, GoesSomewhere DEF Setup, Ends
  <2> QED
    BY <1>1, <1>2, <1>7, <2>1, <2>2, SetupKeepsTrack DEF TraceInv, QuietEnd
<1>8. CASE Finalize
  BY <1>1, <1>2, <1>8, FinalizeKeepsTrack DEF TraceInv, Zero
<1>9. CASE \/ MatchTerminal \/ RecoverLoad \/ RecoverMatch
           \/ Recovering("recover_start", "recover_finish")
           \/ Recovering("recover_finish", "recover_match")
  BY <1>1, <1>2, <1>9, RecoveryKeepsTrack DEF TraceInv, QuietEnd
<1>10. CASE Settle /\ UNCHANGED <<cvars, svars>>
  <2>1. SuccessInv'
    BY <1>2, <1>10 DEF Settle, SuccessInv
  <2>2. QuietEnd'
    <3>1. UNCHANGED <<svc, stop, persisted, faults>>
      BY <1>10 DEF svars, Settle
    <3>2. ~(svc = "done" /\ persisted)
      <4>1. svc = "done" /\ persisted => db.status[Run] \in Terminal
        BY <1>2 DEF SoundInv, RunInv, ReportInv, PersistedMeansDurable, ClosingPlaces
      <4> QED
        BY <1>1, <1>10, <4>1 DEF RecordInv, EndIsDecided, Settle
    <3>3. ~(svc = "done" /\ Calm)
      BY <1>2, <3>2 DEF QuietEnd
    <3> QED
      BY <3>1, <3>3 DEF QuietEnd, Calm
  <2> QED
    BY <1>1, <1>2, <1>10, <2>1, <2>2, SettleKeepsTrack DEF TraceInv
<1> QED
  BY <1>4, <1>5, <1>6, <1>7, <1>8, <1>9, <1>10 DEF RunNext, Runtime

\* A database without rows.
LEMMA NothingYet ==
  ASSUME PInit, NEW base \in [1 .. 3 -> Nat], base = Zero,
         NEW p, p.turns = 0, p.calls = 0, p.arts = 0
  PROVE  /\ inDoubt = {} /\ Reached(db, node, Absent, Absent, {}, base, p)
         /\ seq = LastNumber(db)
<1>1. /\ \A r \in Record : db.status[r] = Absent
      /\ db.artifacts = {} /\ db.events = <<>> /\ inDoubt = {} /\ seq = 0 /\ node \in Node
  BY ConstantsAssumption DEF PInit
<1>2. DOMAIN db.events = {} /\ DOMAIN db.events = 1 .. 0
  BY <1>1
<1>3. Of(db, FinalWords) = {} /\ Asked(db) = {} /\ CalledIn(db) = {}
  BY <1>1, <1>2 DEF Of, Asked, CalledIn, Record
<1>4. Ready(db, node, Absent, Absent, {})
  BY <1>1, <1>3, Moves DEF Ready, Record
<1>5. Cardinality({}) = 0 /\ IsFiniteSet({})
  BY FS_EmptySet
<1>6. /\ base[1] + p.turns = 0 /\ base[2] + p.calls = 0 /\ base[3] + p.arts = 0
  BY DEF Zero
<1>7. Counts(db, 0, 0, 0)
  BY <1>1, <1>3, <1>5 DEF Counts
<1>8. LastNumber(db) = 0
  BY <1>2, LastNumberOfContiguous
<1> QED
  BY <1>1, <1>4, <1>6, <1>7, <1>8 DEF Reached

\* The trace holds at first: nothing is stored yet.
LEMMA InitTraceInv ==
  ASSUME RunInit
  PROVE  TraceInv
<1>1. SoundInv /\ PInit /\ CInit /\ svc = "initialize" /\ agent = "turn"
  BY InitSoundInv DEF RunInit
<1>2. progress.turns = 0 /\ progress.calls = 0 /\ progress.arts = 0
  BY DEF RunInit
<1>3. Zero \in [1 .. 3 -> Nat]
  BY Triple DEF Zero
<1>4. /\ inDoubt = {} /\ Reached(db, node, Absent, Absent, {}, Zero, progress)
      /\ seq = LastNumber(db)
  BY <1>1, <1>2, <1>3, NothingYet
<1>5. Track(Zero)
  BY <1>1, <1>4 DEF Track
<1>6. /\ \A i \in Invocation \ used : db.status[i] = Absent
      /\ \A b \in db.artifacts : disk[b.id] # "none"
  BY <1>1 DEF PInit, Record
<1>7. Calmly(Zero)
  BY <1>1, <1>4, <1>6 DEF Calmly, Fresh, RecoveryPlaces
<1>8. SuccessInv
  <2>1. RunIsOpen
    BY <1>1, InitRecordInv DEF RecordInv, OpenPlaces
  <2> QED
    BY <2>1 DEF RunIsOpen, SuccessInv, Terminal
<1>9. QuietEnd
  BY <1>1 DEF QuietEnd
<1> QED
  BY <1>1, <1>5, <1>7, <1>8, <1>9 DEF TraceInv

\* However many calls fail, and whatever is committed late: a Run that is
\* durably succeeded has a trace in which inspect_consistency finds no issue.
THEOREM SuccessesAreConsistent == RunSpec => []SuccessIsConsistent
<1>1. RunInit => TraceInv
  BY InitTraceInv
<1>2. TraceInv /\ [RunNext]_runvars => TraceInv'
  BY RunNextKeepsTraceInv
<1>3. TraceInv => SuccessIsConsistent
  BY DEF TraceInv, SuccessInv, SuccessIsConsistent
<1> QED
  BY <1>1, <1>2, <1>3, PTL DEF RunSpec

\* A run in which nothing fails and nobody is cancelled is persisted with a
\* trace that is consistent but for a refused request, if its Artifacts are as
\* many as an outcome can hold.
THEOREM QuietRunsAreConsistent == RunSpec => [](FitsBudget(db) => QuietRunIsConsistent)
<1>1. RunInit => TraceInv
  BY InitTraceInv
<1>2. TraceInv /\ [RunNext]_runvars => TraceInv'
  BY RunNextKeepsTraceInv
<1>3. TraceInv => (FitsBudget(db) => QuietRunIsConsistent)
  BY DEF TraceInv, QuietEnd, Calm, QuietRunIsConsistent
<1> QED
  BY <1>1, <1>2, <1>3, PTL DEF RunSpec

\* There are not more Artifact rows than Artifacts.
LEMMA ArtifactsFit ==
  ASSUME IsFiniteSet(Artifact), Cardinality(Artifact) <= ArtifactBudget, SInv
  PROVE  FitsBudget(db)
<1>1. /\ db.artifacts \subseteq ArtifactRow
      /\ \A b, c \in db.artifacts : b.id = c.id => b = c
  BY DEF SInv, AInv, PInv, PTypeOK, IsDatabase, ToldOnce
<1> DEFINE f == [b \in db.artifacts |-> b.id]
<1>2. f \in Injection(db.artifacts, Artifact)
  BY <1>1 DEF ArtifactRow, Injection, IsInjective
<1>3. Cardinality(db.artifacts) <= Cardinality(Artifact)
  BY <1>2, FS_Injection DEF ExistsInjection
<1>4. Cardinality(db.artifacts) \in Nat /\ Cardinality(Artifact) \in Nat /\ ArtifactBudget \in Nat
  BY <1>2, FS_Injection, FS_CardinalityType, LimitsAssumption DEF ExistsInjection
<1> QED
  BY <1>3, <1>4 DEF FitsBudget

\* A quiet run is consistent whatever it does when no more Artifacts exist.
THEOREM QuietRunsWithinBudget ==
  ASSUME IsFiniteSet(Artifact), Cardinality(Artifact) <= ArtifactBudget
  PROVE  RunSpec => []QuietRunIsConsistent
<1>1. RunInit => TraceInv
  BY InitTraceInv
<1>2. TraceInv /\ [RunNext]_runvars => TraceInv'
  BY RunNextKeepsTraceInv
<1>3. ASSUME TraceInv
      PROVE  QuietRunIsConsistent
  <2>1. FitsBudget(db)
    BY <1>3, ArtifactsFit DEF TraceInv, SoundInv
  <2> QED
    BY <1>3, <2>1 DEF TraceInv, QuietEnd, Calm, QuietRunIsConsistent
<1> QED
  BY <1>1, <1>2, <1>3, PTL DEF RunSpec

-----------------------------------------------------------------------------
(***************************************************************************)
(* One failure.  Task, Run and node move together, an undecided commit has  *)
(* more Events than the database, and so a write of recovery is refused     *)
(* only when the local counter is Behind.                                   *)
(***************************************************************************)
Trio == {Task, Run, node}

Behind == seq < LastNumber(db)

\* The three records have the same status.
TrioIn(d) ==
  /\ d.status[Task] = d.status[Run] /\ d.status[node] = d.status[Run]
  /\ d.status[Run] # "requested"

DoubtInv ==
  \A d \in {db} \cup inDoubt : TrioIn(d) /\ (d = db \/ LastNumber(db) < LastNumber(d))

\* A transaction that moves all three records or none.
MovesTrio(tx) ==
  \/ Trio \cap DOMAIN tx.set = {}
  \/ \E s \in Status \ {"requested"} : Trio \subseteq DOMAIN tx.set /\ \A r \in Trio : tx.set[r] = s

SteppedTogether ==
  \/ Quiet
  \/ Settle
  \/ node' = node /\ \E tx, end : Transaction(tx) /\ Write(tx, end) /\ MovesTrio(tx)

OneFault == stop = "none" /\ faults <= 1

OneInv ==
  /\ svc = "recover_start" => db.status[Run] = "created" \/ Behind
  /\ OneFault =>
       /\ svc = "match" /\ db.status[Run] \in Terminal =>
            db.status[Run] = outcome.status \/ Behind
       /\ svc = "recover" /\ db.status[Run] \in Terminal =>
            db.status[Run] = "failed" \/ Behind
       /\ svc = "recover_finish" => db.status[Run] = "running" \/ Behind
       /\ svc = "recover_match" => db.status[Run] = outcome.status

-----------------------------------------------------------------------------
\* The shapes of the transactions.
LEMMA ShapesMoveTrio ==
  ASSUME NEW tx, NEW A, NEW S, NEW s, NEW rows, Shape(tx, A, S, s, rows),
         S \cap Trio = {} \/ (Trio \subseteq S /\ s \in Status \ {"requested"})
  PROVE  MovesTrio(tx)
BY DEF Shape, MovesTrio

\* The three records are no Invocation.
LEMMA TrioIsNoInvocation ==
  ASSUME node \in Node
  PROVE  Trio \subseteq Record /\ \A i \in Invocation : {i} \cap Trio = {}
BY ConstantsAssumption DEF Trio, Record

\* A transaction with Events that moves the three together keeps both facts.
LEMMA TogetherKeepsDoubtInv ==
  ASSUME PInv, DoubtInv, SteppedTogether
  PROVE  DoubtInv'
<1>1. CASE Quiet
  BY <1>1 DEF Quiet, DoubtInv, TrioIn
<1>2. CASE Settle
  BY <1>2 DEF Settle, DoubtInv, TrioIn
<1>3. ASSUME node' = node, NEW tx, NEW end, Transaction(tx), Write(tx, end), MovesTrio(tx)
      PROVE  DoubtInv'
  <2>1. \/ db' \in {db, After(tx)} /\ inDoubt' = {} /\ (db' = db \/ Accepted(tx))
        \/ db' = db /\ inDoubt' = {After(tx)} /\ Accepted(tx)
        \/ db' = db /\ inDoubt' = inDoubt
    BY <1>3 DEF Write, WriteDecided, WriteBlocked, RolledBack, CommittedAnyway, Undecided
  <2>2. Trio \subseteq Record /\ TrioIn(db)
    BY TrioIsNoInvocation DEF PInv, PTypeOK, DoubtInv
  <2>3. TrioIn(After(tx))
    BY <1>3, <2>2 DEF MovesTrio, TrioIn, After, Trio
  <2>4. Accepted(tx) => LastNumber(db) < LastNumber(After(tx))
    <3>1. Typed(tx) /\ Len(tx.facts) > 0 /\ Len(tx.facts) \in Nat
      BY <1>3 DEF Transaction, Told, Typed
    <3>2. LastNumber(db) \in Nat
      BY ContiguousLast DEF PInv
    <3> QED
      BY <3>1, <3>2, AcceptedContinues
  <2>5. \A d : TrioIn(d)' = TrioIn(d)
    BY <1>3 DEF TrioIn
  <2> QED
    BY <1>3, <2>1, <2>2, <2>3, <2>4 DEF DoubtInv, TrioIn
<1> QED
  BY <1>1, <1>2, <1>3 DEF SteppedTogether

\* The steps of the agent.
LEMMA AgentStepsTogether ==
  ASSUME PInv, CountsAreTyped, Agent \/ CallCancelled
  PROVE  SteppedTogether
<1>1. node \in Node /\ turn.repair \in BOOLEAN
  BY DEF PInv, PTypeOK, CountsAreTyped
<1>2. UNCHANGED pvars => SteppedTogether
  BY DEF pvars, Quiet, SteppedTogether
<1>3. \A tx, s, rows : Shape(tx, {}, {}, s, rows) => MovesTrio(tx)
  BY ShapesMoveTrio
<1>4. CASE RequestTurn \/ RecordAnswer \/ RecordFailure
  <2>1. CASE RequestTurn
    BY <1>1, <1>3, <2>1, ModelRequestedWrites DEF RequestTurn, SteppedTogether
  <2>2. CASE RecordAnswer
    BY <1>1, <1>3, <2>2, ModelEndedWrites DEF RecordAnswer, SteppedTogether
  <2>3. CASE RecordFailure
    <3> DEFINE invalid == turn.failure \in {"invalid", "repairable"}
    <3>1. PICK end \in Ends : ModelFailed(invalid, turn.repair, end)
      BY <2>3 DEF RecordFailure
    <3>2. invalid \in BOOLEAN
      OBVIOUS
    <3> HIDE DEF invalid
    <3> QED
      BY <1>1, <1>3, <3>1, <3>2, ModelEndedWrites DEF SteppedTogether
  <2> QED
    BY <1>4, <2>1, <2>2, <2>3
<1> QED
  BY <1>2, <1>4
  DEF Agent, TurnBudgetSpent, RefusedRequest, ModelAnswers, Answer, CallCapability, RoundOver,
      CallReturns, CallStopped, CallCancelled, Cancelled, WaiterStops, Stopped, ReapTimeout, Reaped

\* The steps of a call's task.
LEMMA TaskStepsTogether ==
  ASSUME PInv, CallIsTyped, InvocationTask
  PROVE  SteppedTogether
<1>1. node \in Node /\ call \in CallRecord /\ (call.at # "idle" => call.inv \in Invocation)
  BY DEF PInv, PTypeOK, CallIsTyped
<1>2. UNCHANGED pvars \/ (\E end : Load(end)) => SteppedTogether
  BY DEF pvars, Load, Quiet, SteppedTogether
<1>3. ASSUME NEW i \in Invocation
      PROVE  \A tx, A, s, rows : Shape(tx, A, {i}, s, rows) => MovesTrio(tx)
  <2>1. {i} \cap Trio = {}
    BY <1>1, TrioIsNoInvocation
  <2> QED
    BY <2>1, ShapesMoveTrio
<1>4. CASE InnerReturns \/ InnerRaises \/ InnerCancelled
  BY <1>2, <1>4 DEF InnerReturns, InnerRaises, InnerCancelled, InnerOver
<1>5. CASE Begin
  <2>1. PICK end : BeginInvocation(call.inv, end)
    BY <1>5 DEF Begin
  <2>2. call.inv \in Invocation
    BY <1>1, <1>5 DEF Begin
  <2>3. node' = node /\ \E tx : Transaction(tx) /\ Write(tx, end)
                                 /\ Shape(tx, {call.inv}, {call.inv}, "running", {})
    BY <1>1, <2>1, <2>2, BeginInvocationWrites
  <2> QED
    BY <1>3, <2>2, <2>3 DEF SteppedTogether
<1>6. CASE Persist
  <2>1. PICK end : FinishInvocation(call.inv, call.result, call.arts, FALSE, end)
    BY <1>6 DEF Persist
  <2>2. call.inv \in Invocation /\ call.result \in Terminal /\ call.arts \in Snapshots
    BY <1>1, <1>6, ConstantsAssumption DEF Persist, CallIsTyped, CallRecord
  <2>3. \/ Quiet
        \/ node' = node /\ \E tx : Transaction(tx) /\ Write(tx, end)
             /\ Shape(tx, {}, {call.inv}, call.result, RowsFor(call.inv, call.arts))
    BY <1>1, <2>1, <2>2, FinishInvocationWrites
  <2> QED
    BY <1>3, <2>2, <2>3 DEF SteppedTogether
<1>7. CASE Confirm
  BY <1>2, <1>7 DEF Confirm
<1>8. CASE Compensate
  <2>1. PICK end : CompensateInvocationFailure(call.inv, end)
    BY <1>8 DEF Compensate
  <2>2. call.inv \in Invocation
    BY <1>1, <1>8 DEF Compensate
  <2>3. \/ Quiet
        \/ node' = node /\ \E tx : Transaction(tx) /\ Write(tx, end)
             /\ Shape(tx, {}, {call.inv}, "failed", {})
    BY <1>1, <2>1, <2>2, CompensateWrites
  <2> QED
    BY <1>3, <2>2, <2>3 DEF SteppedTogether
<1> QED
  BY <1>4, <1>5, <1>6, <1>7, <1>8 DEF InvocationTask

\* The steps of the service.
LEMMA ServiceStepsTogether ==
  ASSUME PInv, CountsAreTyped, ReportInv, Runtime
  PROVE  SteppedTogether
<1>1. node \in Node /\ outcome.counts \in Seq(Nat)
  BY Triple DEF PInv, PTypeOK, CountsAreTyped
<1>2. ASSUME NEW end, Load(end)
      PROVE  SteppedTogether
  BY <1>2 DEF Load, Quiet, SteppedTogether
<1>3. /\ \A s \in {"created", "running"} \cup Terminal : \A tx, A, rows :
           \/ Shape(tx, A, {Task, Run, node}, s, rows)
           \/ Shape(tx, A, {node, Run, Task}, s, rows)
           => MovesTrio(tx)
      /\ "created" \in {"created", "running"} \cup Terminal
      /\ "running" \in {"created", "running"} \cup Terminal
  <2>1. /\ Trio = {Task, Run, node} /\ Trio = {node, Run, Task}
        /\ {"created", "running"} \cup Terminal \subseteq Status \ {"requested"}
    BY DEF Trio, Status, Initial, Terminal
  <2> QED
    BY <2>1, ShapesMoveTrio
<1>4. ASSUME NEW end, Initialize(end)
      PROVE  SteppedTogether
  <2>1. PICK tx : /\ Transaction(tx) /\ Write(tx, end)
                  /\ Shape(tx, {Task, Run, node}, {Task, Run, node}, "created", {})
    BY <1>1, <1>4, InitializeWrites
  <2> QED
    BY <1>1, <1>3, <1>4, <2>1, InitializeWrites DEF SteppedTogether
<1>5. ASSUME NEW end, Start(end)
      PROVE  SteppedTogether
  <2>1. PICK tx : /\ Transaction(tx) /\ Write(tx, end)
                  /\ Shape(tx, {}, {Task, Run, node}, "running", {})
    BY <1>1, <1>5, StartWrites
  <2> QED
    BY <1>1, <1>3, <1>5, <2>1, StartWrites DEF SteppedTogether
<1>6. ASSUME NEW end, svc \in ClosingPlaces, Finish(outcome.status, outcome.counts, end)
      PROVE  SteppedTogether
  <2>1. outcome.status \in Terminal
    BY <1>6 DEF ReportInv
  <2>2. PICK tx : /\ Transaction(tx) /\ Write(tx, end) /\ node' = node
                  /\ Shape(tx, {}, {node, Run, Task}, outcome.status, {})
    BY <1>1, <1>6, <2>1, FinishWrites
  <2>3. MovesTrio(tx)
    BY <1>3, <2>1, <2>2
  <2> QED
    BY <2>2, <2>3 DEF SteppedTogether
<1>7. CASE Setup
  BY <1>4, <1>5, <1>7 DEF Setup
<1>8. CASE MatchTerminal \/ RecoverLoad \/ RecoverMatch
  BY <1>2, <1>8 DEF MatchTerminal, RecoverLoad, RecoverMatch
<1>9. CASE \/ Finalize \/ Recovering("recover_start", "recover_finish")
           \/ Recovering("recover_finish", "recover_match")
  <2>1. svc \in ClosingPlaces
    BY <1>9 DEF Finalize, Recovering, Service, ClosingPlaces
  <2>2. \E end : Start(end) \/ Finish(outcome.status, outcome.counts, end)
    BY <1>9 DEF Finalize, Recovering
  <2> QED
    BY <1>5, <1>6, <2>1, <2>2
<1> QED
  BY <1>7, <1>8, <1>9 DEF Runtime
-----------------------------------------------------------------------------
\* Failures are counted.
LEMMA FaultsGrow ==
  ASSUME PInv, Stepped
  PROVE  faults \in Nat /\ faults' \in Nat /\ faults <= faults'
<1>1. faults \in Nat
  BY ConstantsAssumption DEF PInv, PTypeOK
<1>2. CASE Quiet \/ Settle
  BY <1>1, <1>2 DEF Quiet, Settle
<1>3. ASSUME NEW tx, NEW end, Write(tx, end)
      PROVE  faults' \in {faults, faults + 1, faults + 2}
  BY <1>1, <1>3 DEF Write, WriteDecided, WriteBlocked, Resync
<1> QED
  BY <1>1, <1>2, <1>3 DEF Stepped

\* A write that fails without a failing database call was refused.
LEMMA RefusedWrite ==
  ASSUME NEW tx, Write(tx, "error"), faults \in Nat, faults' <= faults
  PROVE  inDoubt = {} /\ ~Accepted(tx)
BY DEF Write, WriteDecided, WriteBlocked, Resync

\* And then the counter has missed an Event.
LEMMA RefusedStart ==
  ASSUME PInv, DoubtInv, Start("error"), faults' <= faults, db.status[Run] = "created"
  PROVE  Behind
<1>1. node \in Node /\ faults \in Nat /\ seq \in Nat /\ seq <= LastNumber(db) /\ LastNumber(db) \in Nat
  BY ConstantsAssumption, ContiguousLast DEF PInv, PTypeOK
<1>2. PICK tx : /\ Transaction(tx) /\ Write(tx, "error")
                /\ Shape(tx, {}, {Task, Run, node}, "running", {}) /\ tx.needs = {}
  BY <1>1, StartWrites
<1>3. ~Accepted(tx) /\ Typed(tx)
  BY <1>1, <1>2, RefusedWrite DEF Transaction
<1>4. \A r \in {Task, Run, node} \ {} :
        db.status[r] # Absent /\ EnsureTransition(db.status[r], "running")
  BY DEF DoubtInv, TrioIn, Absent, EnsureTransition, Transitions, Initial, Status
<1> QED
  BY <1>1, <1>2, <1>3, <1>4, IsAccepted DEF Behind

\* The same of the final transaction.
LEMMA RefusedFinish ==
  ASSUME PInv, DoubtInv, NEW status \in Terminal, NEW counts \in Seq(Nat),
         Finish(status, counts, "error"), faults' <= faults, db.status[Run] = "running"
  PROVE  Behind
<1>1. node \in Node /\ faults \in Nat /\ seq \in Nat /\ seq <= LastNumber(db) /\ LastNumber(db) \in Nat
  BY ConstantsAssumption, ContiguousLast DEF PInv, PTypeOK
<1>2. PICK tx : /\ Transaction(tx) /\ Write(tx, "error")
                /\ Shape(tx, {}, {node, Run, Task}, status, {}) /\ tx.needs = {}
  BY <1>1, FinishWrites
<1>3. ~Accepted(tx) /\ Typed(tx)
  BY <1>1, <1>2, RefusedWrite DEF Transaction
<1>4. \A r \in {node, Run, Task} \ {} :
        db.status[r] # Absent /\ EnsureTransition(db.status[r], status)
  BY DEF DoubtInv, TrioIn, Absent, EnsureTransition, Transitions, Initial, Status, Terminal
<1> QED
  BY <1>1, <1>2, <1>3, <1>4, IsAccepted DEF Behind

\* Where the Run may be after a write that moves it.
LEMMA RunAfterWrite ==
  ASSUME NEW tx, NEW end, Write(tx, end), NEW A, NEW S, NEW s, NEW rows,
         Shape(tx, A, S, s, rows), Run \in S
  PROVE  db'.status[Run] \in {db.status[Run], s}
<1>1. db' = db \/ db' = After(tx)
  BY DEF Write, WriteDecided, WriteBlocked, RolledBack, CommittedAnyway, Undecided
<1>2. After(tx).status[Run] = s
  BY RunIsARecord DEF After, Shape
<1> QED
  BY <1>1, <1>2

\* Setup does not end the Run.
LEMMA SetupLeavesOpen ==
  ASSUME PInv, NEW end, Initialize(end) \/ Start(end), db.status[Run] \notin Terminal
  PROVE  db'.status[Run] \notin Terminal
<1>1. node \in Node /\ "created" \notin Terminal /\ "running" \notin Terminal
  BY DEF PInv, PTypeOK, Terminal
<1>2. CASE Initialize(end)
  <2>1. PICK tx : Write(tx, end) /\ Shape(tx, {Task, Run, node}, {Task, Run, node}, "created", {})
    BY <1>1, <1>2, InitializeWrites
  <2>2. db'.status[Run] \in {db.status[Run], "created"}
    BY <2>1, RunAfterWrite
  <2> QED
    BY <1>1, <2>2
<1>3. CASE Start(end)
  <2>1. PICK tx : Write(tx, end) /\ Shape(tx, {}, {Task, Run, node}, "running", {})
    BY <1>1, <1>3, StartWrites
  <2>2. db'.status[Run] \in {db.status[Run], "running"}
    BY <2>1, RunAfterWrite
  <2> QED
    BY <1>1, <2>2
<1> QED
  BY <1>2, <1>3

\* The final transaction leaves its outcome or the status that was there.
LEMMA FinishLeavesEither ==
  ASSUME PInv, NEW end, NEW status \in Terminal, NEW counts \in Seq(Nat),
         Finish(status, counts, end)
  PROVE  db'.status[Run] \in {db.status[Run], status}
<1>1. node \in Node
  BY DEF PInv, PTypeOK
<1>2. PICK tx : Write(tx, end) /\ Shape(tx, {}, {node, Run, Task}, status, {})
  BY <1>1, FinishWrites
<1> QED
  BY <1>2, RunAfterWrite

-----------------------------------------------------------------------------
\* The invariant: what is sound and traced, and what recovery meets.
FaultInv == TraceInv /\ DoubtInv /\ OneInv

\* Nothing but recovery reads OneInv.
LEMMA OneInvElsewhere ==
  ASSUME svc' \notin RecoveryPlaces \cup {"match"}
  PROVE  OneInv'
BY DEF OneInv, RecoveryPlaces

\* A step of the agent or of a call is taken elsewhere.
LEMMA AgentIsElsewhere ==
  ASSUME SoundInv,
         \/ Agent \/ CallCancelled
         \/ InvocationTask /\ UNCHANGED svars
  PROVE  OneInv'
<1>1. CASE InvocationTask /\ UNCHANGED svars
  <2>1. svc' = "agent"
    BY <1>1, AwaitedTask
  <2> QED
    BY <2>1, OneInvElsewhere DEF RecoveryPlaces
<1>2. CASE Agent \/ CallCancelled
  <2>1. svc' \in {"agent", "finish"}
    BY <1>2, AgentLeaves
  <2> QED
    BY <2>1, OneInvElsewhere DEF RecoveryPlaces
<1> QED
  BY <1>1, <1>2

\* A commit that is decided late leaves the counter behind.
LEMMA SettleKeepsOneInv ==
  ASSUME PInv, DoubtInv, OneInv, EndIsDecided, svc \in ClosingPlaces => outcome.status \in Terminal,
         Settle, UNCHANGED <<cvars, svars>>
  PROVE  OneInv'
<1>1. /\ inDoubt # {} /\ db' \in inDoubt \cup {db} /\ seq' = seq /\ faults' = faults
      /\ UNCHANGED <<svc, stop, outcome>>
  BY DEF Settle, svars
<1>2. db' = db \/ Behind'
  <2>1. \A d \in {db} \cup inDoubt : LastNumber(d) \in Nat
    BY ContiguousLast DEF PInv
  <2>2. seq \in Nat /\ seq <= LastNumber(db)
    BY DEF PInv, PTypeOK
  <2> QED
    BY <1>1, <2>1, <2>2 DEF DoubtInv, Behind
<1>3. Behind => Behind'
  BY <1>1, <1>2 DEF Behind
<1>4. OneFault' = OneFault
  BY <1>1 DEF OneFault
<1>5. svc = "recover_match" => outcome.status \in Terminal
  BY DEF ClosingPlaces
<1>6. ~(OneFault /\ svc = "recover_match")
  BY <1>1, <1>5 DEF OneInv, EndIsDecided
<1> QED
  BY <1>1, <1>2, <1>3, <1>4, <1>6 DEF OneInv

\* Setup and the final transaction.
LEMMA SetupKeepsOneInv ==
  ASSUME PInv, RecordInv, Setup
  PROVE  OneInv'
<1>1. PICK end \in Ends : Initialize(end) \/ Start(end)
  BY DEF Setup
<1>2. svc \in OpenPlaces /\ svc' \in {"start", "agent", "recover", "dead", "interrupt"}
  BY LimitsAssumption DEF Setup, Service, Goes, OpenPlaces, Ends
<1>3. db'.status[Run] \notin Terminal
  BY <1>1, <1>2, SetupLeavesOpen DEF RecordInv, RunIsOpen
<1> QED
  BY <1>2, <1>3 DEF OneInv

\* The final transaction of execute.
LEMMA FinalizeKeepsOneInv ==
  ASSUME PInv, RecordInv, ReportInv, CountsAreTyped, Finalize
  PROVE  OneInv'
<1>1. /\ svc = "finish" /\ outcome' = outcome /\ outcome.status \in Terminal
      /\ outcome.counts \in Seq(Nat) /\ db.status[Run] \notin Terminal
  BY Triple DEF Finalize, Service, ReportInv, ClosingPlaces, RecordInv, OpenPlaces, RunIsOpen,
                CountsAreTyped
<1>2. PICK end \in Ends : Finish(outcome.status, outcome.counts, end)
  BY DEF Finalize
<1>3. db'.status[Run] \in {db.status[Run], outcome.status}
  BY <1>1, <1>2, FinishLeavesEither
<1>4. svc' \in {"match", "done", "dead", "interrupt"}
  BY LimitsAssumption DEF Finalize, Goes, Returns, Ends
<1> QED
  BY <1>1, <1>3, <1>4 DEF OneInv

\* Reading the outcome back.
LEMMA MatchKeepsOneInv ==
  ASSUME PInv, OneInv, NEW base, Calmly(base), MatchTerminal
  PROVE  OneInv'
<1>1. PICK end \in Ends :
        /\ Load(end)
        /\ IF end = "ok" /\ db.status[Run] = outcome.status
             THEN Returns(TRUE) /\ UNCHANGED outcome
             ELSE Goes(end, "recover", "recover") /\ Failed
  BY DEF MatchTerminal
<1>2. svc = "match" /\ stop' = stop
  BY DEF MatchTerminal, Service
<1>3. CASE end = "ok" /\ db.status[Run] # outcome.status
  <2>1. svc' = "recover" /\ UNCHANGED <<db, seq, faults>>
    BY <1>1, <1>3 DEF Goes, Load
  <2> QED
    BY <1>2, <1>3, <2>1 DEF OneInv, OneFault, Behind
<1>4. CASE end = "error"
  <2>1. svc' = "recover" /\ faults' = faults + 1 /\ faults \in Nat
    BY <1>1, <1>4, ConstantsAssumption DEF Goes, Load, PInv, PTypeOK
  <2>2. stop = "none" => faults # 0
    BY <1>2 DEF Calmly, Calm
  <2>3. ~OneFault'
    BY <1>2, <2>1, <2>2 DEF OneFault
  <2> QED
    BY <2>1, <2>3 DEF OneInv
<1>5. CASE end = "cancelled" \/ (end = "ok" /\ db.status[Run] = outcome.status)
  <2>1. svc' \in {"done", "dead", "interrupt"}
    BY <1>1, <1>5, LimitsAssumption DEF Goes, Returns
  <2> QED
    BY <2>1 DEF OneInv
<1> QED
  BY <1>1, <1>3, <1>4, <1>5 DEF Ends

\* The steps of recovery.
LEMMA RecoverLoadKeepsOneInv ==
  ASSUME PInv, DoubtInv, OneInv, ReportInv, RecoverLoad
  PROVE  OneInv'
<1>1. /\ svc = "recover" /\ outcome' = outcome /\ stop' = stop /\ outcome.status = "failed"
  BY DEF RecoverLoad, Service, ReportInv, RecoveryPlaces
<1>2. PICK end \in Ends :
        /\ Load(end)
        /\ IF end = "error" \/ (end = "ok" /\ db.status[Run] = Absent) THEN Returns(FALSE)
           ELSE IF end = "ok" /\ db.status[Run] = outcome.status THEN Returns(TRUE)
           ELSE Goes(end, Recovery, "dead")
  BY DEF RecoverLoad
<1>3. db.status[Run] \in (Status \ {"requested"}) \cup {Absent}
  BY RunIsARecord DEF PInv, PTypeOK, IsDatabase, DoubtInv, TrioIn
<1>4. CASE end = "ok" /\ db.status[Run] \notin {Absent, outcome.status}
  <2>1. svc' = Recovery /\ UNCHANGED <<db, seq, faults>>
    BY <1>2, <1>4 DEF Goes, Load
  <2>2. db.status[Run] = "created" \/ db.status[Run] = "running" \/ db.status[Run] \in Terminal \ {"failed"}
    BY <1>1, <1>3, <1>4 DEF Status, Initial
  <2> QED
    BY <1>1, <2>1, <2>2 DEF OneInv, OneFault, Behind, Recovery
<1>5. CASE end = "cancelled" \/ end = "error" \/ (end = "ok" /\ db.status[Run] \in {Absent, outcome.status})
  <2>1. svc' \in {"done", "dead", "interrupt"}
    BY <1>2, <1>5, LimitsAssumption DEF Goes, Returns
  <2> QED
    BY <2>1 DEF OneInv
<1> QED
  BY <1>4, <1>5 DEF Ends

\* The two writes of recovery.
LEMMA RecoveringKeepsOneInv ==
  ASSUME RecordInv, ReportInv,
         \/ Recovering("recover_start", "recover_finish")
         \/ Recovering("recover_finish", "recover_match")
  PROVE  OneInv'
<1>1. EndIsDecided /\ node \in Node
  BY DEF RecordInv
<1>2. CASE Recovering("recover_start", "recover_finish")
  <2>1. PICK end \in Ends :
          /\ Start(end)
          /\ IF end = "error" THEN Returns(FALSE) ELSE Goes(end, "recover_finish", "dead")
    BY <1>2 DEF Recovering
  <2>2. (svc' = "recover_finish" /\ end = "ok") \/ svc' \in {"done", "dead", "interrupt"}
    BY <2>1, LimitsAssumption DEF Goes, Returns, Ends
  <2>3. end = "ok" => db'.status[Run] = "running"
    BY <1>1, <2>1, MethodsOfRun
  <2> QED
    BY <2>2, <2>3 DEF OneInv
<1>3. CASE Recovering("recover_finish", "recover_match")
  <2>1. PICK end \in Ends :
          /\ Finish(outcome.status, outcome.counts, end)
          /\ IF end = "error" THEN Returns(FALSE) ELSE Goes(end, "recover_match", "dead")
    BY <1>3 DEF Recovering
  <2>2. (svc' = "recover_match" /\ end = "ok") \/ svc' \in {"done", "dead", "interrupt"}
    BY <2>1, LimitsAssumption DEF Goes, Returns, Ends
  <2>3. end = "ok" => db'.status[Run] = outcome.status
    BY <1>1, <2>1, MethodsOfRun
  <2>4. outcome' = outcome
    BY <1>3 DEF Recovering
  <2> QED
    BY <2>2, <2>3, <2>4 DEF OneInv
<1> QED
  BY <1>2, <1>3

\* Every step.
LEMMA RunNextKeepsFaultInv ==
  ASSUME FaultInv, [RunNext]_runvars
  PROVE  FaultInv'
<1>1. /\ TraceInv /\ SoundInv /\ SInv /\ RunInv /\ RecordInv /\ ReportInv /\ CountsAreTyped
      /\ PInv /\ CallIsTyped /\ EndIsDecided /\ DoubtInv /\ OneInv /\ Calmly(Zero)
      /\ svc \in ClosingPlaces => outcome.status \in Terminal
  BY DEF FaultInv, TraceInv, SoundInv, RunInv, RecordInv, ReportInv, SInv, AInv
<1>2. TraceInv'
  BY <1>1, RunNextKeepsTraceInv
<1>3. CASE UNCHANGED runvars
  <2>1. SteppedTogether
    BY <1>3 DEF runvars, pvars, Quiet, SteppedTogether
  <2>2. UNCHANGED <<db, seq, faults>> /\ UNCHANGED <<svc, outcome, stop>>
    BY <1>3 DEF runvars, pvars, svars
  <2>3. OneInv'
    BY <1>1, <2>2 DEF OneInv, OneFault, Behind
  <2> QED
    BY <1>1, <1>2, <2>1, <2>3, TogetherKeepsDoubtInv DEF FaultInv
<1>4. CASE \/ Agent \/ CallCancelled
           \/ InvocationTask /\ UNCHANGED svars
  <2>1. SteppedTogether
    BY <1>1, <1>4, AgentStepsTogether, TaskStepsTogether
  <2>2. OneInv'
    BY <1>1, <1>4, AgentIsElsewhere
  <2> QED
    BY <1>1, <1>2, <2>1, <2>2, TogetherKeepsDoubtInv DEF FaultInv
<1>5. CASE Runtime
  <2>1. SteppedTogether
    BY <1>1, <1>5, ServiceStepsTogether
  <2>2. RecoverMatch => svc' \in {"done", "dead", "interrupt"}
    BY LimitsAssumption DEF RecoverMatch, Goes, Returns
  <2>3. SUFFICES OneInv'
    BY <1>1, <1>2, <2>1, TogetherKeepsDoubtInv DEF FaultInv
  <2>4. CASE Setup \/ Finalize
    BY <1>1, <2>4, SetupKeepsOneInv, FinalizeKeepsOneInv
  <2>5. CASE MatchTerminal \/ RecoverLoad
    BY <1>1, <2>5, MatchKeepsOneInv, RecoverLoadKeepsOneInv
  <2>6. CASE RecoverMatch
    BY <2>2, <2>6, OneInvElsewhere DEF RecoveryPlaces
  <2>7. CASE \/ Recovering("recover_start", "recover_finish")
             \/ Recovering("recover_finish", "recover_match")
    BY <1>1, <2>7, RecoveringKeepsOneInv
  <2> QED
    BY <1>5, <2>4, <2>5, <2>6, <2>7 DEF Runtime
<1>6. CASE Settle /\ UNCHANGED <<cvars, svars>>
  <2>1. SteppedTogether
    BY <1>6 DEF SteppedTogether
  <2>2. OneInv'
    BY <1>1, <1>6, SettleKeepsOneInv
  <2> QED
    BY <1>1, <1>2, <2>1, <2>2, TogetherKeepsDoubtInv DEF FaultInv
<1> QED
  BY <1>3, <1>4, <1>5, <1>6 DEF RunNext

\* The invariant holds at first.
LEMMA InitFaultInv == RunInit => FaultInv
<1> SUFFICES ASSUME RunInit PROVE FaultInv
  OBVIOUS
<1>1. PInit /\ svc = "initialize" /\ TraceInv
  BY InitTraceInv DEF RunInit
<1>2. DoubtInv
  <2>1. Trio \subseteq Record
    BY <1>1, ConstantsAssumption DEF Trio, Record, PInit
  <2>2. TrioIn(db)
    BY <1>1, <2>1 DEF PInit, TrioIn, Trio, Absent
  <2> QED
    BY <1>1, <2>2 DEF DoubtInv, PInit
<1>3. OneInv
  BY <1>1 DEF OneInv
<1> QED
  BY <1>1, <1>2, <1>3 DEF FaultInv

-----------------------------------------------------------------------------
\* What OneFaultRecovers says of one step.
Recovered ==
  svc # "done" /\ svc' = "done" /\ faults' <= 1 /\ stop = "none" =>
    \/ persisted' /\ db'.status[Run] \in Terminal
    \/ inDoubt # {} \/ seq < LastNumber(db) \/ db.status[Run] = Absent

\* A step of execute gives the Run up only for the reasons it names.
LEMMA StepsRecover ==
  ASSUME FaultInv, [RunNext]_runvars
  PROVE  Recovered
<1>1. /\ RecordInv /\ ReportInv /\ PInv /\ EndIsDecided /\ node \in Node /\ DoubtInv /\ OneInv
      /\ Calmly(Zero) /\ SoundInv /\ Stepped /\ CountsAreTyped
      /\ svc \in ClosingPlaces => outcome.status \in Terminal
      /\ PersistedMeansDurable'
  BY RunNextKeepsSoundInv
  DEF FaultInv, TraceInv, SoundInv, RunInv, RecordInv, ReportInv, SInv, AInv
<1>2. faults \in Nat /\ faults' \in Nat /\ faults <= faults'
  BY <1>1, FaultsGrow
<1>3. SUFFICES ASSUME svc # "done", svc' = "done", faults' <= 1, stop = "none",
                      inDoubt = {}, ~Behind, db.status[Run] # Absent
               PROVE  persisted' /\ db'.status[Run] \in Terminal
  BY DEF Recovered, Behind
<1>4. OneFault
  BY <1>2, <1>3 DEF OneFault
<1>5. svc \in RecoveryPlaces \cup {"match"} => faults' = faults /\ faults' <= faults
  BY <1>1, <1>2, <1>3 DEF Calmly, Calm
<1>6. persisted' /\ outcome' = outcome /\ outcome.status \in Terminal => db'.status[Run] \in Terminal
  BY <1>1, <1>3 DEF PersistedMeansDurable
<1>7. CASE Finalize
  <2>1. svc = "finish" /\ outcome' = outcome /\ persisted'
    BY <1>3, <1>7, LimitsAssumption DEF Finalize, Service, Goes, Returns, Ends
  <2> QED
    BY <1>1, <1>6, <2>1 DEF ClosingPlaces
<1>8. CASE MatchTerminal
  <2>1. svc = "match" /\ outcome' = outcome /\ persisted'
    BY <1>3, <1>8, LimitsAssumption DEF MatchTerminal, Service, Goes, Returns, Ends
  <2> QED
    BY <1>1, <1>6, <2>1 DEF ClosingPlaces
<1>9. CASE RecoverLoad
  <2>1. svc = "recover" /\ outcome' = outcome
    BY <1>9 DEF RecoverLoad, Service
  <2>2. \A end : Load(end) => end # "error"
    BY <1>2, <1>5, <2>1 DEF Load, RecoveryPlaces
  <2>3. Recovery # "done"
    BY DEF Recovery
  <2>4. persisted'
    BY <1>3, <1>9, <2>2, <2>3, LimitsAssumption DEF RecoverLoad, Goes, Returns, Ends
  <2> QED
    BY <1>1, <1>6, <2>1, <2>4 DEF ClosingPlaces
<1>10. CASE \/ Recovering("recover_start", "recover_finish")
            \/ Recovering("recover_finish", "recover_match")
  <2>1. outcome.status \in Terminal /\ outcome.counts \in Seq(Nat) /\ faults' <= faults
    BY <1>1, <1>5, <1>10, Triple
    DEF Recovering, Service, ClosingPlaces, RecoveryPlaces, CountsAreTyped
  <2>2. CASE Recovering("recover_start", "recover_finish")
    <3>1. svc = "recover_start" /\ Start("error")
      BY <1>3, <2>2, LimitsAssumption DEF Recovering, Service, Goes, Ends
    <3> QED
      BY <1>1, <1>3, <2>1, <3>1, RefusedStart DEF OneInv
  <2>3. CASE Recovering("recover_finish", "recover_match")
    <3>1. svc = "recover_finish" /\ Finish(outcome.status, outcome.counts, "error")
      BY <1>3, <2>3, LimitsAssumption DEF Recovering, Service, Goes, Ends
    <3> QED
      BY <1>1, <1>3, <1>4, <2>1, <3>1, RefusedFinish DEF OneInv
  <2> QED
    BY <1>10, <2>2, <2>3
<1>11. CASE RecoverMatch
  <2>1. svc = "recover_match" /\ outcome' = outcome
    BY <1>11 DEF RecoverMatch, Service
  <2>2. \A end : Load(end) => end # "error"
    BY <1>2, <1>5, <2>1 DEF Load, RecoveryPlaces
  <2>3. db.status[Run] = outcome.status
    BY <1>1, <1>4, <2>1 DEF OneInv
  <2>4. persisted'
    BY <1>3, <1>11, <2>2, <2>3, LimitsAssumption DEF RecoverMatch, Goes, Returns, Ends
  <2> QED
    BY <1>1, <1>6, <2>1, <2>4 DEF ClosingPlaces
<1>12. CASE Setup
  BY <1>3, <1>12, LimitsAssumption DEF Setup, Goes, Ends
<1>13. CASE Agent \/ CallCancelled
  <2>1. svc' \in {"agent", "finish"}
    BY <1>13, AgentLeaves
  <2> QED
    BY <1>3, <2>1
<1>14. CASE UNCHANGED runvars \/ UNCHANGED svars
  BY <1>3, <1>14 DEF runvars, svars
<1> QED
  BY <1>7, <1>8, <1>9, <1>10, <1>11, <1>12, <1>13, <1>14 DEF RunNext, Runtime, svars

\* One failing database call never makes execute give up a Run that exists, unless
\* the server decided the failed write so late that it is still open or that the
\* counter has missed its Events (PersistentRuntime.execute, recover_terminal).
THEOREM OneFaultIsRecovered == RunSpec => OneFaultRecovers
<1>1. RunInit => FaultInv
  BY InitFaultInv
<1>2. FaultInv /\ [RunNext]_runvars => FaultInv'
  BY RunNextKeepsFaultInv
<1>3. FaultInv /\ [RunNext]_runvars => Recovered
  BY StepsRecover
<1> QED
  BY <1>1, <1>2, <1>3, PTL DEF RunSpec, OneFaultRecovers, Recovered

-----------------------------------------------------------------------------
(***************************************************************************)
(* What RunPersistence promises any caller, of the service and its calls.   *)
(***************************************************************************)
\* SInv is of the records as they are, LInv of what an undecided commit will
\* append to them.
RecordsInv == SoundInv /\ LInv

\* RecordsInv is inductive, and a step of a Run is a step of the ledger.
LEMMA RunNextKeepsRecords ==
  ASSUME RecordsInv, [RunNext]_runvars
  PROVE  RecordsInv' /\ [Ledger!Commit]_(Ledger!vars)
<1>1. SoundInv' /\ Stepped
  BY RunNextKeepsSoundInv DEF RecordsInv
<1>2. LInv'
  BY <1>1, SteppedKeepsLInv DEF RecordsInv, SoundInv, SInv, AInv
<1> QED
  BY <1>1, <1>2, SteppedImplements DEF RecordsInv

\* It holds before the first transaction.
LEMMA InitRecords == RunInit => RecordsInv /\ Ledger!Init
  BY InitSoundInv, InitImplements DEF RunInit, RecordsInv

\* A Run as the service drives it, with all that may fail or be cancelled in the
\* setup, the calls, the match and the recovery, implements the append-only ledger
\* (PersistentRuntime over RunPersistence).
THEOREM RunsImplementLedger == RunSpec => ImplementsLedger
<1>1. RecordsInv /\ [RunNext]_runvars => RecordsInv' /\ [Ledger!Commit]_(Ledger!vars)
  BY RunNextKeepsRecords
<1> QED
  BY <1>1, InitRecords, PTL DEF RunSpec, ImplementsLedger, Ledger!Spec

\* Its Events are numbered without gap, whichever write was repeated after a failure,
\* and each Artifact of its calls is announced once (RunPersistence._write,
\* finish_invocation).
THEOREM RunsKeepRecords == RunSpec => [](EventNumbering /\ ArtifactsAreTold)
<1>1. RecordsInv => EventNumbering
  BY ContiguousLast DEF RecordsInv, LInv, PInv, EventNumbering
<1>2. RecordsInv => ArtifactsAreTold
  BY AInvCounted DEF RecordsInv, SoundInv, SInv
<1>3. RunInit => RecordsInv
  BY InitRecords
<1>4. RecordsInv /\ [RunNext]_runvars => RecordsInv'
  BY RunNextKeepsRecords
<1> QED
  BY <1>1, <1>2, <1>3, <1>4, PTL DEF RunSpec
=============================================================================
