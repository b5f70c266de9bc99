----------------------- MODULE ProcessExecuteProofs ------------------------
(***************************************************************************)
(* Theorems of ProcessExecute, for any number of children.  What a stop     *)
(* leaves behind depends on who else is stopping, so the invariant says of  *)
(* each place where invoke can be which stops may be under way there, and   *)
(* that only a stop which was refused or cut ends without having seen the   *)
(* exit of the leader.                                                      *)
(***************************************************************************)
EXTENDS ProcessExecute, TLAPS

\* Before the process is registered nobody stops it, and the timeout stops it
\* only after the output was waited for.
NotStoppedYet ==
  /\ at \in {"start", "spawn"} =>
       (\A s \in Stops : stop[s] = "idle") /\ caller = "waiting"
  /\ at = "collect" => stop["timeout"] = "idle"

\* A stop that ended in order has seen the exit.
StopsSeeExit == (\E s \in Stops : stop[s] = "over") => noticed

\* Who has signalled the group is under way or has ended, and who is under way
\* has signalled it.
SignalIsRemembered ==
  \A s \in Stops :
    /\ stop[s] = "idle" => signalled[s] = "none"
    /\ stop[s] \in {"term", "kill"} => signalled[s] # "none"

\* What the caller has begun: its key is marked until invoke decides, and while
\* invoke goes on the caller's stop is cut only if the caller is.
CancelIsRemembered ==
  /\ Registered /\ stop["cancel"] # "idle" => flagged
  /\ caller = "waiting" => stop["cancel"] = "idle"
  /\ caller \in {"cancelling", "again"} => stop["cancel"] # "idle"
  /\ caller = "again" => stop["cancel"] \in {"over", "denied", "cut"}
  /\ caller = "gone" => at = "returned"

LeaderIsTracked ==
  /\ at = "start" => member[Leader] = "none"
  /\ noticed => member[Leader] = "dead"

EInv ==
  /\ ETypeOK
  /\ NotStoppedYet /\ StopsSeeExit /\ SignalIsRemembered /\ CancelIsRemembered
  /\ LeaderIsTracked
  /\ LeaderIsGone /\ StopIsTold

-----------------------------------------------------------------------------
(***************************************************************************)
(* The steps that several actions share.                                    *)
(***************************************************************************)
\* The names of the stops are different.
LEMMA StopNames ==
  /\ Readers \subseteq Stops /\ "timeout" \in Stops /\ "cancel" \in Stops
  /\ "timeout" \notin Readers /\ "cancel" \notin Readers
  /\ Leader \in Member /\ Child \subseteq Member /\ Leader \notin Child
BY ProcessAssumption DEF Readers, Stops, Member

StopStates == {"idle", "term", "kill", "over", "denied", "cut"}
MemberStates == {"none", "running", "termed", "dead"}

\* The system calls change members that run only.
LEMMA SignalEffect ==
  ASSUME ETypeOK
  PROVE  /\ Terminated \in [Member -> MemberStates] /\ Killed \in [Member -> MemberStates]
         /\ member[Leader] \in {"none", "dead"} =>
              Terminated[Leader] = member[Leader] /\ Killed[Leader] = member[Leader]
BY StopNames DEF Terminated, Killed, Alive, ETypeOK, MemberStates

\* The first half of a stop ends it in order only if the exit was noticed,
\* signals nobody then, and wakes no process.
LEMMA BeginStopEffect ==
  ASSUME ETypeOK, NEW s \in Stops, NEW stops \in [Stops -> StopStates], BeginStop(s, stops)
  PROVE  /\ stop' \in [Stops -> StopStates]
         /\ \A u \in Stops \ {s} : stop'[u] = stops[u] /\ signalled'[u] = signalled[u]
         /\ stop'[s] \in {"term", "kill", "over", "denied"}
         /\ stop'[s] = "over" => noticed
         /\ stop'[s] \in {"term", "kill"} => signalled'[s] # "none"
         /\ signalled' \in [Stops -> {"none", "term", "kill"}]
         /\ member' \in [Member -> MemberStates]
         /\ noticed => UNCHANGED <<member, signalled>>
         /\ member[Leader] \in {"none", "dead"} => member'[Leader] = member[Leader]
<1>1. CASE noticed
  BY <1>1 DEF BeginStop, ETypeOK, StopStates, MemberStates
<1>2. CASE ~noticed
  <2>1. PICK next \in {"term", "kill", "denied"}, signal \in {"term", "kill"} :
          /\ stop' = [stops EXCEPT ![s] = next]
          /\ signalled' = [signalled EXCEPT ![s] = signal]
    BY <1>2 DEF BeginStop
  <2>2. member' = Terminated
    BY <1>2 DEF BeginStop
  <2>3. /\ stop' \in [Stops -> StopStates] /\ stop'[s] = next
        /\ \A u \in Stops \ {s} : stop'[u] = stops[u]
    BY <2>1 DEF StopStates
  <2>4. /\ signalled' \in [Stops -> {"none", "term", "kill"}] /\ signalled'[s] # "none"
        /\ \A u \in Stops \ {s} : signalled'[u] = signalled[u]
    BY <2>1 DEF ETypeOK
  <2> QED
    BY <1>2, <2>2, <2>3, <2>4, SignalEffect
<1> QED
  BY <1>1, <1>2

\* Abandoning tasks changes nothing but the stops that are under way.
LEMMA AbandonedEffect ==
  ASSUME ETypeOK, NEW tasks
  PROVE  /\ Abandoned(tasks) \in [Stops -> StopStates]
         /\ \A u \in Stops : \/ Abandoned(tasks)[u] = stop[u]
                             \/ /\ u \in tasks /\ stop[u] \in {"term", "kill"}
                                /\ Abandoned(tasks)[u] = "cut"
BY DEF Abandoned, ETypeOK, StopStates

-----------------------------------------------------------------------------
(***************************************************************************)
(* The invariant is inductive.                                              *)
(***************************************************************************)
\* Whatever the members of the group do, a leader that is gone stays gone.
LEMMA GroupKeepsEInv ==
  ASSUME EInv,
         \/ \E c \in Child : Fork(c) \/ LeaveGroup(c)
         \/ \E m \in Member : Exit(m) \/ ClosePipes(m) \/ ChangeUser(m)
         \/ Notice
  PROVE  EInv'
<1> USE StopNames
<1>1. /\ UNCHANGED <<stop, signalled, at, status, flagged, caller>>
      /\ noticed => noticed'
      /\ noticed' \in BOOLEAN
      /\ holders' \subseteq Member
  BY DEF Fork, LeaveGroup, Exit, ClosePipes, ChangeUser, Notice, EInv, ETypeOK, invocation
<1>2. /\ member' \in [Member -> MemberStates]
      /\ noticed' => member'[Leader] = "dead"
      /\ member[Leader] \in {"none", "dead"} => member'[Leader] = member[Leader]
  BY DEF Fork, LeaveGroup, Exit, ClosePipes, ChangeUser, Notice, EInv, ETypeOK,
         LeaderIsTracked, Alive, MemberStates
<1>3. reach' \in [Member -> {"open", "guarded", "left"}] /\ reach'[Leader] # "left"
  <2>1. CASE \E c \in Child : Fork(c)
    BY <2>1 DEF Fork, EInv, ETypeOK
  <2>2. CASE \E c \in Child : LeaveGroup(c)
    BY <2>2 DEF LeaveGroup, EInv, ETypeOK
  <2>3. CASE \E m \in Member : ChangeUser(m)
    BY <2>3 DEF ChangeUser, EInv, ETypeOK
  <2>4. CASE Notice \/ \E m \in Member : Exit(m) \/ ClosePipes(m)
    BY <2>4 DEF Notice, Exit, ClosePipes, EInv, ETypeOK
  <2> QED
    BY <2>1, <2>2, <2>3, <2>4
<1>4. ETypeOK' /\ LeaderIsTracked'
  BY <1>1, <1>2, <1>3 DEF EInv, ETypeOK, LeaderIsTracked, Registered, MemberStates
<1>5. LeaderIsGone'
  BY <1>1, <1>2 DEF EInv, ETypeOK, LeaderIsGone, Alive
<1> QED
  BY <1>1, <1>4, <1>5
  DEF EInv, NotStoppedYet, StopsSeeExit, SignalIsRemembered, CancelIsRemembered,
      StopIsTold, Registered

\* A stop under way ends in order, kills the group or is refused, and only the
\* first after an exit that was noticed.
LEMMA StoppingKeepsEInv ==
  ASSUME EInv, NEW s \in Stops, Grace(s) \/ StopReturns(s)
  PROVE  EInv'
<1> USE StopNames
<1>1. /\ UNCHANGED <<reach, holders, noticed, at, status, flagged, caller>>
      /\ stop[s] \in {"term", "kill"} /\ signalled[s] # "none"
  BY DEF Grace, StopReturns, EInv, SignalIsRemembered, invocation, group
<1>2. PICK next \in {"over", "kill", "denied"} :
        stop' = [stop EXCEPT ![s] = next] /\ (next = "over" => noticed)
  BY DEF Grace, StopReturns
<1>3. \/ UNCHANGED signalled
      \/ ~noticed /\ signalled' = [signalled EXCEPT ![s] = "kill"]
  BY DEF Grace, StopReturns
<1>4. /\ member' \in [Member -> MemberStates]
      /\ member[Leader] \in {"none", "dead"} => member'[Leader] = member[Leader]
  BY SignalEffect DEF Grace, StopReturns, EInv, ETypeOK, group, MemberStates
<1>5. /\ stop' \in [Stops -> StopStates] /\ stop'[s] = next
      /\ \A u \in Stops \ {s} : stop'[u] = stop[u]
  BY <1>2 DEF EInv, ETypeOK, StopStates
<1>6. /\ signalled' \in [Stops -> {"none", "term", "kill"}] /\ signalled'[s] # "none"
      /\ \A u \in Stops \ {s} : signalled'[u] = signalled[u]
  BY <1>1, <1>3 DEF EInv, ETypeOK
<1>7. at \notin {"start", "spawn"}
  BY <1>1 DEF EInv, NotStoppedYet
<1>8. ETypeOK' /\ LeaderIsTracked'
  BY <1>1, <1>4, <1>5, <1>6, <1>7
  DEF EInv, ETypeOK, LeaderIsTracked, Registered, StopStates, MemberStates
<1>9. LeaderIsGone' /\ StopIsTold'
  <2>1. \A u \in Stops : stop[u] \in {"denied", "cut"} => stop'[u] = stop[u]
    BY <1>1, <1>5
  <2>2. at = "returned" => status # "completed"
    BY <1>1 DEF EInv, StopIsTold
  <2>3. Alive(Leader)' => Alive(Leader)
    BY <1>4 DEF Alive, EInv, ETypeOK
  <2>4. LeaderIsGone'
    BY <1>1, <2>1, <2>3 DEF EInv, LeaderIsGone
  <2>5. StopIsTold'
    BY <1>1, <2>1, <2>2 DEF EInv, StopIsTold
  <2> QED
    BY <2>4, <2>5
<1>10. NotStoppedYet' /\ StopsSeeExit' /\ SignalIsRemembered'
  BY <1>1, <1>2, <1>5, <1>6, <1>7 DEF EInv, NotStoppedYet, StopsSeeExit, SignalIsRemembered
<1>11. CancelIsRemembered'
  BY <1>1, <1>5 DEF EInv, CancelIsRemembered, Registered
<1> QED
  BY <1>8, <1>9, <1>10, <1>11 DEF EInv

\* A stop that begins keeps the invariant, if what it changes besides fits its
\* place: the common part of OutputLimit, Timeout and Cancel.
LEMMA BeginStopKeepsEInv ==
  ASSUME EInv, at = "collect" \/ at = "stopping",
         NEW s \in Stops, NEW tasks, BeginStop(s, Abandoned(tasks)), stop[s] = "idle",
         UNCHANGED <<reach, holders, noticed, status>>,
         at' = "stopping" \/ (at' = at /\ s # "timeout"), flagged' \in BOOLEAN,
         s = "cancel" => tasks = {} /\ flagged' /\ caller' = "cancelling",
         s # "cancel" => "cancel" \notin tasks /\ UNCHANGED <<flagged, caller>>
  PROVE  EInv'
<1> USE StopNames
<1> DEFINE stops == Abandoned(tasks)
<1>1. /\ stops \in [Stops -> StopStates]
      /\ \A u \in Stops : \/ stops[u] = stop[u]
                          \/ /\ u \in tasks /\ stop[u] \in {"term", "kill"}
                             /\ stops[u] = "cut"
  BY AbandonedEffect DEF EInv
<1>2. BeginStop(s, stops)
  OBVIOUS
<1> HIDE DEF stops
<1>3. /\ stop' \in [Stops -> StopStates]
      /\ \A u \in Stops \ {s} : stop'[u] = stops[u] /\ signalled'[u] = signalled[u]
      /\ stop'[s] \in {"term", "kill", "over", "denied"}
      /\ stop'[s] = "over" => noticed
      /\ stop'[s] \in {"term", "kill"} => signalled'[s] # "none"
      /\ signalled' \in [Stops -> {"none", "term", "kill"}]
      /\ member' \in [Member -> MemberStates]
      /\ member[Leader] \in {"none", "dead"} => member'[Leader] = member[Leader]
  BY <1>1, <1>2, BeginStopEffect DEF EInv
<1>4. at' \in {"collect", "stopping"}
  OBVIOUS
<1>5. ETypeOK' /\ LeaderIsTracked'
  BY <1>3, <1>4
  DEF EInv, ETypeOK, LeaderIsTracked, Registered, StopStates, MemberStates
<1>6. NotStoppedYet'
  BY <1>1, <1>3, <1>4 DEF EInv, NotStoppedYet
<1>7. StopsSeeExit' /\ SignalIsRemembered'
  BY <1>1, <1>3 DEF EInv, StopsSeeExit, SignalIsRemembered
<1>8. CancelIsRemembered'
  BY <1>1, <1>3, <1>4 DEF EInv, CancelIsRemembered, Registered
<1>9. LeaderIsGone' /\ StopIsTold'
  BY <1>4 DEF LeaderIsGone, StopIsTold
<1> QED
  BY <1>5, <1>6, <1>7, <1>8, <1>9 DEF EInv

\* What invoke does keeps it; it leaves without a process, after the exit was
\* noticed, or because a stop was refused.
LEMMA InvokeKeepsEInv == EInv /\ Invoke => EInv'
<1> SUFFICES ASSUME EInv, Invoke PROVE EInv'
  OBVIOUS
<1> USE StopNames
<1>1. CASE NoProcess
  BY <1>1
  DEF NoProcess, Leave, group, EInv, ETypeOK, NotStoppedYet, StopsSeeExit, SignalIsRemembered,
      CancelIsRemembered, LeaderIsTracked, LeaderIsGone, StopIsTold, Registered, Alive
<1>2. CASE Spawn
  BY <1>2
  DEF Spawn, EInv, ETypeOK, NotStoppedYet, StopsSeeExit, SignalIsRemembered,
      CancelIsRemembered, LeaderIsTracked, LeaderIsGone, StopIsTold, Registered
<1>3. CASE Spawned
  BY <1>3
  DEF Spawned, group, EInv, ETypeOK, NotStoppedYet, StopsSeeExit, SignalIsRemembered,
      CancelIsRemembered, LeaderIsTracked, LeaderIsGone, StopIsTold, Registered
<1>4. CASE Collected
  <2>1. /\ UNCHANGED <<member, reach, holders, noticed, stop, signalled, caller>>
        /\ at = "collect" /\ noticed /\ at' = "returned" /\ flagged' = FALSE
        /\ status' \in Verdicts
    BY <1>4 DEF Collected, Leave, group
  <2>2. ~flagged => stop["cancel"] = "idle" /\ caller = "waiting"
    BY <2>1 DEF EInv, ETypeOK, CancelIsRemembered, Registered
  <2>3. status' = "completed" => \A s \in Stops : signalled[s] = "none"
    <3> SUFFICES ASSUME status' = "completed", NEW s \in Stops PROVE signalled[s] = "none"
      OBVIOUS
    <3>1. ~flagged /\ \A reader \in Readers : stop[reader] = "idle"
      BY <2>1 DEF Verdicts, Exceeded
    <3>2. stop["timeout"] = "idle"
      BY <2>1 DEF EInv, NotStoppedYet
    <3>3. stop[s] = "idle"
      BY <2>2, <3>1, <3>2 DEF Stops
    <3> QED
      BY <3>3 DEF EInv, SignalIsRemembered
  <2>4. /\ status' \in {"cancelled", "completed", "failed"}
        /\ flagged => status' = "cancelled"
    BY <2>1 DEF Verdicts
  <2>5. StopIsTold'
    BY <2>1, <2>2, <2>3, <2>4 DEF StopIsTold
  <2>6. LeaderIsGone'
    BY <2>1 DEF EInv, LeaderIsTracked, LeaderIsGone, Alive
  <2> QED
    BY <2>1, <2>4, <2>5, <2>6
    DEF EInv, ETypeOK, NotStoppedYet, StopsSeeExit, SignalIsRemembered, CancelIsRemembered,
        LeaderIsTracked, Registered
<1>5. CASE CollectFails
  <2>1. /\ UNCHANGED <<member, reach, holders, noticed, signalled, caller>>
        /\ at = "collect" /\ noticed /\ at' = "returned" /\ flagged' = FALSE
        /\ status' = "error" /\ stop' = Abandoned(Readers)
        /\ \E reader \in Readers : stop[reader] = "denied"
    BY <1>5 DEF CollectFails, Leave, group, Readers
  <2>2. /\ stop' \in [Stops -> StopStates]
        /\ \A u \in Stops : \/ stop'[u] = stop[u]
                            \/ /\ u \in Readers /\ stop[u] \in {"term", "kill"}
                               /\ stop'[u] = "cut"
    BY <2>1, AbandonedEffect DEF EInv
  <2>3. StopIsTold'
    BY <2>1, <2>2 DEF StopIsTold
  <2>4. LeaderIsGone'
    BY <2>1 DEF EInv, LeaderIsTracked, LeaderIsGone, Alive
  <2> QED
    BY <2>1, <2>2, <2>3, <2>4
    DEF EInv, ETypeOK, NotStoppedYet, StopsSeeExit, SignalIsRemembered, CancelIsRemembered,
        LeaderIsTracked, Registered, StopStates
<1>6. CASE Timeout
  BY <1>6, BeginStopKeepsEInv DEF Timeout, EInv, NotStoppedYet, ETypeOK
<1>7. CASE TimedOut
  <2>1. stop["timeout"] = "over" => noticed
    BY DEF EInv, StopsSeeExit
  <2>2. LeaderIsGone'
    BY <1>7, <2>1 DEF TimedOut, Leave, group, EInv, LeaderIsTracked, LeaderIsGone, Alive
  <2> QED
    BY <1>7, <2>2
    DEF TimedOut, Leave, group, EInv, ETypeOK, NotStoppedYet, StopsSeeExit,
        SignalIsRemembered, CancelIsRemembered, LeaderIsTracked, StopIsTold, Registered
<1>8. ASSUME NEW reader \in Readers, OutputLimit(reader)
      PROVE  EInv'
  <2>1. Abandoned({}) = stop
    BY DEF Abandoned, EInv, ETypeOK
  <2> QED
    BY <1>8, <2>1, BeginStopKeepsEInv DEF OutputLimit, invocation, EInv, ETypeOK
<1> QED
  BY <1>1, <1>2, <1>3, <1>4, <1>5, <1>6, <1>7, <1>8 DEF Invoke

\* The caller keeps it: a cancellation marks the key first, and leaves a process
\* that runs only if its own stop was refused or cut.
LEMMA CallerKeepsEInv == EInv /\ Caller => EInv'
<1> SUFFICES ASSUME EInv, Caller PROVE EInv'
  OBVIOUS
<1> USE StopNames
<1>1. CASE Cancel
  <2>1. Abandoned({}) = stop
    BY DEF Abandoned, EInv, ETypeOK
  <2>2. stop["cancel"] = "idle"
    BY <1>1 DEF Cancel, EInv, CancelIsRemembered
  <2> QED
    BY <1>1, <2>1, <2>2, BeginStopKeepsEInv DEF Cancel, Registered
<1>2. CASE CancelSpawn
  <2>1. /\ UNCHANGED <<reach, holders, noticed, signalled>>
        /\ at = "spawn" /\ at' = "returned" /\ status' = "interrupted" /\ flagged' = FALSE
        /\ caller = "waiting" /\ caller' = "gone"
        /\ \/ stop' = stop
           \/ stop' = [stop EXCEPT !["cancel"] = "denied"]
    BY <1>2 DEF CancelSpawn, Leave
  <2>2. stop' \in [Stops -> StopStates] /\ \A s \in Stops : stop'[s] \in {"idle", "denied"}
    BY <2>1 DEF EInv, ETypeOK, NotStoppedYet, StopStates
  <2>3. member' \in [Member -> MemberStates] /\ (noticed => member'[Leader] = "dead")
    BY <1>2 DEF CancelSpawn, EInv, ETypeOK, LeaderIsTracked, MemberStates
  <2>4. LeaderIsGone'
    BY <1>2, <2>1 DEF CancelSpawn, LeaderIsGone, Alive, EInv, ETypeOK
  <2>5. SignalIsRemembered'
    BY <2>1, <2>2 DEF EInv, NotStoppedYet, SignalIsRemembered
  <2>6. ETypeOK' /\ LeaderIsTracked'
    BY <2>1, <2>2, <2>3 DEF EInv, ETypeOK, LeaderIsTracked, Registered, StopStates, MemberStates
  <2> QED
    BY <2>1, <2>2, <2>4, <2>5, <2>6
    DEF EInv, NotStoppedYet, StopsSeeExit, SignalIsRemembered, CancelIsRemembered, StopIsTold,
        Registered
<1>3. CASE CancelReturns \/ LoopCloses
  <2>1. /\ UNCHANGED <<member, reach, holders, noticed, signalled>>
        /\ stop' = Abandoned(Stops) /\ at' = "returned" /\ flagged' = FALSE
        /\ caller \in {"cancelling", "again"} /\ caller' \in {"again", "gone"}
        /\ caller = "again" <=> caller' = "again"
        /\ IF at = "returned" THEN UNCHANGED status ELSE status' = "interrupted"
    BY <1>3 DEF CancelReturns, LoopCloses, Leave, group, invocation, EInv, ETypeOK, Registered
  <2>2. /\ stop' \in [Stops -> StopStates]
        /\ \A u \in Stops : \/ stop'[u] = stop[u] /\ stop[u] \notin {"term", "kill"}
                            \/ stop[u] \in {"term", "kill"} /\ stop'[u] = "cut"
    BY <2>1 DEF Abandoned, EInv, ETypeOK, StopStates
  <2>3. stop'["cancel"] \in {"over", "denied", "cut"}
    BY <2>1, <2>2 DEF EInv, CancelIsRemembered, StopStates
  <2>4. LeaderIsGone'
    <3>1. stop'["cancel"] = "over" => ~Alive(Leader)
      BY <2>2 DEF EInv, StopsSeeExit, LeaderIsTracked, Alive
    <3>2. CASE at = "returned"
      BY <2>1, <2>2, <3>2 DEF EInv, LeaderIsGone, Alive
    <3>3. CASE at # "returned"
      BY <2>1, <2>3, <3>1, <3>3 DEF LeaderIsGone, Alive
    <3> QED
      BY <3>2, <3>3
  <2>5. StopIsTold'
    <3>1. CASE at = "returned"
      BY <2>1, <2>2, <3>1 DEF EInv, StopIsTold
    <3>2. CASE at # "returned"
      BY <2>1, <3>2 DEF StopIsTold
    <3> QED
      BY <3>1, <3>2
  <2>6. ETypeOK' /\ LeaderIsTracked'
    BY <2>1, <2>2 DEF EInv, ETypeOK, LeaderIsTracked, Registered, StopStates
  <2>7. StopsSeeExit' /\ SignalIsRemembered'
    BY <2>1, <2>2 DEF EInv, StopsSeeExit, SignalIsRemembered
  <2> QED
    BY <2>1, <2>3, <2>4, <2>5, <2>6, <2>7
    DEF EInv, NotStoppedYet, CancelIsRemembered, Registered
<1>4. CASE CancelledAgain
  <2>1. /\ UNCHANGED <<member, reach, holders, noticed, signalled, at, status, flagged>>
        /\ stop' = Abandoned({"cancel"}) /\ stop["cancel"] \in {"term", "kill"}
        /\ caller = "cancelling" /\ caller' = "again"
    BY <1>4 DEF CancelledAgain, group, invocation
  <2>2. /\ stop' \in [Stops -> StopStates] /\ stop'["cancel"] = "cut"
        /\ \A u \in Stops \ {"cancel"} : stop'[u] = stop[u]
    BY <2>1 DEF Abandoned, EInv, ETypeOK, StopStates
  <2>3. LeaderIsGone'
    BY <2>1, <2>2 DEF EInv, LeaderIsGone, Alive
  <2>4. StopIsTold'
    BY <2>1, <2>2 DEF EInv, StopIsTold
  <2>5. NotStoppedYet' /\ CancelIsRemembered'
    BY <2>1, <2>2 DEF EInv, NotStoppedYet, CancelIsRemembered, Registered
  <2> QED
    BY <2>1, <2>2, <2>3, <2>4, <2>5
    DEF EInv, ETypeOK, StopsSeeExit, SignalIsRemembered, LeaderIsTracked, Registered, StopStates
<1> QED
  BY <1>1, <1>2, <1>3, <1>4 DEF Caller

\* Every step of the system keeps the invariant.
LEMMA NextKeepsEInv == EInv /\ [Next]_vars => EInv'
<1> SUFFICES ASSUME EInv, [Next]_vars PROVE EInv'
  OBVIOUS
<1>1. CASE UNCHANGED vars
  BY <1>1
  DEF vars, group, invocation, EInv, ETypeOK, NotStoppedYet, StopsSeeExit,
      SignalIsRemembered, CancelIsRemembered, LeaderIsTracked, LeaderIsGone,
      StopIsTold, Registered, Alive
<1>2. CASE Next
  BY <1>2, GroupKeepsEInv, StoppingKeepsEInv, InvokeKeepsEInv, CallerKeepsEInv
  DEF Next, Stopping
<1> QED
  BY <1>1, <1>2

\* Initially nothing is spawned and nobody stops anything.
LEMMA InitEInv == Init => EInv
<1> USE StopNames
<1>1. ASSUME Init PROVE ETypeOK
  <2>1. member \in [Member -> MemberStates] /\ reach \in [Member -> {"open", "guarded", "left"}]
    BY <1>1 DEF Init, MemberStates
  <2>2. stop \in [Stops -> StopStates] /\ signalled \in [Stops -> {"none", "term", "kill"}]
    BY <1>1 DEF Init, StopStates
  <2>3. reach[Leader] # "left"
    BY <1>1 DEF Init
  <2> QED
    BY <1>1, <2>1, <2>2, <2>3 DEF Init, ETypeOK, MemberStates, StopStates
<1>2. Init => NotStoppedYet /\ StopsSeeExit /\ SignalIsRemembered /\ CancelIsRemembered
  BY DEF Init, NotStoppedYet, StopsSeeExit, SignalIsRemembered, CancelIsRemembered, Registered
<1>3. Init => LeaderIsTracked /\ LeaderIsGone /\ StopIsTold
  BY DEF Init, LeaderIsTracked, LeaderIsGone, StopIsTold
<1> QED
  BY <1>1, <1>2, <1>3 DEF EInv

-----------------------------------------------------------------------------
(***************************************************************************)
(* The theorems.                                                            *)
(***************************************************************************)
\* Whatever group the process has forked and however the stops interleave, invoke
\* leaves the process it spawned running only after the stop that it or its
\* caller was waiting for was refused, or after the caller's stop was cut.
THEOREM LeaderExits == Spec => []LeaderIsGone
<1>1. EInv => LeaderIsGone
  BY DEF EInv
<1> QED
  BY <1>1, InitEInv, NextKeepsEInv, PTL DEF Spec

\* A stopped process is never reported as completed and a cancelled one never
\* as failed, whoever stopped it, and only a refused stop makes invoke raise an
\* error of its own.
THEOREM StopsAreTold == Spec => []StopIsTold
<1>1. EInv => StopIsTold
  BY DEF EInv
<1> QED
  BY <1>1, InitEInv, NextKeepsEInv, PTL DEF Spec

\* No stop signals a group whose leader's exit was noticed.
THEOREM NothingSignalledLate == Spec => NoLateSignal
<1>1. EInv /\ [Next]_vars => [noticed => UNCHANGED signalled]_vars
  <2> SUFFICES ASSUME EInv, Next, noticed PROVE UNCHANGED signalled
    BY DEF vars, group, invocation
  <2>1. CASE \E s \in Stops : Grace(s) \/ StopReturns(s)
    BY <2>1 DEF Grace, StopReturns
  <2>2. CASE Invoke
    BY <2>2
    DEF Invoke, NoProcess, Spawn, Spawned, Collected, CollectFails, Timeout,
        TimedOut, OutputLimit, BeginStop
  <2>3. CASE Caller
    BY <2>3
    DEF Caller, Cancel, CancelSpawn, CancelReturns, CancelledAgain, LoopCloses, BeginStop
  <2>4. CASE \/ \E c \in Child : Fork(c) \/ LeaveGroup(c)
             \/ \E m \in Member : Exit(m) \/ ClosePipes(m) \/ ChangeUser(m)
             \/ Notice
    BY <2>4 DEF Fork, LeaveGroup, Exit, ClosePipes, ChangeUser, Notice
  <2> QED
    BY <2>1, <2>2, <2>3, <2>4 DEF Next, Stopping
<1> QED
  BY <1>1, InitEInv, NextKeepsEInv, PTL DEF Spec, NoLateSignal

=============================================================================
