-------------------------- MODULE ProcessExecute ---------------------------
(***************************************************************************)
(* ProcessCapability (anban/capability/process.py): one invocation of       *)
(* process.execute, with the process group it starts.  invoke waits for the *)
(* output, the two readers stop the group at their limit, the timeout stops *)
(* it, and the caller cancels it: up to four _stop_process calls that       *)
(* interleave at their awaits.                                              *)
(*   The group is the environment: its members fork, exit, keep or close    *)
(* the pipes, answer SIGTERM when they like, run under another user, where  *)
(* no signal of ours reaches them, and leave the group.  asyncio sets       *)
(* returncode some time after the leader exited, and process.wait() returns *)
(* then or, on some 3.12 releases, only once the pipes are closed as well.  *)
(***************************************************************************)
CONSTANTS
  Leader,  \* the process that invoke spawns, leader of its session and group
  Child    \* bound: the processes that the group can fork

ASSUME ProcessAssumption == Leader \notin Child

VARIABLES
  member,     \* each process of the group: "none", "running", "termed", "dead"
  reach,      \* each process: "open" to signals, "guarded" or "left" the group
  holders,    \* processes that have inherited the pipes and not closed them
  noticed,    \* process.returncode is not None
  stop,       \* each _stop_process call: "idle", "term", "kill"; "over",
              \* "denied" (it raised) or "cut" (cancelled) once it has ended
  signalled,  \* the last signal that each stop tried to send (history)
  at,         \* where invoke is
  status,     \* CapabilityResult.status; if invoke raises "refused", "error"
              \* or "interrupted"
  flagged,    \* the key is in _cancelled
  caller      \* "waiting", "cancelling", "again" (cancelled there) or "gone"

group == <<member, reach, holders, noticed>>
invocation == <<at, status, flagged>>
vars == <<group, stop, signalled, invocation, caller>>

Member == Child \cup {Leader}
Readers == {"stdout", "stderr"}
Stops == Readers \cup {"timeout", "cancel"}

Alive(m) == member[m] \in {"running", "termed"}

\* Somebody can still write to the pipes, so the readers see no end of file.
PipesOpen == \E m \in holders : Alive(m)

\* The key is in _processes.
Registered == at \in {"collect", "stopping"}

Init ==
  /\ member = [m \in Member |-> "none"] /\ reach = [m \in Member |-> "open"]
  /\ holders = {} /\ noticed = FALSE
  /\ stop = [s \in Stops |-> "idle"] /\ signalled = [s \in Stops |-> "none"]
  /\ at = "start" /\ status = "none" /\ flagged = FALSE /\ caller = "waiting"

-----------------------------------------------------------------------------
(***************************************************************************)
(* The process group.                                                       *)
(***************************************************************************)
Fork(c) ==
  /\ member[c] = "none"
  /\ \E parent \in Member :
       /\ Alive(parent) /\ reach' = [reach EXCEPT ![c] = reach[parent]]
       /\ UNCHANGED holders \/ (parent \in holders /\ holders' = holders \cup {c})
  /\ member' = [member EXCEPT ![c] = "running"]
  /\ UNCHANGED <<noticed, stop, signalled, invocation, caller>>

Exit(m) ==
  /\ Alive(m)
  /\ member' = [member EXCEPT ![m] = "dead"]
  /\ UNCHANGED <<reach, holders, noticed, stop, signalled, invocation, caller>>

ClosePipes(m) ==
  /\ Alive(m) /\ m \in holders
  /\ holders' = holders \ {m}
  /\ UNCHANGED <<member, reach, noticed, stop, signalled, invocation, caller>>

\* A program of another user that the process runs, as sudo does, and its end.
ChangeUser(m) ==
  /\ Alive(m) /\ reach[m] # "left"
  /\ reach' = [reach EXCEPT ![m] = IF @ = "open" THEN "guarded" ELSE "open"]
  /\ UNCHANGED <<member, holders, noticed, stop, signalled, invocation, caller>>

\* setsid, which the leader of a session cannot call.
LeaveGroup(c) ==
  /\ Alive(c) /\ reach[c] # "left"
  /\ reach' = [reach EXCEPT ![c] = "left"]
  /\ UNCHANGED <<member, holders, noticed, stop, signalled, invocation, caller>>

Notice ==
  /\ ~noticed /\ member[Leader] = "dead"
  /\ noticed' = TRUE
  /\ UNCHANGED <<member, reach, holders, stop, signalled, invocation, caller>>

-----------------------------------------------------------------------------
(***************************************************************************)
(* The system calls on the group.                                           *)
(***************************************************************************)
\* The processes that a killpg can find: the members that run and those of the
\* dead that nobody has waited for yet.
Found(unreaped) ==
  {m \in Member : reach[m] # "left" /\ (Alive(m) \/ (m \in unreaped /\ member[m] = "dead"))}

\* killpg succeeds if it reaches one of them, and raises ProcessLookupError if
\* there are none and PermissionError if it may not signal any.
Answers ==
  {IF Found(unreaped) = {} THEN "gone"
   ELSE IF \E m \in Found(unreaped) : reach[m] = "open" THEN "sent" ELSE "denied" :
     unreaped \in SUBSET Member}

Terminated ==
  [m \in Member |-> IF member[m] = "running" /\ reach[m] = "open" THEN "termed" ELSE member[m]]

Killed == [m \in Member |-> IF Alive(m) /\ reach[m] = "open" THEN "dead" ELSE member[m]]

-----------------------------------------------------------------------------
(***************************************************************************)
(* _stop_process.                                                           *)
(***************************************************************************)
\* Up to the first await, from the state "stops" of the calls.  After a
\* ProcessLookupError SIGKILL is tried at once; a PermissionError is raised.
BeginStop(s, stops) ==
  IF noticed
    THEN stop' = [stops EXCEPT ![s] = "over"] /\ UNCHANGED <<member, signalled>>
    ELSE /\ \/ /\ "sent" \in Answers
               /\ stop' = [stops EXCEPT ![s] = "term"]
               /\ signalled' = [signalled EXCEPT ![s] = "term"]
            \/ /\ "gone" \in Answers
               /\ stop' = [stops EXCEPT ![s] = "kill"]
               /\ signalled' = [signalled EXCEPT ![s] = "kill"]
            \/ /\ "denied" \in Answers
               /\ stop' = [stops EXCEPT ![s] = "denied"]
               /\ signalled' = [signalled EXCEPT ![s] = "term"]
         /\ member' = Terminated

\* process.wait() returns.
StopReturns(s) ==
  /\ stop[s] \in {"term", "kill"} /\ noticed
  /\ stop' = [stop EXCEPT ![s] = "over"]
  /\ UNCHANGED <<group, signalled, invocation, caller>>

\* Mutants: the group gets a second SIGTERM; nothing at all; the return code
\* is not looked at again.
GraceAgain(s) ==
  /\ stop[s] = "term" /\ ~noticed
  /\ UNCHANGED vars

GraceForgotten(s) ==
  /\ stop[s] = "term"
  /\ stop' = [stop EXCEPT ![s] = "over"]
  /\ UNCHANGED <<group, signalled, invocation, caller>>

GraceUnchecked(s) ==
  /\ stop[s] = "term"
  /\ stop' = [stop EXCEPT ![s] = "kill"]
  /\ signalled' = [signalled EXCEPT ![s] = "kill"] /\ member' = Killed
  /\ UNCHANGED <<reach, holders, noticed, invocation, caller>>

\* One second after SIGTERM process.wait() has not returned.
Grace(s) ==
  /\ stop[s] = "term"
  /\ \/ /\ noticed
        /\ stop' = [stop EXCEPT ![s] = "over"] /\ UNCHANGED <<member, signalled>>
     \/ /\ ~noticed
        /\ \/ Answers # {"denied"} /\ stop' = [stop EXCEPT ![s] = "kill"]
           \/ "denied" \in Answers /\ stop' = [stop EXCEPT ![s] = "denied"]
        /\ signalled' = [signalled EXCEPT ![s] = "kill"] /\ member' = Killed
  /\ UNCHANGED <<reach, holders, noticed, invocation, caller>>

\* The stops of tasks that are cancelled end where they are.
Abandoned(tasks) ==
  [s \in Stops |-> IF s \in tasks /\ stop[s] \in {"term", "kill"} THEN "cut" ELSE stop[s]]

-----------------------------------------------------------------------------
(***************************************************************************)
(* ProcessCapability.invoke.                                                *)
(***************************************************************************)
\* The return or the exception, with the finally clause.
Leave(result) == at' = "returned" /\ status' = result /\ flagged' = FALSE

\* Refused arguments, a deadline that is over, a failing spawn.
NoProcess ==
  /\ at = "start"
  /\ \E result \in {"refused", "timed_out", "failed"} : Leave(result)
  /\ UNCHANGED <<group, stop, signalled, caller>>

Spawn ==
  /\ at = "start" /\ at' = "spawn"
  /\ member' = [member EXCEPT ![Leader] = "running"] /\ holders' = {Leader}
  /\ UNCHANGED <<reach, noticed, stop, signalled, status, flagged, caller>>

Spawned ==
  /\ at = "spawn" /\ at' = "collect"
  /\ UNCHANGED <<group, stop, signalled, status, flagged, caller>>

\* _read_stream, also for what is left in a pipe that nobody holds any more.
OutputLimit(reader) ==
  /\ at = "collect" /\ stop[reader] = "idle"
  /\ BeginStop(reader, stop)
  /\ UNCHANGED <<reach, holders, noticed, invocation, caller>>

Exceeded == \E reader \in Readers : stop[reader] # "idle"

\* Mutant: only the exit code decides.
VerdictsByExitCode == {"completed", "failed"}

\* In the order of the code: cancelled, output_limit, then the output, the exit
\* code and the Artifacts.
Verdicts ==
  IF flagged THEN {"cancelled"} ELSE IF Exceeded THEN {"failed"} ELSE {"completed", "failed"}

\* _collect_output returns; no await follows.
Collected ==
  /\ at = "collect" /\ noticed /\ ~PipesOpen
  /\ \A reader \in Readers : stop[reader] \in {"idle", "over"}
  /\ \E result \in Verdicts : Leave(result)
  /\ UNCHANGED <<group, stop, signalled, caller>>

\* A reader whose stop was denied has raised; the readers are waited for after
\* the process, stdout before stderr.
CollectFails ==
  /\ at = "collect" /\ noticed
  /\ \/ stop["stdout"] = "denied"
     \/ stop["stderr"] = "denied" /\ stop["stdout"] \in {"idle", "over"}
  /\ stop' = Abandoned(Readers) /\ Leave("error")
  /\ UNCHANGED <<group, signalled, caller>>

\* wait_for cancels _collect_output, which cancels the readers.
Timeout ==
  /\ at = "collect" /\ at' = "stopping"
  /\ BeginStop("timeout", Abandoned(Readers))
  /\ UNCHANGED <<reach, holders, noticed, status, flagged, caller>>

TimedOut ==
  /\ at = "stopping"
  /\ \/ stop["timeout"] = "over" /\ Leave("timed_out")
     \/ stop["timeout"] = "denied" /\ Leave("error")
  /\ UNCHANGED <<group, stop, signalled, caller>>

-----------------------------------------------------------------------------
(***************************************************************************)
(* The caller: the deadline or an interrupt of the Run.  The agent cancels  *)
(* through the Registry, for two seconds, and then the task of the          *)
(* invocation; a second cancellation makes it leave without doing that.     *)
(***************************************************************************)
Cancel ==
  /\ caller = "waiting" /\ Registered
  /\ caller' = "cancelling" /\ flagged' = TRUE
  /\ BeginStop("cancel", stop)
  /\ UNCHANGED <<reach, holders, noticed, at, status>>

\* Nothing is registered yet: cancel does nothing, and the CancelledError makes
\* asyncio kill the leader, which passes over a PermissionError.
CancelSpawn ==
  /\ caller = "waiting" /\ at = "spawn"
  /\ caller' = "gone" /\ Leave("interrupted")
  /\ \/ /\ reach[Leader] = "open" \/ ~Alive(Leader)
        /\ member' = [member EXCEPT ![Leader] = "dead"] /\ UNCHANGED stop
     \/ /\ reach[Leader] = "guarded" /\ Alive(Leader)
        /\ stop' = [stop EXCEPT !["cancel"] = "denied"] /\ UNCHANGED member
  /\ UNCHANGED <<reach, holders, noticed, signalled>>

\* cancel has ended, or two seconds are over and wait_for cuts it; an invocation
\* that has not returned gets a CancelledError.
CancelReturns ==
  /\ caller = "cancelling" /\ caller' = "gone"
  /\ stop' = Abandoned(Stops)
  /\ IF at = "returned" THEN UNCHANGED invocation ELSE Leave("interrupted")
  /\ UNCHANGED <<group, signalled>>

\* A second interrupt, or the deadline after an interrupt, while cancel waits:
\* the invocation goes on with nobody waiting for it.
CancelledAgain ==
  /\ caller = "cancelling" /\ stop["cancel"] \in {"term", "kill"}
  /\ caller' = "again" /\ stop' = Abandoned({"cancel"})
  /\ UNCHANGED <<group, signalled, invocation>>

\* asyncio.run cancels the tasks that are left when the command ends.
LoopCloses ==
  /\ caller = "again" /\ at # "returned"
  /\ stop' = Abandoned(Stops) /\ Leave("interrupted")
  /\ UNCHANGED <<group, signalled, caller>>

Invoke ==
  \/ NoProcess \/ Spawn \/ Spawned \/ Collected \/ CollectFails \/ Timeout \/ TimedOut
  \/ \E reader \in Readers : OutputLimit(reader)

Stopping == \E s \in Stops : Grace(s) \/ StopReturns(s)

Caller == Cancel \/ CancelSpawn \/ CancelReturns \/ CancelledAgain \/ LoopCloses

Next ==
  \/ \E c \in Child : Fork(c) \/ LeaveGroup(c)
  \/ \E m \in Member : Exit(m) \/ ClosePipes(m) \/ ChangeUser(m)
  \/ Notice \/ Stopping \/ Invoke \/ Caller

\* Timers fire, spawning ends, asyncio notices an exit and process.wait()
\* returns at the latest when the pipes are closed.  Nothing is assumed of the
\* processes, nor that the output is ever collected.
Fairness ==
  /\ WF_vars(NoProcess \/ Spawn) /\ WF_vars(Spawned)
  /\ WF_vars(Timeout) /\ WF_vars(TimedOut) /\ WF_vars(Notice) /\ WF_vars(CancelReturns)
  /\ \A s \in Stops : WF_vars(Grace(s)) /\ WF_vars(~PipesOpen /\ StopReturns(s))

Spec == Init /\ [][Next]_vars /\ Fairness

-----------------------------------------------------------------------------
(***************************************************************************)
(* Properties.                                                              *)
(***************************************************************************)
\* Types; a key is marked as cancelled only while its process is registered.
ETypeOK ==
  /\ member \in [Member -> {"none", "running", "termed", "dead"}]
  /\ reach \in [Member -> {"open", "guarded", "left"}] /\ reach[Leader] # "left"
  /\ holders \subseteq Member /\ noticed \in BOOLEAN
  /\ stop \in [Stops -> {"idle", "term", "kill", "over", "denied", "cut"}]
  /\ signalled \in [Stops -> {"none", "term", "kill"}]
  /\ at \in {"start", "spawn", "collect", "stopping", "returned"}
  /\ status \in {"none", "refused", "interrupted", "error", "completed", "failed",
                 "timed_out", "cancelled"}
  /\ caller \in {"waiting", "cancelling", "again", "gone"}
  /\ flagged \in BOOLEAN /\ (flagged => Registered)

\* invoke leaves the process it spawned running in two cases only: the operating
\* system has refused the signal of the very stop that invoke or its caller was
\* waiting for, and then it raises; or the caller's own stop was cut, by its
\* limit of two seconds or by a second cancellation, and then the Run ends.  In
\* every other ending, with a result or without, whichever of the four stops were
\* under way and whatever the process makes of SIGTERM, the process has exited.
LeaderIsGone ==
  at = "returned" /\ Alive(Leader) =>
    \/ status = "error" /\ stop["timeout"] = "denied"
    \/ status = "interrupted" /\ stop["cancel"] \in {"denied", "cut"}

\* A process that was stopped is never reported as completed, although it may
\* have exited with code 0; one whose cancellation was accepted is reported as
\* neither completed nor failed; and invoke raises an error of its own only when
\* a stop was refused.
StopIsTold ==
  at = "returned" =>
    /\ (\E s \in Stops : signalled[s] # "none") => status # "completed"
    /\ caller # "waiting" => status \in {"cancelled", "timed_out", "interrupted", "error"}
    /\ status = "error" => \E s \in Stops : stop[s] = "denied"

\* No stop sends a signal once the exit was noticed, when the identity of the
\* group may belong to somebody else: it looks at returncode again before each.
NoLateSignal == [][noticed => UNCHANGED signalled]_vars

\* Every process of the group that runs can be signalled.
Reachable == \A m \in Member : Alive(m) => reach[m] = "open"

\* invoke ends even if a process ignores SIGTERM, or keeps the pipes open after
\* the leader has exited, as long as the group can be signalled.  If it cannot,
\* invoke ends at the latest when its caller cancels it and stays to the end.
InvokeEnds ==
  \/ []Reachable \/ (<>(caller = "cancelling") /\ [](caller # "again"))
  => <>(at = "returned")

\* tests/capability/test_process_capability.py:249:
\* "test_timeout_terminates_the_process_group".  After a timeout no member of
\* the group whose output invoke was waiting for runs on without ever having
\* been asked to stop, if it could be asked.
GroupIsTerminated ==
  at = "returned" /\ status = "timed_out" =>
    \A m \in holders : reach[m] = "open" => member[m] # "running"

=============================================================================
