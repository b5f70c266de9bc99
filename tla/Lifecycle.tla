----------------------------- MODULE Lifecycle -----------------------------
(***************************************************************************)
(* The lifecycle guards of anban/core/lifecycle.py.  The four record kinds  *)
(* (Task, ExecutionRun, NodeRun, CapabilityInvocation) share one topology;  *)
(* only the name of the initial state differs.                              *)
(***************************************************************************)

Initial  == {"created", "requested"}
Terminal == {"succeeded", "failed", "cancelled", "timed_out"}
Status   == Initial \cup {"running"} \cup Terminal

\* The row does not exist.
Absent == "absent"

Transitions ==
  [s \in Status |-> IF s \in Initial THEN {"running"}
                    ELSE IF s = "running" THEN Terminal
                    ELSE {}]

\* _ensure_transition: raises InvalidTransitionError unless this holds.
EnsureTransition(current, target) == target \in Transitions[current]

\* The same topology including the creation of the row.
Follows(current, target) ==
  IF current = Absent THEN target \in Initial
                      ELSE EnsureTransition(current, target)

=============================================================================
