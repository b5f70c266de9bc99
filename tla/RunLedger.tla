----------------------------- MODULE RunLedger -----------------------------
(***************************************************************************)
(* What the persistence of one Run promises, with no sequence counter, no   *)
(* transaction and no failure in sight: an append-only ledger of facts and  *)
(* a table of record states that change in one step.  A record moves along  *)
(* the lifecycle only, and every move is told by a fact of the same batch,  *)
(* so the table can always be rebuilt from the ledger.                      *)
(***************************************************************************)
EXTENDS Lifecycle, Integers, Sequences

CONSTANT Record     \* the Task, the Run, its NodeRuns and its Invocations

VARIABLES ledger,   \* the facts committed so far, in order
          status    \* the state of every record

vars == <<ledger, status>>

Init ==
  /\ ledger = <<>>
  /\ status = [r \in Record |-> Absent]

\* Fact n of ledger l tells a lifecycle move of r.
Tells(l, n, r) == l[n].on = r /\ l[n].is \in Status

\* The numbers of the facts that the step adds.
Added == Len(ledger) + 1 .. Len(ledger')

Untouched(r) ==
  /\ \A n \in Added : ~Tells(ledger', n, r)
  /\ status'[r] = status[r]

\* One move, told once.
Moves(r) ==
  \E n \in Added :
    /\ Tells(ledger', n, r)
    /\ \A m \in Added : Tells(ledger', m, r) => m = n
    /\ status'[r] = ledger'[n].is
    /\ Follows(status[r], status'[r])

\* A record created and set running by the same batch.
Launches(r) ==
  \E n \in Added :
    /\ n + 1 \in Added
    /\ Tells(ledger', n, r) /\ ledger'[n].is \in Initial
    /\ Tells(ledger', n + 1, r) /\ ledger'[n + 1].is = "running"
    /\ \A m \in Added : Tells(ledger', m, r) => m \in {n, n + 1}
    /\ status[r] = Absent /\ status'[r] = "running"

Commit ==
  /\ Len(ledger') > Len(ledger)
  /\ \A n \in 1 .. Len(ledger) : ledger'[n] = ledger[n]
  /\ \A r \in Record : Untouched(r) \/ Moves(r) \/ Launches(r)

Spec == Init /\ [][Commit]_vars

=============================================================================
