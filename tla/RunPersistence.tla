-------------------------- MODULE RunPersistence ---------------------------
(***************************************************************************)
(* RunPersistence (anban/runtime/persistence.py) over the SQLAlchemy unit   *)
(* of work, for the records of one Run.  A method call is one step that     *)
(* ends in one of three ways:                                               *)
(*   "ok"         the transaction committed and the call returned;          *)
(*   "error"      the call raised AnbanError: a guard, a key or a foreign   *)
(*                key refused it, or the database failed before, during or  *)
(*                after the commit;                                         *)
(*   "cancelled"  CancelledError went through the call, which skips the     *)
(*                resynchronisation of the sequence counter.                *)
(* Modules that compose the Runtime take these actions as they are.         *)
(***************************************************************************)
EXTENDS Lifecycle, Integers, Sequences, FiniteSets

CONSTANTS
  Task, Run,     \* the one Task and the one ExecutionRun
  Node,          \* NodeRun identities
  FirstNode,     \* the NodeRun the Run is created with
  Invocation,    \* CapabilityInvocation identities
  Artifact,      \* Artifact identities
  LateCommit,    \* TRUE: a commit whose acknowledgement was lost may still be
                 \* undecided while later reads see the database without it
  Outcomes,      \* bound: the terminal states that callers ask for
  MaxArtifacts,  \* capability.process.max_artifacts: snapshots per Invocation
  MaxFaults,     \* bound: failing database calls
  MaxEvents      \* bound: model events are written below this log length

Record == {Task, Run} \cup Node \cup Invocation

ASSUME ConstantsAssumption ==
  /\ Task # Run
  /\ {Task, Run} \cap (Node \cup Invocation \cup Artifact) = {}
  /\ Node \cap (Invocation \cup Artifact) = {}
  /\ Invocation \cap Artifact = {}
  /\ FirstNode \in Node
  /\ LateCommit \in BOOLEAN
  /\ Outcomes \subseteq Terminal
  /\ MaxArtifacts \in Nat /\ MaxFaults \in Nat /\ MaxEvents \in Nat

VARIABLES
  db,        \* durable rows: record states, Artifact rows, numbered Events
  seq,       \* RunPersistence._sequence
  node,      \* RunPersistence.node, the active NodeRun
  inDoubt,   \* at most one database state that an undecided commit would give
  faults     \* failing database calls so far (bound only)

pvars == <<db, seq, node, inDoubt, faults>>

Ends == {"ok", "error", "cancelled"}

ModelFact == {"model.requested", "model.repair_requested", "model.completed",
              "model.repair_completed", "model.failed",
              "model.response_invalid", "model.repair_failed"}
OtherFact == {"skill.activated", "artifact.created", "run.final", "run.error"}

\* An Event row without its number: its subject, what it says and the counts
\* among its metadata.  A lifecycle event says the state that was reached
\* (capability.completed says "succeeded", *.started says "running").
Fact == [on : Record \cup Artifact, is : Status \cup ModelFact \cup OtherFact,
         counts : Seq(Nat)]

\* The Artifact references of one CapabilityResult: distinct, in order.
Elements(s) == {s[k] : k \in DOMAIN s}
Snapshots ==
  UNION {{s \in [1 .. n -> Artifact] : \A j, k \in 1 .. n : s[j] = s[k] => j = k} :
         n \in 0 .. MaxArtifacts}

ArtifactRow == [id : Artifact, invocation : Invocation]

Tells(fact, r, s) == fact.on = r /\ fact.is = s

\* Mutant: the resynchronisation reads the last number minus one.
LastNumberOffByOne(d) == Cardinality(DOMAIN d.events) - 1

LastNumber(d) ==
  CHOOSE n \in DOMAIN d.events \cup {0} : \A m \in DOMAIN d.events : m <= n

PInit ==
  /\ db = [status    |-> [r \in Record |-> Absent],
           artifacts |-> {},
           events    |-> <<>>]
  /\ seq = 0
  /\ node = FirstNode
  /\ inDoubt = {}
  /\ faults = 0

-----------------------------------------------------------------------------
(***************************************************************************)
(* Transactions.                                                            *)
(*   add        records inserted                                            *)
(*   set        the state each touched record has at the end                *)
(*   needs      records its foreign keys refer to                           *)
(*   artifacts  Artifact rows inserted                                      *)
(*   facts      the Events, still without numbers                           *)
(***************************************************************************)
Each(S, s) == [r \in S |-> s]
Says(r, s) == [on |-> r, is |-> s, counts |-> <<>>]

NoRows == [add |-> {}, set |-> Each({}, Absent), needs |-> {},
           artifacts |-> {}, facts |-> <<>>]

\* RunPersistence._event numbers the facts from the local counter.
Numbers(tx) == seq + 1 .. seq + Len(tx.facts)

\* Mutant: no lifecycle guard.
AcceptedUnguarded(tx) ==
  /\ \A r \in tx.add : db.status[r] = Absent
  /\ \A r \in DOMAIN tx.set \ tx.add : db.status[r] # Absent
  /\ \A r \in tx.needs : db.status[r] # Absent
  /\ \A a \in tx.artifacts, b \in db.artifacts : a.id # b.id
  /\ Numbers(tx) \cap DOMAIN db.events = {}

\* The primary keys, foreign keys, lifecycle guards and the unique
\* (run_id, sequence) index all let the transaction through.
Accepted(tx) ==
  /\ \A r \in tx.add : db.status[r] = Absent
  /\ \A r \in DOMAIN tx.set \ tx.add :
       db.status[r] # Absent /\ EnsureTransition(db.status[r], tx.set[r])
  /\ \A r \in tx.needs : db.status[r] # Absent
  /\ \A a \in tx.artifacts, b \in db.artifacts : a.id # b.id
  /\ Numbers(tx) \cap DOMAIN db.events = {}

After(tx) ==
  [status    |-> [r \in Record |-> IF r \in DOMAIN tx.set THEN tx.set[r]
                                                         ELSE db.status[r]],
   artifacts |-> db.artifacts \cup tx.artifacts,
   events    |-> [n \in DOMAIN db.events \cup Numbers(tx) |->
                    IF n \in Numbers(tx) THEN tx.facts[n - seq]
                                         ELSE db.events[n]]]

\* Mutant: the counter takes the next free number instead of the last one.
ResyncToNext(d, spent) ==
  /\ \/ seq' = LastNumber(d) + 1 /\ faults' = faults + spent
     \/ seq' = seq /\ faults' = faults + spent + 1
  /\ faults' <= MaxFaults

\* _resync_sequence reads the last number of database state d; a failing
\* read is silently ignored.
Resync(d, spent) ==
  /\ \/ seq' = LastNumber(d) /\ faults' = faults + spent
     \/ seq' = seq /\ faults' = faults + spent + 1
  /\ faults' <= MaxFaults

\* What a transaction whose commit was not acknowledged leaves behind.
RolledBack      == db' = db /\ inDoubt' = {}
CommittedAnyway(tx) == Accepted(tx) /\ db' = After(tx) /\ inDoubt' = {}
Undecided(tx)   == LateCommit /\ Accepted(tx) /\ db' = db /\ inDoubt' = {After(tx)}

WriteDecided(tx, end) ==
  /\ inDoubt = {}
  /\ \/ /\ end = "ok" /\ Accepted(tx)
        /\ db' = After(tx)
        /\ seq' = seq + Len(tx.facts)
        /\ UNCHANGED <<inDoubt, faults>>
     \/ /\ end = "error" /\ ~Accepted(tx)
        /\ RolledBack
        /\ Resync(db, 0)
     \/ /\ end = "error"
        /\ RolledBack \/ CommittedAnyway(tx) \/ Undecided(tx)
        /\ Resync(db', 1)
     \/ /\ end = "cancelled"
        /\ RolledBack \/ CommittedAnyway(tx) \/ Undecided(tx)
        /\ UNCHANGED <<seq, faults>>

\* While a commit is undecided its row locks and its index entries make every
\* other write of the Run wait: it can only give up.
WriteBlocked(end) ==
  /\ inDoubt # {}
  /\ UNCHANGED <<db, inDoubt>>
  /\ \/ end = "error" /\ Resync(db, 1)
     \/ end = "cancelled" /\ UNCHANGED <<seq, faults>>

\* _write
Write(tx, end) == WriteDecided(tx, end) \/ WriteBlocked(end)

\* The server decides the outstanding commit.
Settle ==
  /\ inDoubt # {}
  /\ db' \in inDoubt \cup {db}
  /\ inDoubt' = {}
  /\ UNCHANGED <<seq, node, faults>>

\* A read of the aggregate.  Its answer is db, without an undecided commit.
Load(end) ==
  /\ \/ end \in {"ok", "cancelled"} /\ faults' = faults
     \/ end = "error" /\ faults' = faults + 1 /\ faults' <= MaxFaults
  /\ UNCHANGED <<db, seq, node, inDoubt>>

-----------------------------------------------------------------------------
(***************************************************************************)
(* The methods of RunPersistence.                                           *)
(***************************************************************************)
Initialize(end) ==
  /\ Write([NoRows EXCEPT !.add = {Task, Run, node},
                          !.set = Each({Task, Run, node}, "created"),
                          !.facts = <<Says(Task, "created"), Says(Run, "created"),
                                      Says(node, "created")>>], end)
  /\ UNCHANGED node

Start(end) ==
  /\ Write([NoRows EXCEPT !.set = Each({Task, Run, node}, "running"),
                          !.facts = <<Says(Task, "running"), Says(Run, "running"),
                                      Says(node, "running")>>], end)
  /\ UNCHANGED node

\* Mutant: self.node is not assigned.
AddNodeUnassigned(n, end) ==
  /\ Write([NoRows EXCEPT !.add = {n}, !.set = Each({n}, "created"),
                          !.needs = {Run}, !.facts = <<Says(n, "created")>>], end)
  /\ UNCHANGED node

\* self.node changes only when the row is known to be committed.
AddNode(n, end) ==
  /\ Write([NoRows EXCEPT !.add = {n}, !.set = Each({n}, "created"),
                          !.needs = {Run}, !.facts = <<Says(n, "created")>>], end)
  /\ node' = IF end = "ok" THEN n ELSE node

StartNode(end) ==
  /\ Write([NoRows EXCEPT !.set = Each({node}, "running"),
                          !.facts = <<Says(node, "running")>>], end)
  /\ UNCHANGED node

WriteModelFacts(facts, end) ==
  /\ Write([NoRows EXCEPT !.needs = {Run, node}, !.facts = facts], end)
  /\ UNCHANGED node

ModelRequested(repair, end) ==
  WriteModelFacts(
    <<Says(node, "model.requested")>>
      \o (IF repair THEN <<Says(node, "model.repair_requested")>> ELSE <<>>), end)

ModelCompleted(repair, end) ==
  WriteModelFacts(
    <<Says(node, "model.completed")>>
      \o (IF repair THEN <<Says(node, "model.repair_completed")>> ELSE <<>>), end)

ModelFailed(invalid, repair, end) ==
  WriteModelFacts(
    <<Says(node, "model.failed")>>
      \o (IF invalid THEN <<Says(node, "model.response_invalid")>> ELSE <<>>)
      \o (IF invalid /\ repair THEN <<Says(node, "model.repair_failed")>> ELSE <<>>), end)

BeginInvocation(i, end) ==
  /\ Write([NoRows EXCEPT !.add = {i}, !.set = Each({i}, "running"),
                          !.needs = {Run, node},
                          !.facts = <<Says(i, "requested"), Says(i, "running")>>], end)
  /\ UNCHANGED node

\* _load_invocation is interrupted, fails, or finds no row.
InvocationNotLoaded(i, end) ==
  /\ \/ end = "cancelled" /\ faults' = faults
     \/ end = "error" /\ db.status[i] = Absent /\ faults' = faults
     \/ end = "error" /\ faults' = faults + 1 /\ faults' <= MaxFaults
  /\ UNCHANGED <<db, seq, node, inDoubt>>

\* Mutant: the last Artifact of a result is not announced.
ArtifactFactsButLast(arts) ==
  [k \in 1 .. Len(arts) - 1 |-> Says(arts[k], "artifact.created")]

ArtifactFacts(arts) == [k \in DOMAIN arts |-> Says(arts[k], "artifact.created")]

FinishInvocation(i, result, arts, skill, end) ==
  \/ InvocationNotLoaded(i, end)
  \/ /\ db.status[i] # Absent
     /\ Write([NoRows EXCEPT
                 !.set = Each({i}, result),
                 !.artifacts = {[id |-> arts[k], invocation |-> i] : k \in DOMAIN arts},
                 !.facts = <<[Says(i, result) EXCEPT !.counts = <<Len(arts)>>]>>
                   \o (IF skill /\ result = "succeeded"
                         THEN <<Says(i, "skill.activated")>> ELSE <<>>)
                   \o ArtifactFacts(arts)], end)
     /\ UNCHANGED node

\* invocation_result_state over the aggregate just read.
InvocationResultState(i, result, arts) ==
  LET told(is) == \E n \in DOMAIN db.events : Tells(db.events[n], i, is)
      rows == {b.id : b \in {c \in db.artifacts : c.invocation = i}}
      announced == {a \in Artifact : \E n \in DOMAIN db.events :
                                       Tells(db.events[n], a, "artifact.created")}
                     \cap (rows \cup Elements(arts))
  IN IF /\ db.status[i] = result /\ told(result)
        /\ rows = Elements(arts) /\ announced = Elements(arts)
       THEN "committed"
     ELSE IF /\ db.status[i] = "running"
             /\ \A is \in Terminal : ~told(is)
             /\ rows = {} /\ announced = {}
       THEN "uncommitted"
     ELSE "unconfirmed"

CompensateInvocationFailure(i, end) ==
  \/ InvocationNotLoaded(i, end)
  \/ /\ end = "error" /\ db.status[i] \notin {Absent, "running"}
     /\ UNCHANGED pvars
  \/ /\ db.status[i] = "running"
     /\ Write([NoRows EXCEPT
                 !.set = Each({i}, "failed"),
                 !.facts = <<[Says(i, "failed") EXCEPT !.counts = <<0>>]>>], end)
     /\ UNCHANGED node

RunOutcome(outcome, counts) ==
  [Says(Run, IF outcome = "succeeded" THEN "run.final" ELSE "run.error")
     EXCEPT !.counts = counts]

Finish(outcome, counts, end) ==
  /\ Write([NoRows EXCEPT
              !.set = Each({node, Run, Task}, outcome),
              !.facts = <<Says(node, outcome), Says(Run, outcome), Says(Task, outcome),
                          RunOutcome(outcome, counts)>>], end)
  /\ UNCHANGED node

FinishNode(outcome, end) ==
  /\ Write([NoRows EXCEPT !.set = Each({node}, outcome),
                          !.facts = <<Says(node, outcome)>>], end)
  /\ UNCHANGED node

FinishRun(outcome, counts, end) ==
  /\ Write([NoRows EXCEPT
              !.set = Each({Run, Task}, outcome),
              !.facts = <<Says(Run, outcome), Says(Task, outcome),
                          RunOutcome(outcome, counts)>>], end)
  /\ UNCHANGED node

-----------------------------------------------------------------------------
(***************************************************************************)
(* Any caller: every method, at any time, with any argument.  The composed  *)
(* modules restrict the order; what holds here holds in all of them.        *)
(***************************************************************************)
ModelEvent(end) ==
  /\ LastNumber(db) < MaxEvents
  /\ \E repair, invalid \in BOOLEAN :
       \/ ModelRequested(repair, end)
       \/ ModelCompleted(repair, end)
       \/ ModelFailed(invalid, repair, end)

InvocationCall(i, end) ==
  \/ BeginInvocation(i, end)
  \/ CompensateInvocationFailure(i, end)
  \/ \E result \in Outcomes :
       \/ FinishInvocation(i, result, <<>>, TRUE, end)
       \/ \E arts \in Snapshots : FinishInvocation(i, result, arts, FALSE, end)

PNext ==
  \/ \E end \in Ends :
       \/ Initialize(end) \/ Start(end) \/ StartNode(end) \/ Load(end)
       \/ ModelEvent(end)
       \/ \E n \in Node : AddNode(n, end)
       \/ \E i \in Invocation : InvocationCall(i, end)
       \/ \E outcome \in Outcomes :
            \/ Finish(outcome, <<0, 0, 0>>, end)
            \/ FinishNode(outcome, end)
            \/ FinishRun(outcome, <<0, 0, 0>>, end)
  \/ Settle

PSpec == PInit /\ [][PNext]_pvars

-----------------------------------------------------------------------------
(***************************************************************************)
(* Properties.                                                              *)
(***************************************************************************)
IsDatabase(d) ==
  /\ d = [status |-> d.status, artifacts |-> d.artifacts, events |-> d.events]
  /\ d.status \in [Record -> Status \cup {Absent}]
  /\ d.artifacts \subseteq ArtifactRow
  /\ d.events = [n \in DOMAIN d.events |-> d.events[n]]
  /\ DOMAIN d.events \subseteq Nat
  /\ \A n \in DOMAIN d.events : d.events[n] \in Fact

\* Types.
PTypeOK ==
  /\ IsDatabase(db)
  /\ seq \in Nat
  /\ node \in Node
  /\ \A d \in inDoubt : IsDatabase(d)
  /\ faults \in 0 .. MaxFaults

\* The Events of the Run are numbered 1 .. n with no gap, and the in-memory
\* counter never runs ahead of them, whatever fails and whenever a call is
\* cancelled: a stale counter makes writes collide, it never skips a number.
EventNumbering ==
  /\ \A d \in {db} \cup inDoubt : DOMAIN d.events = 1 .. LastNumber(d)
  /\ seq <= LastNumber(db)

\* An Artifact has one row exactly when the log announces it once, however many
\* Invocations claim it, and only for an Invocation that reached its end.
ArtifactsAreTold ==
  /\ \A a \in Artifact :
       LET rows == {b \in db.artifacts : b.id = a}
           told == {n \in DOMAIN db.events : Tells(db.events[n], a, "artifact.created")}
       IN Cardinality(rows) = Cardinality(told) /\ Cardinality(rows) <= 1
  /\ \A b \in db.artifacts : db.status[b.invocation] \in Terminal

\* Seen as a ledger, the tables of the Run are append-only and move along the
\* lifecycle, each move in the step that tells it.
Ledger == INSTANCE RunLedger WITH ledger <- db.events, status <- db.status
ImplementsLedger == Ledger!Spec

=============================================================================
