----------------------- MODULE RunPersistenceProofs ------------------------
(***************************************************************************)
(* Theorems of RunPersistence, for every set of records and Artifacts and   *)
(* every bound: numbering, the refinement of RunLedger, and the agreement   *)
(* of Artifact rows with their announcements.  The inductive invariants say *)
(* of an undecided commit, before it lands, what they say of the database.  *)
(***************************************************************************)
EXTENDS Observability, FiniteSetTheorems, TLAPS

Contiguous(d) == \E n \in Nat : DOMAIN d.events = 1 .. n

Lengthens == \A d \in inDoubt : LastNumber(db) <= LastNumber(d)

PInv ==
  /\ PTypeOK
  /\ \A d \in {db} \cup inDoubt : Contiguous(d)
  /\ seq <= LastNumber(db)
  /\ Lengthens

\* What a method hands to Write.  Its parts have their types.
Typed(tx) ==
  /\ \A r \in DOMAIN tx.set : tx.set[r] \in Status
  /\ tx.artifacts \subseteq ArtifactRow
  /\ tx.facts \in Seq(Fact)

\* Fact number k of a transaction tells a move of record r.
Telling(facts, k, r) == facts[k].on = r /\ facts[k].is \in Status

\* It tells each record it touches: once, or, for a record that it creates and
\* starts, twice in this order.
Told(tx) ==
  /\ tx.add \subseteq DOMAIN tx.set
  /\ Len(tx.facts) > 0
  /\ \A r \in Record :
       \/ r \notin DOMAIN tx.set /\ \A k \in DOMAIN tx.facts : ~Telling(tx.facts, k, r)
       \/ /\ r \in DOMAIN tx.set
          /\ r \in tx.add => tx.set[r] \in Initial
          /\ \E k \in DOMAIN tx.facts :
               /\ tx.facts[k].on = r /\ tx.facts[k].is = tx.set[r]
               /\ \A j \in DOMAIN tx.facts : Telling(tx.facts, j, r) => j = k
       \/ /\ r \in tx.add /\ tx.set[r] = "running"
          /\ \E k \in DOMAIN tx.facts :
               /\ k + 1 \in DOMAIN tx.facts
               /\ tx.facts[k].on = r /\ tx.facts[k].is \in Initial
               /\ tx.facts[k + 1].on = r /\ tx.facts[k + 1].is = "running"
               /\ \A j \in DOMAIN tx.facts : Telling(tx.facts, j, r) => j \in {k, k + 1}

\* Fact number k announces Artifact a.
Announcing(facts, k, a) == Tells(facts[k], a, "artifact.created")

\* It announces each Artifact it inserts once, for an Invocation that it ends.
Announced(tx) ==
  /\ \A b \in tx.artifacts :
       /\ b.invocation \in DOMAIN tx.set /\ tx.set[b.invocation] \in Terminal
       /\ \A c \in tx.artifacts : b.id = c.id => b = c
       /\ \E k \in DOMAIN tx.facts : Announcing(tx.facts, k, b.id)
  /\ \A a \in Artifact, k \in DOMAIN tx.facts :
       Announcing(tx.facts, k, a) =>
         /\ \E b \in tx.artifacts : b.id = a
         /\ \A j \in DOMAIN tx.facts : Announcing(tx.facts, j, a) => j = k

\* Its facts are true of the rows it leaves: each is about a row that it makes or
\* refers to, and the end of an Invocation counts the Artifacts inserted for it.
Truthful(tx) ==
  /\ IsFiniteSet(tx.artifacts)
  /\ \A k \in DOMAIN tx.facts :
       LET e == tx.facts[k] IN
       /\ \/ e.on \in Record \cap (DOMAIN tx.set \cup tx.needs)
          \/ e.on \in Artifact /\ \E b \in tx.artifacts : b.id = e.on
       /\ e.is = "artifact.created" => e.on \in Artifact
       /\ e.on \in Invocation /\ e.is \in Terminal =>
            e.counts = <<Cardinality({b \in tx.artifacts : b.invocation = e.on})>>

Transaction(tx) == Typed(tx) /\ Told(tx) /\ Announced(tx) /\ Truthful(tx)

\* The records A are inserted, all of S reach state s, and so do these rows.
Shape(tx, A, S, s, rows) ==
  /\ tx.add = A /\ DOMAIN tx.set = S /\ \A r \in S : tx.set[r] = s
  /\ tx.artifacts = rows

\* The words that the checks of a trace count.
FinalWords == {"run.final", "run.error"}
FinalWord(status) == IF status = "succeeded" THEN "run.final" ELSE "run.error"
CountedWords == FinalWords \cup {"model.requested"}

\* A transaction without these words, and with one of them in fact number k.
Lacks(tx, words) == \A k \in DOMAIN tx.facts : tx.facts[k].is \notin words

Only(tx, words, k) ==
  /\ k \in DOMAIN tx.facts /\ tx.facts[k].is \in words
  /\ \A j \in DOMAIN tx.facts : tx.facts[j].is \in words => j = k

-----------------------------------------------------------------------------
(***************************************************************************)
(* The last number of a log.                                                *)
(***************************************************************************)
\* In a log numbered 1 .. n the last number is n, and 0 if it is empty.
LEMMA LastNumberOfContiguous ==
  ASSUME NEW d, NEW n \in Nat, DOMAIN d.events = 1 .. n
  PROVE  LastNumber(d) = n
<1>1. n \in DOMAIN d.events \cup {0} /\ \A m \in DOMAIN d.events : m <= n
  OBVIOUS
<1>2. ASSUME NEW k \in DOMAIN d.events \cup {0}, \A m \in DOMAIN d.events : m <= k
      PROVE  k = n
  BY <1>2
<1> QED
  BY <1>1, <1>2 DEF LastNumber

\* The numbers of a contiguous log are 1 up to its last number.
LEMMA ContiguousLast ==
  ASSUME NEW d, Contiguous(d)
  PROVE  LastNumber(d) \in Nat /\ DOMAIN d.events = 1 .. LastNumber(d)
BY LastNumberOfContiguous DEF Contiguous

-----------------------------------------------------------------------------
(***************************************************************************)
(* One transaction.                                                         *)
(***************************************************************************)
\* An accepted transaction is either empty or continues the log exactly where
\* it ends.
LEMMA AcceptedContinues ==
  ASSUME PInv, NEW tx, Typed(tx), Accepted(tx)
  PROVE  /\ IsDatabase(After(tx))
         /\ DOMAIN After(tx).events = 1 .. (LastNumber(db) + Len(tx.facts))
         /\ Contiguous(After(tx))
         /\ LastNumber(After(tx)) = LastNumber(db) + Len(tx.facts)
         /\ Len(tx.facts) > 0 => seq = LastNumber(db)
<1> DEFINE last == LastNumber(db)
           len == Len(tx.facts)
<1>1. last \in Nat /\ DOMAIN db.events = 1 .. last /\ seq \in Nat /\ seq <= last
  BY ContiguousLast DEF PInv, PTypeOK
<1>2. len \in Nat
  BY DEF Typed
<1>3. Numbers(tx) = seq + 1 .. seq + len /\ Numbers(tx) \cap (1 .. last) = {}
  BY <1>1 DEF Accepted, Numbers
<1>4. len > 0 => seq = last
  <2> HAVE len > 0
  <2>1. seq + 1 \in seq + 1 .. seq + len
    BY <1>1, <1>2
  <2> QED
    BY <2>1, <1>1, <1>3
<1>5. DOMAIN After(tx).events = 1 .. (last + len)
  <2>1. DOMAIN After(tx).events = (1 .. last) \cup (seq + 1 .. seq + len)
    BY <1>1, <1>3 DEF After
  <2> QED
    BY <2>1, <1>1, <1>2, <1>4
<1>6. Contiguous(After(tx)) /\ LastNumber(After(tx)) = last + len
  BY <1>1, <1>2, <1>5, LastNumberOfContiguous DEF Contiguous
<1>7. IsDatabase(After(tx))
  <2> DEFINE d == After(tx)
  <2>1. d = [status |-> d.status, artifacts |-> d.artifacts, events |-> d.events]
    BY DEF After
  <2>2. d.status \in [Record -> Status \cup {Absent}]
    BY DEF After, Typed, PInv, PTypeOK, IsDatabase
  <2>3. d.artifacts \subseteq ArtifactRow
    BY DEF After, Typed, PInv, PTypeOK, IsDatabase
  <2>4. d.events = [n \in DOMAIN d.events |-> d.events[n]]
    BY DEF After
  <2>5. DOMAIN d.events \subseteq Nat
    BY <1>1, <1>2, <1>5
  <2>6. \A n \in DOMAIN d.events : d.events[n] \in Fact
    <3> TAKE n \in DOMAIN d.events
    <3>1. CASE n \in Numbers(tx)
      <4>1. n - seq \in 1 .. len
        BY <3>1, <1>1, <1>2, <1>3
      <4>2. tx.facts[n - seq] \in Fact
        BY <4>1 DEF Typed
      <4> QED
        BY <3>1, <4>2 DEF After
    <3>2. CASE n \notin Numbers(tx)
      <4>1. n \in DOMAIN db.events /\ d.events[n] = db.events[n]
        BY <3>2 DEF After
      <4> QED
        BY <4>1 DEF PInv, PTypeOK, IsDatabase
    <3> QED
      BY <3>1, <3>2
  <2> QED
    BY <2>1, <2>2, <2>3, <2>4, <2>5, <2>6 DEF IsDatabase
<1> QED
  BY <1>4, <1>5, <1>6, <1>7


\* Whatever end a write comes to, it keeps the invariant.
LEMMA WriteKeepsPInv ==
  ASSUME PInv, NEW tx, Typed(tx), NEW end, Write(tx, end), node' \in Node
  PROVE  PInv'
<1>1. /\ LastNumber(db) \in Nat /\ seq \in Nat /\ seq <= LastNumber(db)
      /\ faults \in Nat /\ MaxFaults \in Nat /\ Len(tx.facts) \in Nat
  BY ContiguousLast, ConstantsAssumption DEF PInv, PTypeOK, Typed
<1>2. IsDatabase(db) /\ Contiguous(db)
  BY DEF PInv, PTypeOK
<1>3. /\ IsDatabase(db')
      /\ Contiguous(db')
      /\ LastNumber(db') >= LastNumber(db)
      /\ \A d \in inDoubt' : /\ IsDatabase(d) /\ Contiguous(d)
                             /\ LastNumber(db') <= LastNumber(d)
  <2>1. CASE WriteBlocked(end)
    BY <2>1, <1>1, <1>2 DEF WriteBlocked, PInv, PTypeOK, Lengthens
  <2>2. CASE WriteDecided(tx, end)
    <3>1. CASE db' = db /\ inDoubt' = {}
      BY <3>1, <1>1, <1>2
    <3>2. CASE Accepted(tx) /\ db' = After(tx) /\ inDoubt' = {}
      BY <3>2, <1>1, AcceptedContinues
    <3>3. CASE Accepted(tx) /\ db' = db /\ inDoubt' = {After(tx)}
      BY <3>3, <1>1, <1>2, AcceptedContinues
    <3> QED
      BY <2>2, <3>1, <3>2, <3>3
      DEF WriteDecided, RolledBack, CommittedAnyway, Undecided
  <2> QED
    BY <2>1, <2>2 DEF Write
<1>4. LastNumber(db') \in Nat
  BY <1>3, ContiguousLast
<1>5. /\ seq' \in Nat /\ seq' <= LastNumber(db')
      /\ faults' \in 0 .. MaxFaults
  <2>1. CASE end = "ok" /\ Accepted(tx) /\ db' = After(tx)
             /\ seq' = seq + Len(tx.facts) /\ faults' = faults
    <3>1. LastNumber(db') = LastNumber(db) + Len(tx.facts)
      BY <2>1, AcceptedContinues
    <3> QED
      BY <2>1, <3>1, <1>1 DEF PInv, PTypeOK
  <2>2. ASSUME NEW spent \in {0, 1}, Resync(db', spent)
        PROVE  seq' \in Nat /\ seq' <= LastNumber(db') /\ faults' \in 0 .. MaxFaults
    BY <2>2, <1>1, <1>3, <1>4 DEF Resync
  <2>3. CASE UNCHANGED <<seq, faults>>
    BY <2>3, <1>1, <1>3, <1>4 DEF PInv, PTypeOK
  <2>4. CASE WriteBlocked(end)
    <3>1. db' = db
      BY <2>4 DEF WriteBlocked
    <3> QED
      BY <2>2, <2>3, <2>4, <3>1 DEF WriteBlocked
  <2>5. CASE WriteDecided(tx, end)
    <3>1. CASE end = "error" /\ RolledBack /\ Resync(db, 0)
      <4>1. db' = db
        BY <3>1 DEF RolledBack
      <4> QED
        BY <2>2, <3>1, <4>1
    <3> QED
      BY <2>1, <2>2, <2>3, <2>5, <3>1 DEF WriteDecided
  <2> QED
    BY <2>4, <2>5 DEF Write
<1> QED
  BY <1>3, <1>4, <1>5 DEF PInv, PTypeOK, Lengthens


-----------------------------------------------------------------------------
(***************************************************************************)
(* The methods build transactions.                                          *)
(***************************************************************************)
Saying == Status \cup ModelFact \cup OtherFact

\* What a method says of a record is an Event body.
LEMMA SaysIsFact ==
  ASSUME NEW r \in Record \cup Artifact, NEW s \in Saying
  PROVE  Says(r, s) \in Fact /\ Says(r, s).on = r /\ Says(r, s).is = s
<1>1. <<>> \in Seq(Nat)
  OBVIOUS
<1> QED
  BY <1>1 DEF Says, Fact, Saying

\* So is what it says with counts.
LEMMA CountedIsFact ==
  ASSUME NEW r \in Record \cup Artifact, NEW s \in Saying, NEW c \in Seq(Nat), NEW f,
         f = [Says(r, s) EXCEPT !.counts = c]
  PROVE  f \in Fact /\ f.on = r /\ f.is = s /\ f.counts = c
BY DEF Says, Fact, Saying

\* Which records there are and what can be said of them.
LEMMA RecordsAndWords ==
  /\ Task \in Record /\ Run \in Record
  /\ Node \subseteq Record /\ Invocation \subseteq Record
  /\ Initial \subseteq Saying /\ Terminal \subseteq Saying
  /\ "running" \in Saying /\ ModelFact \subseteq Saying /\ OtherFact \subseteq Saying
  /\ Initial \subseteq Status /\ Terminal \subseteq Status /\ "running" \in Status
  /\ "created" \in Initial /\ "requested" \in Initial
BY DEF Record, Saying, Status, Initial

\* The words that tell no move, and the word of the Artifacts.
LEMMA WordsAreDistinct ==
  /\ Status \cap (ModelFact \cup OtherFact) = {}
  /\ "artifact.created" \notin Status \cup ModelFact
  /\ "artifact.created" \in OtherFact
  /\ CountedWords \cap Status = {}
  /\ "artifact.created" \notin CountedWords /\ "skill.activated" \notin CountedWords
  /\ "running" \notin Initial \cup Terminal /\ Initial \cap Terminal = {}
BY DEF Status, Initial, Terminal, ModelFact, OtherFact, CountedWords, FinalWords

\* The records that are moved together.
LEMMA RecordsAreDistinct ==
  ASSUME node \in Node
  PROVE  /\ Task # Run /\ node # Task /\ node # Run
         /\ {Task, Run, node} \cap Invocation = {}
BY ConstantsAssumption

\* A transaction that brings every record it touches to one state.
OneMoveEach(tx, s) ==
  /\ s \in Status /\ tx.facts \in Seq(Fact) /\ Len(tx.facts) > 0
  /\ tx.artifacts = {} /\ tx.add \subseteq DOMAIN tx.set
  /\ \A r \in tx.add : s \in Initial
  /\ \A r \in DOMAIN tx.set :
       tx.set[r] = s /\ \E k \in DOMAIN tx.facts : tx.facts[k].on = r /\ tx.facts[k].is = s
  /\ \A k \in DOMAIN tx.facts :
       /\ tx.facts[k].is # "artifact.created"
       /\ tx.facts[k].on \in Record \cap (DOMAIN tx.set \cup tx.needs)
       /\ tx.facts[k].on \in Invocation => tx.facts[k].counts = <<0>>
       /\ tx.facts[k].is \in Status =>
            /\ tx.facts[k].on \in DOMAIN tx.set
            /\ \A j \in DOMAIN tx.facts :
                 tx.facts[j].is \in Status /\ tx.facts[j].on = tx.facts[k].on => j = k

\* Most methods do.
LEMMA OneMoveEachIsTransaction ==
  ASSUME NEW tx, NEW s, OneMoveEach(tx, s)
  PROVE  Transaction(tx)
<1>1. Typed(tx)
  BY DEF OneMoveEach, Typed
<1>2. ASSUME NEW r \in Record, r \in DOMAIN tx.set
      PROVE  \E k \in DOMAIN tx.facts :
               /\ tx.facts[k].on = r /\ tx.facts[k].is = tx.set[r]
               /\ \A j \in DOMAIN tx.facts : Telling(tx.facts, j, r) => j = k
  <2>1. PICK k \in DOMAIN tx.facts : tx.facts[k].on = r /\ tx.facts[k].is = s
    BY <1>2 DEF OneMoveEach
  <2> QED
    BY <2>1, <1>2 DEF OneMoveEach, Telling
<1>3. ASSUME NEW r \in Record, r \notin DOMAIN tx.set
      PROVE  \A k \in DOMAIN tx.facts : ~Telling(tx.facts, k, r)
  BY <1>3 DEF OneMoveEach, Telling
<1>4. Told(tx)
  BY <1>2, <1>3 DEF OneMoveEach, Told
<1>5. Announced(tx)
  BY DEF OneMoveEach, Announced, Announcing, Tells
<1>6. Truthful(tx)
  <2>1. tx.artifacts = {}
    BY DEF OneMoveEach
  <2>2. \A i : {b \in tx.artifacts : b.invocation = i} = {}
    BY <2>1
  <2>3. IsFiniteSet(tx.artifacts) /\ Cardinality({}) = 0
    BY <2>1, FS_EmptySet
  <2>4. \A k \in DOMAIN tx.facts :
          /\ tx.facts[k].is # "artifact.created"
          /\ tx.facts[k].on \in Record \cap (DOMAIN tx.set \cup tx.needs)
          /\ tx.facts[k].on \in Invocation => tx.facts[k].counts = <<0>>
    BY DEF OneMoveEach
  <2> QED
    BY <2>2, <2>3, <2>4 DEF Truthful
<1> QED
  BY <1>1, <1>4, <1>5, <1>6 DEF Transaction

\* The Task, the Run and a NodeRun move together.
LEMMA ThreeMoves ==
  ASSUME node \in Node, NEW w \in Status, NEW tx,
         tx.facts = <<Says(Task, w), Says(Run, w), Says(node, w)>>,
         NEW new, Shape(tx, new, {Task, Run, node}, w, {}),
         new = {} \/ (new = {Task, Run, node} /\ w \in Initial)
  PROVE  Transaction(tx) /\ Lacks(tx, CountedWords)
<1>1. \A r \in Record : /\ Says(r, w) \in Fact /\ Says(r, w).on = r /\ Says(r, w).is = w
  BY SaysIsFact DEF Saying
<1>2. tx.facts \in Seq(Fact) /\ Len(tx.facts) = 3 /\ DOMAIN tx.facts = {1, 2, 3}
  BY <1>1, RecordsAndWords
<1>3. /\ tx.facts[1].on = Task /\ tx.facts[2].on = Run /\ tx.facts[3].on = node
      /\ \A k \in {1, 2, 3} : tx.facts[k].is = w
  BY <1>1, RecordsAndWords
<1>4. tx.artifacts = {} /\ tx.add = new
      /\ DOMAIN tx.set = {Task, Run, node} /\ \A r \in DOMAIN tx.set : tx.set[r] = w
  BY DEF Shape
<1>5. w \notin CountedWords /\ w # "artifact.created"
  BY WordsAreDistinct
<1>6. \A k \in DOMAIN tx.facts : /\ tx.facts[k].on \in Record \cap DOMAIN tx.set
                                 /\ tx.facts[k].on \notin Invocation
  BY <1>2, <1>3, <1>4, RecordsAreDistinct, RecordsAndWords
<1>7. \A k, j \in DOMAIN tx.facts : tx.facts[j].on = tx.facts[k].on => j = k
  BY <1>2, <1>3, RecordsAreDistinct
<1>8. \A r \in DOMAIN tx.set : \E k \in DOMAIN tx.facts : tx.facts[k].on = r /\ tx.facts[k].is = w
  BY <1>2, <1>3, <1>4
<1>9. OneMoveEach(tx, w)
  <2>1. Len(tx.facts) > 0 /\ tx.facts \in Seq(Fact)
    BY <1>2
  <2>2. tx.add \subseteq DOMAIN tx.set /\ \A r \in tx.add : w \in Initial
    BY <1>4
  <2>3. \A k \in DOMAIN tx.facts : tx.facts[k].is = w
    BY <1>2, <1>3
  <2> QED
    BY <1>4, <1>5, <1>6, <1>7, <1>8, <2>1, <2>2, <2>3 DEF OneMoveEach
<1> QED
  BY <1>2, <1>3, <1>5, <1>9, OneMoveEachIsTransaction DEF Lacks

\* A NodeRun moves alone.
LEMMA OneMove ==
  ASSUME NEW w \in Status, NEW n \in Node, NEW tx, tx.facts = <<Says(n, w)>>,
         NEW new, Shape(tx, new, {n}, w, {}), new = {} \/ (new = {n} /\ w \in Initial)
  PROVE  Transaction(tx) /\ Lacks(tx, CountedWords)
<1>1. n \in Record /\ n \notin Invocation
  BY RecordsAndWords, ConstantsAssumption
<1>2. Says(n, w) \in Fact /\ Says(n, w).on = n /\ Says(n, w).is = w
  BY <1>1, SaysIsFact DEF Saying
<1>3. tx.facts \in Seq(Fact) /\ Len(tx.facts) = 1 /\ DOMAIN tx.facts = {1}
  BY <1>2
<1>4. tx.facts[1].on = n /\ tx.facts[1].is = w
  BY <1>2
<1>5. tx.artifacts = {} /\ tx.add = new
      /\ DOMAIN tx.set = {n} /\ \A r \in DOMAIN tx.set : tx.set[r] = w
  BY DEF Shape
<1>6. w \notin CountedWords /\ w # "artifact.created"
  BY WordsAreDistinct
<1>7. OneMoveEach(tx, w)
  BY <1>1, <1>3, <1>4, <1>5, <1>6 DEF OneMoveEach
<1> QED
  BY <1>3, <1>4, <1>6, <1>7, OneMoveEachIsTransaction DEF Lacks

\* What Initialize writes: three rows.
LEMMA InitializeWrites ==
  ASSUME node \in Node, NEW end, Initialize(end)
  PROVE  /\ node' = node
         /\ \E tx : /\ Transaction(tx) /\ Write(tx, end) /\ Lacks(tx, CountedWords)
                    /\ Shape(tx, {Task, Run, node}, {Task, Run, node}, "created", {})
                    /\ tx.needs = {}
<1> DEFINE tx == [NoRows EXCEPT !.add = {Task, Run, node}, !.set = Each({Task, Run, node}, "created"),
                    !.facts = <<Says(Task, "created"), Says(Run, "created"), Says(node, "created")>>]
<1>1. /\ tx.facts = <<Says(Task, "created"), Says(Run, "created"), Says(node, "created")>>
      /\ Shape(tx, {Task, Run, node}, {Task, Run, node}, "created", {}) /\ tx.needs = {}
  BY DEF NoRows, Each, Shape
<1>2. Write(tx, end) /\ node' = node
  BY DEF Initialize
<1> HIDE DEF tx
<1> QED
  BY <1>1, <1>2, ThreeMoves, RecordsAndWords

\* What Start writes.
LEMMA StartWrites ==
  ASSUME node \in Node, NEW end, Start(end)
  PROVE  /\ node' = node
         /\ \E tx : /\ Transaction(tx) /\ Write(tx, end) /\ Lacks(tx, CountedWords)
                    /\ Shape(tx, {}, {Task, Run, node}, "running", {}) /\ tx.needs = {}
<1> DEFINE tx == [NoRows EXCEPT !.set = Each({Task, Run, node}, "running"),
                    !.facts = <<Says(Task, "running"), Says(Run, "running"), Says(node, "running")>>]
<1>1. /\ tx.facts = <<Says(Task, "running"), Says(Run, "running"), Says(node, "running")>>
      /\ Shape(tx, {}, {Task, Run, node}, "running", {}) /\ tx.needs = {}
  BY DEF NoRows, Each, Shape
<1>2. Write(tx, end) /\ node' = node
  BY DEF Start
<1> HIDE DEF tx
<1> QED
  BY <1>1, <1>2, ThreeMoves, RecordsAndWords

\* What AddNode writes: one row below the Run.
LEMMA AddNodeWrites ==
  ASSUME node \in Node, NEW end, NEW n \in Node, AddNode(n, end)
  PROVE  /\ node' = IF end = "ok" THEN n ELSE node
         /\ \E tx : /\ Transaction(tx) /\ Write(tx, end) /\ Lacks(tx, CountedWords)
                    /\ Shape(tx, {n}, {n}, "created", {}) /\ tx.needs = {Run}
<1> DEFINE tx == [NoRows EXCEPT !.add = {n}, !.set = Each({n}, "created"), !.needs = {Run},
                                !.facts = <<Says(n, "created")>>]
<1>1. /\ tx.facts = <<Says(n, "created")>> /\ tx.needs = {Run}
      /\ Shape(tx, {n}, {n}, "created", {})
  BY DEF NoRows, Each, Shape
<1>2. Write(tx, end) /\ node' = IF end = "ok" THEN n ELSE node
  BY DEF AddNode
<1> HIDE DEF tx
<1> QED
  BY <1>1, <1>2, OneMove, RecordsAndWords

\* What StartNode and FinishNode write.
LEMMA MoveNodeWrites ==
  ASSUME node \in Node, NEW end, NEW s \in Status,
         \/ s = "running" /\ StartNode(end)
         \/ FinishNode(s, end)
  PROVE  /\ node' = node
         /\ \E tx : /\ Transaction(tx) /\ Write(tx, end) /\ Lacks(tx, CountedWords)
                    /\ Shape(tx, {}, {node}, s, {}) /\ tx.needs = {}
<1> DEFINE tx == [NoRows EXCEPT !.set = Each({node}, s), !.facts = <<Says(node, s)>>]
<1>1. tx.facts = <<Says(node, s)>> /\ Shape(tx, {}, {node}, s, {}) /\ tx.needs = {}
  BY DEF NoRows, Each, Shape
<1>2. Write(tx, end) /\ node' = node
  BY DEF StartNode, FinishNode
<1> HIDE DEF tx
<1> QED
  BY <1>1, <1>2, OneMove

\* A transaction of model facts tells no move.
LEMMA ModelFactsWrite ==
  ASSUME node \in Node, NEW end, NEW facts \in Seq(Fact), Len(facts) > 0,
         \A k \in DOMAIN facts : facts[k].is \in ModelFact /\ facts[k].on = node,
         WriteModelFacts(facts, end)
  PROVE  /\ node' = node
         /\ \E tx : /\ Transaction(tx) /\ Write(tx, end) /\ tx.facts = facts
                    /\ Shape(tx, {}, {}, "running", {}) /\ tx.needs = {Run, node}
<1> DEFINE tx == [NoRows EXCEPT !.needs = {Run, node}, !.facts = facts]
<1>1. tx.facts = facts /\ Shape(tx, {}, {}, "running", {}) /\ tx.needs = {Run, node}
  BY DEF NoRows, Each, Shape
<1>2. Write(tx, end) /\ node' = node
  BY DEF WriteModelFacts
<1> HIDE DEF tx
<1>3. node \in Record /\ node \notin Invocation
  BY RecordsAndWords, ConstantsAssumption
<1>4. OneMoveEach(tx, "running")
  BY <1>1, <1>3, WordsAreDistinct, RecordsAndWords DEF OneMoveEach, Shape
<1> QED
  BY <1>1, <1>2, <1>4, OneMoveEachIsTransaction

\* What ModelRequested writes: one request, whether or not it asks for a repair.
LEMMA ModelRequestedWrites ==
  ASSUME node \in Node, NEW end, NEW repair \in BOOLEAN, ModelRequested(repair, end)
  PROVE  /\ node' = node
         /\ \E tx : /\ Transaction(tx) /\ Write(tx, end)
                    /\ Lacks(tx, FinalWords) /\ Only(tx, {"model.requested"}, 1)
                    /\ Shape(tx, {}, {}, "running", {}) /\ tx.needs = {Run, node}
<1> DEFINE one == Says(node, "model.requested")
           two == Says(node, "model.repair_requested")
           facts == <<one>> \o (IF repair THEN <<two>> ELSE <<>>)
<1>1. /\ one \in Fact /\ one.on = node /\ one.is = "model.requested"
      /\ two \in Fact /\ two.on = node /\ two.is = "model.repair_requested"
  <2>1. node \in Record /\ {"model.requested", "model.repair_requested"} \subseteq Saying
    BY RecordsAndWords DEF ModelFact
  <2> QED
    BY <2>1, SaysIsFact
<1> HIDE DEF one, two
<1>2. /\ facts \in Seq(Fact) /\ Len(facts) > 0 /\ 1 \in DOMAIN facts /\ facts[1] = one
      /\ \A k \in DOMAIN facts : k = 1 \/ facts[k] = two
  <2>1. CASE repair
    <3>1. <<one>> \in Seq(Fact) /\ <<two>> \in Seq(Fact) /\ facts = <<one>> \o <<two>>
      BY <1>1, <2>1
    <3>2. \A a, b \in Seq(Fact) :
            /\ a \o b \in Seq(Fact) /\ Len(a \o b) = Len(a) + Len(b)
            /\ Len(a) = 1 => (a \o b)[1] = a[1] /\ (Len(b) = 1 => (a \o b)[2] = b[1])
      OBVIOUS
    <3>3. /\ Len(<<one>>) = 1 /\ <<one>>[1] = one
          /\ Len(<<two>>) = 1 /\ <<two>>[1] = two
      BY <1>1
    <3> HIDE DEF facts
    <3>4. facts \in Seq(Fact) /\ Len(facts) = 2 /\ facts[1] = one /\ facts[2] = two
      BY <3>1, <3>2, <3>3
    <3> QED
      BY <3>4
  <2>2. CASE ~repair
    <3>1. facts = <<one>>
      BY <1>1, <2>2
    <3> QED
      BY <1>1, <3>1
  <2> QED
    BY <2>1, <2>2
<1>3. WriteModelFacts(facts, end)
  BY DEF ModelRequested, one, two
<1> HIDE DEF facts
<1>4. \A k \in DOMAIN facts : facts[k].is \in ModelFact /\ facts[k].on = node
  BY <1>1, <1>2 DEF ModelFact
<1>5. /\ \A k \in DOMAIN facts : facts[k].is \notin FinalWords
      /\ facts[1].is = "model.requested"
      /\ \A k \in DOMAIN facts : facts[k].is \in {"model.requested"} => k = 1
  BY <1>1, <1>2 DEF FinalWords
<1>6. PICK tx : /\ Transaction(tx) /\ Write(tx, end) /\ tx.facts = facts
                /\ Shape(tx, {}, {}, "running", {}) /\ tx.needs = {Run, node}
  BY <1>2, <1>3, <1>4, ModelFactsWrite
<1>7. node' = node
  BY <1>2, <1>3, <1>4, ModelFactsWrite
<1>8. Lacks(tx, FinalWords) /\ Only(tx, {"model.requested"}, 1)
  BY <1>2, <1>5, <1>6 DEF Lacks, Only
<1> QED
  BY <1>6, <1>7, <1>8

\* What ModelCompleted and ModelFailed write.
LEMMA ModelEndedWrites ==
  ASSUME node \in Node, NEW end, NEW repair \in BOOLEAN, NEW invalid \in BOOLEAN,
         ModelCompleted(repair, end) \/ ModelFailed(invalid, repair, end)
  PROVE  /\ node' = node
         /\ \E tx : /\ Transaction(tx) /\ Write(tx, end) /\ Lacks(tx, CountedWords)
                    /\ Shape(tx, {}, {}, "running", {}) /\ tx.needs = {Run, node}
<1> DEFINE Words == ModelFact \ {"model.requested"}
           Bodies == {f \in Fact : f.is \in Words /\ f.on = node}
<1>1. \A w \in Words : <<Says(node, w)>> \in Seq(Bodies) /\ Len(<<Says(node, w)>>) = 1
  <2>1. node \in Record
    BY RecordsAndWords
  <2>2. \A w \in Words : Says(node, w) \in Fact /\ Says(node, w).is = w /\ Says(node, w).on = node
    BY <2>1, SaysIsFact DEF Saying
  <2> QED
    BY <2>2
<1>2. ASSUME NEW facts \in Seq(Bodies), Len(facts) > 0, WriteModelFacts(facts, end)
      PROVE  /\ node' = node
             /\ \E tx : /\ Transaction(tx) /\ Write(tx, end) /\ Lacks(tx, CountedWords)
                        /\ Shape(tx, {}, {}, "running", {}) /\ tx.needs = {Run, node}
  <2>1. facts \in Seq(Fact) /\ \A k \in DOMAIN facts : facts[k].is \in Words /\ facts[k].on = node
    BY <1>2
  <2>2. Words \cap CountedWords = {} /\ Words \subseteq ModelFact
    BY DEF ModelFact, CountedWords, FinalWords
  <2> HIDE DEF Words, Bodies
  <2>3. \A k \in DOMAIN facts : facts[k].is \in ModelFact /\ facts[k].on = node
    BY <2>1, <2>2
  <2>4. PICK tx : /\ Transaction(tx) /\ Write(tx, end) /\ tx.facts = facts
                  /\ Shape(tx, {}, {}, "running", {}) /\ tx.needs = {Run, node}
    BY <1>2, <2>1, <2>3, ModelFactsWrite
  <2>5. node' = node
    BY <1>2, <2>1, <2>3, ModelFactsWrite
  <2>6. Lacks(tx, CountedWords)
    BY <2>1, <2>2, <2>4 DEF Lacks
  <2> QED
    BY <2>4, <2>5, <2>6
<1>3. <<>> \in Seq(Bodies) /\ Len(<<>>) = 0
  OBVIOUS
<1>4. \A a, b \in Seq(Bodies) : a \o b \in Seq(Bodies) /\ Len(a \o b) = Len(a) + Len(b)
  OBVIOUS
<1>5. ASSUME NEW a \in Seq(Bodies), NEW b \in Seq(Bodies), Len(a) > 0
      PROVE  a \o b \in Seq(Bodies) /\ Len(a \o b) > 0
  <2>1. Len(a \o b) = Len(a) + Len(b) /\ a \o b \in Seq(Bodies)
    BY <1>4
  <2>2. Len(a) \in Nat /\ Len(b) \in Nat
    OBVIOUS
  <2> HIDE DEF Bodies
  <2> QED
    BY <1>5, <2>1, <2>2
<1>6. {"model.completed", "model.repair_completed", "model.failed", "model.response_invalid",
        "model.repair_failed"} \subseteq Words
  BY DEF ModelFact
<1> HIDE DEF Bodies, Words
<1>7. CASE ModelCompleted(repair, end)
  <2> DEFINE first == <<Says(node, "model.completed")>>
             more == IF repair THEN <<Says(node, "model.repair_completed")>> ELSE <<>>
  <2>1. first \in Seq(Bodies) /\ Len(first) > 0 /\ more \in Seq(Bodies)
    BY <1>1, <1>3, <1>6
  <2>2. WriteModelFacts(first \o more, end)
    BY <1>7 DEF ModelCompleted
  <2> HIDE DEF first, more
  <2> QED
    BY <1>2, <1>5, <2>1, <2>2
<1>8. CASE ModelFailed(invalid, repair, end)
  <2> DEFINE one == IF invalid THEN <<Says(node, "model.response_invalid")>> ELSE <<>>
             two == IF invalid /\ repair THEN <<Says(node, "model.repair_failed")>> ELSE <<>>
             first == <<Says(node, "model.failed")>>
  <2>1. one \in Seq(Bodies) /\ two \in Seq(Bodies) /\ first \in Seq(Bodies) /\ Len(first) > 0
    BY <1>1, <1>3, <1>6
  <2>2. WriteModelFacts(first \o one \o two, end)
    BY <1>8 DEF ModelFailed
  <2> HIDE DEF one, two, first
  <2>3. first \o one \in Seq(Bodies) /\ Len(first \o one) > 0
    BY <1>5, <2>1
  <2>4. first \o one \o two \in Seq(Bodies) /\ Len(first \o one \o two) > 0
    BY <1>5, <2>1, <2>3
  <2> QED
    BY <1>2, <2>2, <2>4
<1> QED
  BY <1>7, <1>8

\* The rows of the Artifacts of one result.
RowsFor(i, arts) == {[id |-> arts[k], invocation |-> i] : k \in DOMAIN arts}

\* There are as many as the result has Artifacts.
LEMMA RowsAreCounted ==
  ASSUME NEW i, NEW arts \in Snapshots
  PROVE  /\ IsFiniteSet(RowsFor(i, arts)) /\ Len(arts) \in Nat
         /\ Cardinality(RowsFor(i, arts)) = Len(arts)
         /\ \A b \in RowsFor(i, arts) : b.invocation = i /\ b.id \in Elements(arts)
<1>1. PICK n \in Nat : /\ arts \in [1 .. n -> Artifact]
                       /\ \A j, k \in 1 .. n : arts[j] = arts[k] => j = k
  BY ConstantsAssumption DEF Snapshots
<1>2. DOMAIN arts = 1 .. n /\ Len(arts) = n
  BY <1>1
<1> DEFINE f == [k \in 1 .. n |-> [id |-> arts[k], invocation |-> i]]
<1>3. f \in Bijection(1 .. n, RowsFor(i, arts))
  <2>1. f \in [1 .. n -> RowsFor(i, arts)]
    BY <1>2 DEF RowsFor
  <2>2. \A j, k \in 1 .. n : f[j] = f[k] => j = k
    BY <1>1
  <2>3. \A b \in RowsFor(i, arts) : \E k \in 1 .. n : f[k] = b
    BY <1>2 DEF RowsFor
  <2> HIDE DEF f
  <2> QED
    BY <2>1, <2>2, <2>3 DEF Bijection, Injection, Surjection, IsInjective
<1>4. IsFiniteSet(1 .. n) /\ Cardinality(1 .. n) = n
  BY FS_Interval
<1>5. IsFiniteSet(RowsFor(i, arts)) /\ Cardinality(RowsFor(i, arts)) = n
  BY <1>3, <1>4, FS_Bijection DEF ExistsBijection
<1>6. \A b \in RowsFor(i, arts) : b.invocation = i /\ b.id \in Elements(arts)
  BY DEF RowsFor, Elements
<1> QED
  BY <1>2, <1>5, <1>6

\* What FinishInvocation writes: the end of the Invocation and then, for each
\* snapshot, a row and its announcement.
LEMMA FinishedInvocation ==
  ASSUME NEW i \in Invocation, NEW result \in Terminal, NEW arts \in Snapshots,
         NEW skilled \in {<<>>, <<Says(i, "skill.activated")>>}, NEW tx,
         Shape(tx, {}, {i}, result, RowsFor(i, arts)),
         tx.facts = <<[Says(i, result) EXCEPT !.counts = <<Len(arts)>>]>>
                      \o skilled \o ArtifactFacts(arts)
  PROVE  Transaction(tx) /\ Lacks(tx, CountedWords)
<1> DEFINE first == [Says(i, result) EXCEPT !.counts = <<Len(arts)>>]
           facts == <<first>> \o skilled \o ArtifactFacts(arts)
           m == 1 + Len(skilled)
<1>0. /\ tx.add = {} /\ DOMAIN tx.set = {i} /\ tx.set[i] = result
      /\ tx.artifacts = {[id |-> arts[k], invocation |-> i] : k \in DOMAIN arts}
  BY DEF Shape, RowsFor
<1>1. PICK n \in Nat : /\ arts \in [1 .. n -> Artifact]
                       /\ \A j, k \in 1 .. n : arts[j] = arts[k] => j = k
  BY ConstantsAssumption DEF Snapshots
<1>2. DOMAIN arts = 1 .. n /\ Len(arts) = n /\ \A k \in 1 .. n : arts[k] \in Artifact
  BY <1>1
<1>3. first \in Fact /\ first.on = i /\ first.is = result /\ first.counts = <<n>>
  <2>1. <<Len(arts)>> \in Seq(Nat) /\ i \in Record /\ result \in Saying
    BY <1>2, RecordsAndWords
  <2>2. first = [on |-> i, is |-> result, counts |-> <<Len(arts)>>]
    BY DEF Says
  <2> HIDE DEF first
  <2> QED
    BY <1>2, <2>1, <2>2 DEF Fact, Saying
<1>4. /\ Says(i, "skill.activated") \in Fact /\ Says(i, "skill.activated").on = i
      /\ Says(i, "skill.activated").is = "skill.activated"
  <2>1. i \in Record /\ "skill.activated" \in Saying
    BY RecordsAndWords DEF OtherFact
  <2> QED
    BY <2>1, SaysIsFact
<1>5. \A k \in 1 .. n : /\ Says(arts[k], "artifact.created") \in Fact
                        /\ Says(arts[k], "artifact.created").on = arts[k]
                        /\ Says(arts[k], "artifact.created").is = "artifact.created"
  <2>1. "artifact.created" \in Saying
    BY RecordsAndWords, WordsAreDistinct
  <2> QED
    BY <1>2, <2>1, SaysIsFact
<1>6. ArtifactFacts(arts) \in Seq(Fact) /\ Len(ArtifactFacts(arts)) = n
  <2>1. ArtifactFacts(arts) \in [1 .. n -> Fact]
    BY <1>2, <1>5 DEF ArtifactFacts
  <2> QED
    BY <1>1, <2>1
<1>7. skilled \in Seq(Fact) /\ m \in {1, 2} /\ (m = 2 => skilled[1] = Says(i, "skill.activated"))
  <2>1. CASE skilled = <<>>
    BY <2>1
  <2>2. CASE skilled = <<Says(i, "skill.activated")>>
    <3> DEFINE second == Says(i, "skill.activated")
    <3>1. second \in Fact /\ skilled = <<second>>
      BY <1>4, <2>2
    <3> HIDE DEF second
    <3>2. skilled \in Seq(Fact) /\ Len(skilled) = 1 /\ skilled[1] = second
      BY <3>1
    <3> QED
      BY <3>2 DEF second
  <2> QED
    BY <2>1, <2>2
<1>8. /\ facts \in Seq(Fact) /\ Len(facts) = m + n /\ DOMAIN facts = 1 .. (m + n)
      /\ facts[1] = first
      /\ m = 2 => facts[2] = Says(i, "skill.activated")
      /\ \A k \in 1 .. n : facts[m + k] = Says(arts[k], "artifact.created")
  <2> DEFINE created == ArtifactFacts(arts)
             begin == <<first>> \o skilled
  <2>1. \A k \in 1 .. n : created[k] = Says(arts[k], "artifact.created")
    BY <1>2 DEF ArtifactFacts
  <2>2. begin \in Seq(Fact) /\ Len(begin) = m /\ begin[1] = first
        /\ (m = 2 => begin[2] = Says(i, "skill.activated"))
    <3> HIDE DEF first
    <3>1. <<first>> \in Seq(Fact) /\ Len(<<first>>) = 1 /\ <<first>>[1] = first
      BY <1>3
    <3>2. \A a, b \in Seq(Fact) :
            /\ a \o b \in Seq(Fact) /\ Len(a \o b) = Len(a) + Len(b)
            /\ Len(a) = 1 => (a \o b)[1] = a[1] /\ (Len(b) = 1 => (a \o b)[2] = b[1])
      OBVIOUS
    <3> HIDE DEF begin
    <3>3. begin = <<first>> \o skilled
      BY DEF begin
    <3> QED
      BY <1>7, <3>1, <3>2, <3>3
  <2>3. created \in Seq(Fact) /\ Len(created) = n
    BY <1>6
  <2>4. facts = begin \o created
    OBVIOUS
  <2> HIDE DEF created, begin, m, first, facts
  <2>5. \A a, b \in Seq(Fact) :
          /\ a \o b \in Seq(Fact) /\ Len(a \o b) = Len(a) + Len(b)
          /\ DOMAIN (a \o b) = 1 .. (Len(a) + Len(b))
          /\ \A k \in 1 .. Len(b) : (a \o b)[Len(a) + k] = b[k]
          /\ \A k \in 1 .. Len(a) : (a \o b)[k] = a[k]
    OBVIOUS
  <2>6. 1 \in 1 .. m /\ (m = 2 => 2 \in 1 .. m)
    BY <1>7
  <2>7. facts \in Seq(Fact) /\ Len(facts) = m + n /\ DOMAIN facts = 1 .. (m + n)
    BY <2>2, <2>3, <2>4, <2>5
  <2>8. \A k \in 1 .. n : facts[m + k] = created[k]
    BY <2>2, <2>3, <2>4, <2>5
  <2>9. facts[1] = begin[1] /\ (m = 2 => facts[2] = begin[2])
    BY <2>2, <2>3, <2>4, <2>5, <2>6
  <2> QED
    BY <2>1, <2>2, <2>7, <2>8, <2>9
<1> HIDE DEF facts, first, m
<1>9. tx.facts = facts
  BY DEF facts, first
<1>10. \A k \in DOMAIN facts :
         \/ k = 1
         \/ k = 2 /\ m = 2
         \/ k - m \in 1 .. n /\ facts[k] = Says(arts[k - m], "artifact.created")
  <2> TAKE k \in DOMAIN facts
  <2>1. k \in 1 .. (m + n) /\ m \in {1, 2}
    BY <1>7, <1>8
  <2>2. CASE k > m
    <3>1. k - m \in 1 .. n /\ m + (k - m) = k
      BY <1>1, <2>1, <2>2
    <3> QED
      BY <1>8, <3>1
  <2> QED
    BY <2>1, <2>2
<1>11. result \in Status /\ result # "artifact.created"
  BY RecordsAndWords, WordsAreDistinct
<1>12. Typed(tx)
  <2>1. tx.artifacts \subseteq ArtifactRow
    BY <1>0, <1>2 DEF ArtifactRow
  <2>2. tx.facts \in Seq(Fact)
    BY <1>8, <1>9
  <2> QED
    BY <1>0, <1>11, <2>1, <2>2 DEF Typed
<1>13. \A k \in DOMAIN facts : facts[k].is \in Status => k = 1
  BY <1>2, <1>4, <1>5, <1>8, <1>10, WordsAreDistinct DEF OtherFact
<1>14. Told(tx)
  <2>1. Len(tx.facts) > 0 /\ 1 \in DOMAIN tx.facts
    BY <1>1, <1>7, <1>8, <1>9
  <2>2. tx.facts[1].on = i /\ tx.facts[1].is = tx.set[i]
    BY <1>0, <1>3, <1>8, <1>9
  <2>3. \A r, k : k \in DOMAIN tx.facts /\ Telling(tx.facts, k, r) => k = 1 /\ r = i
    BY <1>9, <1>13, <2>2 DEF Telling
  <2> QED
    BY <1>0, <2>1, <2>2, <2>3 DEF Told
<1>15. \A a, k : k \in DOMAIN facts /\ Announcing(facts, k, a) =>
                   k - m \in 1 .. n /\ arts[k - m] = a
  <2> SUFFICES ASSUME NEW a, NEW k \in DOMAIN facts, Announcing(facts, k, a)
               PROVE  k - m \in 1 .. n /\ arts[k - m] = a
    OBVIOUS
  <2>1. facts[k].on = a /\ facts[k].is = "artifact.created"
    BY DEF Announcing, Tells
  <2>2. k # 1 /\ ~(k = 2 /\ m = 2)
    BY <1>3, <1>4, <1>8, <1>11, <2>1
  <2> QED
    BY <1>5, <1>10, <2>1, <2>2
<1>16. Announced(tx)
  <2>1. ASSUME NEW b \in tx.artifacts
        PROVE  /\ b.invocation \in DOMAIN tx.set /\ tx.set[b.invocation] \in Terminal
               /\ \A c \in tx.artifacts : b.id = c.id => b = c
               /\ \E k \in DOMAIN tx.facts : Announcing(tx.facts, k, b.id)
    <3>1. PICK k \in 1 .. n : b = [id |-> arts[k], invocation |-> i]
      BY <1>0, <1>2, <2>1
    <3>2. m + k \in DOMAIN facts /\ facts[m + k].on = b.id /\ facts[m + k].is = "artifact.created"
      <4>1. m + k \in 1 .. (m + n)
        BY <1>1, <1>7
      <4>2. facts[m + k] = Says(arts[k], "artifact.created")
        BY <1>8
      <4>3. Says(arts[k], "artifact.created").on = arts[k] /\ b.id = arts[k]
            /\ Says(arts[k], "artifact.created").is = "artifact.created"
        BY <1>5, <3>1
      <4> QED
        BY <1>8, <4>1, <4>2, <4>3
    <3>3. Announcing(tx.facts, m + k, b.id)
      BY <1>9, <3>2 DEF Announcing, Tells
    <3>4. \A c \in tx.artifacts : b.id = c.id => b = c
      BY <1>0, <3>1
    <3> QED
      BY <1>0, <1>9, <3>1, <3>2, <3>3, <3>4
  <2>2. ASSUME NEW a \in Artifact, NEW k \in DOMAIN tx.facts, Announcing(tx.facts, k, a)
        PROVE  /\ \E b \in tx.artifacts : b.id = a
               /\ \A j \in DOMAIN tx.facts : Announcing(tx.facts, j, a) => j = k
    <3>1. k - m \in 1 .. n /\ arts[k - m] = a
      BY <1>9, <1>15, <2>2
    <3>2. [id |-> arts[k - m], invocation |-> i] \in tx.artifacts
      BY <1>0, <1>2, <3>1
    <3>3. ASSUME NEW j \in DOMAIN tx.facts, Announcing(tx.facts, j, a)
          PROVE  j = k
      <4>1. j - m \in 1 .. n /\ arts[j - m] = a
        BY <1>9, <1>15, <3>3
      <4>2. j - m = k - m
        BY <1>1, <3>1, <4>1
      <4>3. j \in Int /\ k \in Int /\ m \in Int
        BY <1>7, <1>8, <1>9
      <4> QED
        BY <4>2, <4>3
    <3> QED
      BY <3>1, <3>2, <3>3
  <2> QED
    BY <2>1, <2>2 DEF Announced
<1>17. \A k \in DOMAIN facts :
         /\ facts[k].on = i \/ facts[k].is = "artifact.created"
         /\ facts[k].is = "artifact.created" =>
              facts[k].on \in Artifact /\ \E b \in tx.artifacts : b.id = facts[k].on
         /\ facts[k].is \notin CountedWords
  <2> TAKE k \in DOMAIN facts
  <2>1. CASE k = 1 \/ (k = 2 /\ m = 2)
    <3>1. facts[k].on = i /\ facts[k].is \in {result, "skill.activated"}
      BY <1>3, <1>4, <1>8, <2>1
    <3> QED
      BY <3>1, <1>11, WordsAreDistinct
  <2>2. CASE k - m \in 1 .. n /\ facts[k] = Says(arts[k - m], "artifact.created")
    <3>1. facts[k].on = arts[k - m] /\ facts[k].is = "artifact.created" /\ arts[k - m] \in Artifact
      BY <1>2, <1>5, <2>2
    <3>2. [id |-> arts[k - m], invocation |-> i] \in tx.artifacts
      BY <1>0, <1>2, <2>2
    <3> QED
      BY <3>1, <3>2, WordsAreDistinct
  <2> QED
    BY <1>10, <2>1, <2>2
<1>18. Truthful(tx)
  <2>1. i \in Record /\ i \in DOMAIN tx.set /\ i \notin Artifact
    BY <1>0, RecordsAndWords, ConstantsAssumption
  <2>2. IsFiniteSet(tx.artifacts) /\ Cardinality(tx.artifacts) = n
    <3>1. tx.artifacts = RowsFor(i, arts)
      BY DEF Shape
    <3> QED
      BY <1>2, <3>1, RowsAreCounted
  <2>3. {b \in tx.artifacts : b.invocation = i} = tx.artifacts
    BY <1>0
  <2>4. ASSUME NEW k \in DOMAIN tx.facts, tx.facts[k].on \in Invocation, tx.facts[k].is \in Terminal
        PROVE  tx.facts[k].counts = <<n>> /\ tx.facts[k].on = i
    <3>1. k = 1
      BY <1>9, <1>13, <2>4, RecordsAndWords
    <3> QED
      BY <1>3, <1>8, <1>9, <3>1
  <2>5. \A k \in DOMAIN tx.facts :
          /\ \/ tx.facts[k].on \in Record \cap (DOMAIN tx.set \cup tx.needs)
             \/ tx.facts[k].on \in Artifact /\ \E b \in tx.artifacts : b.id = tx.facts[k].on
          /\ tx.facts[k].is = "artifact.created" => tx.facts[k].on \in Artifact
    BY <1>9, <1>17, <2>1
  <2> QED
    BY <2>2, <2>3, <2>4, <2>5 DEF Truthful
<1>19. Lacks(tx, CountedWords)
  BY <1>9, <1>17 DEF Lacks
<1> QED
  BY <1>12, <1>14, <1>16, <1>18, <1>19 DEF Transaction

\* A call that does not write leaves the rows, the counter and the node alone.
Quiet ==
  /\ UNCHANGED <<db, seq, node, inDoubt>>
  /\ faults' = faults \/ (faults' = faults + 1 /\ faults' <= MaxFaults)

\* What BeginInvocation writes.
LEMMA BeginInvocationWrites ==
  ASSUME node \in Node, NEW end, NEW i \in Invocation, BeginInvocation(i, end)
  PROVE  /\ node' = node
         /\ \E tx : /\ Transaction(tx) /\ Write(tx, end) /\ Lacks(tx, CountedWords)
                    /\ Shape(tx, {i}, {i}, "running", {}) /\ tx.needs = {Run, node}
<1>1. \A w \in Saying : Says(i, w) \in Fact /\ Says(i, w).on = i /\ Says(i, w).is = w
  BY SaysIsFact, RecordsAndWords
<1> DEFINE tx == [NoRows EXCEPT !.add = {i}, !.set = Each({i}, "running"), !.needs = {Run, node},
                                !.facts = <<Says(i, "requested"), Says(i, "running")>>]
<1>2. Write(tx, end) /\ node' = node
  BY DEF BeginInvocation
<1>3. /\ tx.facts = <<Says(i, "requested"), Says(i, "running")>> /\ tx.needs = {Run, node}
      /\ Shape(tx, {i}, {i}, "running", {})
  BY DEF NoRows, Each, Shape
<1> HIDE DEF tx
<1>4. /\ tx.facts \in Seq(Fact) /\ Len(tx.facts) = 2 /\ DOMAIN tx.facts = {1, 2}
      /\ tx.facts[1].on = i /\ tx.facts[1].is = "requested"
      /\ tx.facts[2].on = i /\ tx.facts[2].is = "running"
  BY <1>1, <1>3, RecordsAndWords
<1>5. tx.artifacts = {} /\ tx.add = {i} /\ DOMAIN tx.set = {i} /\ tx.set[i] = "running"
  BY <1>3 DEF Shape
<1>6. Typed(tx)
  BY <1>4, <1>5, RecordsAndWords DEF Typed
<1>7. Told(tx)
  <2>1. \A r, k : k \in DOMAIN tx.facts /\ Telling(tx.facts, k, r) => r = i /\ k \in {1, 1 + 1}
    BY <1>4 DEF Telling
  <2>2. /\ 1 + 1 \in DOMAIN tx.facts /\ 1 \in DOMAIN tx.facts
        /\ tx.facts[1 + 1].on = i /\ tx.facts[1 + 1].is = "running"
    BY <1>4
  <2> QED
    BY <1>4, <1>5, <2>1, <2>2, RecordsAndWords DEF Told
<1>8. Announced(tx)
  BY <1>4, <1>5 DEF Announced, Announcing, Tells
<1>9. Truthful(tx)
  <2>1. IsFiniteSet(tx.artifacts)
    BY <1>5, FS_EmptySet
  <2>2. i \in Record \cap DOMAIN tx.set
    BY <1>5, RecordsAndWords
  <2>3. \A k \in DOMAIN tx.facts :
          tx.facts[k].on = i /\ tx.facts[k].is # "artifact.created" /\ tx.facts[k].is \notin Terminal
    BY <1>4 DEF Terminal
  <2> QED
    BY <2>1, <2>2, <2>3 DEF Truthful
<1>10. Lacks(tx, CountedWords)
  BY <1>4 DEF Lacks, CountedWords, FinalWords
<1> QED
  BY <1>2, <1>3, <1>6, <1>7, <1>8, <1>9, <1>10 DEF Transaction

\* What CompensateInvocationFailure writes, unless it gives up before.
LEMMA CompensateWrites ==
  ASSUME NEW end, NEW i \in Invocation, CompensateInvocationFailure(i, end)
  PROVE  \/ Quiet /\ end # "ok"
         \/ /\ node' = node
            /\ \E tx : /\ Transaction(tx) /\ Write(tx, end) /\ Lacks(tx, CountedWords)
                       /\ Shape(tx, {}, {i}, "failed", {}) /\ tx.needs = {}
<1> DEFINE fact == [Says(i, "failed") EXCEPT !.counts = <<0>>]
           tx == [NoRows EXCEPT !.set = Each({i}, "failed"), !.facts = <<fact>>]
<1>1. (Quiet /\ end # "ok") \/ (Write(tx, end) /\ node' = node)
  BY DEF CompensateInvocationFailure, InvocationNotLoaded, pvars, Quiet
<1>2. tx.facts = <<fact>> /\ Shape(tx, {}, {i}, "failed", {}) /\ tx.needs = {}
  BY DEF NoRows, Each, Shape
<1>3. fact \in Fact /\ fact.on = i /\ fact.is = "failed" /\ fact.counts = <<0>>
  <2>1. <<0>> \in Seq(Nat) /\ i \in Record /\ "failed" \in Saying
    BY RecordsAndWords DEF Terminal
  <2>2. fact = [on |-> i, is |-> "failed", counts |-> <<0>>]
    BY DEF Says
  <2> HIDE DEF fact
  <2> QED
    BY <2>1, <2>2 DEF Fact, Saying
<1> HIDE DEF tx, fact
<1>4. /\ tx.facts \in Seq(Fact) /\ Len(tx.facts) = 1 /\ DOMAIN tx.facts = {1}
      /\ tx.facts[1] = fact
  BY <1>2, <1>3
<1>5. "failed" \in Status /\ "failed" \notin CountedWords /\ i \in Record
  BY RecordsAndWords, WordsAreDistinct DEF Terminal
<1>6. OneMoveEach(tx, "failed")
  BY <1>2, <1>3, <1>4, <1>5 DEF OneMoveEach, Shape
<1>7. Lacks(tx, CountedWords)
  BY <1>3, <1>4, <1>5 DEF Lacks
<1> QED
  BY <1>1, <1>2, <1>6, <1>7, OneMoveEachIsTransaction

\* What FinishInvocation writes, unless it gives up before.
LEMMA FinishInvocationWrites ==
  ASSUME NEW end, NEW i \in Invocation, NEW result \in Terminal, NEW arts \in Snapshots,
         NEW skill \in BOOLEAN, FinishInvocation(i, result, arts, skill, end)
  PROVE  \/ InvocationNotLoaded(i, end) /\ Quiet /\ end # "ok"
         \/ /\ node' = node
            /\ \E tx : /\ Transaction(tx) /\ Write(tx, end) /\ Lacks(tx, CountedWords)
                       /\ Shape(tx, {}, {i}, result, RowsFor(i, arts)) /\ tx.needs = {}
<1> DEFINE skilled == IF skill /\ result = "succeeded"
                        THEN <<Says(i, "skill.activated")>> ELSE <<>>
           tx == [NoRows EXCEPT
                    !.set = Each({i}, result),
                    !.artifacts = {[id |-> arts[k], invocation |-> i] : k \in DOMAIN arts},
                    !.facts = <<[Says(i, result) EXCEPT !.counts = <<Len(arts)>>]>>
                                \o skilled \o ArtifactFacts(arts)]
<1>1. (InvocationNotLoaded(i, end) /\ Quiet /\ end # "ok") \/ (Write(tx, end) /\ node' = node)
  BY DEF FinishInvocation, InvocationNotLoaded, Quiet
<1>2. /\ tx.facts = <<[Says(i, result) EXCEPT !.counts = <<Len(arts)>>]>>
                      \o skilled \o ArtifactFacts(arts)
      /\ Shape(tx, {}, {i}, result, RowsFor(i, arts)) /\ tx.needs = {}
  BY DEF NoRows, Each, Shape, RowsFor
<1>3. skilled \in {<<>>, <<Says(i, "skill.activated")>>}
  OBVIOUS
<1> HIDE DEF tx, skilled
<1>4. Transaction(tx) /\ Lacks(tx, CountedWords)
  BY <1>2, <1>3, FinishedInvocation
<1> QED
  BY <1>1, <1>2, <1>4

\* What an Invocation call does to the database.
LEMMA InvocationStepWrites ==
  ASSUME node \in Node, NEW end, NEW i \in Invocation, InvocationCall(i, end)
  PROVE  Quiet \/ (node' \in Node /\ \E tx : Transaction(tx) /\ Write(tx, end))
<1>1. Outcomes \subseteq Terminal
  BY ConstantsAssumption
<1>2. <<>> \in Snapshots
  <2>1. <<>> \in [1 .. 0 -> Artifact] /\ 0 \in 0 .. MaxArtifacts
    BY ConstantsAssumption
  <2> QED
    BY <2>1 DEF Snapshots
<1>3. ASSUME NEW result \in Outcomes, NEW arts \in Snapshots, NEW skill \in BOOLEAN,
             FinishInvocation(i, result, arts, skill, end)
      PROVE  Quiet \/ (node' \in Node /\ \E tx : Transaction(tx) /\ Write(tx, end))
  BY <1>1, <1>3, FinishInvocationWrites
<1>4. CASE BeginInvocation(i, end) \/ CompensateInvocationFailure(i, end)
  BY <1>4, BeginInvocationWrites, CompensateWrites
<1> QED
  BY <1>2, <1>3, <1>4 DEF InvocationCall

\* The Event that ends the log of a Run.
LEMMA RunOutcomeIsFact ==
  ASSUME NEW outcome \in Terminal, NEW counts \in Seq(Nat)
  PROVE  LET f == RunOutcome(outcome, counts)
         IN /\ f \in Fact /\ f.on = Run /\ f.counts = counts
            /\ f.is = FinalWord(outcome)
            /\ f.is \in FinalWords /\ f.is \notin Status
            /\ f.is # "artifact.created" /\ f.is # "model.requested"
<1>1. FinalWord(outcome) \in OtherFact /\ FinalWord(outcome) \in FinalWords
      /\ FinalWord(outcome) \notin {"artifact.created", "model.requested"}
  BY DEF OtherFact, FinalWord, FinalWords
<1>2. RunOutcome(outcome, counts) = [on |-> Run, is |-> FinalWord(outcome), counts |-> counts]
  BY DEF RunOutcome, FinalWord, Says
<1> DEFINE f == RunOutcome(outcome, counts)
           w == FinalWord(outcome)
<1>3. Run \in Record \cup Artifact /\ w \in Saying
  BY <1>1, RecordsAndWords
<1> HIDE DEF f, w
<1>4. f \in Fact /\ f.on = Run /\ f.is = w /\ f.counts = counts
  BY <1>2, <1>3 DEF f, w, Fact, Saying
<1>5. w \notin Status /\ w \in FinalWords /\ w # "artifact.created" /\ w # "model.requested"
  BY <1>1, WordsAreDistinct DEF w
<1> QED
  BY <1>4, <1>5 DEF f, w

\* What Finish writes: the node, the Run and the Task end together.
LEMMA FinishWrites ==
  ASSUME node \in Node, NEW end, NEW outcome \in Terminal, NEW counts \in Seq(Nat),
         Finish(outcome, counts, end)
  PROVE  /\ node' = node
         /\ \E tx : /\ Transaction(tx) /\ Write(tx, end)
                    /\ Lacks(tx, {"model.requested"}) /\ Only(tx, FinalWords, 4)
                    /\ tx.facts[4] = RunOutcome(outcome, counts)
                    /\ Shape(tx, {}, {node, Run, Task}, outcome, {}) /\ tx.needs = {}
<1> DEFINE last == RunOutcome(outcome, counts)
           tx == [NoRows EXCEPT !.set = Each({node, Run, Task}, outcome),
                    !.facts = <<Says(node, outcome), Says(Run, outcome), Says(Task, outcome),
                                RunOutcome(outcome, counts)>>]
<1>1. Write(tx, end) /\ node' = node
  BY DEF Finish
<1>2. /\ tx.facts = <<Says(node, outcome), Says(Run, outcome), Says(Task, outcome), last>>
      /\ Shape(tx, {}, {node, Run, Task}, outcome, {}) /\ tx.needs = {}
  BY DEF NoRows, Each, Shape
<1>3. \A r \in Record : /\ Says(r, outcome) \in Fact /\ Says(r, outcome).on = r
                        /\ Says(r, outcome).is = outcome
  BY SaysIsFact, RecordsAndWords
<1>4. /\ last \in Fact /\ last.on = Run /\ last.is \in FinalWords /\ last.is \notin Status
      /\ last.is # "artifact.created" /\ last.is # "model.requested"
  BY RunOutcomeIsFact
<1>5. outcome \in Status /\ outcome # "artifact.created" /\ outcome \notin CountedWords
  BY RecordsAndWords, WordsAreDistinct
<1>6. node \in Record /\ Run \in Record /\ Task \in Record
  BY RecordsAndWords
<1> HIDE DEF tx, last
<1>7. tx.facts \in Seq(Fact) /\ Len(tx.facts) = 4 /\ DOMAIN tx.facts = {1, 2, 3, 4}
  BY <1>2, <1>3, <1>4, <1>6
<1>8. /\ tx.facts[1].on = node /\ tx.facts[2].on = Run /\ tx.facts[3].on = Task
      /\ \A k \in {1, 2, 3} : tx.facts[k].is = outcome
      /\ tx.facts[4] = last
  BY <1>2, <1>3, <1>6
<1>9. DOMAIN tx.set = {node, Run, Task} /\ tx.artifacts = {} /\ tx.add = {}
      /\ \A r \in DOMAIN tx.set : tx.set[r] = outcome
  BY <1>2 DEF Shape
<1>10. OneMoveEach(tx, outcome)
  <2>1. \A k \in DOMAIN tx.facts :
          /\ tx.facts[k].is # "artifact.created"
          /\ tx.facts[k].is \in Status =>
               /\ tx.facts[k].on \in DOMAIN tx.set
               /\ \A j \in DOMAIN tx.facts :
                    tx.facts[j].is \in Status /\ tx.facts[j].on = tx.facts[k].on => j = k
    BY <1>4, <1>5, <1>7, <1>8, <1>9, RecordsAreDistinct
  <2>2. \A k \in DOMAIN tx.facts : /\ tx.facts[k].on \in Record \cap DOMAIN tx.set
                                   /\ tx.facts[k].on \notin Invocation
    BY <1>4, <1>6, <1>7, <1>8, <1>9, RecordsAreDistinct
  <2>3. \A r \in DOMAIN tx.set :
          tx.set[r] = outcome /\ \E k \in DOMAIN tx.facts : tx.facts[k].on = r /\ tx.facts[k].is = outcome
    BY <1>7, <1>8, <1>9
  <2>4. tx.facts \in Seq(Fact) /\ Len(tx.facts) > 0
    BY <1>7
  <2> QED
    BY <1>5, <1>9, <2>1, <2>2, <2>3, <2>4 DEF OneMoveEach
<1>11. Lacks(tx, {"model.requested"}) /\ Only(tx, FinalWords, 4)
  BY <1>4, <1>5, <1>7, <1>8 DEF Lacks, Only, CountedWords
<1> QED
  BY <1>1, <1>2, <1>8, <1>10, <1>11, OneMoveEachIsTransaction DEF last

\* What FinishRun writes: the Run and the Task end, the nodes have ended before.
LEMMA FinishRunWrites ==
  ASSUME node \in Node, NEW end, NEW outcome \in Terminal, NEW counts \in Seq(Nat),
         FinishRun(outcome, counts, end)
  PROVE  /\ node' = node
         /\ \E tx : /\ Transaction(tx) /\ Write(tx, end)
                    /\ Lacks(tx, {"model.requested"}) /\ Only(tx, FinalWords, 3)
                    /\ tx.facts[3] = RunOutcome(outcome, counts)
                    /\ Shape(tx, {}, {Run, Task}, outcome, {}) /\ tx.needs = {}
<1> DEFINE last == RunOutcome(outcome, counts)
           tx == [NoRows EXCEPT !.set = Each({Run, Task}, outcome),
                    !.facts = <<Says(Run, outcome), Says(Task, outcome),
                                RunOutcome(outcome, counts)>>]
<1>1. Write(tx, end) /\ node' = node
  BY DEF FinishRun
<1>2. /\ tx.facts = <<Says(Run, outcome), Says(Task, outcome), last>>
      /\ Shape(tx, {}, {Run, Task}, outcome, {}) /\ tx.needs = {}
  BY DEF NoRows, Each, Shape
<1>3. \A r \in Record : /\ Says(r, outcome) \in Fact /\ Says(r, outcome).on = r
                        /\ Says(r, outcome).is = outcome
  BY SaysIsFact, RecordsAndWords
<1>4. /\ last \in Fact /\ last.on = Run /\ last.is \in FinalWords /\ last.is \notin Status
      /\ last.is # "artifact.created" /\ last.is # "model.requested"
  BY RunOutcomeIsFact
<1>5. outcome \in Status /\ outcome # "artifact.created" /\ outcome \notin CountedWords
  BY RecordsAndWords, WordsAreDistinct
<1>6. Run \in Record /\ Task \in Record
  BY RecordsAndWords
<1> HIDE DEF tx, last
<1>7. tx.facts \in Seq(Fact) /\ Len(tx.facts) = 3 /\ DOMAIN tx.facts = {1, 2, 3}
  BY <1>2, <1>3, <1>4, <1>6
<1>8. /\ tx.facts[1].on = Run /\ tx.facts[2].on = Task
      /\ \A k \in {1, 2} : tx.facts[k].is = outcome
      /\ tx.facts[3] = last
  BY <1>2, <1>3, <1>6
<1>9. DOMAIN tx.set = {Run, Task} /\ tx.artifacts = {} /\ tx.add = {}
      /\ \A r \in DOMAIN tx.set : tx.set[r] = outcome
  BY <1>2 DEF Shape
<1>10. OneMoveEach(tx, outcome)
  <2>1. \A k \in DOMAIN tx.facts :
          /\ tx.facts[k].is # "artifact.created"
          /\ tx.facts[k].is \in Status =>
               /\ tx.facts[k].on \in DOMAIN tx.set
               /\ \A j \in DOMAIN tx.facts :
                    tx.facts[j].is \in Status /\ tx.facts[j].on = tx.facts[k].on => j = k
    BY <1>4, <1>5, <1>7, <1>8, <1>9, RecordsAreDistinct
  <2>2. \A k \in DOMAIN tx.facts : /\ tx.facts[k].on \in Record \cap DOMAIN tx.set
                                   /\ tx.facts[k].on \notin Invocation
    BY <1>4, <1>6, <1>7, <1>8, <1>9, RecordsAreDistinct
  <2>3. \A r \in DOMAIN tx.set :
          tx.set[r] = outcome /\ \E k \in DOMAIN tx.facts : tx.facts[k].on = r /\ tx.facts[k].is = outcome
    BY <1>7, <1>8, <1>9
  <2>4. tx.facts \in Seq(Fact) /\ Len(tx.facts) > 0
    BY <1>7
  <2> QED
    BY <1>5, <1>9, <2>1, <2>2, <2>3, <2>4 DEF OneMoveEach
<1>11. Lacks(tx, {"model.requested"}) /\ Only(tx, FinalWords, 3)
  BY <1>4, <1>5, <1>7, <1>8 DEF Lacks, Only, CountedWords
<1> QED
  BY <1>1, <1>2, <1>8, <1>10, <1>11, OneMoveEachIsTransaction DEF last

\* What any step does to the database: it reads, is the server's decision, or
\* is one write.
Stepped ==
  \/ Quiet
  \/ Settle
  \/ node' \in Node /\ \E tx, end : Transaction(tx) /\ Write(tx, end)

\* Every step of any caller reads, is the server's decision, or is one write.
LEMMA StepsWrite ==
  ASSUME node \in Node, [PNext]_pvars
  PROVE  Stepped
<1>1. CASE UNCHANGED pvars
  BY <1>1 DEF pvars, Quiet, Stepped
<1>2. ASSUME NEW end \in Ends, Load(end)
      PROVE  Quiet
  BY <1>2 DEF Load, Quiet
<1>3. ASSUME NEW end \in Ends, NEW outcome \in Outcomes,
             \/ Finish(outcome, <<0, 0, 0>>, end) \/ FinishNode(outcome, end)
             \/ FinishRun(outcome, <<0, 0, 0>>, end)
      PROVE  Stepped
  <2>1. outcome \in Terminal /\ outcome \in Status /\ <<0, 0, 0>> \in Seq(Nat)
    BY ConstantsAssumption, RecordsAndWords
  <2> QED
    BY <1>3, <2>1, FinishWrites, MoveNodeWrites, FinishRunWrites DEF Stepped
<1>4. ASSUME NEW end \in Ends, ModelEvent(end)
      PROVE  Stepped
  BY <1>4, ModelRequestedWrites, ModelEndedWrites DEF ModelEvent, Stepped
<1>5. ASSUME NEW end \in Ends,
             \/ Initialize(end) \/ Start(end) \/ StartNode(end)
             \/ \E n \in Node : AddNode(n, end)
      PROVE  Stepped
  BY <1>5, InitializeWrites, StartWrites, MoveNodeWrites, AddNodeWrites, RecordsAndWords DEF Stepped
<1>6. ASSUME NEW end \in Ends, NEW i \in Invocation, InvocationCall(i, end)
      PROVE  Stepped
  BY <1>6, InvocationStepWrites DEF Stepped
<1> QED
  BY <1>1, <1>2, <1>3, <1>4, <1>5, <1>6 DEF PNext, Stepped

-----------------------------------------------------------------------------
(***************************************************************************)
(* The steps keep the invariant.                                            *)
(***************************************************************************)
\* The server's late decision.
LEMMA SettleKeepsPInv ==
  ASSUME PInv, Settle
  PROVE  PInv'
<1>1. LastNumber(db) \in Nat /\ LastNumber(db) <= LastNumber(db') /\ LastNumber(db') \in Nat
  BY ContiguousLast DEF PInv, Settle, Lengthens
<1>2. seq' \in Nat /\ seq' <= LastNumber(db')
  BY <1>1 DEF PInv, PTypeOK, Settle
<1> QED
  BY <1>2 DEF PInv, PTypeOK, Settle, Lengthens

-----------------------------------------------------------------------------
(***************************************************************************)
(* The theorems.                                                            *)
(***************************************************************************)
\* The empty database satisfies the invariant.
LEMMA PInitPInv == PInit => PInv
<1> SUFFICES ASSUME PInit PROVE PInv
  OBVIOUS
<1>1. DOMAIN db.events = 1 .. 0
  BY DEF PInit
<1>2. Contiguous(db) /\ LastNumber(db) = 0
  BY <1>1, LastNumberOfContiguous DEF Contiguous
<1>3. IsDatabase(db)
  BY <1>1 DEF PInit, IsDatabase
<1> QED
  BY <1>2, <1>3, ConstantsAssumption DEF PInit, PInv, PTypeOK, Lengthens

\* Steps that touch neither the rows nor the counter.
LEMMA QuietKeepsPInv ==
  ASSUME PInv, Quiet
  PROVE  PInv'
<1>1. faults' \in 0 .. MaxFaults
  BY ConstantsAssumption DEF PInv, PTypeOK, Quiet
<1> QED
  BY <1>1 DEF PInv, PTypeOK, Lengthens, IsDatabase, Contiguous, LastNumber, Quiet

\* The invariant is inductive for whoever writes such transactions.
LEMMA SteppedKeepsPInv ==
  ASSUME PInv, Stepped
  PROVE  PInv'
<1>1. ASSUME node' \in Node, NEW tx, NEW end, Transaction(tx), Write(tx, end)
      PROVE  PInv'
  BY <1>1, WriteKeepsPInv DEF Transaction
<1> QED
  BY <1>1, QuietKeepsPInv, SettleKeepsPInv DEF Stepped

\* So it is for any caller of any method.
LEMMA PNextKeepsPInv == PInv /\ [PNext]_pvars => PInv'
<1> SUFFICES ASSUME PInv, [PNext]_pvars PROVE PInv'
  OBVIOUS
<1>1. node \in Node
  BY DEF PInv, PTypeOK
<1> QED
  BY <1>1, StepsWrite, SteppedKeepsPInv

\* Types: no sequence of calls and failures takes the rows, the counter or an
\* undecided commit out of their types.
THEOREM TypesHold == PSpec => []PTypeOK
<1>1. PInv => PTypeOK
  BY DEF PInv
<1> QED
  BY <1>1, PInitPInv, PNextKeepsPInv, PTL DEF PSpec

\* The Events of a Run are numbered 1 .. n and the counter never runs ahead of
\* them, for any number of records and whatever fails, is cancelled or commits
\* late.
THEOREM EventsAreNumbered == PSpec => []EventNumbering
<1>1. PInv => EventNumbering
  BY ContiguousLast DEF PInv, EventNumbering
<1> QED
  BY <1>1, PInitPInv, PNextKeepsPInv, PTL DEF PSpec

-----------------------------------------------------------------------------
(***************************************************************************)
(* RunPersistence implements RunLedger: the rows and the Events of a Run,   *)
(* seen together, are an append-only ledger and a table that moves as the   *)
(* ledger tells.                                                            *)
(***************************************************************************)
\* What RunLedger asks of one record between two database states.
NewNumbers(old, new) == LastNumber(old) + 1 .. LastNumber(new)

Moved(old, new, r) ==
  \/ /\ \A n \in NewNumbers(old, new) : ~Telling(new.events, n, r)
     /\ new.status[r] = old.status[r]
  \/ \E n \in NewNumbers(old, new) :
       /\ Telling(new.events, n, r)
       /\ \A m \in NewNumbers(old, new) : Telling(new.events, m, r) => m = n
       /\ new.status[r] = new.events[n].is
       /\ Follows(old.status[r], new.status[r])
  \/ \E n \in NewNumbers(old, new) :
       /\ n + 1 \in NewNumbers(old, new)
       /\ Telling(new.events, n, r) /\ new.events[n].is \in Initial
       /\ Telling(new.events, n + 1, r) /\ new.events[n + 1].is = "running"
       /\ \A m \in NewNumbers(old, new) : Telling(new.events, m, r) => m \in {n, n + 1}
       /\ old.status[r] = Absent /\ new.status[r] = "running"

\* The database state new is old with one batch appended.
Appends(old, new) ==
  /\ LastNumber(new) > LastNumber(old)
  /\ \A n \in 1 .. LastNumber(old) : new.events[n] = old.events[n]
  /\ \A r \in Record : Moved(old, new, r)

LInv == PInv /\ \A d \in inDoubt : Appends(db, d)

-----------------------------------------------------------------------------
(***************************************************************************)
(* One transaction appends one batch.                                       *)
(***************************************************************************)
\* What an accepted transaction that tells its records makes of the database.
LEMMA AcceptedAppends ==
  ASSUME PInv, NEW tx, Transaction(tx), Accepted(tx)
  PROVE  Appends(db, After(tx))
<1> DEFINE last == LastNumber(db)
           len == Len(tx.facts)
           new == After(tx)
<1>1. last \in Nat /\ DOMAIN db.events = 1 .. last /\ len \in Nat /\ len > 0
  BY ContiguousLast DEF PInv, Transaction, Typed, Told
<1>2. seq = last /\ LastNumber(new) = last + len /\ DOMAIN new.events = 1 .. (last + len)
  BY <1>1, AcceptedContinues DEF Transaction
<1>3. DOMAIN tx.facts = 1 .. len
  BY DEF Transaction, Typed
<1>4. Numbers(tx) = last + 1 .. last + len /\ NewNumbers(db, new) = last + 1 .. last + len
  BY <1>2 DEF Numbers, NewNumbers
<1>5. \A n \in 1 .. last : new.events[n] = db.events[n]
  BY <1>1, <1>2, <1>4 DEF After
<1>6. \A n \in last + 1 .. last + len : n - last \in 1 .. len /\ new.events[n] = tx.facts[n - last]
  BY <1>1, <1>2, <1>4 DEF After
<1>7. \A k \in 1 .. len : k + last \in last + 1 .. last + len /\ new.events[k + last] = tx.facts[k]
  <2> TAKE k \in 1 .. len
  <2>1. k + last \in last + 1 .. last + len /\ (k + last) - last = k
    BY <1>1
  <2> QED
    BY <2>1, <1>6
<1>8. ASSUME NEW r \in Record PROVE Moved(db, new, r)
  <2>1. new.status[r] = IF r \in DOMAIN tx.set THEN tx.set[r] ELSE db.status[r]
    BY DEF After
  <2>2. CASE r \notin DOMAIN tx.set /\ \A k \in DOMAIN tx.facts : ~Telling(tx.facts, k, r)
    BY <2>1, <2>2, <1>3, <1>4, <1>6 DEF Moved, Telling
  <2>3. CASE /\ r \in DOMAIN tx.set
             /\ r \in tx.add => tx.set[r] \in Initial
             /\ \E k \in DOMAIN tx.facts :
                  /\ tx.facts[k].on = r /\ tx.facts[k].is = tx.set[r]
                  /\ \A j \in DOMAIN tx.facts : Telling(tx.facts, j, r) => j = k
    <3>1. PICK k \in 1 .. len : /\ tx.facts[k].on = r /\ tx.facts[k].is = tx.set[r]
                                /\ \A j \in DOMAIN tx.facts : Telling(tx.facts, j, r) => j = k
      BY <2>3, <1>3
    <3>2. tx.set[r] \in Status
      BY <2>3 DEF Transaction, Typed
    <3>3. Follows(db.status[r], new.status[r])
      <4>1. CASE r \in tx.add
        BY <4>1, <2>1, <2>3 DEF Accepted, Follows
      <4>2. CASE r \notin tx.add
        BY <4>2, <2>1, <2>3 DEF Accepted, Follows
      <4> QED
        BY <4>1, <4>2
    <3>4. /\ k + last \in NewNumbers(db, new)
          /\ Telling(new.events, k + last, r)
          /\ new.status[r] = new.events[k + last].is
      BY <3>1, <3>2, <2>1, <2>3, <1>4, <1>7 DEF Telling
    <3>5. ASSUME NEW m \in NewNumbers(db, new), Telling(new.events, m, r)
          PROVE  m = k + last
      <4>1. m - last \in DOMAIN tx.facts /\ Telling(tx.facts, m - last, r)
        BY <3>5, <1>3, <1>4, <1>6 DEF Telling
      <4>2. m - last = k /\ m \in Int
        BY <4>1, <3>1, <3>5, <1>1, <1>4
      <4> QED
        BY <4>2, <1>1
    <3> QED
      BY <3>3, <3>4, <3>5 DEF Moved
  <2>4. CASE /\ r \in tx.add /\ tx.set[r] = "running"
             /\ \E k \in DOMAIN tx.facts :
                  /\ k + 1 \in DOMAIN tx.facts
                  /\ tx.facts[k].on = r /\ tx.facts[k].is \in Initial
                  /\ tx.facts[k + 1].on = r /\ tx.facts[k + 1].is = "running"
                  /\ \A j \in DOMAIN tx.facts : Telling(tx.facts, j, r) => j \in {k, k + 1}
    <3>1. PICK k \in 1 .. len :
            /\ k + 1 \in 1 .. len
            /\ tx.facts[k].on = r /\ tx.facts[k].is \in Initial
            /\ tx.facts[k + 1].on = r /\ tx.facts[k + 1].is = "running"
            /\ \A j \in DOMAIN tx.facts : Telling(tx.facts, j, r) => j \in {k, k + 1}
      BY <2>4, <1>3
    <3>2. (k + 1) + last = (k + last) + 1
      BY <1>1
    <3>3. /\ k + last \in NewNumbers(db, new) /\ (k + last) + 1 \in NewNumbers(db, new)
          /\ new.events[k + last] = tx.facts[k] /\ new.events[(k + last) + 1] = tx.facts[k + 1]
      BY <3>1, <3>2, <1>4, <1>7
    <3>4. /\ Telling(new.events, k + last, r) /\ new.events[k + last].is \in Initial
          /\ Telling(new.events, (k + last) + 1, r) /\ new.events[(k + last) + 1].is = "running"
      BY <3>1, <3>3, RecordsAndWords DEF Telling
    <3>5. ASSUME NEW m \in NewNumbers(db, new), Telling(new.events, m, r)
          PROVE  m \in {k + last, (k + last) + 1}
      <4>1. m - last \in DOMAIN tx.facts /\ Telling(tx.facts, m - last, r)
        BY <3>5, <1>3, <1>4, <1>6 DEF Telling
      <4>2. m - last \in {k, k + 1} /\ m \in Int
        BY <4>1, <3>1, <3>5, <1>1, <1>4
      <4> QED
        BY <4>2, <1>1
    <3>6. db.status[r] = Absent /\ new.status[r] = "running"
      BY <2>1, <2>4 DEF Accepted, Transaction, Told
    <3> QED
      BY <3>3, <3>4, <3>5, <3>6 DEF Moved
  <2> QED
    BY <2>2, <2>3, <2>4 DEF Transaction, Told
<1> QED
  BY <1>1, <1>2, <1>5, <1>8 DEF Appends

\* A write leaves the rows alone or appends one batch, and what it leaves
\* undecided is one batch more.
LEMMA WriteAppends ==
  ASSUME LInv, NEW tx, Transaction(tx), NEW end, Write(tx, end)
  PROVE  /\ db' = db \/ Appends(db, db')
         /\ \A d \in inDoubt' : Appends(db', d)
<1>1. Accepted(tx) => Appends(db, After(tx))
  BY AcceptedAppends DEF LInv
<1>2. CASE WriteBlocked(end)
  BY <1>2 DEF WriteBlocked, LInv
<1>3. CASE WriteDecided(tx, end)
  BY <1>1, <1>3 DEF WriteDecided, RolledBack, CommittedAnyway, Undecided
<1> QED
  BY <1>2, <1>3 DEF Write

-----------------------------------------------------------------------------
(***************************************************************************)
(* The refinement.                                                          *)
(***************************************************************************)
\* The invariant is inductive, for any caller.
LEMMA SteppedKeepsLInv ==
  ASSUME LInv, PInv', Stepped
  PROVE  LInv'
<1>1. CASE Quiet
  <2>1. db' = db /\ inDoubt' = inDoubt
    BY <1>1 DEF Quiet
  <2>2. \A d \in inDoubt' : Appends(db', d)
    BY <2>1 DEF LInv
  <2> QED
    BY <2>2 DEF LInv
<1>2. CASE Settle
  BY <1>2 DEF Settle, LInv
<1>3. ASSUME NEW tx, NEW end, Transaction(tx), Write(tx, end)
      PROVE  LInv'
  BY <1>3, WriteAppends DEF LInv
<1> QED
  BY <1>1, <1>2, <1>3 DEF Stepped

\* Every step is a stutter or appends one batch.
LEMMA StepsAppend ==
  ASSUME LInv, Stepped
  PROVE  db' = db \/ Appends(db, db')
BY WriteAppends DEF Stepped, Quiet, Settle, LInv

\* A batch is a Commit of the ledger.
LEMMA AppendsIsCommit ==
  ASSUME PInv, PInv', Appends(db, db')
  PROVE  Ledger!Commit
<1>1. /\ LastNumber(db) \in Nat /\ DOMAIN db.events = 1 .. LastNumber(db)
      /\ LastNumber(db') \in Nat /\ DOMAIN db'.events = 1 .. LastNumber(db')
  BY ContiguousLast DEF PInv
<1>2. Len(db.events) = LastNumber(db) /\ Len(db'.events) = LastNumber(db')
  BY <1>1
<1>3. ASSUME NEW r \in Record
      PROVE  Ledger!Untouched(r) \/ Ledger!Moves(r) \/ Ledger!Launches(r)
  <2>1. Ledger!Added = NewNumbers(db, db')
    BY <1>2 DEF Ledger!Added, NewNumbers
  <2>2. Ledger!Status = Status
    BY DEF Ledger!Status, Status, Ledger!Initial, Initial, Ledger!Terminal, Terminal
  <2>3. Moved(db, db', r)
    BY DEF Appends
  <2>4. /\ Ledger!Initial = Initial /\ Ledger!Absent = Absent
        /\ \A s, t : Ledger!Follows(s, t) <=> Follows(s, t)
    BY DEF Ledger!Follows, Follows, Ledger!EnsureTransition, EnsureTransition,
           Ledger!Transitions, Transitions, Ledger!Status, Status,
           Ledger!Terminal, Terminal, Ledger!Initial, Initial, Ledger!Absent, Absent
  <2> DEFINE N == NewNumbers(db, db')
             T(n) == Telling(db'.events, n, r)
  <2>5. CASE (\A n \in N : ~T(n)) /\ db'.status[r] = db.status[r]
    BY <2>1, <2>2, <2>5 DEF Ledger!Untouched, Ledger!Tells, Telling
  <2>6. CASE \E n \in N : /\ T(n) /\ \A m \in N : T(m) => m = n
                          /\ db'.status[r] = db'.events[n].is
                          /\ Follows(db.status[r], db'.status[r])
    <3>1. Ledger!Moves(r)
      BY <2>1, <2>2, <2>4, <2>6 DEF Ledger!Moves, Ledger!Tells, Telling
    <3> QED
      BY <3>1
  <2>7. CASE \E n \in N : /\ n + 1 \in N
                          /\ T(n) /\ db'.events[n].is \in Initial
                          /\ T(n + 1) /\ db'.events[n + 1].is = "running"
                          /\ \A m \in N : T(m) => m \in {n, n + 1}
                          /\ db.status[r] = Absent /\ db'.status[r] = "running"
    <3>1. Ledger!Launches(r)
      BY <2>1, <2>2, <2>4, <2>7 DEF Ledger!Launches, Ledger!Tells, Telling
    <3> QED
      BY <3>1
  <2> QED
    BY <2>3, <2>5, <2>6, <2>7 DEF Moved
<1> QED
  BY <1>2, <1>3 DEF Ledger!Commit, Appends

\* The three lemmas together: what any caller does is a step of the ledger.
LEMMA SteppedImplements ==
  ASSUME LInv, LInv', Stepped
  PROVE  [Ledger!Commit]_(Ledger!vars)
<1>1. CASE db' = db
  BY <1>1 DEF Ledger!vars
<1>2. CASE Appends(db, db')
  BY <1>2, AppendsIsCommit DEF LInv
<1> QED
  BY <1>1, <1>2, StepsAppend

\* A Run with no rows is a ledger with no entries.
LEMMA InitImplements == PInit => LInv /\ Ledger!Init
<1>1. PInit => LInv
  BY PInitPInv DEF PInit, LInv
<1>2. PInit => Ledger!Init
  BY DEF PInit, Ledger!Init, Ledger!Absent, Absent
<1> QED
  BY <1>1, <1>2

\* The tables of a Run, with every failure, cancellation and late commit,
\* implement the append-only ledger and the table that it tells.
THEOREM LedgerIsImplemented == PSpec => ImplementsLedger
<1>1. LInv /\ [PNext]_pvars => LInv' /\ [Ledger!Commit]_(Ledger!vars)
  <2> SUFFICES ASSUME LInv, [PNext]_pvars PROVE LInv' /\ [Ledger!Commit]_(Ledger!vars)
    OBVIOUS
  <2>1. Stepped
    BY StepsWrite DEF LInv, PInv, PTypeOK
  <2>2. LInv'
    BY <2>1, PNextKeepsPInv, SteppedKeepsLInv DEF LInv
  <2> QED
    BY <2>1, <2>2, SteppedImplements
<1> QED
  BY <1>1, InitImplements, PTL DEF PSpec, ImplementsLedger, Ledger!Spec

-----------------------------------------------------------------------------
(***************************************************************************)
(* Artifacts: each row is announced once and each announcement has a row,   *)
(* for an Invocation that has ended.                                        *)
(***************************************************************************)
\* In database state d each Artifact has one row and one announcement or none.
ToldOnce(d) ==
  /\ \A b \in d.artifacts :
       /\ d.status[b.invocation] \in Terminal
       /\ \A c \in d.artifacts : b.id = c.id => b = c
       /\ \E n \in DOMAIN d.events : Announcing(d.events, n, b.id)
  /\ \A a \in Artifact, n \in DOMAIN d.events :
       Announcing(d.events, n, a) =>
         /\ \E b \in d.artifacts : b.id = a
         /\ \A m \in DOMAIN d.events : Announcing(d.events, m, a) => m = n

AInv == PInv /\ \A d \in {db} \cup inDoubt : ToldOnce(d)

-----------------------------------------------------------------------------
(***************************************************************************)
(* One transaction.                                                         *)
(***************************************************************************)
\* An ended record keeps its state whatever transaction is accepted.
LEMMA EndedRecordsStay ==
  ASSUME NEW tx, Accepted(tx), NEW r \in Record, db.status[r] \in Terminal
  PROVE  After(tx).status[r] = db.status[r]
BY DEF Accepted, After, EnsureTransition, Transitions, Terminal, Status, Initial, Absent

\* The Events of the log keep their numbers and the new ones follow them.
LEMMA AcceptedEvents ==
  ASSUME PInv, NEW tx, Transaction(tx), Accepted(tx)
  PROVE  LET last == LastNumber(db)
             new  == After(tx).events
         IN /\ last \in Nat /\ DOMAIN db.events = 1 .. last
            /\ DOMAIN tx.facts = 1 .. Len(tx.facts) /\ Len(tx.facts) \in Nat
            /\ DOMAIN new = 1 .. (last + Len(tx.facts))
            /\ \A n \in 1 .. last : new[n] = db.events[n]
            /\ \A n \in last + 1 .. last + Len(tx.facts) :
                 n - last \in 1 .. Len(tx.facts) /\ new[n] = tx.facts[n - last]
            /\ \A k \in 1 .. Len(tx.facts) :
                 k + last \in last + 1 .. last + Len(tx.facts) /\ new[k + last] = tx.facts[k]
<1> DEFINE last == LastNumber(db)
           len == Len(tx.facts)
           new == After(tx).events
<1>1. last \in Nat /\ DOMAIN db.events = 1 .. last /\ len \in Nat /\ len > 0
  BY ContiguousLast DEF PInv, Transaction, Typed, Told
<1>2. DOMAIN tx.facts = 1 .. len
  BY DEF Transaction, Typed
<1>3. seq = last /\ DOMAIN new = 1 .. (last + len)
  BY <1>1, AcceptedContinues DEF Transaction
<1>4. Numbers(tx) = last + 1 .. last + len
  BY <1>3 DEF Numbers
<1>5. \A n \in 1 .. last : new[n] = db.events[n]
  BY <1>1, <1>3, <1>4 DEF After
<1>6. \A n \in last + 1 .. last + len : n - last \in 1 .. len /\ new[n] = tx.facts[n - last]
  BY <1>1, <1>3, <1>4 DEF After
<1>7. ASSUME NEW k \in 1 .. len
      PROVE  k + last \in last + 1 .. last + len /\ new[k + last] = tx.facts[k]
  <2>1. k + last \in last + 1 .. last + len /\ (k + last) - last = k
    BY <1>1
  <2> QED
    BY <2>1, <1>6
<1> QED
  BY <1>1, <1>2, <1>3, <1>5, <1>6, <1>7

\* An accepted transaction inserts and announces only Artifacts that have no
\* row yet.
LEMMA AcceptedKeepsToldOnce ==
  ASSUME PInv, ToldOnce(db), NEW tx, Transaction(tx), Accepted(tx)
  PROVE  ToldOnce(After(tx))
<1> DEFINE last == LastNumber(db)
           len == Len(tx.facts)
           new == After(tx)
<1>1. /\ last \in Nat /\ DOMAIN db.events = 1 .. last
      /\ DOMAIN tx.facts = 1 .. len /\ len \in Nat
      /\ DOMAIN new.events = 1 .. (last + len)
  BY AcceptedEvents
<1>2. \A n \in 1 .. last : new.events[n] = db.events[n]
  BY AcceptedEvents
<1>3. \A n \in last + 1 .. last + len :
        n - last \in 1 .. len /\ new.events[n] = tx.facts[n - last]
  BY AcceptedEvents
<1>4. \A k \in 1 .. len :
        k + last \in last + 1 .. last + len /\ new.events[k + last] = tx.facts[k]
  BY AcceptedEvents
<1>5. new.artifacts = db.artifacts \cup tx.artifacts
  BY DEF After
<1>6. \A b \in db.artifacts, c \in tx.artifacts : b.id # c.id
  BY DEF Accepted
<1>7. \A b \in new.artifacts : b.id \in Artifact /\ b.invocation \in Record
  BY <1>5 DEF PInv, PTypeOK, IsDatabase, Transaction, Typed, ArtifactRow, Record
<1>8. ASSUME NEW b \in new.artifacts
      PROVE  new.status[b.invocation] \in Terminal
  <2>1. CASE b \in db.artifacts
    <3>1. db.status[b.invocation] \in Terminal
      BY <2>1 DEF ToldOnce
    <3> QED
      BY <3>1, <1>7, EndedRecordsStay
  <2>2. CASE b \in tx.artifacts
    <3>1. b.invocation \in DOMAIN tx.set /\ tx.set[b.invocation] \in Terminal
      BY <2>2 DEF Transaction, Announced
    <3> QED
      BY <3>1, <1>7 DEF After
  <2> QED
    BY <2>1, <2>2, <1>5
<1>9. ASSUME NEW b \in new.artifacts, NEW c \in new.artifacts, b.id = c.id
      PROVE  b = c
  <2>1. CASE b \in db.artifacts /\ c \in db.artifacts
    BY <2>1, <1>9 DEF ToldOnce
  <2>2. CASE b \in tx.artifacts /\ c \in tx.artifacts
    BY <2>2, <1>9 DEF Transaction, Announced
  <2> QED
    BY <2>1, <2>2, <1>5, <1>6, <1>9
<1>10. ASSUME NEW b \in new.artifacts
       PROVE  \E n \in DOMAIN new.events : Announcing(new.events, n, b.id)
  <2>1. CASE b \in db.artifacts
    <3>1. PICK n \in DOMAIN db.events : Announcing(db.events, n, b.id)
      BY <2>1 DEF ToldOnce
    <3>2. n \in DOMAIN new.events /\ new.events[n] = db.events[n]
      BY <1>1, <1>2
    <3> QED
      BY <3>1, <3>2 DEF Announcing
  <2>2. CASE b \in tx.artifacts
    <3>1. PICK k \in DOMAIN tx.facts : Announcing(tx.facts, k, b.id)
      BY <2>2 DEF Transaction, Announced
    <3>2. k + last \in DOMAIN new.events /\ new.events[k + last] = tx.facts[k]
      BY <1>1, <1>4
    <3> QED
      BY <3>1, <3>2 DEF Announcing
  <2> QED
    BY <2>1, <2>2, <1>5
<1>11. ASSUME NEW a \in Artifact, NEW n \in DOMAIN new.events, Announcing(new.events, n, a)
       PROVE  \/ n \in 1 .. last /\ Announcing(db.events, n, a)
                 /\ \E b \in db.artifacts : b.id = a
              \/ n \in last + 1 .. last + len /\ Announcing(tx.facts, n - last, a)
                 /\ \E b \in tx.artifacts : b.id = a
  <2>1. CASE n \in 1 .. last
    <3>1. n \in DOMAIN db.events /\ Announcing(db.events, n, a)
      BY <2>1, <1>1, <1>2, <1>11 DEF Announcing
    <3> QED
      BY <2>1, <3>1 DEF ToldOnce
  <2>2. CASE n \in last + 1 .. last + len
    <3>1. n - last \in DOMAIN tx.facts /\ Announcing(tx.facts, n - last, a)
      BY <2>2, <1>1, <1>3, <1>11 DEF Announcing
    <3> QED
      BY <2>2, <3>1 DEF Transaction, Announced
  <2>3. n \in 1 .. last \/ n \in last + 1 .. last + len
    BY <1>1
  <2> QED
    BY <2>1, <2>2, <2>3
<1>12. ASSUME NEW a \in Artifact, NEW n \in DOMAIN new.events, Announcing(new.events, n, a)
       PROVE  \E b \in new.artifacts : b.id = a
  BY <1>5, <1>11, <1>12
<1>13. ASSUME NEW a \in Artifact,
              NEW n \in DOMAIN new.events, Announcing(new.events, n, a),
              NEW m \in DOMAIN new.events, Announcing(new.events, m, a)
       PROVE  m = n
  <2>1. CASE n \in 1 .. last /\ m \in 1 .. last
    <3>1. /\ n \in DOMAIN db.events /\ Announcing(db.events, n, a)
          /\ m \in DOMAIN db.events /\ Announcing(db.events, m, a)
      BY <2>1, <1>1, <1>2, <1>13 DEF Announcing
    <3> QED
      BY <3>1 DEF ToldOnce
  <2>2. CASE n \in last + 1 .. last + len /\ m \in last + 1 .. last + len
    <3>1. /\ n - last \in DOMAIN tx.facts /\ Announcing(tx.facts, n - last, a)
          /\ m - last \in DOMAIN tx.facts /\ Announcing(tx.facts, m - last, a)
      BY <2>2, <1>1, <1>3, <1>13 DEF Announcing
    <3>2. n - last = m - last
      BY <3>1 DEF Transaction, Announced
    <3> QED
      BY <3>2, <2>2, <1>1
  <2>3. CASE \/ n \in 1 .. last /\ m \in last + 1 .. last + len
             \/ m \in 1 .. last /\ n \in last + 1 .. last + len
    <3>1. /\ \E b \in db.artifacts : b.id = a
          /\ \E c \in tx.artifacts : c.id = a
      BY <2>3, <1>1, <1>11, <1>13
    <3> QED
      BY <3>1, <1>6
  <2>4. /\ n \in 1 .. last \/ n \in last + 1 .. last + len
        /\ m \in 1 .. last \/ m \in last + 1 .. last + len
    BY <1>1
  <2> QED
    BY <2>1, <2>2, <2>3, <2>4
<1> QED
  BY <1>8, <1>9, <1>10, <1>12, <1>13 DEF ToldOnce

-----------------------------------------------------------------------------
(***************************************************************************)
(* The invariant.                                                           *)
(***************************************************************************)
\* The invariant is inductive.
LEMMA SteppedKeepsAInv ==
  ASSUME AInv, Stepped
  PROVE  AInv'
<1>1. PInv'
  BY SteppedKeepsPInv DEF AInv
<1>2. CASE Quiet
  <2>1. db' = db /\ inDoubt' = inDoubt
    BY <1>2 DEF Quiet
  <2>2. \A d \in {db'} \cup inDoubt' : ToldOnce(d)
    BY <2>1 DEF AInv
  <2> QED
    BY <1>1, <2>2 DEF AInv
<1>3. CASE Settle
  <2>1. \A d \in {db'} \cup inDoubt' : ToldOnce(d)
    BY <1>3 DEF Settle, AInv
  <2> QED
    BY <1>1, <2>1 DEF AInv
<1>4. ASSUME NEW tx, NEW end, Transaction(tx), Write(tx, end)
      PROVE  AInv'
  <2>1. Accepted(tx) => ToldOnce(After(tx))
    BY <1>4, AcceptedKeepsToldOnce DEF AInv
  <2>2. \A d \in {db'} \cup inDoubt' : ToldOnce(d)
    BY <2>1, <1>4
    DEF Write, WriteBlocked, WriteDecided, RolledBack, CommittedAnyway, Undecided, AInv
  <2> QED
    BY <1>1, <2>2 DEF AInv
<1> QED
  BY <1>2, <1>3, <1>4 DEF Stepped

\* So it is for any caller of any method.
LEMMA PNextKeepsAInv == AInv /\ [PNext]_pvars => AInv'
<1> SUFFICES ASSUME AInv, [PNext]_pvars PROVE AInv'
  OBVIOUS
<1>1. node \in Node
  BY DEF AInv, PInv, PTypeOK
<1> QED
  BY <1>1, StepsWrite, SteppedKeepsAInv

\* One row and one announcement, counted.
LEMMA AInvCounted == AInv => ArtifactsAreTold
<1> SUFFICES ASSUME AInv PROVE ArtifactsAreTold
  OBVIOUS
<1>1. ToldOnce(db) /\ \A b \in db.artifacts : b.id \in Artifact
  BY DEF AInv, PInv, PTypeOK, IsDatabase, ArtifactRow
<1>2. ASSUME NEW a \in Artifact
      PROVE  LET rows == {b \in db.artifacts : b.id = a}
                 told == {n \in DOMAIN db.events : Tells(db.events[n], a, "artifact.created")}
             IN Cardinality(rows) = Cardinality(told) /\ Cardinality(rows) <= 1
  <2> DEFINE rows == {b \in db.artifacts : b.id = a}
             told == {n \in DOMAIN db.events : Tells(db.events[n], a, "artifact.created")}
  <2>1. CASE rows = {}
    <3>1. told = {}
      BY <2>1, <1>1 DEF ToldOnce, Announcing
    <3> QED
      BY <2>1, <3>1, FS_EmptySet
  <2>2. CASE rows # {}
    <3>1. PICK b \in rows : rows = {b}
      BY <2>2, <1>1 DEF ToldOnce
    <3>2. PICK n \in told : told = {n}
      BY <3>1, <1>1 DEF ToldOnce, Announcing
    <3>3. Cardinality(rows) = 1
      BY <3>1, FS_Singleton
    <3>4. Cardinality(told) = 1
      BY <3>2, FS_Singleton
    <3>5. \A x, y : x = 1 /\ y = 1 => x = y /\ x <= 1
      OBVIOUS
    <3> QED
      BY <3>3, <3>4, <3>5
  <2> QED
    BY <2>1, <2>2
<1> QED
  BY <1>1, <1>2 DEF ArtifactsAreTold, ToldOnce

\* An Artifact has one row exactly when the log announces it once, and only for
\* an Invocation that reached its end, however many Invocations claim it,
\* whatever fails and however late a commit lands.
THEOREM ArtifactsAnnounced == PSpec => []ArtifactsAreTold
<1>1. PInit => AInv
  BY PInitPInv DEF PInit, AInv, ToldOnce
<1> QED
  BY <1>1, PNextKeepsAInv, AInvCounted, PTL DEF PSpec

-----------------------------------------------------------------------------
(***************************************************************************)
(* Consistency: what inspect_consistency finds in the rows that a caller    *)
(* leaves.  Each method leads from one shape of the rows to the next and     *)
(* adds to the requests, the calls and the Artifacts; a Run that ends in     *)
(* order with the right counts has a trace without an issue.                 *)
(***************************************************************************)
\* The Events that say one of these words.
Of(d, words) == {n \in DOMAIN d.events : d.events[n].is \in words}

\* Every Event of database state d is about a row, and the end of an Invocation
\* has counted the rows of its Artifacts.
Sound(d) ==
  /\ IsFiniteSet(d.artifacts)
  /\ \A n \in DOMAIN d.events :
       LET e == d.events[n] IN
       /\ RowExists(d, e.on)
       /\ e.is = "artifact.created" => e.on \in Artifact
       /\ e.on \in Invocation /\ e.is \in Terminal =>
            /\ d.status[e.on] \in Terminal
            /\ e.counts = <<Cardinality({b \in d.artifacts : b.invocation = e.on})>>

Closed(s) == s \in Terminal \cup {Absent}

\* The Run of d has ended with status, and final Event k holds these counts.
Ended(d, status, k, counts) ==
  /\ status \in Terminal
  /\ d.status[Task] = status /\ d.status[Run] = status
  /\ \A r \in Node \cup Invocation : Closed(d.status[r])
  /\ \E n \in Node : d.status[n] # Absent
  /\ Of(d, FinalWords) = {k}
  /\ d.events[k].is = FinalWord(status) /\ d.events[k].counts = counts

\* The trace of an ended Run is consistent exactly as far as its final counts are.
LEMMA EndedIsConsistent ==
  ASSUME NEW d, IsDatabase(d), Contiguous(d), ToldOnce(d), Sound(d),
         NEW status, NEW k, NEW counts, Ended(d, status, k, counts),
         counts[2] = Cardinality(CalledIn(d)), counts[3] = Cardinality(d.artifacts)
  PROVE  InspectConsistency(d) =
           IF counts[1] = Cardinality(Of(d, {"model.requested"}))
             THEN {} ELSE {"model_turn_count_mismatch"}
<1>1. SequenceIssues(d) = {}
  <2>1. PICK n \in Nat : DOMAIN d.events = 1 .. n
    BY DEF Contiguous
  <2>2. Cardinality(1 .. n) = n
    BY FS_Interval
  <2> QED
    BY <2>1, <2>2 DEF SequenceIssues
<1>2. CorrelationIssues(d) = {}
  BY DEF CorrelationIssues, Numbered, Sound
<1>3. IncompleteIssues(d) = {}
  <2>1. k \in DOMAIN d.events
    BY DEF Ended, Of
  <2>2. d.events[k].is = (IF d.status[Run] = "succeeded" THEN "run.final" ELSE "run.error")
    BY DEF Ended, FinalWord
  <2>3. ~ \E r \in Node : d.status[r] \notin Terminal \cup {Absent}
    BY DEF Ended, Closed
  <2>4. ~ \E r \in Invocation : d.status[r] \notin Terminal \cup {Absent}
    BY DEF Ended, Closed
  <2>5. /\ d.status[Task] \in Terminal /\ d.status[Run] \in Terminal
        /\ \E n \in Node : d.status[n] # Absent
    BY DEF Ended
  <2> QED
    BY <2>1, <2>2, <2>3, <2>4, <2>5 DEF IncompleteIssues
<1>4. ArtifactIssues(d) = {}
  <2> DEFINE announced == {n \in DOMAIN d.events : d.events[n].is = "artifact.created"}
  <2>1. \A n \in announced : \E b \in d.artifacts : b.id = d.events[n].on
    BY DEF Sound, ToldOnce, Announcing, Tells
  <2>2. \A b \in d.artifacts : \E n \in announced : d.events[n].on = b.id
    BY DEF ToldOnce, Announcing, Tells
  <2>3. \A n, m \in announced : d.events[n].on = d.events[m].on => n = m
    BY DEF Sound, ToldOnce, Announcing, Tells
  <2>4. \A b, c \in d.artifacts : b.id = c.id => b = c
    BY DEF ToldOnce
  <2>5. Cardinality(announced) = Cardinality(d.artifacts)
    <3> DEFINE f == [b \in d.artifacts |-> CHOOSE n \in announced : d.events[n].on = b.id]
    <3>1. \A b \in d.artifacts : f[b] \in announced /\ d.events[f[b]].on = b.id
      BY <2>2
    <3>2. f \in [d.artifacts -> announced]
      BY <3>1
    <3>3. \A b, c \in d.artifacts : f[b] = f[c] => b = c
      <4> HIDE DEF f
      <4> QED
        BY <3>1, <2>4
    <3>4. \A n \in announced : \E b \in d.artifacts : f[b] = n
      <4> HIDE DEF f
      <4> QED
        BY <3>1, <2>1, <2>3
    <3> HIDE DEF f, announced
    <3>5. f \in Bijection(d.artifacts, announced)
      BY <3>2, <3>3, <3>4 DEF Bijection, Injection, Surjection, IsInjective
    <3> QED
      BY <3>5, FS_Bijection DEF ExistsBijection, Sound
  <2>6. {d.events[n].on : n \in announced} = RowIds(d)
    BY <2>1, <2>2 DEF RowIds
  <2>7. announced = Numbered(d, LAMBDA e : e.is = "artifact.created")
    BY DEF Numbered
  <2>8. Numbered(d, LAMBDA e : /\ e.on \in Invocation /\ e.is \in Terminal
                               /\ e.counts # <<Cardinality({b \in d.artifacts : b.invocation = e.on})>>) = {}
    BY DEF Numbered, Sound
  <2> HIDE DEF announced
  <2> QED
    BY <2>5, <2>6, <2>7, <2>8 DEF ArtifactIssues
<1>5. TerminalIssues(d) = IF counts[1] = Cardinality(Of(d, {"model.requested"}))
                            THEN {} ELSE {"model_turn_count_mismatch"}
  <2>1. Numbered(d, LAMBDA e : e.is \in {"run.final", "run.error"}) = {k}
    BY DEF Numbered, Ended, Of, FinalWords
  <2>2. Numbered(d, LAMBDA e : e.is = "model.requested") = Of(d, {"model.requested"})
    BY DEF Numbered, Of
  <2>3. Cardinality({k}) = 1
    BY FS_Singleton
  <2>4. d.events[k].counts = counts
    BY DEF Ended
  <2> QED
    BY <2>1, <2>2, <2>3, <2>4 DEF TerminalIssues
<1> QED
  BY <1>1, <1>2, <1>3, <1>4, <1>5 DEF InspectConsistency

-----------------------------------------------------------------------------
\* No record of the database is absent afterwards, nor one that is written.
LEMMA RowsStay ==
  ASSUME PInv, NEW tx, Typed(tx), Accepted(tx), NEW r \in Record,
         r \in DOMAIN tx.set \cup tx.needs \/ db.status[r] # Absent
  PROVE  After(tx).status[r] # Absent
<1>1. Absent \notin Status
  BY DEF Absent, Status, Initial, Terminal
<1>2. After(tx).status[r] = IF r \in DOMAIN tx.set THEN tx.set[r] ELSE db.status[r]
  BY DEF After
<1> QED
  BY <1>1, <1>2 DEF Typed, Accepted

\* What an accepted transaction says is true of the rows that it leaves.
LEMMA AcceptedKeepsSound ==
  ASSUME PInv, ToldOnce(db), Sound(db), NEW tx, Transaction(tx), Accepted(tx)
  PROVE  Sound(After(tx))
<1> DEFINE last == LastNumber(db)
           len == Len(tx.facts)
           new == After(tx)
           Of0(d, i) == {b \in d.artifacts : b.invocation = i}
<1>1. /\ last \in Nat /\ DOMAIN db.events = 1 .. last
      /\ DOMAIN tx.facts = 1 .. len /\ len \in Nat
      /\ DOMAIN new.events = 1 .. (last + len)
      /\ \A n \in 1 .. last : new.events[n] = db.events[n]
      /\ \A n \in last + 1 .. last + len :
           n - last \in 1 .. len /\ new.events[n] = tx.facts[n - last]
  BY AcceptedEvents
<1>2. new.artifacts = db.artifacts \cup tx.artifacts
  BY DEF After
<1>3. IsFiniteSet(new.artifacts)
  <2>1. IsFiniteSet(db.artifacts)
    BY DEF Sound
  <2>2. IsFiniteSet(tx.artifacts)
    BY DEF Transaction, Truthful
  <2> QED
    BY <1>2, <2>1, <2>2, FS_Union
<1>4. Typed(tx) /\ Told(tx) /\ Announced(tx) /\ Truthful(tx)
  BY DEF Transaction
<1>5. Terminal \subseteq Status /\ Terminal \cap Initial = {} /\ "running" \notin Terminal
      /\ Absent \notin Status
  BY DEF Absent, Status, Initial, Terminal
<1>6. Invocation \subseteq Record /\ Record \cap Artifact = {}
  BY ConstantsAssumption DEF Record
<1>7. ASSUME NEW n \in 1 .. last
      PROVE  LET e == db.events[n] IN
             /\ RowExists(new, e.on)
             /\ e.is = "artifact.created" => e.on \in Artifact
             /\ e.on \in Invocation /\ e.is \in Terminal =>
                  new.status[e.on] \in Terminal /\ e.counts = <<Cardinality(Of0(new, e.on))>>
  <2> DEFINE e == db.events[n]
  <2>1. e \in Fact /\ e.on \in Record \cup Artifact
    BY <1>1 DEF PInv, PTypeOK, IsDatabase, Fact
  <2>2. RowExists(db, e.on) /\ (e.is = "artifact.created" => e.on \in Artifact)
    BY <1>1 DEF Sound
  <2>3. RowExists(new, e.on)
    <3>1. CASE e.on \in Artifact
      BY <1>2, <2>2, <3>1 DEF RowExists
    <3>2. CASE e.on \notin Artifact
      <4>1. e.on \in Record /\ db.status[e.on] # Absent
        BY <2>1, <2>2, <3>2 DEF RowExists
      <4> QED
        BY <1>4, <3>2, <4>1, RowsStay DEF RowExists
    <3> QED
      BY <3>1, <3>2
  <2>4. ASSUME e.on \in Invocation, e.is \in Terminal
        PROVE  new.status[e.on] \in Terminal /\ e.counts = <<Cardinality(Of0(new, e.on))>>
    <3>1. db.status[e.on] \in Terminal /\ e.counts = <<Cardinality(Of0(db, e.on))>>
      BY <1>1, <2>4 DEF Sound
    <3>2. e.on \in Record
      BY <1>6, <2>4
    <3>3. new.status[e.on] \in Terminal
      BY <3>1, <3>2, EndedRecordsStay
    <3>4. ASSUME NEW b \in tx.artifacts
          PROVE  b.invocation # e.on
      <4>1. b.invocation \in DOMAIN tx.set /\ tx.set[b.invocation] \in Terminal
        BY <1>4, <3>4 DEF Announced
      <4>2. e.on \in DOMAIN tx.set => e.on \notin tx.add /\ EnsureTransition(db.status[e.on], tx.set[e.on])
        BY <1>5, <3>1 DEF Accepted
      <4>3. \A s : ~EnsureTransition(db.status[e.on], s)
        BY <1>5, <3>1 DEF EnsureTransition, Transitions
      <4> QED
        BY <4>1, <4>2, <4>3
    <3>5. Of0(new, e.on) = Of0(db, e.on)
      BY <1>2, <3>4
    <3> QED
      BY <3>1, <3>3, <3>5
  <2> QED
    BY <2>2, <2>3, <2>4
<1>8. ASSUME NEW k \in 1 .. len
      PROVE  LET e == tx.facts[k] IN
             /\ RowExists(new, e.on)
             /\ e.is = "artifact.created" => e.on \in Artifact
             /\ e.on \in Invocation /\ e.is \in Terminal =>
                  new.status[e.on] \in Terminal /\ e.counts = <<Cardinality(Of0(new, e.on))>>
  <2> DEFINE e == tx.facts[k]
  <2>1. /\ \/ e.on \in Record \cap (DOMAIN tx.set \cup tx.needs)
           \/ e.on \in Artifact /\ \E b \in tx.artifacts : b.id = e.on
        /\ e.is = "artifact.created" => e.on \in Artifact
        /\ e.on \in Invocation /\ e.is \in Terminal =>
             e.counts = <<Cardinality(Of0(tx, e.on))>>
    BY <1>1, <1>4 DEF Truthful
  <2>2. RowExists(new, e.on)
    <3>1. CASE e.on \in Record \cap (DOMAIN tx.set \cup tx.needs)
      <4>1. new.status[e.on] # Absent /\ e.on \notin Artifact
        BY <1>4, <1>6, <3>1, RowsStay
      <4> QED
        BY <4>1 DEF RowExists
    <3>2. CASE e.on \in Artifact /\ \E b \in tx.artifacts : b.id = e.on
      BY <1>2, <3>2 DEF RowExists
    <3> QED
      BY <2>1, <3>1, <3>2
  <2>3. ASSUME e.on \in Invocation, e.is \in Terminal
        PROVE  new.status[e.on] \in Terminal /\ e.counts = <<Cardinality(Of0(new, e.on))>>
    <3> DEFINE r == e.on
    <3>1. r \in Record /\ Telling(tx.facts, k, r)
      BY <1>5, <1>6, <2>3 DEF Telling
    <3>2. /\ r \in DOMAIN tx.set /\ tx.set[r] = e.is
          /\ r \in tx.add => tx.set[r] \in Initial
      <4>1. CASE /\ r \in DOMAIN tx.set
                 /\ r \in tx.add => tx.set[r] \in Initial
                 /\ \E m \in DOMAIN tx.facts :
                      /\ tx.facts[m].on = r /\ tx.facts[m].is = tx.set[r]
                      /\ \A j \in DOMAIN tx.facts : Telling(tx.facts, j, r) => j = m
        BY <1>1, <3>1, <4>1
      <4>2. CASE \E m \in DOMAIN tx.facts :
                      /\ m + 1 \in DOMAIN tx.facts
                      /\ tx.facts[m].on = r /\ tx.facts[m].is \in Initial
                      /\ tx.facts[m + 1].on = r /\ tx.facts[m + 1].is = "running"
                      /\ \A j \in DOMAIN tx.facts : Telling(tx.facts, j, r) => j \in {m, m + 1}
        <5>1. e.is \in Initial \/ e.is = "running"
          BY <1>1, <3>1, <4>2
        <5> QED
          BY <1>5, <2>3, <5>1
      <4> QED
        BY <1>1, <1>4, <3>1, <4>1, <4>2 DEF Told
    <3>3. r \notin tx.add /\ tx.set[r] \in Terminal
      BY <1>5, <2>3, <3>2
    <3>4. EnsureTransition(db.status[r], tx.set[r]) /\ db.status[r] # Absent
      BY <3>2, <3>3 DEF Accepted
    <3>5. db.status[r] \in Status
      BY <3>1, <3>4 DEF PInv, PTypeOK, IsDatabase
    <3>6. db.status[r] \notin Terminal
      BY <3>4, <3>5 DEF EnsureTransition, Transitions, Terminal, Initial, Status
    <3>7. Of0(new, r) = Of0(tx, r)
      BY <1>2, <3>6 DEF ToldOnce
    <3>8. new.status[r] = tx.set[r]
      BY <3>1, <3>2 DEF After
    <3> QED
      BY <2>1, <2>3, <3>3, <3>7, <3>8
  <2> QED
    BY <2>1, <2>2, <2>3
<1>9. ASSUME NEW n \in DOMAIN new.events
      PROVE  LET e == new.events[n] IN
             /\ RowExists(new, e.on)
             /\ e.is = "artifact.created" => e.on \in Artifact
             /\ e.on \in Invocation /\ e.is \in Terminal =>
                  new.status[e.on] \in Terminal /\ e.counts = <<Cardinality(Of0(new, e.on))>>
  <2>1. n \in 1 .. last \/ n \in last + 1 .. last + len
    BY <1>1
  <2>2. CASE n \in 1 .. last
    <3>1. new.events[n] = db.events[n]
      BY <1>1, <2>2
    <3> QED
      BY <1>7, <2>2, <3>1
  <2>3. CASE n \in last + 1 .. last + len
    <3>1. n - last \in 1 .. len /\ new.events[n] = tx.facts[n - last]
      BY <1>1, <2>3
    <3> QED
      BY <1>8, <3>1
  <2> QED
    BY <2>1, <2>2, <2>3
<1> QED
  BY <1>3, <1>9 DEF Sound

\* What the rows say of a trace: nothing else than the log.
SInv == AInv /\ \A d \in {db} \cup inDoubt : Sound(d)

\* The invariant is inductive, for any caller.
LEMMA SteppedKeepsSInv ==
  ASSUME SInv, Stepped
  PROVE  SInv'
<1>1. AInv'
  BY SteppedKeepsAInv DEF SInv
<1>2. CASE Quiet
  <2>1. db' = db /\ inDoubt' = inDoubt
    BY <1>2 DEF Quiet
  <2>2. \A d \in {db'} \cup inDoubt' : Sound(d)
    BY <2>1 DEF SInv
  <2> QED
    BY <1>1, <2>2 DEF SInv
<1>3. CASE Settle
  <2>1. \A d \in {db'} \cup inDoubt' : Sound(d)
    BY <1>3 DEF Settle, SInv
  <2> QED
    BY <1>1, <2>1 DEF SInv
<1>4. ASSUME NEW tx, NEW end, Transaction(tx), Write(tx, end)
      PROVE  SInv'
  <2>1. Accepted(tx) => Sound(After(tx))
    BY <1>4, AcceptedKeepsSound DEF SInv, AInv
  <2>2. \A d \in {db'} \cup inDoubt' : Sound(d)
    BY <2>1, <1>4
    DEF Write, WriteBlocked, WriteDecided, RolledBack, CommittedAnyway, Undecided, SInv
  <2> QED
    BY <1>1, <2>2 DEF SInv
<1> QED
  BY <1>2, <1>3, <1>4 DEF Stepped

-----------------------------------------------------------------------------
\* The Events of a log that say one of these words are finitely many.
LEMMA OfIsFinite ==
  ASSUME NEW d, Contiguous(d), NEW words
  PROVE  IsFiniteSet(Of(d, words)) /\ Cardinality(Of(d, words)) \in Nat
<1>1. PICK n \in Nat : DOMAIN d.events = 1 .. n
  BY DEF Contiguous
<1>2. IsFiniteSet(1 .. n) /\ Of(d, words) \subseteq 1 .. n
  BY <1>1, FS_Interval DEF Of
<1> QED
  BY <1>2, FS_Subset, FS_CardinalityType

\* What a transaction adds to them.
LEMMA OfAfter ==
  ASSUME PInv, NEW tx, Transaction(tx), Accepted(tx), NEW words
  PROVE  /\ Lacks(tx, words) =>
              /\ Of(After(tx), words) = Of(db, words)
              /\ \A n \in Of(db, words) : After(tx).events[n] = db.events[n]
         /\ \A k : Only(tx, words, k) =>
              \E n : /\ n \notin Of(db, words)
                     /\ Of(After(tx), words) = Of(db, words) \cup {n}
                     /\ After(tx).events[n] = tx.facts[k]
<1> DEFINE last == LastNumber(db)
           len == Len(tx.facts)
           new == After(tx)
<1>1. /\ last \in Nat /\ DOMAIN db.events = 1 .. last
      /\ DOMAIN tx.facts = 1 .. len /\ len \in Nat
      /\ DOMAIN new.events = 1 .. (last + len)
  BY AcceptedEvents
<1>2. /\ \A n \in 1 .. last : new.events[n] = db.events[n]
      /\ \A n \in last + 1 .. last + len :
           n - last \in 1 .. len /\ new.events[n] = tx.facts[n - last]
  BY AcceptedEvents
<1>3. \A k \in 1 .. len : k + last \in last + 1 .. last + len /\ new.events[k + last] = tx.facts[k]
  BY AcceptedEvents
<1> HIDE DEF last, len, new
<1>4. DOMAIN new.events = (1 .. last) \cup (last + 1 .. last + len)
      /\ (1 .. last) \cap (last + 1 .. last + len) = {}
  BY <1>1
<1>5. ASSUME Lacks(tx, words)
      PROVE  Of(new, words) = Of(db, words) /\ \A n \in Of(db, words) : new.events[n] = db.events[n]
  <2>1. \A n \in last + 1 .. last + len : new.events[n].is \notin words
    BY <1>1, <1>2, <1>5 DEF Lacks
  <2> QED
    BY <1>1, <1>2, <1>4, <2>1 DEF Of
<1>6. ASSUME NEW k, Only(tx, words, k)
      PROVE  \E n : /\ n \notin Of(db, words)
                    /\ Of(new, words) = Of(db, words) \cup {n}
                    /\ new.events[n] = tx.facts[k]
  <2>1. k \in 1 .. len /\ tx.facts[k].is \in words
    BY <1>1, <1>6 DEF Only
  <2>2. k + last \in last + 1 .. last + len /\ new.events[k + last] = tx.facts[k]
    BY <1>3, <2>1
  <2>3. ASSUME NEW n \in last + 1 .. last + len, new.events[n].is \in words
        PROVE  n = k + last
    <3>1. n - last = k
      BY <1>1, <1>2, <1>6, <2>3 DEF Only
    <3> QED
      BY <1>1, <2>1, <3>1
  <2>4. Of(new, words) = Of(db, words) \cup {k + last}
    BY <1>1, <1>2, <1>4, <2>1, <2>2, <2>3 DEF Of
  <2>5. k + last \notin Of(db, words)
    BY <1>1, <1>4, <2>2 DEF Of
  <2> QED
    BY <2>2, <2>4, <2>5
<1> QED
  BY <1>5, <1>6 DEF new

LEMMA OnlyAfter ==
  ASSUME PInv, NEW tx, Transaction(tx), Accepted(tx), NEW words, NEW k, Only(tx, words, k)
  PROVE  \E n : /\ n \notin Of(db, words)
                /\ Of(After(tx), words) = Of(db, words) \cup {n}
                /\ After(tx).events[n] = tx.facts[k]
BY OfAfter

\* The requests, the calls and the Artifacts of d.
Asked(d) == Of(d, {"model.requested"})

Counts(d, turns, calls, arts) ==
  /\ Cardinality(Asked(d)) = turns
  /\ IsFiniteSet(CalledIn(d)) /\ Cardinality(CalledIn(d)) = calls
  /\ IsFiniteSet(d.artifacts) /\ Cardinality(d.artifacts) = arts

\* What a transaction adds to the counts.
LEMMA CountsAfter ==
  ASSUME PInv, NEW tx, Transaction(tx), Accepted(tx),
         NEW turns, NEW calls, NEW arts, Counts(db, turns, calls, arts)
  PROVE  /\ Lacks(tx, {"model.requested"}) => Cardinality(Asked(After(tx))) = turns
         /\ \A k : Only(tx, {"model.requested"}, k) => Cardinality(Asked(After(tx))) = turns + 1
         /\ tx.add \cap Invocation = {} => CalledIn(After(tx)) = CalledIn(db)
         /\ \A i \in Invocation : tx.add = {i} =>
              /\ IsFiniteSet(CalledIn(After(tx)))
              /\ Cardinality(CalledIn(After(tx))) = calls + 1
         /\ IsFiniteSet(After(tx).artifacts)
         /\ Cardinality(After(tx).artifacts) = arts + Cardinality(tx.artifacts)
<1>1. Contiguous(db) /\ Typed(tx) /\ Told(tx) /\ IsFiniteSet(tx.artifacts)
  BY DEF PInv, Transaction, Truthful
<1>2. /\ Cardinality(Asked(db)) = turns /\ IsFiniteSet(Asked(db))
      /\ IsFiniteSet(CalledIn(db)) /\ Cardinality(CalledIn(db)) = calls
      /\ IsFiniteSet(db.artifacts) /\ Cardinality(db.artifacts) = arts
  BY <1>1, OfIsFinite DEF Counts, Asked
<1>3. Lacks(tx, {"model.requested"}) => Cardinality(Asked(After(tx))) = turns
  BY <1>2, OfAfter DEF Asked
<1>4. ASSUME NEW k, Only(tx, {"model.requested"}, k)
      PROVE  Cardinality(Asked(After(tx))) = turns + 1
  <2>1. PICK n : n \notin Asked(db) /\ Asked(After(tx)) = Asked(db) \cup {n}
    BY <1>4, OfAfter DEF Asked
  <2> QED
    BY <1>2, <2>1, FS_AddElement
<1>5. CalledIn(After(tx)) = CalledIn(db) \cup (tx.add \cap Invocation)
  <2>1. Absent \notin Status /\ Invocation \subseteq Record
    BY DEF Absent, Status, Initial, Terminal, Record
  <2>2. ASSUME NEW i \in Invocation
        PROVE  After(tx).status[i] # Absent <=> db.status[i] # Absent \/ i \in tx.add
    <3>1. After(tx).status[i] = IF i \in DOMAIN tx.set THEN tx.set[i] ELSE db.status[i]
      BY <2>1 DEF After
    <3>2. i \in DOMAIN tx.set => tx.set[i] # Absent /\ (i \notin tx.add => db.status[i] # Absent)
      BY <1>1, <2>1 DEF Accepted, Typed
    <3>3. i \in tx.add => i \in DOMAIN tx.set
      BY <1>1 DEF Told
    <3> QED
      BY <3>1, <3>2, <3>3
  <2> QED
    BY <2>2 DEF CalledIn
<1>6. ASSUME NEW i \in Invocation, tx.add = {i}
      PROVE  IsFiniteSet(CalledIn(After(tx))) /\ Cardinality(CalledIn(After(tx))) = calls + 1
  <2>1. i \notin CalledIn(db) /\ CalledIn(After(tx)) = CalledIn(db) \cup {i}
    BY <1>5, <1>6 DEF Accepted, CalledIn
  <2> QED
    BY <1>2, <2>1, FS_AddElement
<1>7. /\ IsFiniteSet(After(tx).artifacts)
      /\ Cardinality(After(tx).artifacts) = arts + Cardinality(tx.artifacts)
  <2>1. After(tx).artifacts = db.artifacts \cup tx.artifacts /\ db.artifacts \cap tx.artifacts = {}
    BY DEF After, Accepted
  <2>2. Cardinality(db.artifacts \cap tx.artifacts) = 0
    BY <2>1, FS_EmptySet
  <2>3. IsFiniteSet(db.artifacts \cup tx.artifacts)
        /\ Cardinality(db.artifacts \cup tx.artifacts) =
             Cardinality(db.artifacts) + Cardinality(tx.artifacts) - Cardinality(db.artifacts \cap tx.artifacts)
    BY <1>1, <1>2, FS_Union
  <2>4. arts \in Nat /\ Cardinality(tx.artifacts) \in Nat
    BY <1>1, <1>2, FS_CardinalityType
  <2> QED
    BY <1>2, <2>1, <2>2, <2>3, <2>4
<1> QED
  BY <1>3, <1>4, <1>5, <1>6, <1>7

-----------------------------------------------------------------------------
\* In d the Task and the Run are in state s and NodeRun n is in state t; of the
\* other rows only the Invocations in open have not ended, and no final Event
\* has been written.
Ready(d, n, s, t, open) ==
  /\ d.status[Task] = s /\ d.status[Run] = s /\ d.status[n] = t
  /\ \A m \in Node \ {n} : Closed(d.status[m])
  /\ \A i \in Invocation :
       IF i \in open THEN d.status[i] = "running" ELSE Closed(d.status[i])
  /\ Of(d, FinalWords) = {}

\* The rows after a transaction of this shape.
LEMMA StatusAfter ==
  ASSUME NEW tx, NEW A, NEW S, NEW s, NEW rows, Shape(tx, A, S, s, rows)
  PROVE  \A r \in Record : After(tx).status[r] = IF r \in S THEN s ELSE db.status[r]
BY DEF Shape, After

\* The moves of a record that succeed.
LEMMA Moves ==
  /\ EnsureTransition("created", "running") /\ Absent # "running" /\ Absent # "created"
  /\ \A s \in Terminal : EnsureTransition("running", s) /\ s # Absent
  /\ Closed(Absent) /\ \A s \in Terminal : Closed(s)
BY DEF EnsureTransition, Transitions, Status, Initial, Terminal, Absent, Closed

\* When nothing stands against a transaction.
LEMMA IsAccepted ==
  ASSUME PInv, seq = LastNumber(db), NEW tx, Typed(tx),
         NEW A, NEW S, NEW s, NEW rows, Shape(tx, A, S, s, rows),
         \A r \in A : db.status[r] = Absent,
         \A r \in S \ A : db.status[r] # Absent /\ EnsureTransition(db.status[r], s),
         \A r \in tx.needs : db.status[r] # Absent,
         \A a \in rows, b \in db.artifacts : a.id # b.id
  PROVE  Accepted(tx)
<1>1. LastNumber(db) \in Nat /\ DOMAIN db.events = 1 .. LastNumber(db) /\ Len(tx.facts) \in Nat
  BY ContiguousLast DEF PInv, Typed
<1>2. Numbers(tx) \cap DOMAIN db.events = {}
  BY <1>1 DEF Numbers
<1> QED
  BY <1>2 DEF Accepted, Shape

\* It is committed, unless a call fails or the caller is cancelled.
LEMMA AcceptedIsCommitted ==
  ASSUME PInv, NEW tx, Typed(tx), Len(tx.facts) > 0, NEW end, Write(tx, end), Accepted(tx),
         inDoubt = {}, end # "cancelled", faults = 0, faults' = 0
  PROVE  end = "ok" /\ db' = After(tx) /\ inDoubt' = {} /\ seq' = LastNumber(db')
<1>1. end = "ok"
  <2>1. ~WriteBlocked(end)
    BY DEF WriteBlocked
  <2>2. ~Resync(db', 1)
    BY DEF Resync
  <2> QED
    BY <2>1, <2>2 DEF Write, WriteDecided
<1>2. db' = After(tx) /\ inDoubt' = {} /\ seq' = seq + Len(tx.facts)
  BY <1>1 DEF Write, WriteDecided, WriteBlocked
<1> QED
  BY <1>1, <1>2, AcceptedContinues

\* A transaction that says nothing of requests, calls and Artifacts leaves their
\* counts, and one that says no final word leaves the Run without.
LEMMA PlainAfter ==
  ASSUME PInv, NEW tx, Transaction(tx), Accepted(tx), Lacks(tx, CountedWords)
  PROVE  /\ Of(db, FinalWords) = {} => Of(After(tx), FinalWords) = {}
         /\ \A turns, calls, arts :
              tx.add \cap Invocation = {} /\ tx.artifacts = {} /\ Counts(db, turns, calls, arts) =>
                Counts(After(tx), turns, calls, arts)
<1>1. Lacks(tx, FinalWords) /\ Lacks(tx, {"model.requested"})
  BY DEF Lacks, CountedWords
<1>2. ASSUME NEW turns, NEW calls, NEW arts, tx.add \cap Invocation = {}, tx.artifacts = {},
             Counts(db, turns, calls, arts)
      PROVE  Counts(After(tx), turns, calls, arts)
  <2>1. Cardinality(tx.artifacts) = 0 /\ arts \in Nat
    BY <1>2, FS_EmptySet, FS_CardinalityType DEF Counts
  <2>2. arts + Cardinality(tx.artifacts) = arts
    BY <2>1
  <2> QED
    BY <1>1, <1>2, <2>2, CountsAfter DEF Counts
<1> QED
  BY <1>1, <1>2, OfAfter

\* The Invocations and the Artifacts of two database states are the same.
SameCalls(d, e) ==
  /\ \A i \in Invocation : d.status[i] = e.status[i]
  /\ d.artifacts = e.artifacts

\* initialize, where there is nothing yet.
LEMMA InitializeLeads ==
  ASSUME PInv, NEW end, Initialize(end),
         NEW turns, NEW calls, NEW arts, Counts(db, turns, calls, arts),
         Ready(db, node, Absent, Absent, {})
  PROVE  /\ node' = node
         /\ \E tx : /\ Transaction(tx) /\ Write(tx, end)
                    /\ Accepted(tx) => /\ Ready(After(tx), node, "created", "created", {})
                                       /\ Counts(After(tx), turns, calls, arts)
                                       /\ SameCalls(After(tx), db)
                    /\ seq = LastNumber(db) => Accepted(tx)
<1>1. node \in Node /\ Task \in Record /\ Run \in Record /\ Node \cup Invocation \subseteq Record
  BY DEF PInv, PTypeOK, Record
<1>2. PICK tx : /\ Transaction(tx) /\ Write(tx, end) /\ Lacks(tx, CountedWords)
                /\ Shape(tx, {Task, Run, node}, {Task, Run, node}, "created", {}) /\ tx.needs = {}
  BY <1>1, InitializeWrites, RecordsAndWords
<1>3. node' = node
  BY <1>1, InitializeWrites, RecordsAndWords
<1>4. \A r \in Record : After(tx).status[r] = IF r \in {Task, Run, node} THEN "created" ELSE db.status[r]
  BY <1>2, StatusAfter
<1>5. ASSUME Accepted(tx)
      PROVE  /\ Ready(After(tx), node, "created", "created", {})
             /\ Counts(After(tx), turns, calls, arts)
             /\ SameCalls(After(tx), db)
  <2>1. tx.add \cap Invocation = {} /\ tx.artifacts = {}
    BY <1>1, <1>2, ConstantsAssumption DEF Shape
  <2>2. Of(After(tx), FinalWords) = {} /\ Counts(After(tx), turns, calls, arts)
    BY <1>2, <1>5, <2>1, PlainAfter DEF Ready
  <2>5. SameCalls(After(tx), db)
    BY <1>1, <1>2, <1>4, ConstantsAssumption DEF Shape, After, SameCalls
  <2> QED
    BY <2>5, <1>1, <1>4, <2>2, Moves, ConstantsAssumption DEF Ready
<1>6. ASSUME seq = LastNumber(db)
      PROVE  Accepted(tx)
  <2>1. Typed(tx)
    BY <1>2 DEF Transaction
  <2> QED
    BY <1>1, <1>2, <1>6, <2>1, Moves, IsAccepted DEF Ready
<1> QED
  BY <1>2, <1>3, <1>5, <1>6

\* start, after initialize.
LEMMA StartLeads ==
  ASSUME PInv, NEW end, Start(end),
         NEW turns, NEW calls, NEW arts, Counts(db, turns, calls, arts),
         Ready(db, node, "created", "created", {})
  PROVE  /\ node' = node
         /\ \E tx : /\ Transaction(tx) /\ Write(tx, end)
                    /\ Accepted(tx) => /\ Ready(After(tx), node, "running", "running", {})
                                       /\ Counts(After(tx), turns, calls, arts)
                                       /\ SameCalls(After(tx), db)
                    /\ seq = LastNumber(db) => Accepted(tx)
<1>1. node \in Node /\ Task \in Record /\ Run \in Record /\ Node \cup Invocation \subseteq Record
  BY DEF PInv, PTypeOK, Record
<1>2. PICK tx : /\ Transaction(tx) /\ Write(tx, end) /\ Lacks(tx, CountedWords)
                /\ Shape(tx, {}, {Task, Run, node}, "running", {}) /\ tx.needs = {}
  BY <1>1, StartWrites, RecordsAndWords
<1>3. node' = node
  BY <1>1, StartWrites, RecordsAndWords
<1>4. \A r \in Record : After(tx).status[r] = IF r \in {Task, Run, node} THEN "running" ELSE db.status[r]
  BY <1>2, StatusAfter
<1>5. ASSUME Accepted(tx)
      PROVE  /\ Ready(After(tx), node, "running", "running", {})
             /\ Counts(After(tx), turns, calls, arts)
             /\ SameCalls(After(tx), db)
  <2>1. tx.add \cap Invocation = {} /\ tx.artifacts = {}
    BY <1>1, <1>2, ConstantsAssumption DEF Shape
  <2>2. Of(After(tx), FinalWords) = {} /\ Counts(After(tx), turns, calls, arts)
    BY <1>2, <1>5, <2>1, PlainAfter DEF Ready
  <2>5. SameCalls(After(tx), db)
    BY <1>1, <1>2, <1>4, ConstantsAssumption DEF Shape, After, SameCalls
  <2> QED
    BY <2>5, <1>1, <1>4, <2>2, Moves, ConstantsAssumption DEF Ready
<1>6. ASSUME seq = LastNumber(db)
      PROVE  Accepted(tx)
  <2>1. Typed(tx)
    BY <1>2 DEF Transaction
  <2> QED
    BY <1>1, <1>2, <1>6, <2>1, Moves, IsAccepted DEF Ready
<1> QED
  BY <1>2, <1>3, <1>5, <1>6

\* The end of a model request changes no row.
LEMMA ModelEndedLeads ==
  ASSUME PInv, NEW end, NEW repair \in BOOLEAN, NEW invalid \in BOOLEAN,
         ModelCompleted(repair, end) \/ ModelFailed(invalid, repair, end),
         NEW turns, NEW calls, NEW arts, Counts(db, turns, calls, arts),
         NEW open, Ready(db, node, "running", "running", open)
  PROVE  /\ node' = node
         /\ \E tx : /\ Transaction(tx) /\ Write(tx, end)
                    /\ Accepted(tx) => /\ Ready(After(tx), node, "running", "running", open)
                                       /\ Counts(After(tx), turns, calls, arts)
                                       /\ SameCalls(After(tx), db)
                    /\ seq = LastNumber(db) => Accepted(tx)
<1>1. node \in Node /\ Task \in Record /\ Run \in Record /\ Node \cup Invocation \subseteq Record
  BY DEF PInv, PTypeOK, Record
<1>2. PICK tx : /\ Transaction(tx) /\ Write(tx, end) /\ Lacks(tx, CountedWords)
                /\ Shape(tx, {}, {}, "running", {}) /\ tx.needs = {Run, node}
  BY <1>1, ModelEndedWrites, RecordsAndWords
<1>3. node' = node
  BY <1>1, ModelEndedWrites, RecordsAndWords
<1>4. \A r \in Record : After(tx).status[r] = IF r \in {} THEN "running" ELSE db.status[r]
  BY <1>2, StatusAfter
<1>5. ASSUME Accepted(tx)
      PROVE  /\ Ready(After(tx), node, "running", "running", open)
             /\ Counts(After(tx), turns, calls, arts)
             /\ SameCalls(After(tx), db)
  <2>1. tx.add \cap Invocation = {} /\ tx.artifacts = {}
    BY <1>1, <1>2, ConstantsAssumption DEF Shape
  <2>2. Of(After(tx), FinalWords) = {} /\ Counts(After(tx), turns, calls, arts)
    BY <1>2, <1>5, <2>1, PlainAfter DEF Ready
  <2>5. SameCalls(After(tx), db)
    BY <1>1, <1>2, <1>4, ConstantsAssumption DEF Shape, After, SameCalls
  <2> QED
    BY <2>5, <1>1, <1>4, <2>2, Moves, ConstantsAssumption DEF Ready
<1>6. ASSUME seq = LastNumber(db)
      PROVE  Accepted(tx)
  <2>1. Typed(tx)
    BY <1>2 DEF Transaction
  <2> QED
    BY <1>1, <1>2, <1>6, <2>1, Moves, IsAccepted DEF Ready
<1> QED
  BY <1>2, <1>3, <1>5, <1>6

\* A request counts one turn.
LEMMA ModelRequestedLeads ==
  ASSUME PInv, NEW end, NEW repair \in BOOLEAN, ModelRequested(repair, end),
         NEW turns, NEW calls, NEW arts, Counts(db, turns, calls, arts),
         NEW open, Ready(db, node, "running", "running", open)
  PROVE  /\ node' = node
         /\ \E tx : /\ Transaction(tx) /\ Write(tx, end)
                    /\ Accepted(tx) => /\ Ready(After(tx), node, "running", "running", open)
                                       /\ Counts(After(tx), turns + 1, calls, arts)
                                       /\ SameCalls(After(tx), db)
                    /\ seq = LastNumber(db) => Accepted(tx)
<1>1. node \in Node /\ Task \in Record /\ Run \in Record /\ Node \cup Invocation \subseteq Record
  BY DEF PInv, PTypeOK, Record
<1>2. PICK tx : /\ Transaction(tx) /\ Write(tx, end)
                /\ Lacks(tx, FinalWords) /\ Only(tx, {"model.requested"}, 1)
                /\ Shape(tx, {}, {}, "running", {}) /\ tx.needs = {Run, node}
  BY <1>1, ModelRequestedWrites
<1>3. node' = node
  BY <1>1, ModelRequestedWrites
<1>4. \A r \in Record : After(tx).status[r] = db.status[r]
  BY <1>2, StatusAfter
<1>5. ASSUME Accepted(tx)
      PROVE  /\ Ready(After(tx), node, "running", "running", open)
             /\ Counts(After(tx), turns + 1, calls, arts)
             /\ SameCalls(After(tx), db)
  <2>1. Of(After(tx), FinalWords) = {}
    BY <1>2, <1>5, OfAfter DEF Ready
  <2>2. Ready(After(tx), node, "running", "running", open)
    BY <1>1, <1>4, <2>1 DEF Ready
  <2>3. Cardinality(Asked(After(tx))) = turns + 1 /\ CalledIn(After(tx)) = CalledIn(db)
    BY <1>2, <1>5, CountsAfter DEF Shape
  <2>4. After(tx).artifacts = db.artifacts
    BY <1>2 DEF Shape, After
  <2>5. SameCalls(After(tx), db)
    BY <1>1, <1>2, <1>4, ConstantsAssumption DEF Shape, After, SameCalls
  <2> QED
    BY <2>5, <2>2, <2>3, <2>4 DEF Counts
<1>6. ASSUME seq = LastNumber(db)
      PROVE  Accepted(tx)
  <2>1. Typed(tx)
    BY <1>2 DEF Transaction
  <2> QED
    BY <1>1, <1>2, <1>6, <2>1, Moves, IsAccepted DEF Ready
<1> QED
  BY <1>2, <1>3, <1>5, <1>6

\* begin_invocation counts one call.
LEMMA BeginLeads ==
  ASSUME PInv, NEW end, NEW i \in Invocation, BeginInvocation(i, end),
         NEW turns, NEW calls, NEW arts, Counts(db, turns, calls, arts),
         Ready(db, node, "running", "running", {})
  PROVE  /\ node' = node
         /\ \E tx : /\ Transaction(tx) /\ Write(tx, end)
                    /\ Accepted(tx) => /\ Ready(After(tx), node, "running", "running", {i})
                                       /\ Counts(After(tx), turns, calls + 1, arts)
                                       /\ After(tx).artifacts = db.artifacts
                                       /\ \A j \in Invocation \ {i} :
                                            After(tx).status[j] = db.status[j]
                    /\ seq = LastNumber(db) /\ db.status[i] = Absent => Accepted(tx)
<1>1. node \in Node /\ Task \in Record /\ Run \in Record /\ Node \cup Invocation \subseteq Record
  BY DEF PInv, PTypeOK, Record
<1>2. PICK tx : /\ Transaction(tx) /\ Write(tx, end) /\ Lacks(tx, CountedWords)
                /\ Shape(tx, {i}, {i}, "running", {}) /\ tx.needs = {Run, node}
  BY <1>1, BeginInvocationWrites
<1>3. node' = node
  BY <1>1, BeginInvocationWrites
<1>4. \A r \in Record : After(tx).status[r] = IF r \in {i} THEN "running" ELSE db.status[r]
  BY <1>2, StatusAfter
<1>5. ASSUME Accepted(tx)
      PROVE  /\ Ready(After(tx), node, "running", "running", {i})
             /\ Counts(After(tx), turns, calls + 1, arts)
             /\ After(tx).artifacts = db.artifacts
             /\ \A j \in Invocation \ {i} : After(tx).status[j] = db.status[j]
  <2>1. Of(After(tx), FinalWords) = {} /\ Lacks(tx, {"model.requested"})
    BY <1>2, <1>5, PlainAfter DEF Ready, Lacks, CountedWords
  <2>2. i \notin Node /\ i # Task /\ i # Run
    BY ConstantsAssumption
  <2>3. Ready(After(tx), node, "running", "running", {i})
    BY <1>1, <1>4, <2>1, <2>2 DEF Ready
  <2>4. /\ Cardinality(Asked(After(tx))) = turns
        /\ IsFiniteSet(CalledIn(After(tx))) /\ Cardinality(CalledIn(After(tx))) = calls + 1
    BY <1>2, <1>5, <2>1, CountsAfter DEF Shape
  <2>5. After(tx).artifacts = db.artifacts
    BY <1>2 DEF Shape, After
  <2> QED
    BY <1>1, <1>4, <2>3, <2>4, <2>5 DEF Counts
<1>6. ASSUME seq = LastNumber(db), db.status[i] = Absent
      PROVE  Accepted(tx)
  <2>1. Typed(tx)
    BY <1>2 DEF Transaction
  <2> QED
    BY <1>1, <1>2, <1>6, <2>1, Moves, IsAccepted DEF Ready
<1> QED
  BY <1>2, <1>3, <1>5, <1>6

\* finish_invocation closes the call and counts its Artifacts.
LEMMA FinishInvocationLeads ==
  ASSUME PInv, NEW end, NEW i \in Invocation, NEW result \in Terminal, NEW skill \in BOOLEAN,
         NEW list \in Snapshots, FinishInvocation(i, result, list, skill, end),
         NEW turns, NEW calls, NEW arts, Counts(db, turns, calls, arts),
         Ready(db, node, "running", "running", {i})
  PROVE  \/ InvocationNotLoaded(i, end) /\ Quiet /\ end # "ok"
         \/ /\ node' = node
            /\ \E tx : /\ Transaction(tx) /\ Write(tx, end)
                       /\ Accepted(tx) =>
                            /\ Ready(After(tx), node, "running", "running", {})
                            /\ After(tx).status[i] = result
                            /\ Counts(After(tx), turns, calls, arts + Len(list))
                            /\ RowIds(After(tx)) = RowIds(db) \cup Elements(list)
                            /\ \A j \in Invocation \ {i} :
                                 After(tx).status[j] = db.status[j]
                       /\ seq = LastNumber(db) /\ RowIds(db) \cap Elements(list) = {} => Accepted(tx)
<1>1. node \in Node /\ Task \in Record /\ Run \in Record /\ Node \cup Invocation \subseteq Record
  BY DEF PInv, PTypeOK, Record
<1>2. SUFFICES ASSUME ~(InvocationNotLoaded(i, end) /\ Quiet /\ end # "ok")
               PROVE  /\ node' = node
                      /\ \E tx : /\ Transaction(tx) /\ Write(tx, end)
                                 /\ Accepted(tx) =>
                                      /\ Ready(After(tx), node, "running", "running", {})
                                      /\ After(tx).status[i] = result
                                      /\ Counts(After(tx), turns, calls, arts + Len(list))
                                      /\ RowIds(After(tx)) = RowIds(db) \cup Elements(list)
                                      /\ \A j \in Invocation \ {i} :
                                           After(tx).status[j] = db.status[j]
                                 /\ seq = LastNumber(db) /\ RowIds(db) \cap Elements(list) = {} =>
                                      Accepted(tx)
  OBVIOUS
<1>3. PICK tx : /\ Transaction(tx) /\ Write(tx, end) /\ Lacks(tx, CountedWords)
                /\ Shape(tx, {}, {i}, result, RowsFor(i, list)) /\ tx.needs = {}
  BY <1>2, FinishInvocationWrites
<1>4. node' = node
  BY <1>2, FinishInvocationWrites
<1>5. \A r \in Record : After(tx).status[r] = IF r \in {i} THEN result ELSE db.status[r]
  BY <1>3, StatusAfter
<1>6. ASSUME Accepted(tx)
      PROVE  /\ Ready(After(tx), node, "running", "running", {})
             /\ After(tx).status[i] = result
             /\ Counts(After(tx), turns, calls, arts + Len(list))
             /\ RowIds(After(tx)) = RowIds(db) \cup Elements(list)
             /\ \A j \in Invocation \ {i} : After(tx).status[j] = db.status[j]
  <2>1. Of(After(tx), FinalWords) = {} /\ Lacks(tx, {"model.requested"})
    BY <1>3, <1>6, PlainAfter DEF Ready, Lacks, CountedWords
  <2>2. i \notin Node /\ i # Task /\ i # Run
    BY ConstantsAssumption
  <2>3. Ready(After(tx), node, "running", "running", {})
    BY <1>1, <1>5, <2>1, <2>2, Moves DEF Ready
  <2>4. /\ Cardinality(Asked(After(tx))) = turns /\ CalledIn(After(tx)) = CalledIn(db)
        /\ IsFiniteSet(After(tx).artifacts)
        /\ Cardinality(After(tx).artifacts) = arts + Cardinality(RowsFor(i, list))
    BY <1>3, <1>6, <2>1, CountsAfter DEF Shape
  <2>5. Cardinality(RowsFor(i, list)) = Len(list)
    BY RowsAreCounted
  <2>6. RowIds(After(tx)) = RowIds(db) \cup Elements(list)
    <3>1. After(tx).artifacts = db.artifacts \cup RowsFor(i, list)
      BY <1>3 DEF Shape, After
    <3>2. {b.id : b \in RowsFor(i, list)} = Elements(list)
      <4>1. \A k \in DOMAIN list : [id |-> list[k], invocation |-> i].id = list[k]
        OBVIOUS
      <4>2. {b.id : b \in RowsFor(i, list)} \subseteq Elements(list)
        BY DEF RowsFor, Elements
      <4>3. ASSUME NEW k \in DOMAIN list
            PROVE  list[k] \in {b.id : b \in RowsFor(i, list)}
        <5>1. [id |-> list[k], invocation |-> i] \in RowsFor(i, list)
          BY DEF RowsFor
        <5> QED
          BY <4>1, <5>1
      <4> QED
        BY <4>2, <4>3 DEF Elements
    <3>3. RowIds(After(tx)) = {b.id : b \in db.artifacts \cup RowsFor(i, list)}
      BY <3>1 DEF RowIds
    <3>4. {b.id : b \in db.artifacts \cup RowsFor(i, list)} = RowIds(db) \cup {b.id : b \in RowsFor(i, list)}
      BY DEF RowIds
    <3> QED
      BY <3>2, <3>3, <3>4
  <2> QED
    BY <1>1, <1>5, <2>3, <2>4, <2>5, <2>6 DEF Counts
<1>7. ASSUME seq = LastNumber(db), RowIds(db) \cap Elements(list) = {}
      PROVE  Accepted(tx)
  <2>1. Typed(tx)
    BY <1>3 DEF Transaction
  <2>2. \A a \in RowsFor(i, list), b \in db.artifacts : a.id # b.id
    BY <1>7 DEF RowsFor, RowIds, Elements
  <2>3. db.status[i] = "running"
    BY DEF Ready
  <2> QED
    BY <1>3, <1>7, <2>1, <2>2, <2>3, Moves, IsAccepted
<1> QED
  BY <1>3, <1>4, <1>6, <1>7

\* Finish ends the Run with these counts.
LEMMA FinishLeads ==
  ASSUME PInv, NEW end, NEW status \in Terminal, NEW counts \in Seq(Nat),
         Finish(status, counts, end),
         NEW turns, NEW calls, NEW arts, Counts(db, turns, calls, arts),
         Ready(db, node, "running", "running", {})
  PROVE  /\ node' = node
         /\ \E tx : /\ Transaction(tx) /\ Write(tx, end)
                    /\ Accepted(tx) => /\ \E k : Ended(After(tx), status, k, counts)
                                       /\ Counts(After(tx), turns, calls, arts)
                    /\ seq = LastNumber(db) => Accepted(tx)
<1>1. node \in Node /\ Task \in Record /\ Run \in Record /\ Node \cup Invocation \subseteq Record
  BY DEF PInv, PTypeOK, Record
<1>2. PICK tx : /\ Transaction(tx) /\ Write(tx, end)
                /\ Lacks(tx, {"model.requested"}) /\ Only(tx, FinalWords, 4)
                /\ tx.facts[4] = RunOutcome(status, counts)
                /\ Shape(tx, {}, {node, Run, Task}, status, {}) /\ tx.needs = {}
  BY <1>1, FinishWrites
<1>3. node' = node
  BY <1>1, FinishWrites
<1>4. \A r \in Record : After(tx).status[r] = IF r \in {node, Run, Task} THEN status ELSE db.status[r]
  BY <1>2, StatusAfter
<1>5. ASSUME Accepted(tx)
      PROVE  /\ \E k : Ended(After(tx), status, k, counts)
             /\ Counts(After(tx), turns, calls, arts)
  <2>0. PICK k : /\ Of(After(tx), FinalWords) = Of(db, FinalWords) \cup {k}
                 /\ After(tx).events[k] = tx.facts[4]
    BY <1>2, <1>5, OnlyAfter
  <2>1. /\ Of(After(tx), FinalWords) = {k}
        /\ After(tx).events[k] = RunOutcome(status, counts)
    BY <1>2, <2>0 DEF Ready
  <2>2. After(tx).events[k].is = FinalWord(status) /\ After(tx).events[k].counts = counts
    BY <2>1, RunOutcomeIsFact
  <2>3. Ended(After(tx), status, k, counts)
    BY <1>1, <1>4, <2>1, <2>2, Moves, ConstantsAssumption DEF Ready, Ended
  <2>4. Cardinality(Asked(After(tx))) = turns /\ CalledIn(After(tx)) = CalledIn(db)
    BY <1>2, <1>5, CountsAfter DEF Shape
  <2>5. After(tx).artifacts = db.artifacts
    BY <1>2 DEF Shape, After
  <2> QED
    BY <2>3, <2>4, <2>5 DEF Counts
<1>6. ASSUME seq = LastNumber(db)
      PROVE  Accepted(tx)
  <2>1. Typed(tx)
    BY <1>2 DEF Transaction
  <2> QED
    BY <1>1, <1>2, <1>6, <2>1, Moves, IsAccepted DEF Ready
<1> QED
  BY <1>2, <1>3, <1>5, <1>6

\* FinishRun ends the Run of a session whose NodeRun has ended.
LEMMA FinishRunLeads ==
  ASSUME PInv, NEW end, NEW status \in Terminal, NEW counts \in Seq(Nat),
         FinishRun(status, counts, end),
         NEW turns, NEW calls, NEW arts, Counts(db, turns, calls, arts),
         NEW t \in Terminal, Ready(db, node, "running", t, {})
  PROVE  /\ node' = node
         /\ \E tx : /\ Transaction(tx) /\ Write(tx, end)
                    /\ Accepted(tx) => /\ \E k : Ended(After(tx), status, k, counts)
                                       /\ Counts(After(tx), turns, calls, arts)
                    /\ seq = LastNumber(db) => Accepted(tx)
<1>1. node \in Node /\ Task \in Record /\ Run \in Record /\ Node \cup Invocation \subseteq Record
  BY DEF PInv, PTypeOK, Record
<1>2. PICK tx : /\ Transaction(tx) /\ Write(tx, end)
                /\ Lacks(tx, {"model.requested"}) /\ Only(tx, FinalWords, 3)
                /\ tx.facts[3] = RunOutcome(status, counts)
                /\ Shape(tx, {}, {Run, Task}, status, {}) /\ tx.needs = {}
  BY <1>1, FinishRunWrites
<1>3. node' = node
  BY <1>1, FinishRunWrites
<1>4. \A r \in Record : After(tx).status[r] = IF r \in {Run, Task} THEN status ELSE db.status[r]
  BY <1>2, StatusAfter
<1>5. ASSUME Accepted(tx)
      PROVE  /\ \E k : Ended(After(tx), status, k, counts)
             /\ Counts(After(tx), turns, calls, arts)
  <2>0. PICK k : /\ Of(After(tx), FinalWords) = Of(db, FinalWords) \cup {k}
                 /\ After(tx).events[k] = tx.facts[3]
    BY <1>2, <1>5, OnlyAfter
  <2>1. /\ Of(After(tx), FinalWords) = {k}
        /\ After(tx).events[k] = RunOutcome(status, counts)
    BY <1>2, <2>0 DEF Ready
  <2>2. After(tx).events[k].is = FinalWord(status) /\ After(tx).events[k].counts = counts
    BY <2>1, RunOutcomeIsFact
  <2>3. Ended(After(tx), status, k, counts)
    BY <1>1, <1>4, <2>1, <2>2, Moves, ConstantsAssumption DEF Ready, Ended
  <2>4. Cardinality(Asked(After(tx))) = turns /\ CalledIn(After(tx)) = CalledIn(db)
    BY <1>2, <1>5, CountsAfter DEF Shape
  <2>5. After(tx).artifacts = db.artifacts
    BY <1>2 DEF Shape, After
  <2> QED
    BY <2>3, <2>4, <2>5 DEF Counts
<1>6. ASSUME seq = LastNumber(db)
      PROVE  Accepted(tx)
  <2>1. Typed(tx)
    BY <1>2 DEF Transaction
  <2> QED
    BY <1>1, <1>2, <1>6, <2>1, Moves, IsAccepted DEF Ready
<1> QED
  BY <1>2, <1>3, <1>5, <1>6

\* add_node, between two inputs.
LEMMA AddNodeLeads ==
  ASSUME PInv, NEW end, NEW n \in Node, AddNode(n, end), db.status[n] = Absent,
         NEW turns, NEW calls, NEW arts, Counts(db, turns, calls, arts),
         NEW t \in Terminal, Ready(db, node, "running", t, {})
  PROVE  /\ node' = IF end = "ok" THEN n ELSE node
         /\ \E tx : /\ Transaction(tx) /\ Write(tx, end)
                    /\ Accepted(tx) => /\ Ready(After(tx), n, "running", "created", {})
                                       /\ Counts(After(tx), turns, calls, arts)
                                       /\ SameCalls(After(tx), db)
                    /\ seq = LastNumber(db) => Accepted(tx)
<1>1. node \in Node /\ Task \in Record /\ Run \in Record /\ Node \cup Invocation \subseteq Record
  BY DEF PInv, PTypeOK, Record
<1>2. PICK tx : /\ Transaction(tx) /\ Write(tx, end) /\ Lacks(tx, CountedWords)
                /\ Shape(tx, {n}, {n}, "created", {}) /\ tx.needs = {Run}
  BY <1>1, AddNodeWrites, RecordsAndWords
<1>3. node' = IF end = "ok" THEN n ELSE node
  BY <1>1, AddNodeWrites, RecordsAndWords
<1>4. \A r \in Record : After(tx).status[r] = IF r \in {n} THEN "created" ELSE db.status[r]
  BY <1>2, StatusAfter
<1>5. ASSUME Accepted(tx)
      PROVE  /\ Ready(After(tx), n, "running", "created", {})
             /\ Counts(After(tx), turns, calls, arts)
             /\ SameCalls(After(tx), db)
  <2>1. tx.add \cap Invocation = {} /\ tx.artifacts = {}
    BY <1>1, <1>2, ConstantsAssumption DEF Shape
  <2>2. Of(After(tx), FinalWords) = {} /\ Counts(After(tx), turns, calls, arts)
    BY <1>2, <1>5, <2>1, PlainAfter DEF Ready
  <2>5. SameCalls(After(tx), db)
    BY <1>1, <1>2, <1>4, ConstantsAssumption DEF Shape, After, SameCalls
  <2> QED
    BY <2>5, <1>1, <1>4, <2>2, Moves, ConstantsAssumption DEF Ready
<1>6. ASSUME seq = LastNumber(db)
      PROVE  Accepted(tx)
  <2>1. Typed(tx)
    BY <1>2 DEF Transaction
  <2> QED
    BY <1>1, <1>2, <1>6, <2>1, Moves, IsAccepted DEF Ready
<1> QED
  BY <1>2, <1>3, <1>5, <1>6

\* start_node, after add_node.
LEMMA StartNodeLeads ==
  ASSUME PInv, NEW end, StartNode(end),
         NEW turns, NEW calls, NEW arts, Counts(db, turns, calls, arts),
         Ready(db, node, "running", "created", {})
  PROVE  /\ node' = node
         /\ \E tx : /\ Transaction(tx) /\ Write(tx, end)
                    /\ Accepted(tx) => /\ Ready(After(tx), node, "running", "running", {})
                                       /\ Counts(After(tx), turns, calls, arts)
                                       /\ SameCalls(After(tx), db)
                    /\ seq = LastNumber(db) => Accepted(tx)
<1>1. node \in Node /\ Task \in Record /\ Run \in Record /\ Node \cup Invocation \subseteq Record
  BY DEF PInv, PTypeOK, Record
<1>2. PICK tx : /\ Transaction(tx) /\ Write(tx, end) /\ Lacks(tx, CountedWords)
                /\ Shape(tx, {}, {node}, "running", {}) /\ tx.needs = {}
  BY <1>1, MoveNodeWrites, RecordsAndWords
<1>3. node' = node
  BY <1>1, MoveNodeWrites, RecordsAndWords
<1>4. \A r \in Record : After(tx).status[r] = IF r \in {node} THEN "running" ELSE db.status[r]
  BY <1>2, StatusAfter
<1>5. ASSUME Accepted(tx)
      PROVE  /\ Ready(After(tx), node, "running", "running", {})
             /\ Counts(After(tx), turns, calls, arts)
             /\ SameCalls(After(tx), db)
  <2>1. tx.add \cap Invocation = {} /\ tx.artifacts = {}
    BY <1>1, <1>2, ConstantsAssumption DEF Shape
  <2>2. Of(After(tx), FinalWords) = {} /\ Counts(After(tx), turns, calls, arts)
    BY <1>2, <1>5, <2>1, PlainAfter DEF Ready
  <2>5. SameCalls(After(tx), db)
    BY <1>1, <1>2, <1>4, ConstantsAssumption DEF Shape, After, SameCalls
  <2> QED
    BY <2>5, <1>1, <1>4, <2>2, Moves, ConstantsAssumption DEF Ready
<1>6. ASSUME seq = LastNumber(db)
      PROVE  Accepted(tx)
  <2>1. Typed(tx)
    BY <1>2 DEF Transaction
  <2> QED
    BY <1>1, <1>2, <1>6, <2>1, Moves, IsAccepted DEF Ready
<1> QED
  BY <1>2, <1>3, <1>5, <1>6

\* finish_node.
LEMMA FinishNodeLeads ==
  ASSUME PInv, NEW end, NEW status \in Terminal, FinishNode(status, end),
         Ready(db, node, "running", "running", {})
  PROVE  /\ node' = node
         /\ \E tx : /\ Transaction(tx) /\ Write(tx, end)
                    /\ Accepted(tx) => /\ Ready(After(tx), node, "running", status, {})
                                       /\ SameCalls(After(tx), db)
                                       /\ \A turns, calls, arts :
                                            Counts(db, turns, calls, arts) =>
                                              Counts(After(tx), turns, calls, arts)
                    /\ seq = LastNumber(db) => Accepted(tx)
<1>1. node \in Node /\ Task \in Record /\ Run \in Record /\ Node \cup Invocation \subseteq Record
  BY DEF PInv, PTypeOK, Record
<1>2. status \in Status
  BY DEF Status, Terminal
<1>3. PICK tx : /\ Transaction(tx) /\ Write(tx, end) /\ Lacks(tx, CountedWords)
                /\ Shape(tx, {}, {node}, status, {}) /\ tx.needs = {}
  BY <1>1, <1>2, MoveNodeWrites
<1>4. node' = node
  BY <1>1, <1>2, MoveNodeWrites
<1>5. \A r \in Record : After(tx).status[r] = IF r \in {node} THEN status ELSE db.status[r]
  BY <1>3, StatusAfter
<1>6. ASSUME Accepted(tx)
      PROVE  /\ Ready(After(tx), node, "running", status, {})
             /\ SameCalls(After(tx), db)
             /\ \A turns, calls, arts :
                  Counts(db, turns, calls, arts) => Counts(After(tx), turns, calls, arts)
  <2>1. tx.add \cap Invocation = {} /\ tx.artifacts = {}
    BY <1>1, <1>3, ConstantsAssumption DEF Shape
  <2>2. Of(db, FinalWords) = {} => Of(After(tx), FinalWords) = {}
    BY <1>3, <1>6, PlainAfter
  <2>3. \A turns, calls, arts :
          Counts(db, turns, calls, arts) => Counts(After(tx), turns, calls, arts)
    BY <1>3, <1>6, <2>1, PlainAfter
  <2>4. SameCalls(After(tx), db)
    BY <1>1, <1>3, <1>5, ConstantsAssumption DEF Shape, After, SameCalls
  <2>5. Ready(After(tx), node, "running", status, {})
    BY <1>1, <1>5, <2>2, Moves, ConstantsAssumption DEF Ready
  <2> QED
    BY <2>3, <2>4, <2>5
<1>7. ASSUME seq = LastNumber(db)
      PROVE  Accepted(tx)
  <2>1. Typed(tx)
    BY <1>3 DEF Transaction
  <2> QED
    BY <1>1, <1>3, <1>7, <2>1, Moves, IsAccepted DEF Ready
<1> QED
  BY <1>3, <1>4, <1>6, <1>7

=============================================================================
