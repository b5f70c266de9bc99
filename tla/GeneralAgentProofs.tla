------------------------ MODULE GeneralAgentProofs -------------------------
(***************************************************************************)
(* Proofs about GeneralAgent, for every set of identities and every budget. *)
(* AgentInv is inductive: TypeOK, the account of the conversation at every  *)
(* phase, the reservation of the calls of a turn, and what a repaired turn  *)
(* may still run.  PairInv carries the scan of ModelRequest along with the  *)
(* conversation: what it leaves pending is what the turn has still to run.  *)
(***************************************************************************)
EXTENDS GeneralAgent, FiniteSetTheorems, WellFoundedInduction, TLAPS

\* Turns and messages at each phase, from the repairs, the rounds and the calls.
Accounting ==
  LET n == Cardinality(rounds) IN
  /\ phase = "ask" => turns = repairs + n
  /\ phase \in {"model", "call", "waiting"} => turns = repairs + n + 1
  /\ phase \in {"ask", "model", "waiting"} => Len(messages) = 2 + repairs + 2 * n + calls
  /\ phase = "call" => Len(messages) = 3 + repairs + 2 * n + calls

\* The calls of an accepted turn are within the budget before they run.
Reserved ==
  /\ phase = "call" => calls + Len(todo) <= MaxCalls
  /\ phase = "waiting" => todo # <<>> /\ calls + Len(todo) <= MaxCalls + 1

\* What ran is completed, except for the call that is running.
RanIsCompleted ==
  \A j \in DOMAIN ran :
    /\ ran[j].turn <= turns
    /\ phase \in {"ask", "model", "call"} => ran[j].sig \in completed
    /\ phase = "waiting" => ran[j].sig \in completed \cup {Head(todo).sig}

\* The calls of a repaired turn are new with respect to every earlier turn.
RepairedIsNew ==
  phase \in {"call", "waiting"} /\ repaired =>
    \A j \in DOMAIN ran, k \in DOMAIN todo :
      ran[j].turn < turns => ran[j].sig # todo[k].sig

AgentInv ==
  /\ TypeOK /\ Accounting /\ Reserved
  /\ RanIsCompleted /\ RepairedIsNew /\ NoReplayAfterRepair

\* The numbers the invariant speaks of are numbers.
LEMMA Numbers ==
  ASSUME AgentInv
  PROVE  /\ turns \in Nat /\ turns <= MaxTurns /\ MaxTurns \in Nat
         /\ calls \in Nat /\ calls <= MaxCalls /\ MaxCalls \in Nat
         /\ repairs \in Nat /\ repairs <= RepairRetries
         /\ Cardinality(rounds) \in Nat
         /\ Len(messages) \in Nat /\ Len(todo) \in Nat
         /\ \A j \in DOMAIN ran : ran[j].turn \in Nat
<1>1. Cardinality(rounds) \in Nat
  BY FS_CardinalityType DEF AgentInv, TypeOK, RoundsOK
<1>2. Len(messages) \in Nat /\ Len(todo) \in Nat
  BY DEF AgentInv, TypeOK, ConversationOK
<1>3. \A j \in DOMAIN ran : ran[j].turn \in Nat
  <2>1. \A j \in DOMAIN ran : ran[j] \in Ran
    BY DEF AgentInv, TypeOK, RoundsOK
  <2> QED BY <2>1 DEF Ran
<1> QED BY <1>1, <1>2, <1>3, AgentAssumption DEF AgentInv, TypeOK, CountersOK

\* The agent starts within its budgets with a conversation of two messages.
LEMMA InitInv == Init => AgentInv
<1> SUFFICES ASSUME Init PROVE AgentInv
  OBVIOUS
<1> USE AgentAssumption
<1>1. TypeOK
  <2>1. IsFiniteSet(rounds)
    BY FS_EmptySet DEF Init
  <2>2. messages \in Seq(Message)
    BY DEF Init, Say, Message
  <2>3. ControlOK
    BY DEF Init, ControlOK
  <2>4. CountersOK
    BY DEF Init, CountersOK
  <2>5. ConversationOK
    BY <2>2 DEF Init, ConversationOK
  <2>6. RoundsOK
    BY <2>1 DEF Init, RoundsOK
  <2> QED BY <2>3, <2>4, <2>5, <2>6 DEF TypeOK
<1>2. Accounting
  BY FS_EmptySet DEF Init, Accounting, Say
<1> QED BY <1>1, <1>2 DEF Init, AgentInv, Reserved, RanIsCompleted, RepairedIsNew,
                        NoReplayAfterRepair

\* A stuttering step changes nothing.
LEMMA StutterKeepsInv == AgentInv /\ UNCHANGED vars => AgentInv'
<1> SUFFICES ASSUME AgentInv, UNCHANGED vars PROVE AgentInv'
  OBVIOUS
<1> USE DEF vars
<1>1. TypeOK'
  <2>1. ControlOK'
    BY DEF AgentInv, TypeOK, ControlOK
  <2>2. CountersOK'
    BY DEF AgentInv, TypeOK, CountersOK
  <2>3. ConversationOK'
    BY DEF AgentInv, TypeOK, ConversationOK
  <2>4. RoundsOK'
    BY DEF AgentInv, TypeOK, RoundsOK
  <2> QED BY <2>1, <2>2, <2>3, <2>4 DEF TypeOK
<1>2. Accounting' /\ Reserved' /\ RanIsCompleted' /\ RepairedIsNew'
  BY DEF AgentInv, Accounting, Reserved, RanIsCompleted, RepairedIsNew
<1>3. NoReplayAfterRepair'
  BY DEF AgentInv, NoReplayAfterRepair
<1> QED BY <1>1, <1>2, <1>3 DEF AgentInv

\* However the agent ends, its conversation and its history stay.
LEMMA EndKeepsInv ==
  ASSUME AgentInv, NEW status \in {"succeeded", "failed", "timed_out", "cancelled"},
         End(status), turns' \in turns .. MaxTurns
  PROVE  AgentInv'
<1> USE AgentAssumption DEF End, conversation, running
<1>1. TypeOK'
  <2>1. ControlOK'
    BY DEF AgentInv, TypeOK, ControlOK
  <2>2. CountersOK'
    BY DEF AgentInv, TypeOK, CountersOK, Reserved
  <2>3. ConversationOK'
    BY DEF AgentInv, TypeOK, ConversationOK
  <2>4. RoundsOK'
    BY DEF AgentInv, TypeOK, RoundsOK
  <2> QED BY <2>1, <2>2, <2>3, <2>4 DEF TypeOK
<1>2. Accounting' /\ Reserved' /\ RepairedIsNew'
  BY DEF Accounting, Reserved, RepairedIsNew
<1>3. RanIsCompleted'
  <2>1. turns \in Nat /\ turns' \in Nat /\ turns <= turns'
    BY Numbers
  <2>2. \A j \in DOMAIN ran : ran[j].turn \in Nat /\ ran[j].turn <= turns
    BY Numbers DEF AgentInv, RanIsCompleted
  <2>3. \A j \in DOMAIN ran : ran[j].turn <= turns'
    BY <2>1, <2>2
  <2> QED BY <2>3 DEF RanIsCompleted
<1>4. NoReplayAfterRepair'
  BY DEF AgentInv, NoReplayAfterRepair
<1> QED BY <1>1, <1>2, <1>3, <1>4 DEF AgentInv

\* Asking counts a turn; repairing uses it up.
LEMMA AskKeepsInv == AgentInv /\ Ask => AgentInv'
<1> SUFFICES ASSUME AgentInv, Ask PROVE AgentInv'
  OBVIOUS
<1> USE AgentAssumption
<1>1. CASE End("failed")
  BY <1>1, EndKeepsInv DEF Ask, AgentInv, TypeOK, CountersOK
<1>2. CASE phase' = "model" /\ UNCHANGED <<conversation, running, outcome>>
  <2> USE <1>2 DEF Ask, conversation, running
  <2>1. TypeOK'
    <3>1. ControlOK'
      BY DEF AgentInv, TypeOK, ControlOK
    <3>2. CountersOK'
      BY DEF AgentInv, TypeOK, CountersOK
    <3>3. ConversationOK'
      BY DEF AgentInv, TypeOK, ConversationOK
    <3>4. RoundsOK'
      BY DEF AgentInv, TypeOK, RoundsOK
    <3> QED BY <3>1, <3>2, <3>3, <3>4 DEF TypeOK
  <2>2. Accounting'
    BY DEF AgentInv, TypeOK, CountersOK, Accounting
  <2>3. Reserved' /\ RepairedIsNew' /\ NoReplayAfterRepair'
    BY DEF AgentInv, Reserved, RepairedIsNew, NoReplayAfterRepair
  <2>4. RanIsCompleted'
    <3>1. \A j \in DOMAIN ran : ran[j].turn <= turns'
      BY Numbers DEF AgentInv, RanIsCompleted
    <3>2. \A j \in DOMAIN ran : ran[j].sig \in completed
      BY DEF AgentInv, RanIsCompleted
    <3> QED BY <3>1, <3>2 DEF RanIsCompleted
  <2> QED BY <2>1, <2>4, <2>2, <2>3 DEF AgentInv
<1> QED BY <1>1, <1>2 DEF Ask

\* A repair adds one message and one repair for the turn that failed.
LEMMA RepairKeepsInv == AgentInv /\ Repair => AgentInv'
<1> SUFFICES ASSUME AgentInv, Repair PROVE AgentInv'
  OBVIOUS
<1> USE AgentAssumption DEF Repair, RepairLeft, running
<1>1. Say("system") \in Message
  BY DEF Say, Message
<1>2. /\ messages' \in Seq(Message)
      /\ Len(messages') = Len(messages) + 1
  BY <1>1 DEF AgentInv, TypeOK, ConversationOK
<1>3. TypeOK'
  <2>1. ControlOK'
    BY <1>2 DEF AgentInv, TypeOK, ControlOK
  <2>2. CountersOK'
    BY <1>2 DEF AgentInv, TypeOK, CountersOK, Reserved
  <2>3. ConversationOK'
    BY <1>2 DEF AgentInv, TypeOK, ConversationOK
  <2>4. RoundsOK'
    BY <1>2 DEF AgentInv, TypeOK, RoundsOK
  <2> QED BY <2>1, <2>2, <2>3, <2>4 DEF TypeOK
<1>4. /\ turns = repairs + Cardinality(rounds) + 1
      /\ Len(messages) = 2 + repairs + 2 * Cardinality(rounds) + calls
  BY DEF AgentInv, Accounting
<1>5. Accounting'
  <2>1. /\ turns \in Nat /\ repairs \in Nat /\ calls \in Nat
        /\ Cardinality(rounds) \in Nat /\ Len(messages) \in Nat
    BY Numbers
  <2>2. /\ repairs' = repairs + 1 /\ UNCHANGED <<turns, rounds, calls>>
        /\ Len(messages') = Len(messages) + 1
    BY <1>2
  <2> HIDE DEF Repair, running
  <2> DEFINE n == Cardinality(rounds)
  <2>3. /\ turns' = turns /\ repairs' = repairs + 1 /\ calls' = calls
        /\ Len(messages') = Len(messages) + 1 /\ Cardinality(rounds') = n
    BY <2>2
  <2>4. turns = repairs + n + 1 /\ Len(messages) = 2 + repairs + 2 * n + calls
    BY <1>4
  <2>5. n \in Int /\ repairs \in Int /\ calls \in Int
    BY <2>1
  <2> HIDE DEF n
  <2>6. turns' = repairs' + n
    BY <2>3, <2>4, <2>5
  <2>7. Len(messages') = 2 + repairs' + 2 * n + calls'
    BY <2>3, <2>4, <2>5
  <2>8. phase' = "ask"
    BY DEF Repair
  <2> QED BY <2>3, <2>6, <2>7, <2>8 DEF Accounting
<1>6. Reserved' /\ RanIsCompleted' /\ RepairedIsNew' /\ NoReplayAfterRepair'
  BY DEF AgentInv, Reserved, RanIsCompleted, RepairedIsNew, NoReplayAfterRepair
<1> QED BY <1>3, <1>5, <1>6 DEF AgentInv

\* An accepted batch is within the budget and, after a repair, new.
LEMMA ToolCallsKeepsInv == AgentInv /\ ToolCalls => AgentInv'
<1> SUFFICES ASSUME AgentInv, ToolCalls PROVE AgentInv'
  OBVIOUS
<1> USE AgentAssumption DEF ToolCalls
<1>1. PICK batch \in Batch :
        /\ Accepted(batch)
        /\ messages' = Append(messages, [role |-> "assistant", ids |-> Ids(batch)])
        /\ todo' = batch
  OBVIOUS
<1>2. PICK n \in 1 .. MaxBatch : batch \in [1 .. n -> Call]
  BY DEF Batch
<1>3. batch \in Seq(Call) /\ Len(batch) = n /\ DOMAIN batch = 1 .. n
  BY <1>2
<1>4. [role |-> "assistant", ids |-> Ids(batch)] \in Message
  <2>1. \A k \in DOMAIN batch : batch[k].id \in CallId
    BY <1>2 DEF Call
  <2>2. Ids(batch) \in SUBSET CallId
    BY <2>1 DEF Ids
  <2> QED BY <2>2 DEF Message
<1>5. /\ messages' \in Seq(Message)
      /\ Len(messages') = Len(messages) + 1
  BY <1>1, <1>4 DEF AgentInv, TypeOK, ConversationOK
<1>6. TypeOK'
  <2>1. ControlOK'
    BY <1>1, <1>2, <1>3, <1>5 DEF AgentInv, TypeOK, ControlOK
  <2>2. CountersOK'
    BY <1>1, <1>2, <1>3, <1>5 DEF AgentInv, TypeOK, CountersOK, Reserved
  <2>3. ConversationOK'
    BY <1>1, <1>2, <1>3, <1>5 DEF AgentInv, TypeOK, ConversationOK
  <2>4. RoundsOK'
    BY <1>1, <1>2, <1>3, <1>5 DEF AgentInv, TypeOK, RoundsOK
  <2> QED BY <2>1, <2>2, <2>3, <2>4 DEF TypeOK
<1>7. /\ turns = repairs + Cardinality(rounds) + 1
      /\ Len(messages) = 2 + repairs + 2 * Cardinality(rounds) + calls
  BY DEF AgentInv, Accounting
<1>8. Accounting' /\ Reserved'
  <2>1. /\ turns \in Nat /\ repairs \in Nat /\ calls \in Nat
        /\ Cardinality(rounds) \in Nat /\ Len(messages) \in Nat
    BY Numbers
  <2>2. /\ UNCHANGED <<turns, repairs, rounds, calls>>
        /\ Len(messages') = Len(messages) + 1
    BY <1>5
  <2> HIDE DEF ToolCalls
  <2> DEFINE r == Cardinality(rounds)
  <2>3. /\ turns' = turns /\ repairs' = repairs /\ calls' = calls
        /\ Len(messages') = Len(messages) + 1 /\ Cardinality(rounds') = r
    BY <2>2
  <2>4. turns = repairs + r + 1 /\ Len(messages) = 2 + repairs + 2 * r + calls
    BY <1>7
  <2>5. r \in Int /\ repairs \in Int /\ calls \in Int
    BY <2>1
  <2> HIDE DEF r
  <2>6. turns' = repairs' + r + 1
    BY <2>3, <2>4, <2>5
  <2>7. Len(messages') = 3 + repairs' + 2 * r + calls'
    BY <2>3, <2>4, <2>5
  <2>8. phase' = "call"
    BY DEF ToolCalls
  <2>9. calls' + Len(todo') <= MaxCalls
    BY <1>1, <1>3, <2>3 DEF Accepted, ToolCalls
  <2> QED BY <2>3, <2>6, <2>7, <2>8, <2>9 DEF Accounting, Reserved
<1>9. RanIsCompleted' /\ NoReplayAfterRepair'
  BY DEF AgentInv, RanIsCompleted, NoReplayAfterRepair
<1>10. RepairedIsNew'
  BY <1>1 DEF AgentInv, RepairedIsNew, RanIsCompleted, Accepted, Replays
<1> QED BY <1>6, <1>8, <1>9, <1>10 DEF AgentInv

\* An invocation uses one of the reserved calls.
LEMMA InvokeKeepsInv == AgentInv /\ Invoke => AgentInv'
<1> SUFFICES ASSUME AgentInv, Invoke PROVE AgentInv'
  OBVIOUS
<1> USE AgentAssumption DEF Invoke, conversation
<1> DEFINE new == [sig |-> Head(todo).sig, turn |-> turns, repaired |-> repaired]
<1>1. /\ todo \in Seq(Call) /\ todo # <<>> /\ Len(todo) \in Nat \ {0}
      /\ Head(todo) = todo[1] /\ 1 \in DOMAIN todo /\ Head(todo) \in Call
  BY DEF AgentInv, TypeOK, ConversationOK
<1>2. new \in Ran
  BY <1>1 DEF AgentInv, TypeOK, CountersOK, ControlOK, Ran, Call
<1>3. /\ ran' = Append(ran, new) /\ ran' \in Seq(Ran)
      /\ DOMAIN ran' = 1 .. Len(ran) + 1 /\ DOMAIN ran = 1 .. Len(ran)
      /\ Len(ran) \in Nat
      /\ \A j \in DOMAIN ran : ran'[j] = ran[j]
      /\ ran'[Len(ran) + 1] = new
  BY <1>2 DEF AgentInv, TypeOK, RoundsOK
<1>4. repeated' \in Nat /\ last' \in Signature
  BY <1>1 DEF AgentInv, TypeOK, CountersOK, ConversationOK, Repetitions, Call
<1>5. TypeOK'
  <2>1. ControlOK'
    BY <1>1, <1>3, <1>4 DEF AgentInv, TypeOK, ControlOK
  <2>2. CountersOK'
    BY <1>1, <1>3, <1>4 DEF AgentInv, TypeOK, CountersOK, Reserved
  <2>3. ConversationOK'
    BY <1>1, <1>3, <1>4 DEF AgentInv, TypeOK, ConversationOK
  <2>4. RoundsOK'
    BY <1>1, <1>3, <1>4 DEF AgentInv, TypeOK, RoundsOK
  <2> QED BY <2>1, <2>2, <2>3, <2>4 DEF TypeOK
<1>6. /\ turns = repairs + Cardinality(rounds) + 1
      /\ Len(messages) = 3 + repairs + 2 * Cardinality(rounds) + calls
      /\ calls + Len(todo) <= MaxCalls
  BY DEF AgentInv, Accounting, Reserved
<1>7. Accounting' /\ Reserved'
  <2>1. /\ turns \in Nat /\ repairs \in Nat /\ calls \in Nat
        /\ Cardinality(rounds) \in Nat /\ Len(messages) \in Nat
    BY Numbers
  <2>2. Len(todo) \in Nat /\ MaxCalls \in Nat
    BY <1>1
  <2>3. calls' = calls + 1 /\ UNCHANGED <<turns, repairs, rounds, messages, todo>>
    OBVIOUS
  <2> HIDE DEF Invoke, conversation
  <2>4. turns' = repairs' + Cardinality(rounds') + 1
    BY <2>3, <1>6
  <2>5. Len(messages') = 2 + repairs' + 2 * Cardinality(rounds') + calls'
    <3> DEFINE n == Cardinality(rounds)
    <3>1. /\ messages' = messages /\ repairs' = repairs /\ calls' = calls + 1
          /\ Cardinality(rounds') = n
      BY <2>3
    <3>2. Len(messages) = 3 + repairs + 2 * n + calls
      BY <1>6
    <3>3. repairs \in Int /\ calls \in Int /\ n \in Int
      BY <2>1
    <3> HIDE DEF n
    <3>4. Len(messages') = 2 + repairs' + 2 * n + calls'
      BY <3>1, <3>2, <3>3
    <3> QED BY <3>1, <3>4
  <2>6. calls' + Len(todo') <= MaxCalls + 1
    <3>1. calls' = calls + 1 /\ Len(todo') = Len(todo) /\ calls + Len(todo) <= MaxCalls
      BY <2>3, <1>6
    <3>2. calls \in Int /\ Len(todo) \in Int /\ MaxCalls \in Int
      BY <2>1, <2>2
    <3> QED BY <3>1, <3>2
  <2> USE DEF Invoke
  <2> QED BY <1>1, <2>4, <2>5, <2>6 DEF Accounting, Reserved
<1>8. RanIsCompleted'
  <2> SUFFICES ASSUME NEW j \in DOMAIN ran'
               PROVE  ran'[j].turn <= turns /\ ran'[j].sig \in completed \cup {Head(todo).sig}
    BY DEF RanIsCompleted
  <2>1. CASE j \in DOMAIN ran
    BY <2>1, <1>3 DEF AgentInv, RanIsCompleted
  <2>2. CASE j = Len(ran) + 1
    BY <2>2, <1>3 DEF AgentInv, TypeOK, CountersOK
  <2> QED BY <2>1, <2>2, <1>3
<1>9. RepairedIsNew'
  <2> SUFFICES ASSUME repaired, NEW j \in DOMAIN ran', NEW k \in DOMAIN todo,
                      ran'[j].turn < turns
               PROVE  ran'[j].sig # todo[k].sig
    BY DEF RepairedIsNew
  <2>1. j # Len(ran) + 1
    BY <1>3, Numbers
  <2>2. j \in DOMAIN ran /\ ran'[j] = ran[j]
    BY <2>1, <1>3
  <2> QED BY <2>2 DEF AgentInv, RepairedIsNew
<1>10. NoReplayAfterRepair'
  <2> SUFFICES ASSUME NEW j \in DOMAIN ran', NEW k \in DOMAIN ran',
                      ran'[j].turn < ran'[k].turn, ran'[k].repaired
               PROVE  ran'[j].sig # ran'[k].sig
    BY DEF NoReplayAfterRepair
  <2>1. CASE j \in DOMAIN ran /\ k \in DOMAIN ran
    BY <2>1, <1>3 DEF AgentInv, NoReplayAfterRepair
  <2>2. CASE j \in DOMAIN ran /\ k = Len(ran) + 1
    BY <2>2, <1>1, <1>3 DEF AgentInv, RepairedIsNew
  <2>3. CASE j = Len(ran) + 1
    <3>1. \A i \in DOMAIN ran' : ran'[i].turn <= turns
      BY <1>8 DEF RanIsCompleted
    <3>2. ran'[j].turn = turns
      BY <2>3, <1>3
    <3>3. \A i \in DOMAIN ran' : ran'[i] \in Ran
      BY <1>3
    <3>4. ran'[k].turn <= ran'[j].turn
      BY <3>1, <3>2
    <3>5. ran'[j].turn \in Nat /\ ran'[k].turn \in Nat
      BY <3>3 DEF Ran
    <3> HIDE DEF Invoke, conversation
    <3> QED BY <3>4, <3>5
  <2> QED BY <2>1, <2>2, <2>3, <1>3
<1> QED BY <1>5, <1>7, <1>8, <1>9, <1>10 DEF AgentInv

\* A result completes its call and answers it in the conversation.
LEMMA ObserveKeepsInv == AgentInv /\ Observe => AgentInv'
<1> SUFFICES ASSUME AgentInv, Observe PROVE AgentInv'
  OBVIOUS
<1> USE AgentAssumption DEF Observe
<1>1. /\ todo \in Seq(Call) /\ todo # <<>> /\ Head(todo) \in Call
      /\ todo' = Tail(todo) /\ todo' \in Seq(Call) /\ Len(todo') = Len(todo) - 1
      /\ Len(todo) \in Nat \ {0}
      /\ \A k \in DOMAIN todo' : k + 1 \in DOMAIN todo /\ todo'[k] = todo[k + 1]
  BY DEF AgentInv, TypeOK, ConversationOK, Reserved
<1>2. [role |-> "tool", ids |-> {Head(todo).id}] \in Message
  BY <1>1 DEF Message, Call
<1>3. /\ messages' \in Seq(Message)
      /\ Len(messages') = Len(messages) + 1
  BY <1>2 DEF AgentInv, TypeOK, ConversationOK
<1>4. facts' \in Seq(Fact)
  BY <1>1 DEF AgentInv, TypeOK, RoundsOK, Call, Fact
<1>5. completed' \subseteq Signature
  BY <1>1 DEF AgentInv, TypeOK, RoundsOK, Call
<1>6. TypeOK'
  <2>1. ControlOK'
    BY <1>1, <1>3, <1>4, <1>5 DEF AgentInv, TypeOK, ControlOK
  <2>2. CountersOK'
    BY <1>1, <1>3, <1>4, <1>5 DEF AgentInv, TypeOK, CountersOK, Reserved
  <2>3. ConversationOK'
    BY <1>1, <1>3, <1>4, <1>5 DEF AgentInv, TypeOK, ConversationOK
  <2>4. RoundsOK'
    BY <1>1, <1>3, <1>4, <1>5 DEF AgentInv, TypeOK, RoundsOK
  <2> QED BY <2>1, <2>2, <2>3, <2>4 DEF TypeOK
<1>7. /\ turns = repairs + Cardinality(rounds) + 1
      /\ Len(messages) = 2 + repairs + 2 * Cardinality(rounds) + calls
      /\ calls + Len(todo) <= MaxCalls + 1
  BY DEF AgentInv, Accounting, Reserved
<1>8. Accounting' /\ Reserved'
  <2>1. /\ turns \in Nat /\ repairs \in Nat /\ calls \in Nat
        /\ Cardinality(rounds) \in Nat /\ Len(messages) \in Nat
    BY Numbers
  <2>2. Len(todo) \in Nat /\ MaxCalls \in Nat
    BY <1>1
  <2>3. /\ UNCHANGED <<turns, repairs, rounds, calls>>
        /\ Len(messages') = Len(messages) + 1 /\ Len(todo') = Len(todo) - 1
    BY <1>1, <1>3
  <2> HIDE DEF Observe
  <2>4. turns' = repairs' + Cardinality(rounds') + 1
    BY <2>3, <1>7
  <2>5. Len(messages') = 3 + repairs' + 2 * Cardinality(rounds') + calls'
    <3> DEFINE n == Cardinality(rounds)
    <3>1. /\ Len(messages') = Len(messages) + 1 /\ repairs' = repairs /\ calls' = calls
          /\ Cardinality(rounds') = n
      BY <2>3
    <3>2. Len(messages) = 2 + repairs + 2 * n + calls
      BY <1>7
    <3>3. repairs \in Int /\ calls \in Int /\ n \in Int
      BY <2>1
    <3> HIDE DEF n
    <3>4. Len(messages') = 3 + repairs' + 2 * n + calls'
      BY <3>1, <3>2, <3>3
    <3> QED BY <3>1, <3>4
  <2>6. calls' + Len(todo') <= MaxCalls
    <3>1. calls' = calls /\ Len(todo') = Len(todo) - 1 /\ calls + Len(todo) <= MaxCalls + 1
      BY <2>3, <1>7
    <3>2. calls \in Int /\ Len(todo) \in Int /\ MaxCalls \in Int
      BY <2>1, <2>2
    <3> QED BY <3>1, <3>2
  <2> USE DEF Observe
  <2> QED BY <2>4, <2>6, <2>5 DEF Accounting, Reserved
<1>9. RanIsCompleted' /\ NoReplayAfterRepair'
  BY DEF AgentInv, RanIsCompleted, NoReplayAfterRepair
<1>10. RepairedIsNew'
  BY <1>1 DEF AgentInv, RepairedIsNew
<1> QED BY <1>6, <1>8, <1>9, <1>10 DEF AgentInv

\* A round that made progress is a new element of the rounds.
LEMMA RoundOverKeepsInv == AgentInv /\ RoundOver => AgentInv'
<1> SUFFICES ASSUME AgentInv, RoundOver PROVE AgentInv'
  OBVIOUS
<1> USE AgentAssumption DEF RoundOver, Progress
<1>1. Say("system") \in Message
  BY DEF Say, Message
<1>2. /\ messages' \in Seq(Message)
      /\ Len(messages') = Len(messages) + 1
  BY <1>1 DEF AgentInv, TypeOK, ConversationOK
<1>3. /\ IsFiniteSet(rounds')
      /\ Cardinality(rounds') = Cardinality(rounds) + 1
      /\ Cardinality(rounds) \in Nat
  BY FS_AddElement, FS_CardinalityType DEF AgentInv, TypeOK, RoundsOK
<1>4. TypeOK'
  <2>1. ControlOK'
    BY <1>2, <1>3 DEF AgentInv, TypeOK, ControlOK
  <2>2. CountersOK'
    BY <1>2, <1>3 DEF AgentInv, TypeOK, CountersOK, Reserved
  <2>3. ConversationOK'
    BY <1>2, <1>3 DEF AgentInv, TypeOK, ConversationOK
  <2>4. RoundsOK'
    BY <1>2, <1>3 DEF AgentInv, TypeOK, RoundsOK
  <2> QED BY <2>1, <2>2, <2>3, <2>4 DEF TypeOK
<1>5. Accounting'
  <2>1. /\ turns = repairs + Cardinality(rounds) + 1
        /\ Len(messages) = 3 + repairs + 2 * Cardinality(rounds) + calls
    BY DEF AgentInv, Accounting
  <2>2. /\ turns \in Nat /\ repairs \in Nat /\ calls \in Nat
        /\ Cardinality(rounds) \in Nat /\ Len(messages) \in Nat
    BY Numbers
  <2>3. /\ UNCHANGED <<turns, repairs, calls>>
        /\ Len(messages') = Len(messages) + 1
        /\ Cardinality(rounds') = Cardinality(rounds) + 1
    BY <1>2, <1>3
  <2> HIDE DEF RoundOver, Progress
  <2> DEFINE n == Cardinality(rounds)
  <2>4. /\ turns' = turns /\ repairs' = repairs /\ calls' = calls
        /\ Len(messages') = Len(messages) + 1 /\ Cardinality(rounds') = n + 1
    BY <2>3
  <2>5. turns = repairs + n + 1 /\ Len(messages) = 3 + repairs + 2 * n + calls
    BY <2>1
  <2>6. n \in Int /\ repairs \in Int /\ calls \in Int
    BY <2>2
  <2> HIDE DEF n
  <2>7. turns' = repairs' + (n + 1)
    BY <2>4, <2>5, <2>6
  <2>8. Len(messages') = 2 + repairs' + 2 * (n + 1) + calls'
    BY <2>4, <2>5, <2>6
  <2>9. phase' = "ask"
    BY DEF RoundOver
  <2> QED BY <2>4, <2>7, <2>8, <2>9 DEF Accounting
<1>6. Reserved' /\ RanIsCompleted' /\ RepairedIsNew' /\ NoReplayAfterRepair'
  BY DEF AgentInv, Reserved, RanIsCompleted, RepairedIsNew, NoReplayAfterRepair
<1> QED BY <1>4, <1>5, <1>6 DEF AgentInv

\* Every step of the agent preserves the invariant.
LEMMA NextKeepsInv == AgentInv /\ [Next]_vars => AgentInv'
<1> SUFFICES ASSUME AgentInv, [Next]_vars PROVE AgentInv'
  OBVIOUS
<1> USE AgentAssumption
<1>1. turns \in turns .. MaxTurns
  BY DEF AgentInv, TypeOK, CountersOK
<1>2. CASE TurnBudgetSpent \/ Answer \/ RefusedCalls \/ RepeatedCall \/ CallEnds \/ NoProgress
  BY <1>1, <1>2, EndKeepsInv
     DEF TurnBudgetSpent, Answer, RefusedCalls, RepeatedCall, CallEnds, NoProgress
<1>3. CASE Ask
  BY <1>3, AskKeepsInv
<1>4. CASE Repair
  BY <1>4, RepairKeepsInv
<1>5. CASE ToolCalls
  BY <1>5, ToolCallsKeepsInv
<1>6. CASE Invoke
  BY <1>6, InvokeKeepsInv
<1>7. CASE Observe
  BY <1>7, ObserveKeepsInv
<1>8. CASE RoundOver
  BY <1>8, RoundOverKeepsInv
<1>9. CASE UNCHANGED vars
  BY <1>9, StutterKeepsInv
<1> QED BY <1>2, <1>3, <1>4, <1>5, <1>6, <1>7, <1>8, <1>9 DEF Next

\* The invariant holds throughout.
THEOREM AgentInvHolds == Spec => []AgentInv
BY InitInv, NextKeepsInv, PTL DEF Spec

\* Type correctness, with it the budgets of turns, calls and repairs: no
\* sequence of answers makes the agent exceed one of them.
THEOREM BudgetsHold == Spec => []TypeOK
<1>1. AgentInv => TypeOK
  BY DEF AgentInv
<1> QED BY <1>1, AgentInvHolds, PTL

\* The answer to a repair request never runs a call of an earlier turn again,
\* for any number of turns, repairs and calls per turn.
THEOREM RepairsNeverReplay == Spec => []NoReplayAfterRepair
<1>1. AgentInv => NoReplayAfterRepair
  BY DEF AgentInv
<1> QED BY <1>1, AgentInvHolds, PTL

\* The conversation is exactly as long as repairs, rounds and calls make it.
THEOREM ConversationHolds == Spec => []ConversationIsBounded
<1>1. AgentInv => ConversationIsBounded
  BY DEF AgentInv, Accounting, ConversationIsBounded
<1> QED BY <1>1, AgentInvHolds, PTL

\* What budgets suffice for every request to be short enough: twice the turns
\* and the calls.
THEOREM BudgetsBoundRequests == Spec => []RequestsAreShort
<1>1. AgentInv => RequestsAreShort
  <2> SUFFICES ASSUME AgentInv, phase = "ask", turns < MaxTurns
               PROVE  Len(messages) <= 2 * MaxTurns + MaxCalls
    BY DEF RequestsAreShort
  <2> DEFINE n == Cardinality(rounds)
  <2>1. turns = repairs + n /\ Len(messages) = 2 + repairs + 2 * n + calls
    BY DEF AgentInv, Accounting
  <2>2. /\ turns \in Int /\ repairs \in Nat /\ calls \in Int /\ n \in Int
        /\ MaxTurns \in Int /\ MaxCalls \in Int /\ calls <= MaxCalls
    BY Numbers
  <2> HIDE DEF n
  <2>3. n <= turns /\ turns + 1 <= MaxTurns
    BY <2>1, <2>2
  <2> QED BY <2>1, <2>2, <2>3
<1> QED BY <1>1, AgentInvHolds, PTL

-----------------------------------------------------------------------------
(***************************************************************************)
(* Repeated calls.                                                          *)
(***************************************************************************)
\* The counter is the length of the last series of equal calls, and that
\* series is shorter than the limit.
Series ==
  /\ repeated <= Len(ran) /\ (Len(ran) # 0 => repeated # 0)
  /\ \A j \in DOMAIN ran : Len(ran) - repeated < j => ran[j].sig = last
  /\ repeated < Len(ran) => ran[Len(ran) - repeated].sig # last
  /\ RepeatLimit # 0 => repeated < RepeatLimit

SeriesInv == Series /\ NoLongRepetition

\* A call prolongs the last series or starts one, and closes no series that is
\* too long.
LEMMA InvokeKeepsSeries ==
  ASSUME AgentInv, SeriesInv, Invoke
  PROVE  SeriesInv'
<1> DEFINE n == Len(ran)
           sig == Head(todo).sig
<1>1. /\ ran \in Seq(Ran) /\ n \in Nat /\ DOMAIN ran = 1 .. n
      /\ repeated \in Nat /\ RepeatLimit \in Nat
  BY AgentAssumption DEF AgentInv, TypeOK, RoundsOK, CountersOK
<1>2. /\ Len(ran') = n + 1 /\ DOMAIN ran' = 1 .. (n + 1) /\ ran'[n + 1].sig = sig
      /\ \A j \in 1 .. n : ran'[j] = ran[j]
  BY <1>1 DEF Invoke
<1>3. /\ last' = sig /\ repeated' = (IF sig = last THEN repeated + 1 ELSE 1)
      /\ RepeatLimit # 0 => repeated' < RepeatLimit
  BY <1>1 DEF Invoke, Repetitions, TooOften
<1>4. /\ repeated <= n /\ (n # 0 => repeated # 0)
      /\ \A j \in 1 .. n : n - repeated < j => ran[j].sig = last
      /\ repeated < n => ran[n - repeated].sig # last
  BY <1>1 DEF SeriesInv, Series
<1>5. NoLongRepetition
  BY DEF SeriesInv
<1> HIDE DEF sig, n
<1>6. repeated' \in Nat /\ 1 <= repeated' /\ repeated' <= n + 1
  BY <1>1, <1>3, <1>4
<1>7. \A j \in 1 .. n + 1 : (n + 1) - repeated' < j => ran'[j].sig = sig
  BY <1>1, <1>2, <1>3, <1>4
<1>8. repeated' < n + 1 => ran'[(n + 1) - repeated'].sig # sig
  <2> HAVE repeated' < n + 1
  <2>1. CASE sig = last
    <3>1. (n + 1) - repeated' = n - repeated /\ n - repeated \in 1 .. n /\ repeated < n
      BY <2>1, <1>1, <1>3
    <3> QED
      BY <2>1, <3>1, <1>2, <1>4
  <2>2. CASE sig # last
    <3>1. (n + 1) - repeated' = n /\ n \in 1 .. n
      BY <2>2, <1>1, <1>3
    <3>2. ran[n].sig = last
      BY <3>1, <1>1, <1>4
    <3> QED
      BY <2>2, <3>1, <3>2, <1>2
  <2> QED
    BY <2>1, <2>2
<1>9. Series'
  BY <1>2, <1>3, <1>6, <1>7, <1>8 DEF Series
<1>10. ASSUME RepeatLimit # 0, NEW k \in DOMAIN ran', k + RepeatLimit - 1 \in DOMAIN ran'
       PROVE  \E j \in k .. k + RepeatLimit - 1 : ran'[j].sig # ran'[k].sig
  <2>1. CASE k + RepeatLimit - 1 \in 1 .. n
    <3>1. k \in DOMAIN ran /\ k + RepeatLimit - 1 \in DOMAIN ran
      BY <2>1, <1>1, <1>2, <1>10
    <3>2. PICK j \in k .. k + RepeatLimit - 1 : ran[j].sig # ran[k].sig
      BY <3>1, <1>5, <1>10 DEF NoLongRepetition
    <3>3. j \in 1 .. n /\ k \in 1 .. n
      BY <2>1, <3>1, <1>1
    <3> QED
      BY <3>2, <3>3, <1>2
  <2>2. CASE k + RepeatLimit - 1 = n + 1
    <3>1. /\ n + 1 \in k .. k + RepeatLimit - 1
          /\ (n + 1) - repeated' \in k .. k + RepeatLimit - 1 /\ repeated' < n + 1
      BY <2>2, <1>1, <1>2, <1>3, <1>6, <1>10
    <3> QED
      BY <3>1, <1>2, <1>8
  <2> QED
    BY <2>1, <2>2, <1>1, <1>2, <1>10
<1> QED
  BY <1>9, <1>10 DEF SeriesInv, NoLongRepetition

\* Only Invoke touches what the series speaks of.
LEMMA NextKeepsSeries == AgentInv /\ SeriesInv /\ [Next]_vars => SeriesInv'
<1> SUFFICES ASSUME AgentInv, SeriesInv, [Next]_vars PROVE SeriesInv'
  OBVIOUS
<1>1. CASE Invoke
  BY <1>1, InvokeKeepsSeries
<1>2. CASE UNCHANGED <<ran, last, repeated>>
  BY <1>2 DEF SeriesInv, Series, NoLongRepetition
<1>3. UNCHANGED <<ran, last, repeated>> \/ Invoke
  BY DEF Next, TurnBudgetSpent, Ask, Repair, Answer, ToolCalls, RefusedCalls, RepeatedCall,
         Observe, CallEnds, RoundOver, NoProgress, End, running, vars
<1> QED
  BY <1>1, <1>2, <1>3

\* No call runs as often in a row as the limit says, whatever turns, repairs
\* and failures lie between the calls.
THEOREM SeriesAreShort == Spec => []NoLongRepetition
<1>1. Init => SeriesInv
  BY AgentAssumption DEF Init, SeriesInv, Series, NoLongRepetition
<1>2. SeriesInv => NoLongRepetition
  BY DEF SeriesInv
<1> QED
  BY <1>1, <1>2, NextKeepsSeries, AgentInvHolds, PTL DEF Spec

Unasked == [pending |-> {}, seen |-> {}, valid |-> TRUE]

\* f holds the states of the scan of ms.
Scans(ms, f) ==
  f = [k \in 0 .. Len(ms) |-> IF k = 0 THEN Unasked ELSE Scanned(f[k - 1], ms[k])]

\* There is one such f.
LEMMA ScanIsUnique ==
  ASSUME NEW ms, Len(ms) \in Nat, NEW f, NEW g, Scans(ms, f), Scans(ms, g)
  PROVE  f[Len(ms)] = g[Len(ms)]
<1> DEFINE n == Len(ms)
           Differ == {k \in 0 .. n : f[k] # g[k]}
<1>1. SUFFICES ASSUME Differ # {}
               PROVE  FALSE
  <2>1. n \in 0 .. n
    OBVIOUS
  <2> QED
    BY <2>1, <1>1
<1>2. IsWellFoundedOn(OpToRel(<, Nat), Nat)
  BY NatLessThanWellFounded
<1>3. Differ \subseteq Nat
  OBVIOUS
<1>4. PICK k \in Differ : \A j \in Differ : ~(<<j, k>> \in OpToRel(<, Nat))
  BY <1>1, <1>2, <1>3, WFMin
<1>5. k \in 0 .. n /\ f[k] # g[k]
  OBVIOUS
<1>6. /\ f[k] = IF k = 0 THEN Unasked ELSE Scanned(f[k - 1], ms[k])
      /\ g[k] = IF k = 0 THEN Unasked ELSE Scanned(g[k - 1], ms[k])
  <2>1. \A x \in 0 .. n :
          [y \in 0 .. n |-> IF y = 0 THEN Unasked ELSE Scanned(f[y - 1], ms[y])][x]
            = IF x = 0 THEN Unasked ELSE Scanned(f[x - 1], ms[x])
    OBVIOUS
  <2>2. \A x \in 0 .. n :
          [y \in 0 .. n |-> IF y = 0 THEN Unasked ELSE Scanned(g[y - 1], ms[y])][x]
            = IF x = 0 THEN Unasked ELSE Scanned(g[x - 1], ms[x])
    OBVIOUS
  <2>3. \A x \in 0 .. n : f[x] = IF x = 0 THEN Unasked ELSE Scanned(f[x - 1], ms[x])
    BY <2>1 DEF Scans
  <2>4. \A x \in 0 .. n : g[x] = IF x = 0 THEN Unasked ELSE Scanned(g[x - 1], ms[x])
    BY <2>2 DEF Scans
  <2> QED
    BY <1>5, <2>3, <2>4
<1>7. k # 0 /\ f[k - 1] # g[k - 1]
  BY <1>5, <1>6
<1>8. k - 1 \in Differ /\ k - 1 < k /\ k - 1 \in Nat /\ k \in Nat
  BY <1>5, <1>7
<1> QED
  BY <1>4, <1>8 DEF OpToRel

\* So it says whether the exchange is valid.
LEMMA ExchangeIsScanned ==
  ASSUME NEW ms, Len(ms) \in Nat, NEW f, Scans(ms, f)
  PROVE  ValidExchange(ms) <=> f[Len(ms)].valid /\ f[Len(ms)].pending = {}
<1> DEFINE scan[k \in 0 .. Len(ms)] ==
             IF k = 0 THEN [pending |-> {}, seen |-> {}, valid |-> TRUE]
                      ELSE Scanned(scan[k - 1], ms[k])
<1>1. ValidExchange(ms) <=> scan[Len(ms)].valid /\ scan[Len(ms)].pending = {}
  BY DEF ValidExchange
<1>2. \E h : Scans(ms, h)
  OBVIOUS
<1>3. Scans(ms, CHOOSE h : Scans(ms, h))
  BY <1>2
<1>4. Scans(ms, scan)
  BY <1>3 DEF Scans, Unasked
<1> HIDE DEF scan
<1>5. scan[Len(ms)] = f[Len(ms)]
  BY <1>4, ScanIsUnique
<1> QED
  BY <1>1, <1>5

\* The states of a conversation that grows.
LEMMA ScanGrows ==
  ASSUME NEW ms \in Seq(Message), NEW m \in Message, NEW f, Scans(ms, f)
  PROVE  \E g : /\ Scans(Append(ms, m), g)
                /\ g[Len(Append(ms, m))] = Scanned(f[Len(ms)], m)
<1> DEFINE n == Len(ms)
           new == Append(ms, m)
           g == [k \in 0 .. n + 1 |-> IF k = n + 1 THEN Scanned(f[n], m) ELSE f[k]]
<1>1. /\ n \in Nat /\ Len(new) = n + 1 /\ new[n + 1] = m
      /\ \A k \in 1 .. n : new[k] = ms[k]
  OBVIOUS
<1>2. \A k \in 0 .. n : f[k] = IF k = 0 THEN Unasked ELSE Scanned(f[k - 1], ms[k])
  <2>1. \A k \in 0 .. n :
          [y \in 0 .. n |-> IF y = 0 THEN Unasked ELSE Scanned(f[y - 1], ms[y])][k]
            = IF k = 0 THEN Unasked ELSE Scanned(f[k - 1], ms[k])
    OBVIOUS
  <2> QED
    BY <2>1 DEF Scans
<1> HIDE DEF new
<1>3. \A k \in 0 .. n + 1 : g[k] = IF k = 0 THEN Unasked ELSE Scanned(g[k - 1], new[k])
  <2> TAKE k \in 0 .. n + 1
  <2>1. CASE k = n + 1
    <3>1. k # 0 /\ k - 1 = n /\ n \in 0 .. n + 1 /\ n # n + 1 /\ new[k] = m
      BY <1>1, <2>1
    <3>2. g[k] = Scanned(f[n], m) /\ g[n] = f[n]
      BY <2>1, <3>1
    <3> QED
      BY <3>1, <3>2
  <2>2. CASE k # n + 1
    <3>1. k \in 0 .. n
      BY <1>1, <2>2
    <3>2. g[k] = f[k]
      BY <2>2
    <3>3. CASE k = 0
      BY <1>2, <3>1, <3>2, <3>3
    <3>4. CASE k # 0
      <4>1. k - 1 \in 0 .. n + 1 /\ k - 1 # n + 1 /\ k \in 1 .. n
        BY <1>1, <3>1, <3>4
      <4>2. g[k - 1] = f[k - 1] /\ new[k] = ms[k]
        BY <1>1, <4>1
      <4> QED
        BY <1>2, <3>1, <3>2, <3>4, <4>2
    <3> QED
      BY <3>3, <3>4
  <2> QED
    BY <2>1, <2>2
<1>4. DOMAIN g = 0 .. n + 1 /\ g = [k \in 0 .. n + 1 |-> g[k]]
  OBVIOUS
<1>5. g[n + 1] = Scanned(f[n], m)
  BY <1>1
<1> HIDE DEF g
<1>6. Scans(new, g)
  BY <1>1, <1>3, <1>4 DEF Scans
<1> QED
  BY <1>1, <1>5, <1>6 DEF new

\* The identities that the turns of a conversation have used.
Used(ms) == UNION {ms[k].ids : k \in {j \in DOMAIN ms : ms[j].role = "assistant"}}

\* The turns of a conversation have no identity in common.
Apart(ms) ==
  \A j, k \in DOMAIN ms :
    j < k /\ ms[j].role = "assistant" /\ ms[k].role = "assistant" => ms[j].ids \cap ms[k].ids = {}

\* The scan of ms ends with these calls pending.
Leaves(ms, pending) ==
  \E f : /\ Scans(ms, f)
         /\ f[Len(ms)].pending = pending /\ f[Len(ms)].seen = Used(ms)
         /\ Apart(ms) => f[Len(ms)].valid

\* What one more message leaves.
LEMMA MessageLeaves ==
  ASSUME NEW ms \in Seq(Message), NEW m \in Message, NEW pending, Leaves(ms, pending)
  PROVE  /\ m.role \in {"system", "user"} /\ pending = {} => Leaves(Append(ms, m), {})
         /\ m.role = "assistant" /\ m.ids # {} /\ pending = {} => Leaves(Append(ms, m), m.ids)
         /\ m.role = "tool" /\ m.ids \subseteq pending => Leaves(Append(ms, m), pending \ m.ids)
<1> DEFINE n == Len(ms)
           new == Append(ms, m)
<1>1. PICK f : /\ Scans(ms, f)
               /\ f[n].pending = pending /\ f[n].seen = Used(ms)
               /\ Apart(ms) => f[n].valid
  BY DEF Leaves
<1>2. PICK g : Scans(new, g) /\ g[Len(new)] = Scanned(f[n], m)
  BY <1>1, ScanGrows
<1>3. /\ n \in Nat /\ DOMAIN ms = 1 .. n /\ DOMAIN new = 1 .. n + 1
      /\ new[n + 1] = m /\ \A k \in 1 .. n : new[k] = ms[k]
  OBVIOUS
<1> HIDE DEF n, new
<1>4. Apart(new) => Apart(ms) /\ (m.role = "assistant" => m.ids \cap Used(ms) = {})
  <2> SUFFICES ASSUME Apart(new)
               PROVE  Apart(ms) /\ (m.role = "assistant" => m.ids \cap Used(ms) = {})
    OBVIOUS
  <2>1. Apart(ms)
    BY <1>3 DEF Apart
  <2>2. ASSUME m.role = "assistant", NEW k \in DOMAIN ms, ms[k].role = "assistant"
        PROVE  m.ids \cap ms[k].ids = {}
    <3>1. k \in DOMAIN new /\ n + 1 \in DOMAIN new /\ k < n + 1 /\ new[k] = ms[k]
      BY <1>3
    <3> QED
      BY <1>3, <2>2, <3>1 DEF Apart
  <2> QED
    BY <2>1, <2>2 DEF Used
<1>5. Used(new) = IF m.role = "assistant" THEN Used(ms) \cup m.ids ELSE Used(ms)
  <2>1. \A x : x \in Used(new) <=> \E k \in 1 .. n + 1 : new[k].role = "assistant" /\ x \in new[k].ids
    BY <1>3 DEF Used
  <2>2. \A x : x \in Used(ms) <=> \E k \in 1 .. n : ms[k].role = "assistant" /\ x \in ms[k].ids
    BY <1>3 DEF Used
  <2>3. \A k \in 1 .. n + 1 : k \in 1 .. n \/ k = n + 1
    BY <1>3
  <2>4. n + 1 \in 1 .. n + 1 /\ \A k \in 1 .. n : k \in 1 .. n + 1
    BY <1>3
  <2>5. \A x : x \in Used(new) <=> x \in Used(ms) \/ (m.role = "assistant" /\ x \in m.ids)
    BY <1>3, <2>1, <2>2, <2>3, <2>4
  <2> QED
    BY <2>5
<1>6. ASSUME NEW left, g[Len(new)].pending = left, g[Len(new)].seen = Used(new),
             Apart(new) => g[Len(new)].valid
      PROVE  Leaves(new, left)
  BY <1>2, <1>6 DEF Leaves
<1>7. CASE m.role \in {"system", "user"} /\ pending = {}
  <2>1. /\ g[Len(new)].pending = {} /\ g[Len(new)].seen = Used(new)
        /\ Apart(new) => g[Len(new)].valid
    BY <1>1, <1>2, <1>4, <1>5, <1>7 DEF Scanned
  <2> QED
    BY <1>6, <1>7, <2>1 DEF new
<1>8. CASE m.role = "assistant" /\ m.ids # {} /\ pending = {}
  <2>1. /\ g[Len(new)].pending = m.ids /\ g[Len(new)].seen = Used(new)
        /\ Apart(new) => g[Len(new)].valid
    BY <1>1, <1>2, <1>4, <1>5, <1>8 DEF Scanned
  <2> QED
    BY <1>6, <1>8, <2>1 DEF new
<1>9. CASE m.role = "tool" /\ m.ids \subseteq pending
  <2>1. /\ g[Len(new)].pending = pending \ m.ids /\ g[Len(new)].seen = Used(new)
        /\ Apart(new) => g[Len(new)].valid
    BY <1>1, <1>2, <1>4, <1>5, <1>9 DEF Scanned
  <2> QED
    BY <1>6, <1>9, <2>1 DEF new
<1> QED
  BY <1>7, <1>8, <1>9 DEF new

\* No two calls of the sequence have one identity.
Unrepeated(batch) == \A j, k \in DOMAIN batch : batch[j].id = batch[k].id => j = k

\* What the conversation leaves open is what the turn has still to run.
PairInv ==
  /\ phase \in {"ask", "model"} => Leaves(messages, {})
  /\ phase \in {"call", "waiting"} => Leaves(messages, Ids(todo)) /\ Unrepeated(todo)

\* The batch that the loop accepts has no identity twice, and at least one call.
LEMMA DistinctIsUnrepeated ==
  ASSUME NEW batch \in Batch, Distinct(batch)
  PROVE  Unrepeated(batch) /\ Ids(batch) # {}
<1>1. PICK n \in 1 .. MaxBatch : batch \in [1 .. n -> Call]
  BY DEF Batch
<1> DEFINE idOf == [k \in 1 .. n |-> batch[k].id]
<1>2. n \in Nat /\ n >= 1 /\ Len(batch) = n /\ DOMAIN batch = 1 .. n
  BY <1>1, AgentAssumption
<1>3. IsFiniteSet(1 .. n) /\ Cardinality(1 .. n) = n
  BY <1>2, FS_Interval
<1>4. idOf \in Surjection(1 .. n, Ids(batch))
  BY <1>2 DEF Surjection, Ids
<1>5. Cardinality(Ids(batch)) = Cardinality(1 .. n)
  BY <1>2, <1>3 DEF Distinct
<1>6. idOf \in Injection(1 .. n, Ids(batch))
  BY <1>3, <1>4, <1>5, FS_SurjSameCardinalityImpliesInj
<1>7. Unrepeated(batch)
  BY <1>6, <1>2 DEF Injection, IsInjective, Unrepeated
<1>8. 1 \in DOMAIN batch
  BY <1>2
<1> QED
  BY <1>7, <1>8 DEF Ids

\* The answer to the first call leaves the calls behind it pending.
LEMMA HeadAnswered ==
  ASSUME NEW ts \in Seq(Call), ts # <<>>, Unrepeated(ts)
  PROVE  /\ {Head(ts).id} \subseteq Ids(ts)
         /\ Ids(Tail(ts)) = Ids(ts) \ {Head(ts).id}
         /\ Unrepeated(Tail(ts))
<1> DEFINE n == Len(ts)
           rest == Tail(ts)
<1>1. n \in Nat /\ n >= 1 /\ DOMAIN ts = 1 .. n /\ Head(ts) = ts[1]
  OBVIOUS
<1>2. DOMAIN rest = 1 .. n - 1 /\ \A k \in 1 .. n - 1 : rest[k] = ts[k + 1]
  BY <1>1
<1> HIDE DEF n, rest
<1>3. \A j, k \in 1 .. n : ts[j].id = ts[k].id => j = k
  BY <1>1 DEF Unrepeated
<1>4. Unrepeated(rest)
  <2> SUFFICES ASSUME NEW j \in 1 .. n - 1, NEW k \in 1 .. n - 1, rest[j].id = rest[k].id
               PROVE  j = k
    BY <1>2 DEF Unrepeated
  <2>1. j + 1 \in 1 .. n /\ k + 1 \in 1 .. n
    BY <1>1
  <2> QED
    BY <1>2, <1>3, <2>1
<1>5. ASSUME NEW k \in 1 .. n - 1
      PROVE  rest[k].id \in Ids(ts) /\ rest[k].id # ts[1].id
  <2>1. k + 1 \in 1 .. n /\ 1 \in 1 .. n /\ k + 1 # 1
    BY <1>1
  <2> QED
    BY <2>1, <1>1, <1>2, <1>3 DEF Ids
<1>6. ASSUME NEW k \in 1 .. n, ts[k].id # ts[1].id
      PROVE  \E j \in 1 .. n - 1 : ts[k].id = rest[j].id
  <2>1. k - 1 \in 1 .. n - 1 /\ (k - 1) + 1 = k
    BY <1>1, <1>6
  <2> QED
    BY <2>1, <1>2
<1>7. Ids(rest) = Ids(ts) \ {ts[1].id}
  <2>1. \A i \in Ids(rest) : i \in Ids(ts) \ {ts[1].id}
    BY <1>2, <1>5 DEF Ids
  <2>2. \A i \in Ids(ts) \ {ts[1].id} : i \in Ids(rest)
    <3> SUFFICES ASSUME NEW i \in Ids(ts), i # ts[1].id
                 PROVE  i \in Ids(rest)
      OBVIOUS
    <3>1. PICK k \in 1 .. n : i = ts[k].id
      BY <1>1 DEF Ids
    <3>2. PICK j \in 1 .. n - 1 : ts[k].id = rest[j].id
      BY <3>1, <1>6
    <3> QED
      BY <3>1, <3>2, <1>2 DEF Ids
  <2> QED
    BY <2>1, <2>2
<1>8. ts[1].id \in Ids(ts)
  BY <1>1 DEF Ids
<1> QED
  BY <1>1, <1>4, <1>7, <1>8 DEF rest

\* The conversation starts with a system and a user message, and nothing pending.
LEMMA InitPairs == Init => PairInv
<1> SUFFICES ASSUME Init PROVE Leaves(messages, {})
  BY DEF Init, PairInv
<1> DEFINE f0 == [k \in 0 .. 0 |-> Unasked]
<1>1. Say("system") \in Message /\ Say("user") \in Message
  BY DEF Say, Message
<1>2. Len(<<>>) = 0 /\ <<>> \in Seq(Message) /\ DOMAIN <<>> = {}
  OBVIOUS
<1>3. Scans(<<>>, f0)
  <2>1. [k \in 0 .. 0 |-> Unasked]
          = [k \in 0 .. 0 |-> IF k = 0 THEN Unasked ELSE Scanned(f0[k - 1], <<>>[k])]
    OBVIOUS
  <2> QED
    BY <2>1, <1>2 DEF Scans
<1>4. Leaves(<<>>, {})
  <2>1. f0[0] = Unasked
    OBVIOUS
  <2>2. Used(<<>>) = {}
    BY <1>2 DEF Used
  <2> QED
    BY <2>1, <2>2, <1>2, <1>3 DEF Leaves, Unasked
<1>5. Leaves(Append(<<>>, Say("system")), {})
  BY <1>1, <1>2, <1>4, MessageLeaves DEF Say
<1>6. /\ Append(<<>>, Say("system")) \in Seq(Message)
      /\ messages = Append(Append(<<>>, Say("system")), Say("user"))
  BY <1>1 DEF Init
<1> QED
  BY <1>1, <1>5, <1>6, MessageLeaves DEF Say

\* Every message that the loop appends fits what the conversation leaves open.
LEMMA NextPairs == AgentInv /\ PairInv /\ [Next]_vars => PairInv'
<1> SUFFICES ASSUME AgentInv, PairInv, [Next]_vars PROVE PairInv'
  OBVIOUS
<1>1. messages \in Seq(Message) /\ todo \in Seq(Call)
  BY DEF AgentInv, TypeOK, ConversationOK
<1>2. Say("system") \in Message /\ Say("system").role = "system"
  BY DEF Say, Message
\* Steps that end the agent, ask for a turn, start a call or change nothing.
<1>3. CASE phase' = "done"
  BY <1>3 DEF PairInv
<1>4. CASE Ask /\ phase' = "model"
  BY <1>4 DEF Ask, End, PairInv, conversation, running
<1>5. CASE Invoke
  BY <1>5 DEF Invoke, PairInv, conversation
<1>6. CASE UNCHANGED vars
  BY <1>6 DEF vars, PairInv
<1>7. CASE Repair
  <2>1. Leaves(messages, {}) /\ phase' = "ask" /\ messages' = Append(messages, Say("system"))
    BY <1>7 DEF Repair, PairInv
  <2> QED
    BY <2>1, <1>1, <1>2, MessageLeaves DEF PairInv
<1>8. CASE ToolCalls
  <2>1. PICK batch \in Batch :
          /\ Accepted(batch) /\ todo' = batch
          /\ messages' = Append(messages, [role |-> "assistant", ids |-> Ids(batch)])
    BY <1>8 DEF ToolCalls
  <2>2. Leaves(messages, {}) /\ phase' = "call"
    BY <1>8 DEF ToolCalls, PairInv
  <2>3. Unrepeated(batch) /\ Ids(batch) # {}
    BY <2>1, DistinctIsUnrepeated DEF Accepted
  <2>4. [role |-> "assistant", ids |-> Ids(batch)] \in Message
    <3>1. PICK n \in 1 .. MaxBatch : batch \in [1 .. n -> Call]
      BY DEF Batch
    <3> QED
      BY <3>1 DEF Message, Ids, Call
  <2>5. Leaves(messages', Ids(batch))
    BY <2>1, <2>2, <2>3, <2>4, <1>1, MessageLeaves
  <2> QED
    BY <2>1, <2>2, <2>3, <2>5 DEF PairInv
<1>9. CASE Observe
  <2>1. /\ Leaves(messages, Ids(todo)) /\ Unrepeated(todo) /\ phase' = "call"
        /\ todo' = Tail(todo)
        /\ messages' = Append(messages, [role |-> "tool", ids |-> {Head(todo).id}])
    BY <1>9 DEF Observe, PairInv
  <2>2. todo # <<>>
    BY <1>9 DEF Observe, AgentInv, Reserved
  <2>3. Head(todo).id \in CallId
    <3>1. Head(todo) \in Call
      BY <1>1, <2>2
    <3> QED
      BY <3>1 DEF Call
  <2>4. [role |-> "tool", ids |-> {Head(todo).id}] \in Message
    BY <2>3 DEF Message
  <2>5. Leaves(messages', Ids(todo) \ {Head(todo).id})
    BY <2>1, <2>2, <2>4, <1>1, MessageLeaves, HeadAnswered
  <2> QED
    BY <2>1, <2>2, <2>5, <1>1, HeadAnswered DEF PairInv
<1>10. CASE RoundOver
  <2>1. /\ Leaves(messages, Ids(todo)) /\ todo = <<>> /\ phase' = "ask"
        /\ messages' = Append(messages, Say("system"))
    BY <1>10 DEF RoundOver, PairInv
  <2>2. Ids(todo) = {}
    BY <2>1 DEF Ids
  <2> QED
    BY <2>1, <2>2, <1>1, <1>2, MessageLeaves DEF PairInv
<1> QED
  BY <1>3, <1>4, <1>5, <1>6, <1>7, <1>8, <1>9, <1>10
     DEF Next, TurnBudgetSpent, Ask, Answer, RefusedCalls, RepeatedCall, CallEnds, NoProgress, End

\* RequestsArePaired: what the loop sends to the model (agent.py: _run_loop) is
\* refused by ModelRequest for its length or for an identity used again, never
\* for a call without its result, after any number of turns and repairs.
THEOREM RequestsPaired == Spec => []RequestsArePaired
<1>1. AgentInv /\ PairInv => RequestsArePaired
  <2> SUFFICES ASSUME AgentInv, PairInv, phase = "ask", Len(messages) <= MaxMessages, FreshIds
               PROVE  ValidExchange(messages)
    BY DEF RequestsArePaired, ValidRequest
  <2>1. Len(messages) \in Nat
    BY DEF AgentInv, TypeOK, ConversationOK
  <2>2. Apart(messages)
    BY DEF Apart, FreshIds
  <2>3. PICK f : /\ Scans(messages, f) /\ f[Len(messages)].pending = {}
                 /\ Apart(messages) => f[Len(messages)].valid
    BY DEF PairInv, Leaves
  <2> QED
    BY <2>1, <2>2, <2>3, ExchangeIsScanned
<1> QED
  BY <1>1, InitPairs, NextPairs, AgentInvHolds, PTL DEF Spec
=============================================================================
