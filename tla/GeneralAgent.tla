--------------------------- MODULE GeneralAgent ----------------------------
(***************************************************************************)
(* The loop of FixedGeneralAgent (anban/runtime/agent.py: _run_loop) with   *)
(* its conversation.  What PersistentRun leaves open is decided here: which *)
(* calls are refused, when a round makes no progress, and whether the next  *)
(* request is one that ModelRequest (anban/model/contracts.py) accepts.     *)
(*   The model, the Capabilities and the deadline are the environment.  The *)
(* two ports are single awaits; what happens inside them is the subject of  *)
(* the other modules.  A signature stands for the hash of a call's name and *)
(* arguments and is taken to be injective, like the hash of an observation. *)
(***************************************************************************)
EXTENDS Integers, Sequences, FiniteSets

CONSTANTS
  CallId,         \* identities the model gives its Tool Calls
  Signature,      \* what a call asks for
  Observation,    \* what a Capability answers
  MaxTurns,       \* AgentLimits.max_model_turns
  MaxCalls,       \* AgentLimits.max_capability_calls
  RepeatLimit,    \* AgentLimits.repeated_call_limit, 0 for none
  RepairRetries,  \* response_repair_retries
  MaxMessages,    \* ModelRequest.messages, max_length
  MaxBatch        \* bound: Tool Calls of one turn

ASSUME AgentAssumption ==
  /\ MaxTurns \in Nat \ {0} /\ MaxCalls \in Nat \ {0} /\ MaxBatch \in Nat \ {0}
  /\ RepairRetries \in Nat /\ MaxMessages \in Nat \ {0, 1}
  /\ RepeatLimit \in Nat \ {1}

VARIABLES
  phase,      \* "ask", "model", "call", "waiting" or "done"
  messages,   \* the conversation: roles and call identities
  turns,      \* progress.model_turns
  calls,      \* progress.capability_calls
  repairs,    \* repair_attempts_used
  repairing,  \* request_is_repair, until the answer is accepted
  repaired,   \* repaired_response of the turn being run
  todo,       \* the calls of the turn that have not returned
  last,       \* last_signature
  repeated,   \* repeated_calls
  facts,      \* round_facts
  rounds,     \* completed_rounds
  completed,  \* completed_signatures
  outcome,    \* AgentOutcome.status
  ran         \* every invocation so far (history)

vars == <<phase, messages, turns, calls, repairs, repairing, repaired, todo, last,
          repeated, facts, rounds, completed, outcome, ran>>

conversation == <<messages, repairs, repairing>>
running == <<calls, repaired, todo, last, repeated, facts, rounds, completed, ran>>

Call == [id : CallId, sig : Signature]
Batch == UNION {[1 .. n -> Call] : n \in 1 .. MaxBatch}
Message == [role : {"system", "user", "assistant", "tool"}, ids : SUBSET CallId]
Fact == [sig : Signature, seen : Observation]
Ran == [sig : Signature, turn : Nat, repaired : BOOLEAN]
NoSignature == "none"

Say(role) == [role |-> role, ids |-> {}]
Ids(batch) == {batch[k].id : k \in DOMAIN batch}

Init ==
  /\ phase = "ask" /\ messages = <<Say("system"), Say("user")>>
  /\ turns = 0 /\ calls = 0 /\ repairs = 0
  /\ repairing = FALSE /\ repaired = FALSE
  /\ todo = <<>> /\ last = NoSignature /\ repeated = 0
  /\ facts = <<>> /\ rounds = {} /\ completed = {}
  /\ outcome = "none" /\ ran = <<>>

-----------------------------------------------------------------------------
(***************************************************************************)
(* ModelRequest.validate_exchange: one scan with the pending and the seen   *)
(* identities.  scan[k] is its state after k messages.                      *)
(***************************************************************************)
Scanned(state, m) ==
  LET calling == m.role = "assistant" /\ m.ids # {}
      answering == m.role = "tool"
  IN [pending |-> IF calling THEN m.ids
                  ELSE IF answering THEN state.pending \ m.ids ELSE state.pending,
      seen    |-> IF calling THEN state.seen \cup m.ids ELSE state.seen,
      valid   |-> /\ state.valid
                  /\ calling => state.pending = {} /\ m.ids \cap state.seen = {}
                  /\ answering => m.ids \subseteq state.pending
                  /\ ~calling /\ ~answering => state.pending = {}]

ValidExchange(ms) ==
  LET scan[k \in 0 .. Len(ms)] ==
        IF k = 0 THEN [pending |-> {}, seen |-> {}, valid |-> TRUE]
                 ELSE Scanned(scan[k - 1], ms[k])
  IN scan[Len(ms)].valid /\ scan[Len(ms)].pending = {}

ValidRequest(ms) == Len(ms) <= MaxMessages /\ ValidExchange(ms)

-----------------------------------------------------------------------------
(***************************************************************************)
(* The model turn.                                                          *)
(***************************************************************************)
End(status) ==
  /\ phase' = "done" /\ outcome' = status
  /\ UNCHANGED <<conversation, running>>

TurnBudgetSpent == phase = "ask" /\ turns = MaxTurns /\ End("failed") /\ UNCHANGED turns

\* The turn is counted before the request is built; a request that ModelRequest
\* refuses never reaches the port.
Ask ==
  /\ phase = "ask" /\ turns < MaxTurns
  /\ turns' = turns + 1
  /\ \/ /\ ValidRequest(messages)
        /\ phase' = "model" /\ UNCHANGED <<conversation, running, outcome>>
     \/ ~ValidRequest(messages) /\ End("failed")

RepairLeft == repairs < RepairRetries /\ turns < MaxTurns

\* MODEL_RESPONSE_INVALID, repairable, before the deadline.
Repair ==
  /\ phase = "model" /\ RepairLeft
  /\ phase' = "ask"
  /\ repairs' = repairs + 1 /\ repairing' = TRUE
  /\ messages' = Append(messages, Say("system"))
  /\ UNCHANGED <<turns, running, outcome>>

\* A failure without repair, a final text or an unusable turn; the deadline or
\* an interrupt while the model answers.
Answer ==
  /\ phase = "model"
  /\ \E status \in {"succeeded", "failed", "timed_out", "cancelled"} : End(status)
  /\ UNCHANGED turns

Distinct(batch) == Cardinality(Ids(batch)) = Len(batch)

Replays(batch) == repairing /\ \E k \in DOMAIN batch : batch[k].sig \in completed

\* Mutants: duplicates pass; a repaired answer is not looked at; the budget is
\* compared without the calls of this turn.
AcceptedTwice(batch) == calls + Len(batch) <= MaxCalls /\ ~Replays(batch)
AcceptedReplayed(batch) == calls + Len(batch) <= MaxCalls /\ Distinct(batch)
AcceptedLate(batch) == calls <= MaxCalls /\ Distinct(batch) /\ ~Replays(batch)

\* The checks before any call of the turn runs.
Accepted(batch) ==
  calls + Len(batch) <= MaxCalls /\ Distinct(batch) /\ ~Replays(batch)

ToolCalls ==
  /\ phase = "model"
  /\ \E batch \in Batch :
       /\ Accepted(batch)
       /\ messages' = Append(messages, [role |-> "assistant", ids |-> Ids(batch)])
       /\ todo' = batch
  /\ phase' = "call" /\ facts' = <<>>
  /\ repaired' = repairing /\ repairing' = FALSE
  /\ UNCHANGED <<turns, repairs, calls, last, repeated, rounds, completed, outcome, ran>>

RefusedCalls ==
  /\ phase = "model"
  /\ \E batch \in Batch : ~Accepted(batch)
  /\ End("failed") /\ UNCHANGED turns

-----------------------------------------------------------------------------
(***************************************************************************)
(* The calls of a turn, one after the other.                                *)
(***************************************************************************)
\* Mutant: the count starts over with every turn.
RepetitionsInTurn(sig) ==
  IF sig = last /\ facts # <<>> THEN repeated + 1 ELSE 1

Repetitions(sig) == IF sig = last THEN repeated + 1 ELSE 1

TooOften(sig) == RepeatLimit # 0 /\ Repetitions(sig) >= RepeatLimit

Invoke ==
  /\ phase = "call" /\ todo # <<>> /\ ~TooOften(Head(todo).sig)
  /\ phase' = "waiting" /\ calls' = calls + 1
  /\ last' = Head(todo).sig /\ repeated' = Repetitions(Head(todo).sig)
  /\ ran' = Append(ran, [sig |-> Head(todo).sig, turn |-> turns, repaired |-> repaired])
  /\ UNCHANGED <<conversation, turns, repaired, todo, facts, rounds, completed, outcome>>

RepeatedCall ==
  /\ phase = "call" /\ todo # <<>> /\ TooOften(Head(todo).sig)
  /\ End("failed") /\ UNCHANGED turns

\* A result with an observation, completed or failed.
Observe ==
  /\ phase = "waiting"
  /\ \E o \in Observation : facts' = Append(facts, [sig |-> Head(todo).sig, seen |-> o])
  /\ messages' = Append(messages, [role |-> "tool", ids |-> {Head(todo).id}])
  /\ completed' = completed \cup {Head(todo).sig}
  /\ todo' = Tail(todo) /\ phase' = "call"
  /\ UNCHANGED <<turns, repairs, repairing, calls, repaired, last, repeated, rounds,
                 outcome, ran>>

\* A result that ends the Run, a raised error, the deadline, an interrupt.
CallEnds ==
  /\ phase = "waiting"
  /\ \E status \in {"failed", "timed_out", "cancelled"} : End(status)
  /\ UNCHANGED turns

\* Mutant: rounds are not compared.
ProgressAssumed == TRUE

Progress == facts \notin rounds

RoundOver ==
  /\ phase = "call" /\ todo = <<>> /\ Progress
  /\ phase' = "ask" /\ rounds' = rounds \cup {facts}
  /\ messages' = Append(messages, Say("system"))
  /\ UNCHANGED <<turns, repairs, repairing, calls, repaired, todo, last, repeated, facts,
                 completed, outcome, ran>>

NoProgress ==
  /\ phase = "call" /\ todo = <<>> /\ ~Progress
  /\ End("failed") /\ UNCHANGED turns

Next ==
  \/ TurnBudgetSpent \/ Ask \/ Repair \/ Answer \/ ToolCalls \/ RefusedCalls
  \/ Invoke \/ RepeatedCall \/ Observe \/ CallEnds \/ RoundOver \/ NoProgress

Spec == Init /\ [][Next]_vars

-----------------------------------------------------------------------------
(***************************************************************************)
(* Properties.                                                              *)
(***************************************************************************)
ControlOK ==
  /\ phase \in {"ask", "model", "call", "waiting", "done"}
  /\ outcome \in {"none", "succeeded", "failed", "timed_out", "cancelled"}
  /\ repairing \in BOOLEAN /\ repaired \in BOOLEAN

CountersOK ==
  /\ turns \in 0 .. MaxTurns /\ calls \in 0 .. MaxCalls /\ repairs \in 0 .. RepairRetries
  /\ last \in Signature \cup {NoSignature} /\ repeated \in Nat

ConversationOK ==
  /\ messages \in Seq(Message)
  /\ todo \in Seq(Call) /\ Len(todo) <= MaxBatch

RoundsOK ==
  /\ facts \in Seq(Fact)
  /\ rounds \subseteq Seq(Fact) /\ IsFiniteSet(rounds)
  /\ completed \subseteq Signature
  /\ ran \in Seq(Ran)

\* Types, and the budgets of turns, calls and repairs at every step.
TypeOK == ControlOK /\ CountersOK /\ ConversationOK /\ RoundsOK

\* The identities of two turns do not overlap.
FreshIds ==
  \A j, k \in DOMAIN messages :
    j < k /\ messages[j].role = "assistant" /\ messages[k].role = "assistant" =>
      messages[j].ids \cap messages[k].ids = {}

\* Whatever was repaired, refused or failed before, the agent only ever asks
\* with a conversation whose calls and results are paired: a request is refused
\* for its length or for an identity that the model used again, never else.
RequestsArePaired ==
  phase = "ask" /\ Len(messages) <= MaxMessages /\ FreshIds => ValidRequest(messages)

\* The answer to a repair request never runs a call again that an earlier turn
\* has run, however many turns and repairs lie between the two.
NoReplayAfterRepair ==
  \A j, k \in DOMAIN ran :
    ran[j].turn < ran[k].turn /\ ran[k].repaired => ran[j].sig # ran[k].sig

\* No call is executed RepeatLimit times in a row, across turns, repairs and
\* failed results.
NoLongRepetition ==
  RepeatLimit # 0 =>
    \A k \in DOMAIN ran :
      k + RepeatLimit - 1 \in DOMAIN ran =>
        \E j \in k .. k + RepeatLimit - 1 : ran[j].sig # ran[k].sig

\* Every turn is a repair or a round of its own, so the conversation has a
\* length that the budgets bound.
ConversationIsBounded ==
  phase = "ask" =>
    /\ turns = repairs + Cardinality(rounds)
    /\ Len(messages) = 2 + repairs + 2 * Cardinality(rounds) + calls

\* A request within its turn budget has at most this many messages.  With the
\* default limits, 12 turns and 16 calls, ModelRequest accepts them all; with
\* the largest the configuration allows, 24 and 32, it does not.
RequestsAreShort ==
  phase = "ask" /\ turns < MaxTurns => Len(messages) <= 2 * MaxTurns + MaxCalls

=============================================================================
