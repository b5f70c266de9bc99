---------------------------- MODULE ModelRepair ----------------------------
(***************************************************************************)
(* The model turns of one Agent Node (anban/runtime/agent.py: _run_loop):   *)
(* the request, the adapter (anban/model/adapter.py), what PersistedModel-  *)
(* Port records of a failure, and the repair requests that share one        *)
(* budget.  What the agent does with the Tool Calls of a turn is the        *)
(* subject of GeneralAgent.  Its requests have no response_schema.          *)
(***************************************************************************)
EXTENDS ModelResponse

CONSTANTS
  Responses,      \* bound: what the provider may answer
  RepairRetries,  \* response_repair_retries
  MaxTurns        \* AgentLimits.max_model_turns

ASSUME RepairAssumption ==
  /\ Responses \subseteq Response
  /\ RepairRetries \in Nat /\ MaxTurns \in Nat \ {0}

VARIABLES
  phase,      \* "ask", "model", "turn" or "done"
  turns,      \* progress.model_turns
  used,       \* repair_attempts_used
  repairing,  \* request_is_repair
  attempt,    \* repair_attempt of the request
  response,   \* the response of the provider, until the next request
  requests,   \* repair_attempt of every request (history)
  failures    \* the model.failed Events

vars == <<phase, turns, used, repairing, attempt, response, requests, failures>>

Nothing == [fault |-> "transport"]

Init ==
  /\ phase = "ask" /\ turns = 0 /\ used = 0 /\ repairing = FALSE /\ attempt = 0
  /\ response = Nothing /\ requests = <<>> /\ failures = <<>>

Attempt == IF repairing THEN used ELSE 0

Ask ==
  /\ phase = "ask" /\ turns < MaxTurns
  /\ phase' = "model" /\ turns' = turns + 1
  /\ attempt' = Attempt /\ requests' = Append(requests, Attempt)
  /\ response' = Nothing
  /\ UNCHANGED <<used, repairing, failures>>

TurnBudgetSpent ==
  /\ phase = "ask" /\ turns = MaxTurns
  /\ phase' = "done"
  /\ UNCHANGED <<turns, used, repairing, attempt, response, requests, failures>>

\* Timeout, connection, status or another error of the SDK, after its retries.
TransportFails ==
  /\ phase = "model" /\ phase' = "done" /\ response' = Nothing
  /\ UNCHANGED <<turns, used, repairing, attempt, requests, failures>>

Accept ==
  /\ phase = "model"
  /\ \E r \in Responses : Fault(r, FALSE) = "none" /\ response' = r
  /\ phase' = "turn" /\ repairing' = FALSE
  /\ UNCHANGED <<turns, used, attempt, requests, failures>>

\* The deadline may also have passed; then there is no repair either.
MayRepair(reason) == Repairable(reason) /\ used < RepairRetries /\ turns < MaxTurns

\* Mutant: the attempt that this failure may lead to is counted already.
ExhaustedEarly == attempt + 1 >= RepairRetries

Exhausted == attempt >= RepairRetries

\* _invalid, model.failed and the except clause of the loop.
Refuse ==
  /\ phase = "model"
  /\ \E r \in Responses :
       LET reason == Fault(r, FALSE) IN
       /\ reason # "none" /\ response' = r
       /\ failures' = Append(failures, [reason |-> reason, attempt |-> attempt,
                                        repairable |-> Repairable(reason),
                                        exhausted |-> Exhausted])
       /\ \/ /\ MayRepair(reason)
             /\ used' = used + 1 /\ repairing' = TRUE /\ phase' = "ask"
          \/ phase' = "done" /\ UNCHANGED <<used, repairing>>
  /\ UNCHANGED <<turns, attempt, requests>>

\* After a turn with Tool Calls the agent asks again, or it ends.
TurnOver ==
  /\ phase = "turn"
  /\ \/ TurnKind(response, FALSE) = "tool_calls" /\ phase' = "ask"
     \/ phase' = "done"
  /\ UNCHANGED <<turns, used, repairing, attempt, response, requests, failures>>

Next == Ask \/ TurnBudgetSpent \/ TransportFails \/ Accept \/ Refuse \/ TurnOver

Spec == Init /\ [][Next]_vars

-----------------------------------------------------------------------------
(***************************************************************************)
(* Properties.                                                              *)
(***************************************************************************)
\* Types; requests and failures stay within the repair budget, so ModelRequest
\* accepts every repair_attempt.
TypeOK ==
  /\ phase \in {"ask", "model", "turn", "done"} /\ repairing \in BOOLEAN
  /\ turns \in 0 .. MaxTurns /\ used \in 0 .. RepairRetries /\ attempt \in 0 .. RepairRetries
  /\ response \in Responses \cup {Nothing}
  /\ requests \in Seq(0 .. RepairRetries)
  /\ \A k \in DOMAIN failures : failures[k].attempt \in 0 .. RepairRetries

\* A response becomes a turn exactly when it is what the adapter promises to
\* accept: the order and the interplay of the checks neither let an ambiguous
\* response through nor refuse a complete one.  A request with a response_schema
\* has no tools, so every call is refused by its name.
TurnsAreUnambiguous ==
  response # Nothing =>
    \A schema \in BOOLEAN :
      response.calls = <<>> \/ ~schema =>
        (Fault(response, schema) = "none" <=> Unambiguous(response, schema))

\* A message that holds protected data ends the Run, whatever else is wrong
\* with it: it is never projected and never answered by another request.
ProtectedEndsRun ==
  [][response' # Nothing /\ response'.protected /\ response'.choices = 1 => phase' = "done"]_vars

\* An Event says that the repairs are exhausted only when they are.
ExhaustionIsTrue ==
  [][failures' # failures /\ failures'[Len(failures')].exhausted => used = RepairRetries]_vars

\* docs/architecture/lifecycle-and-errors.md:61-64: "at most three contract-only
\* repair requests shared by one Agent Node.  Events record the structural
\* reason, attempt, repairability, exhaustion".  An Event written when no repair
\* is left says so.
ExhaustionIsTold ==
  [][failures' # failures /\ used = RepairRetries => failures'[Len(failures')].exhausted]_vars

=============================================================================
