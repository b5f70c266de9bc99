------------------------- MODULE ModelRepairProofs -------------------------
(***************************************************************************)
(* Theorems of ModelRepair and of the response parser below it, for every   *)
(* set of responses and every budget: the chain of checks of the adapter    *)
(* decides exactly what it promises.                                        *)
(***************************************************************************)
EXTENDS ModelRepair, FiniteSetTheorems, NaturalsInduction, WellFoundedInduction, TLAPS

-----------------------------------------------------------------------------
(***************************************************************************)
(* Checks that run one after the other.                                     *)
(***************************************************************************)
\* Every nonempty set of positions has a first one.
LEMMA FirstPosition ==
  ASSUME NEW T, T \subseteq Nat, T # {}
  PROVE  \E k \in T : \A j \in T : k <= j
<1>1. IsWellFoundedOn(OpToRel(<, Nat), Nat)
  BY NatLessThanWellFounded
<1>2. PICK k \in T : \A j \in T : ~(<<j, k>> \in OpToRel(<, Nat))
  BY <1>1, WFMin
<1>3. ASSUME NEW j \in T PROVE k <= j
  <2>1. j \in Nat /\ k \in Nat /\ ~(j < k)
    BY <1>2 DEF OpToRel
  <2> QED
    BY <2>1
<1> QED
  BY <1>3

\* What a chain of checks answers: "none" or the entry of its first failure.
LEMMA FirstFaultFirst ==
  ASSUME NEW faults, DOMAIN faults \subseteq Nat
  PROVE  \/ /\ FirstFault(faults) = "none"
            /\ \A k \in DOMAIN faults : faults[k] = "none"
         \/ \E k \in DOMAIN faults :
              /\ FirstFault(faults) = faults[k] /\ faults[k] # "none"
              /\ \A j \in DOMAIN faults : faults[j] # "none" => k <= j
<1> DEFINE found == {k \in DOMAIN faults : faults[k] # "none"}
<1>1. CASE found = {}
  BY <1>1 DEF FirstFault
<1>2. CASE found # {}
  <2>1. \E k \in found : \A j \in found : k <= j
    <3>1. found \subseteq Nat
      OBVIOUS
    <3> HIDE DEF found
    <3> QED
      BY <3>1, <1>2, FirstPosition
  <2>2. PICK k \in found : FirstFault(faults) = faults[k] /\ \A j \in found : k <= j
    BY <2>1, <1>2 DEF FirstFault
  <2> QED
    BY <2>2
<1> QED
  BY <1>1, <1>2

\* It finds no fault exactly when none of its checks does.
LEMMA NoFaultFound ==
  ASSUME NEW faults, DOMAIN faults \subseteq Nat
  PROVE  FirstFault(faults) = "none" <=> \A k \in DOMAIN faults : faults[k] = "none"
BY FirstFaultFirst

-----------------------------------------------------------------------------
(***************************************************************************)
(* The parser.                                                              *)
(***************************************************************************)
\* One call is accepted exactly when the model named a tool and its arguments
\* are an object.
LEMMA CallAccepted ==
  ASSUME NEW call \in CallShape
  PROVE  CallFault(call) = "none" <=>
           call.name \in ToolName /\ call.arguments \in {"object", "text"}
<1> DEFINE faults == <<Check(call.name \in ToolName, "unknown_tool_name"),
                       Check(call.arguments # "broken", "invalid_arguments_json"),
                       Check(call.arguments # "other", "arguments_not_object")>>
<1>1. FirstFault(faults) = "none" <=> \A k \in 1 .. 3 : faults[k] = "none"
  <2>1. DOMAIN faults = 1 .. 3 /\ 1 .. 3 \subseteq Nat
    OBVIOUS
  <2> HIDE DEF faults
  <2> QED
    BY <2>1, NoFaultFound
<1>2. (\A k \in 1 .. 3 : faults[k] = "none") <=>
        faults[1] = "none" /\ faults[2] = "none" /\ faults[3] = "none"
  OBVIOUS
<1>3. call.arguments \in {"object", "text", "broken", "other"}
  BY DEF CallShape
<1> QED
  BY <1>1, <1>2, <1>3 DEF CallFault, Check

\* Up to two identities are as many as there are calls exactly when they differ.
LEMMA IdsDiffer ==
  ASSUME NEW n \in 0 .. 2, NEW calls \in [1 .. n -> CallShape]
  PROVE  Cardinality({calls[k].id : k \in DOMAIN calls}) = Len(calls) <=>
           \A j, k \in DOMAIN calls : j # k => calls[j].id # calls[k].id
<1> DEFINE ids == {calls[k].id : k \in DOMAIN calls}
<1>1. DOMAIN calls = 1 .. n /\ Len(calls) = n
  OBVIOUS
<1>2. CASE n = 0
  <2>1. ids = {}
    BY <1>1, <1>2
  <2> QED
    BY <1>1, <1>2, <2>1, FS_EmptySet
<1>3. CASE n = 1
  <2>1. ids = {calls[1].id}
    BY <1>1, <1>3
  <2>2. Cardinality(ids) = 1
    BY <2>1, FS_Singleton
  <2> HIDE DEF ids
  <2>3. \A j, k \in DOMAIN calls : j = k
    BY <1>1, <1>3
  <2>4. Cardinality(ids) = Len(calls)
    BY <1>1, <1>3, <2>2
  <2> QED
    BY <2>3, <2>4 DEF ids
<1>4. CASE n = 2
  <2>1. DOMAIN calls = {1, 2} /\ ids = {calls[1].id} \cup {calls[2].id}
    BY <1>1, <1>4
  <2>2. CASE calls[1].id = calls[2].id
    <3>1. ids = {calls[1].id}
      BY <2>1, <2>2
    <3>2. Cardinality(ids) = 1
      BY <3>1, FS_Singleton
    <3> QED
      BY <1>1, <1>4, <2>1, <2>2, <3>2
  <2>3. CASE calls[1].id # calls[2].id
    <3>1. Cardinality({calls[1].id}) = 1 /\ IsFiniteSet({calls[1].id})
      BY FS_Singleton
    <3>2. Cardinality({calls[1].id} \cup {calls[2].id}) = 1 + 1
      BY <3>1, <2>3, FS_AddElement
    <3> QED
      BY <1>1, <1>4, <2>1, <2>3, <3>2
  <2> QED
    BY <2>2, <2>3
<1> QED
  BY <1>2, <1>3, <1>4

\* A turn with calls is accepted exactly when all of its calls are complete.
LEMMA CallsAccepted ==
  ASSUME NEW r \in Response, r.calls # <<>>
  PROVE  CallsFault(r.calls, r.finish) = "none" /\ r.content # "other" <=> CompleteCalls(r)
<1> DEFINE calls == r.calls
           ids == {calls[k].id : k \in DOMAIN calls}
           single == [k \in DOMAIN calls |-> CallFault(calls[k])]
           faults == <<Check(\A k \in DOMAIN calls : calls[k].type = "function",
                             "unsupported_tool_call_type"),
                       Check(Missing \notin ids, "missing_tool_call_id"),
                       Check(\A k \in DOMAIN calls : calls[k].name # Missing,
                             "missing_function_name"),
                       Check(r.finish = "tool_calls", "invalid_finish_reason"),
                       Check(Cardinality(ids) = Len(calls), "duplicate_tool_call_id"),
                       FirstFault(single)>>
<1>1. PICK n \in 0 .. 2 : calls \in [1 .. n -> CallShape]
  BY DEF Response
<1>2. \A k \in DOMAIN calls : calls[k] \in CallShape
  BY <1>1
<1>3. Cardinality(ids) = Len(calls) <=>
        \A j, k \in DOMAIN calls : j # k => calls[j].id # calls[k].id
  BY <1>1, IdsDiffer
<1>4. FirstFault(single) = "none" <=>
        \A k \in DOMAIN calls : calls[k].name \in ToolName /\ calls[k].arguments \in {"object", "text"}
  <2>1. DOMAIN single = DOMAIN calls /\ DOMAIN single \subseteq Nat
    BY <1>1
  <2>2. FirstFault(single) = "none" <=> \A k \in DOMAIN single : single[k] = "none"
    <3> HIDE DEF single
    <3> QED
      BY <2>1, NoFaultFound
  <2>3. \A k \in DOMAIN calls :
          single[k] = "none" <=>
            calls[k].name \in ToolName /\ calls[k].arguments \in {"object", "text"}
    BY <1>2, CallAccepted
  <2> HIDE DEF single
  <2> QED
    BY <2>1, <2>2, <2>3
<1>5. FirstFault(faults) = "none" <=>
        /\ faults[1] = "none" /\ faults[2] = "none" /\ faults[3] = "none"
        /\ faults[4] = "none" /\ faults[5] = "none" /\ faults[6] = "none"
  <2>1. DOMAIN faults = 1 .. 6 /\ 1 .. 6 \subseteq Nat
    OBVIOUS
  <2>2. (\A k \in 1 .. 6 : faults[k] = "none") <=>
          /\ faults[1] = "none" /\ faults[2] = "none" /\ faults[3] = "none"
          /\ faults[4] = "none" /\ faults[5] = "none" /\ faults[6] = "none"
    <3> HIDE DEF faults
    <3> QED
      OBVIOUS
  <2> HIDE DEF faults
  <2> QED
    BY <2>1, <2>2, NoFaultFound
<1>6. /\ faults[1] = Check(\A k \in DOMAIN calls : calls[k].type = "function",
                           "unsupported_tool_call_type")
      /\ faults[2] = Check(Missing \notin ids, "missing_tool_call_id")
      /\ faults[3] = Check(\A k \in DOMAIN calls : calls[k].name # Missing,
                           "missing_function_name")
      /\ faults[4] = Check(r.finish = "tool_calls", "invalid_finish_reason")
      /\ faults[5] = Check(Cardinality(ids) = Len(calls), "duplicate_tool_call_id")
      /\ faults[6] = FirstFault(single)
  OBVIOUS
<1>7. CallsFault(calls, r.finish) = FirstFault(faults)
  BY DEF CallsFault
<1> HIDE DEF faults, single
<1>8. CallsFault(calls, r.finish) = "none" <=>
        /\ \A k \in DOMAIN calls : calls[k].type = "function"
        /\ Missing \notin ids
        /\ \A k \in DOMAIN calls : calls[k].name # Missing
        /\ r.finish = "tool_calls"
        /\ Cardinality(ids) = Len(calls)
        /\ FirstFault(single) = "none"
  <2> HIDE DEF ids, calls
  <2> QED
    BY <1>5, <1>6, <1>7 DEF Check
<1>9. Missing \notin ids <=> \A k \in DOMAIN calls : calls[k].id \in CallId
  BY <1>2, ResponseAssumption DEF CallShape
<1>10. \A k \in DOMAIN calls : calls[k].name \in ToolName => calls[k].name # Missing
  BY ResponseAssumption
<1> HIDE DEF ids
<1> QED
  BY <1>3, <1>4, <1>8, <1>9, <1>10 DEF CompleteCalls, CompleteCall

\* A turn without calls is accepted exactly when it is a final message.
LEMMA FinalAccepted ==
  ASSUME NEW r \in Response, NEW schema \in BOOLEAN, r.calls = <<>>
  PROVE  FinalFault(r, schema) = "none" <=> FinalMessage(r, schema)
<1> DEFINE faults == <<Check(r.content \in {"text", "long"}, "empty_response"),
                       Check(r.finish = "stop", "invalid_finish_reason"),
                       Check(schema \/ r.content # "long", "empty_response"),
                       Check(schema => r.output = "fit", "structured_output_invalid")>>
<1>1. DOMAIN faults = 1 .. 4 /\ 1 .. 4 \subseteq Nat
  OBVIOUS
<1>2. (\A k \in 1 .. 4 : faults[k] = "none") <=>
        /\ faults[1] = "none" /\ faults[2] = "none"
        /\ faults[3] = "none" /\ faults[4] = "none"
  <2> HIDE DEF faults
  <2> QED
    OBVIOUS
<1>3. /\ faults[1] = Check(r.content \in {"text", "long"}, "empty_response")
      /\ faults[2] = Check(r.finish = "stop", "invalid_finish_reason")
      /\ faults[3] = Check(schema \/ r.content # "long", "empty_response")
      /\ faults[4] = Check(schema => r.output = "fit", "structured_output_invalid")
  OBVIOUS
<1>4. FinalFault(r, schema) = FirstFault(faults)
  BY DEF FinalFault
<1> HIDE DEF faults
<1>5. FinalFault(r, schema) = "none" <=> \A k \in 1 .. 4 : faults[k] = "none"
  BY <1>1, <1>4, NoFaultFound
<1> QED
  BY <1>2, <1>3, <1>5 DEF Check, FinalMessage

\* What the chain of the whole response answers.
LEMMA ResponseChecked ==
  ASSUME NEW r \in Response, NEW schema \in BOOLEAN
  PROVE  /\ Fault(r, schema) = "none" <=>
              /\ r.choices = 1 /\ ~r.protected /\ r.role = "assistant" /\ r.content # "other"
              /\ IF r.calls # <<>> THEN CallsFault(r.calls, r.finish) = "none"
                                   ELSE FinalFault(r, schema) = "none"
         /\ r.choices = 1 /\ r.protected => Fault(r, schema) = "protected_data_detected"
<1> DEFINE rest == IF r.calls # <<>> THEN CallsFault(r.calls, r.finish) ELSE FinalFault(r, schema)
           faults == <<Check(r.choices # 0, "empty_response"),
                       Check(r.choices = 1, "choice_count_invalid"),
                       Check(~r.protected, "protected_data_detected"),
                       Check(r.role = "assistant", "invalid_message_role"),
                       Check(r.content # "other", "unsupported_content_type"),
                       rest>>
<1>1. Fault(r, schema) = FirstFault(faults)
  BY DEF Fault
<1> HIDE DEF rest
<1>2. DOMAIN faults = 1 .. 6 /\ 1 .. 6 \subseteq Nat
  OBVIOUS
<1>3. /\ faults[1] = Check(r.choices # 0, "empty_response")
      /\ faults[2] = Check(r.choices = 1, "choice_count_invalid")
      /\ faults[3] = Check(~r.protected, "protected_data_detected")
      /\ faults[4] = Check(r.role = "assistant", "invalid_message_role")
      /\ faults[5] = Check(r.content # "other", "unsupported_content_type")
      /\ faults[6] = rest
  OBVIOUS
<1> HIDE DEF faults
<1>4. (\A k \in 1 .. 6 : faults[k] = "none") <=>
        /\ faults[1] = "none" /\ faults[2] = "none" /\ faults[3] = "none"
        /\ faults[4] = "none" /\ faults[5] = "none" /\ faults[6] = "none"
  OBVIOUS
<1>5. Fault(r, schema) = "none" <=> \A k \in 1 .. 6 : faults[k] = "none"
  BY <1>1, <1>2, NoFaultFound
<1>6. Fault(r, schema) = "none" <=>
        /\ r.choices = 1 /\ ~r.protected /\ r.role = "assistant" /\ r.content # "other"
        /\ rest = "none"
  BY <1>3, <1>4, <1>5 DEF Check
<1>7. ASSUME r.choices = 1, r.protected
      PROVE  Fault(r, schema) = "protected_data_detected"
  <2>1. /\ faults[1] = "none" /\ faults[2] = "none"
        /\ faults[3] = "protected_data_detected" /\ faults[3] # "none"
    BY <1>3, <1>7 DEF Check
  <2>2. PICK k \in 1 .. 6 : /\ FirstFault(faults) = faults[k] /\ faults[k] # "none"
                            /\ \A j \in 1 .. 6 : faults[j] # "none" => k <= j
    BY <1>2, <2>1, FirstFaultFirst
  <2>3. k <= 3 /\ k # 1 /\ k # 2
    BY <2>1, <2>2
  <2>4. k = 3
    BY <2>3
  <2> QED
    BY <1>1, <2>1, <2>2, <2>4
<1> QED
  BY <1>6, <1>7 DEF rest

\* The parser accepts exactly the unambiguous responses.
LEMMA ParserIsExact ==
  ASSUME NEW r \in Response, NEW schema \in BOOLEAN, r.calls = <<>> \/ ~schema
  PROVE  Fault(r, schema) = "none" <=> Unambiguous(r, schema)
<1>1. CASE r.calls # <<>>
  BY <1>1, ResponseChecked, CallsAccepted DEF Unambiguous, FinalMessage
<1>2. CASE r.calls = <<>>
  <2>1. FinalMessage(r, schema) => r.content # "other"
    BY DEF FinalMessage
  <2> QED
    BY <1>2, <2>1, ResponseChecked, FinalAccepted DEF Unambiguous, CompleteCalls
<1> QED
  BY <1>1, <1>2

-----------------------------------------------------------------------------
(***************************************************************************)
(* The turns.                                                               *)
(***************************************************************************)
\* A turn has been accepted, and a request never counts more repairs than the
\* loop has used.
RepairInv ==
  /\ response \in Responses \cup {Nothing}
  /\ phase = "turn" /\ response # Nothing => Fault(response, FALSE) = "none"
  /\ used \in 0 .. RepairRetries /\ attempt \in 0 .. used
  /\ \E S : failures \in Seq(S)

\* The invariant is inductive.
LEMMA NextKeepsRepairInv == RepairInv /\ [Next]_vars => RepairInv'
<1> SUFFICES ASSUME RepairInv, [Next]_vars PROVE RepairInv'
  OBVIOUS
<1> USE RepairAssumption DEF RepairInv
<1>1. CASE Ask
  BY <1>1 DEF Ask, Attempt
<1>2. CASE TurnBudgetSpent \/ TransportFails \/ TurnOver
  BY <1>2 DEF TurnBudgetSpent, TransportFails, TurnOver
<1>3. CASE Accept
  BY <1>3 DEF Accept
<1>4. CASE Refuse
  <2>1. PICK new :
          /\ response' \in Responses /\ failures' = Append(failures, new)
          /\ phase' \in {"ask", "done"} /\ attempt' = attempt
          /\ \/ used' = used + 1 /\ used < RepairRetries
             \/ used' = used
    BY <1>4 DEF Refuse, MayRepair
  <2>2. \E S : failures' \in Seq(S)
    <3>1. PICK S : failures \in Seq(S)
      OBVIOUS
    <3>2. failures \in Seq(S \cup {new})
      BY <3>1
    <3>3. failures' \in Seq(S \cup {new})
      BY <2>1, <3>2
    <3> QED
      BY <3>3
  <2>3. /\ response' \in Responses' \cup {Nothing} /\ phase' # "turn"
        /\ used' \in 0 .. RepairRetries /\ attempt' \in 0 .. used'
    BY <2>1
  <2> QED
    BY <2>2, <2>3
<1>5. CASE UNCHANGED vars
  BY <1>5 DEF vars
<1> QED
  BY <1>1, <1>2, <1>3, <1>4, <1>5 DEF Next

\* Nothing was asked and nothing has failed.
LEMMA InitRepairInv == Init => RepairInv
<1>1. <<>> \in Seq({})
  OBVIOUS
<1> QED
  BY <1>1, RepairAssumption DEF Init, RepairInv

\* Protected data end the Run with the step that sees them.
LEMMA ProtectedSteps ==
  ASSUME RepairInv, [Next]_vars, response' # Nothing, response'.protected,
         response'.choices = 1, ~UNCHANGED vars
  PROVE  phase' = "done"
<1> USE RepairAssumption
<1>1. CASE Ask
  BY <1>1 DEF Ask
<1>2. CASE TurnBudgetSpent \/ TransportFails
  BY <1>2 DEF TurnBudgetSpent, TransportFails
<1>3. CASE TurnOver
  <2>1. response \in Response /\ Fault(response, FALSE) = "none" /\ response.protected
    BY <1>3 DEF TurnOver, RepairInv
  <2> QED
    BY <2>1, ResponseChecked
<1>4. CASE Accept
  <2>1. response' \in Response /\ Fault(response', FALSE) = "none"
    BY <1>4 DEF Accept
  <2> QED
    BY <2>1, ResponseChecked
<1>5. CASE Refuse
  <2>1. PICK r \in Responses :
          response' = r /\ (MayRepair(Fault(r, FALSE)) \/ phase' = "done")
    BY <1>5 DEF Refuse
  <2>2. Fault(r, FALSE) = "protected_data_detected"
    BY <2>1, ResponseChecked
  <2> QED
    BY <2>1, <2>2 DEF MayRepair, Repairable
<1> QED
  BY <1>1, <1>2, <1>3, <1>4, <1>5 DEF Next

-----------------------------------------------------------------------------
(***************************************************************************)
(* The theorems.                                                            *)
(***************************************************************************)
\* Whatever the provider answers, a response becomes a turn exactly when it is
\* what the adapter promises to accept.
THEOREM TurnsAreExact == Spec => []TurnsAreUnambiguous
<1>1. RepairInv => TurnsAreUnambiguous
  BY ParserIsExact, RepairAssumption DEF RepairInv, TurnsAreUnambiguous
<1> QED
  BY <1>1, InitRepairInv, NextKeepsRepairInv, PTL DEF Spec

\* A message with protected data is never projected and never repaired.
THEOREM ProtectedEnds == Spec => ProtectedEndsRun
<1>1. RepairInv /\ [Next]_vars =>
        [response' # Nothing /\ response'.protected /\ response'.choices = 1
           => phase' = "done"]_vars
  BY ProtectedSteps
<1> QED
  BY <1>1, InitRepairInv, NextKeepsRepairInv, PTL DEF Spec, ProtectedEndsRun

\* For every budget an Event says that the repairs are exhausted only when they
\* are.
THEOREM ExhaustionHolds == Spec => ExhaustionIsTrue
<1>1. RepairInv /\ [Next]_vars =>
        [failures' # failures /\ failures'[Len(failures')].exhausted
           => used = RepairRetries]_vars
  <2> SUFFICES ASSUME RepairInv, Next, failures' # failures,
                      failures'[Len(failures')].exhausted
               PROVE  used = RepairRetries
    BY DEF vars
  <2>1. Refuse
    BY DEF Next, Ask, TurnBudgetSpent, TransportFails, Accept, TurnOver
  <2>2. PICK new : failures' = Append(failures, new) /\ (new.exhausted => Exhausted)
    <3>1. PICK r \in Responses :
            failures' = Append(failures, [reason |-> Fault(r, FALSE), attempt |-> attempt,
                                          repairable |-> Repairable(Fault(r, FALSE)),
                                          exhausted |-> Exhausted])
      BY <2>1 DEF Refuse
    <3> DEFINE new == [reason |-> Fault(r, FALSE), attempt |-> attempt,
                       repairable |-> Repairable(Fault(r, FALSE)), exhausted |-> Exhausted]
    <3>2. new.exhausted => Exhausted
      BY Zenon
    <3> HIDE DEF new
    <3> QED
      BY <3>1, <3>2 DEF new
  <2>3. failures'[Len(failures')] = new
    <3>1. PICK S : failures \in Seq(S)
      BY DEF RepairInv
    <3>2. failures \in Seq(S \cup {new})
      BY <3>1
    <3> QED
      BY <2>2, <3>2
  <2>4. Exhausted
    BY <2>2, <2>3
  <2> QED
    BY <2>4, RepairAssumption DEF Exhausted, RepairInv
<1> QED
  BY <1>1, InitRepairInv, NextKeepsRepairInv, PTL DEF Spec, ExhaustionIsTrue

=============================================================================
