--------------------------- MODULE ModelResponse ---------------------------
(***************************************************************************)
(* normalize_response (anban/model/response.py): which provider responses   *)
(* become a ModelTurn, which are refused, for what reason, and whether the  *)
(* agent may ask for a repair.                                              *)
(*   A response is the structure that the code looks at.  "text" arguments  *)
(* are a string that parses to an object, "broken" a string that does not   *)
(* parse, "other" anything else, calls that ToolCall refuses included.      *)
(***************************************************************************)
EXTENDS Checks, FiniteSets

CONSTANTS
  CallId,       \* identities in the responses
  ToolName,     \* provider names of the tools of the request
  UnknownName,  \* a name that the request does not have
  Missing       \* no value

ASSUME ResponseAssumption ==
  /\ UnknownName \notin ToolName /\ Missing \notin CallId
  /\ Missing \notin ToolName \cup {UnknownName}

CallShape ==
  [type : {"function", "other"}, id : CallId \cup {Missing},
   name : ToolName \cup {UnknownName, Missing},
   arguments : {"object", "text", "broken", "other"}]

Response ==
  [choices : {0, 1, 2}, protected : BOOLEAN, role : {"assistant", "other"},
   content : {"null", "blank", "text", "long", "other"},
   output : {"broken", "array", "misfit", "fit"},
   calls : UNION {[1 .. n -> CallShape] : n \in 0 .. 2},
   finish : {"stop", "tool_calls", "other"}]

\* semantic_names, _parse_arguments and ToolCall, for one call.
CallFault(call) ==
  FirstFault(<<Check(call.name \in ToolName, "unknown_tool_name"),
               Check(call.arguments # "broken", "invalid_arguments_json"),
               Check(call.arguments # "other", "arguments_not_object")>>)

CallsFault(calls, finish) ==
  LET ids == {calls[k].id : k \in DOMAIN calls} IN
  FirstFault(
    <<Check(\A k \in DOMAIN calls : calls[k].type = "function", "unsupported_tool_call_type"),
      Check(Missing \notin ids, "missing_tool_call_id"),
      Check(\A k \in DOMAIN calls : calls[k].name # Missing, "missing_function_name"),
      Check(finish = "tool_calls", "invalid_finish_reason"),
      Check(Cardinality(ids) = Len(calls), "duplicate_tool_call_id"),
      FirstFault([k \in DOMAIN calls |-> CallFault(calls[k])])>>)

\* Content that is too long for a ModelTurn is refused, structured output is not.
FinalFault(r, schema) ==
  FirstFault(
    <<Check(r.content \in {"text", "long"}, "empty_response"),
      Check(r.finish = "stop", "invalid_finish_reason"),
      Check(schema \/ r.content # "long", "empty_response"),
      Check(schema => r.output = "fit", "structured_output_invalid")>>)

\* Mutants: protected data are looked for last; role, content type and the
\* finish_reason of calls are not looked at.
FaultProtectedLate(r, schema) ==
  FirstFault(
    <<Check(r.choices # 0, "empty_response"),
      Check(r.choices = 1, "choice_count_invalid"),
      Check(r.role = "assistant", "invalid_message_role"),
      Check(r.content # "other", "unsupported_content_type"),
      IF r.calls # <<>> THEN CallsFault(r.calls, r.finish) ELSE FinalFault(r, schema),
      Check(~r.protected, "protected_data_detected")>>)

FaultOfCallsOnly(r, schema) ==
  FirstFault(
    <<Check(r.choices # 0, "empty_response"),
      Check(r.choices = 1, "choice_count_invalid"),
      Check(~r.protected, "protected_data_detected"),
      IF r.calls # <<>> THEN CallsFault(r.calls, "tool_calls") ELSE FinalFault(r, schema)>>)

\* diagnostic_reason of the response, "none" when it becomes a ModelTurn.
Fault(r, schema) ==
  FirstFault(
    <<Check(r.choices # 0, "empty_response"),
      Check(r.choices = 1, "choice_count_invalid"),
      Check(~r.protected, "protected_data_detected"),
      Check(r.role = "assistant", "invalid_message_role"),
      Check(r.content # "other", "unsupported_content_type"),
      IF r.calls # <<>> THEN CallsFault(r.calls, r.finish) ELSE FinalFault(r, schema)>>)

Repairable(reason) == reason \notin {"protected_data_detected", "unknown_tool_name"}

\* The kind of ModelTurn that an accepted response becomes.
TurnKind(r, schema) ==
  IF r.calls # <<>> THEN "tool_calls" ELSE IF schema THEN "structured_output" ELSE "final"

-----------------------------------------------------------------------------
(***************************************************************************)
(* What the adapter promises: "Accept only an unambiguous final message or  *)
(* complete native function Tool Calls."                                    *)
(***************************************************************************)
CompleteCall(call) ==
  /\ call.type = "function" /\ call.id \in CallId /\ call.name \in ToolName
  /\ call.arguments \in {"object", "text"}

CompleteCalls(r) ==
  /\ r.finish = "tool_calls" /\ r.calls # <<>>
  /\ \A k \in DOMAIN r.calls : CompleteCall(r.calls[k])
  /\ \A j, k \in DOMAIN r.calls : j # k => r.calls[j].id # r.calls[k].id
  /\ r.content # "other"

FinalMessage(r, schema) ==
  /\ r.finish = "stop" /\ r.calls = <<>>
  /\ IF schema THEN r.content \in {"text", "long"} /\ r.output = "fit" ELSE r.content = "text"

Unambiguous(r, schema) ==
  /\ r.choices = 1 /\ r.role = "assistant" /\ ~r.protected
  /\ CompleteCalls(r) \/ FinalMessage(r, schema)

=============================================================================
