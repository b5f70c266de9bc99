--------------------------- MODULE MCModelRepair ---------------------------
(***************************************************************************)
(* The responses for TLC: all combinations of the fields without a call and *)
(* with one, the pairs of calls with the fields that can change what        *)
(* becomes of them, and a few for runs of many turns.                       *)
(***************************************************************************)
EXTENDS ModelRepair

Single(content, output, calls) ==
  [choices : {1}, protected : BOOLEAN, role : {"assistant", "other"},
   content : content, output : output, calls : calls,
   finish : {"stop", "tool_calls", "other"}]

Final == Single({"null", "blank", "text", "long", "other"},
                {"broken", "array", "misfit", "fit"}, {<<>>})

OneCall == Single({"null", "text", "other"}, {"fit"}, [{1} -> CallShape])

\* No type but "function" and no finish_reason but "tool_calls" is of interest
\* in a pair: OneCall has the others.
TwoCalls ==
  [choices : {1}, protected : {FALSE}, role : {"assistant"}, content : {"null"},
   output : {"fit"}, finish : {"tool_calls"},
   calls : [1 .. 2 -> [type : {"function"}, id : CallId \cup {Missing},
                       name : ToolName \cup {UnknownName}, arguments : {"text", "broken"}]]]

\* normalize_response looks at nothing else of a response without one choice.
NoChoice ==
  [choices : {0, 2}, protected : BOOLEAN, role : {"assistant"}, content : {"text"},
   output : {"fit"}, calls : {<<>>}, finish : {"stop"}]

AllResponses == Final \cup OneCall \cup TwoCalls \cup NoChoice

Calling(name, arguments) ==
  [choices |-> 1, protected |-> FALSE, role |-> "assistant", content |-> "null",
   output |-> "fit", finish |-> "tool_calls",
   calls |-> <<[type |-> "function", id |-> CHOOSE id \in CallId : TRUE, name |-> name,
                arguments |-> arguments]>>]

Saying(content, protected) ==
  [choices |-> 1, protected |-> protected, role |-> "assistant", content |-> content,
   output |-> "fit", finish |-> "stop", calls |-> <<>>]

SomeResponses ==
  {Calling(name, arguments) : name \in ToolName \cup {UnknownName}, arguments \in {"text", "broken"}}
    \cup {Saying(content, protected) : content \in {"blank", "text"}, protected \in BOOLEAN}

=============================================================================
