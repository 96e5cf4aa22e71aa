----------------------------- MODULE McpMessages -----------------------------
(***************************************************************************)
(* What handle_message() of packages/cli/src/mcp.rs answers to one body.   *)
(* A message says whether it is JSON, whether it is an object, whether it  *)
(* carries an id, its method, and for tools/call how far its parameters    *)
(* lead.  The id of a message is its number in the session.                *)
(***************************************************************************)
EXTENDS Integers, Sequences

CONSTANT None  \* no id, the JSON null of an answer to nobody, no length

Forms == {"garbage", "no_object", "object"}

Methods == {"none", "initialize", "notifications/initialized", "tools/list",
            "tools/call", "unknown"}

\* What a tools/call carries: no params, no name, a tool's refusal, a result.
Calls == {"no_params", "no_name", "rejected", "ok"}

AllMessages ==
  {message \in [form : Forms, hasId : BOOLEAN, method : Methods, call : Calls] :
     /\ message.form # "object" => ~message.hasId /\ message.method = "none"
     /\ message.method # "tools/call" => message.call = "ok"}

Silent == [id |-> None, outcome |-> "silent"]

ParseError == [id |-> None, outcome |-> "-32700"]

\* The result or the code of the error, for a message that has an id.
OutcomeOfCall(message) ==
  CASE message.method = "none" -> "-32600"
    [] message.method = "initialize" -> "capabilities"
    [] message.method = "tools/list" -> "tools"
    [] message.method = "unknown" -> "-32601"
    [] message.method = "tools/call" /\ message.call \in {"no_params", "no_name"} -> "-32602"
    [] message.method = "tools/call" /\ message.call \in {"rejected", "ok"} -> message.call

\* Mutation: a notification is answered too, with null for its id.
AnswerAll(number, message) ==
  IF message.form = "garbage" THEN ParseError
  ELSE IF message.form = "no_object" THEN [id |-> None, outcome |-> "-32600"]
  ELSE IF message.method = "notifications/initialized" THEN Silent
  ELSE [id |-> IF message.hasId THEN number ELSE None, outcome |-> OutcomeOfCall(message)]

Answer(number, message) ==
  IF message.form = "garbage" THEN ParseError
  ELSE IF message.form = "no_object" THEN [id |-> None, outcome |-> "-32600"]
  ELSE IF ~message.hasId \/ message.method = "notifications/initialized" THEN Silent
  ELSE [id |-> number, outcome |-> OutcomeOfCall(message)]

\* What a session owes its client.
OwedAnswers(messages) ==
  LET owed[k \in 0..Len(messages)] ==
        IF k = 0 THEN <<>>
        ELSE LET answer == Answer(k, messages[k])
             IN  IF answer = Silent THEN owed[k - 1] ELSE Append(owed[k - 1], answer)
  IN  owed[Len(messages)]
=============================================================================
