--------------------------- MODULE RequestSession ---------------------------
(***************************************************************************)
(* What a client may rely on: messages are answered one at a time, in the  *)
(* order they were sent, each at most once, notifications never.           *)
(***************************************************************************)
EXTENDS McpMessages

VARIABLES
  asked,   \* the messages of the session
  replied  \* the answers given

vars == <<asked, replied>>

Init == asked = <<>> /\ replied = <<>>

Ask ==
  /\ \E message \in AllMessages : asked' = Append(asked, message)
  /\ UNCHANGED replied

Reply ==
  /\ Len(replied) < Len(OwedAnswers(asked))
  /\ replied' = Append(replied, OwedAnswers(asked)[Len(replied) + 1])
  /\ UNCHANGED asked

Next == Ask \/ Reply

Spec == Init /\ [][Next]_vars
=============================================================================
