-------------------------------- MODULE MCMcp --------------------------------
(***************************************************************************)
(* Frames as they should be, with every kind of message, and with one      *)
(* request also frames of every other kind: too short, in the middle of a  *)
(* character or not, too long by half a header, without a length, and with *)
(* another header that can swallow what is left over.                      *)
(***************************************************************************)
EXTENDS McpServer

Frame(message, wide, headers, declared) ==
  [message |-> message, wide |-> wide, headers |-> headers, declared |-> declared]

HonestFrames ==
  {Frame(message, FALSE, <<"length">>, BodySize) : message \in AllMessages}

Request == [form |-> "object", hasId |-> TRUE, method |-> "tools/list", call |-> "ok"]

OtherFrames ==
  {Frame(Request, FALSE, headers, BodySize) :
     headers \in {<<"other", "length">>, <<"other">>, <<"invalid">>}}
    \cup {Frame(Request, wide, <<"length">>, 1) : wide \in BOOLEAN}
    \cup {Frame(Request, FALSE, <<"length">>, 3)}

MCFrames == HonestFrames \cup OtherFrames
=============================================================================
