------------------------------ MODULE McpServer ------------------------------
(***************************************************************************)
(* serve() of packages/cli/src/mcp.rs, the client that started it, and the *)
(* two pipes between them.  A stream is a sequence of units: the two       *)
(* halves of a header line, the empty line behind the headers, and the two *)
(* parts of a body, which holds no line end.  Content-Length counts units, *)
(* and a client may count wrongly, leave a header out, stop in the middle  *)
(* of a frame, or stop reading.                                            *)
(***************************************************************************)
EXTENDS McpMessages, FiniteSets

CONSTANTS
  Frames,         \* the frames a client sends
  MaxFrames,      \* bound on the frames of a session
  StdoutCapacity  \* replies the pipe to the client holds

\* A frame has a message, whether its parts are the halves of one character,
\* the kinds of its header lines and the length these declare.
BodySize == 2

HeaderLines == {"length", "invalid", "other"}

ASSUME FramesAssumption ==
  \A frame \in Frames :
    /\ frame.message \in AllMessages /\ frame.wide \in BOOLEAN
    /\ frame.headers \in Seq(HeaderLines) /\ frame.declared \in Nat

ASSUME NoneAssumption == None \notin Nat

ASSUME BoundsAssumption == MaxFrames \in Nat /\ StdoutCapacity \in Nat \ {0}

VARIABLES
  sent,      \* client: the frames begun
  unsent,    \* client: units of the last frame not yet written
  closed,    \* client: stdin has been closed
  hungUp,    \* client: it has closed the pipe it reads from
  received,  \* client: the replies read
  stdin, stdout,   \* the pipes
  contentLength,   \* server: of the frame being read
  reply,           \* server: what is to be written
  pc               \* server: header, body, write, exited (0) or failed (1)

client == <<sent, unsent, closed, hungUp, received>>
server == <<contentLength, reply, pc>>
vars == <<client, stdin, stdout, server>>

Unit(kind, line, of, part) == [kind |-> kind, line |-> line, of |-> of, part |-> part]

Blank == Unit("blank", "none", 0, 0)

UnitsOf(number, frame) ==
  LET lines == Len(frame.headers)
      Header(j) == frame.headers[(j + 1) \div 2]
  IN  [j \in 1..(2 * lines) |->
         IF j % 2 = 1 THEN Unit("head", Header(j), number, 0)
                      ELSE Unit("tail", Header(j), number, frame.declared)]
        \o <<Blank>>
        \o [part \in 1..BodySize |-> Unit("body", "none", number, part)]

Init ==
  /\ sent = <<>> /\ unsent = <<>> /\ closed = FALSE /\ hungUp = FALSE /\ received = <<>>
  /\ stdin = <<>> /\ stdout = <<>>
  /\ contentLength = None /\ reply = Silent /\ pc = "header"

-----------------------------------------------------------------------------
\* The client.

Running == pc \notin {"exited", "failed"}

BeginFrame ==
  /\ Running /\ ~closed /\ unsent = <<>> /\ Len(sent) < MaxFrames
  /\ \E frame \in Frames :
       /\ sent' = Append(sent, frame)
       /\ unsent' = UnitsOf(Len(sent) + 1, frame)
  /\ UNCHANGED <<closed, hungUp, received, stdin, stdout, server>>

WriteUnit ==
  /\ Running /\ ~closed /\ unsent # <<>>
  /\ stdin' = Append(stdin, Head(unsent))
  /\ unsent' = Tail(unsent)
  /\ UNCHANGED <<sent, closed, hungUp, received, stdout, server>>

Close ==
  /\ ~closed
  /\ closed' = TRUE
  /\ UNCHANGED <<sent, unsent, hungUp, received, stdin, stdout, server>>

Receive ==
  /\ ~hungUp /\ stdout # <<>>
  /\ received' = Append(received, Head(stdout))
  /\ stdout' = Tail(stdout)
  /\ UNCHANGED <<sent, unsent, closed, hungUp, stdin, server>>

HangUp ==
  /\ ~hungUp
  /\ hungUp' = TRUE
  /\ UNCHANGED <<sent, unsent, closed, received, stdin, stdout, server>>

-----------------------------------------------------------------------------
\* read_frame

LineEnds == {j \in 1..Len(stdin) : stdin[j].kind \in {"tail", "blank"}}

LineEnd == CHOOSE j \in LineEnds : \A other \in LineEnds : j <= other

\* A line is a header only as it was written: whatever is left of a body, or
\* missing of a header, makes it some line the loop passes over.
IsHeader(line) == Len(line) = 2 /\ line[1].kind = "head" /\ line[2].kind = "tail"

ReadLine ==
  /\ pc = "header" /\ LineEnds # {}
  /\ LET line == SubSeq(stdin, 1, LineEnd)
     IN  /\ stdin' = SubSeq(stdin, LineEnd + 1, Len(stdin))
         /\ \/ /\ line = <<Blank>>
               /\ pc' = IF contentLength = None THEN "failed" ELSE "body"
               /\ UNCHANGED contentLength
            \/ /\ IsHeader(line) /\ line[1].line = "length"
               /\ contentLength' = line[2].part
               /\ UNCHANGED pc
            \/ /\ IsHeader(line) /\ line[1].line = "invalid"
               /\ pc' = "failed"
               /\ UNCHANGED contentLength
            \/ /\ line # <<Blank>> /\ ~(IsHeader(line) /\ line[1].line # "other")
               /\ UNCHANGED <<contentLength, pc>>
  /\ UNCHANGED <<client, stdout, reply>>

\* The end of input ends a line too, and behind it there is none.
ReadLastLine ==
  /\ pc = "header" /\ LineEnds = {} /\ closed /\ stdin # <<>>
  /\ stdin' = <<>>
  /\ UNCHANGED <<client, stdout, server>>

\* Mutation: at the end of the input an empty line is read, and another one.
ReadEndAsLine ==
  /\ pc = "header" /\ closed /\ stdin = <<>>
  /\ UNCHANGED vars

\* Mutation: what is left in the pipe when it is closed is not looked at.
ReadEndAtOnce ==
  /\ pc = "header" /\ closed
  /\ pc' = "exited"
  /\ UNCHANGED <<client, stdin, stdout, contentLength, reply>>

ReadEnd ==
  /\ pc = "header" /\ closed /\ stdin = <<>>
  /\ pc' = "exited"
  /\ UNCHANGED <<client, stdin, stdout, contentLength, reply>>

-----------------------------------------------------------------------------
\* The rest of read_frame, and the loop of serve.

IsText(body) ==
  \A j \in 1..Len(body) :
    body[j].kind = "body" /\ sent[body[j].of].wide =>
      \E k \in 1..Len(body) : body[k].of = body[j].of /\ body[k].kind = "body"
                              /\ body[k].part = (BodySize + 1) - body[j].part

\* Mutation: the parser makes do with the beginning of a body.
IsBeginning(body, number) == Len(body) > 0 /\ body[1] = Unit("body", "none", number, 1)

IsWholeBody(body, number) == body = [part \in 1..BodySize |-> Unit("body", "none", number, part)]

\* Mutation: messages without an id are answered like the others.
HandleAll(body) ==
  IF \E number \in 1..Len(sent) : IsWholeBody(body, number)
  THEN AnswerAll(body[1].of, sent[body[1].of].message)
  ELSE ParseError

\* handle_message: anything but one whole body is no JSON.
HandleMessage(body) ==
  IF \E number \in 1..Len(sent) : IsWholeBody(body, number)
  THEN Answer(body[1].of, sent[body[1].of].message)
  ELSE ParseError

ReadBody ==
  /\ pc = "body" /\ Len(stdin) >= contentLength
  /\ LET body == SubSeq(stdin, 1, contentLength)
     IN  /\ stdin' = SubSeq(stdin, contentLength + 1, Len(stdin))
         /\ reply' = IF IsText(body) THEN HandleMessage(body) ELSE Silent
         /\ pc' = IF ~IsText(body) THEN "failed"
                  ELSE IF reply' = Silent THEN "header" ELSE "write"
  /\ contentLength' = None
  /\ UNCHANGED <<client, stdout>>

\* read_exact meets the end of input.
MissBody ==
  /\ pc = "body" /\ closed /\ Len(stdin) < contentLength
  /\ pc' = "failed" /\ stdin' = <<>>
  /\ UNCHANGED <<client, stdout, contentLength, reply>>

\* write_frame
WriteReply ==
  /\ pc = "write" /\ ~hungUp /\ Len(stdout) < StdoutCapacity
  /\ stdout' = Append(stdout, reply)
  /\ reply' = Silent /\ pc' = "header"
  /\ UNCHANGED <<client, stdin, contentLength>>

WriteToNobody ==
  /\ pc = "write" /\ hungUp
  /\ reply' = Silent /\ pc' = "failed"
  /\ UNCHANGED <<client, stdin, stdout, contentLength>>

Client == BeginFrame \/ WriteUnit \/ Close \/ Receive \/ HangUp

Server == ReadLine \/ ReadLastLine \/ ReadEnd \/ ReadBody \/ MissBody \/ WriteReply \/ WriteToNobody

Next == Client \/ Server

\* The server runs whenever it can, and a client that has not hung up reads.
Fairness == WF_vars(Server) /\ WF_vars(Receive)

Spec == Init /\ [][Next]_vars /\ Fairness

-----------------------------------------------------------------------------
Elements(s) == {s[j] : j \in 1..Len(s)}

Honest(frame) ==
  frame.declared = BodySize
    /\ "length" \in Elements(frame.headers) /\ "invalid" \notin Elements(frame.headers)

\* The frames that have been written to their end.
Complete == IF unsent = <<>> THEN sent ELSE SubSeq(sent, 1, Len(sent) - 1)

Given == received \o stdout

(* However badly a client frames its messages, what comes back under an id  *)
(* is the answer to the message of that id, sent whole, and answers keep    *)
(* the order of their messages and are not given twice.                     *)
AnswersStayInOrder ==
  /\ \A j, k \in 1..Len(Given) :
       j < k /\ Given[j].id # None /\ Given[k].id # None => Given[j].id < Given[k].id
  /\ \A j \in 1..Len(Given) :
       Given[j].id # None =>
         /\ Given[j].id <= Len(Complete)
         /\ Given[j] = Answer(Given[j].id, Complete[Given[j].id].message)

(* The server never outlives its client: once its input is closed it stops, *)
(* whatever it was doing and whatever is left in the pipes.                 *)
StopsAfterClose == closed ~> ~Running

\* The messages up to the first frame that lies about itself.
HonestMessages ==
  LET honest == {k \in 1..Len(Complete) : \A j \in 1..k : Honest(Complete[j])}
  IN  [k \in honest |-> Complete[k].message]

(* A request that is owed an answer gets it, if every frame so far told the *)
(* truth about itself and the client goes on reading, whatever comes behind *)
(* the request: the end of the input, too, or a frame that stops the server.*)
OwedAnswersArrive ==
  \A number \in 1..MaxFrames :
    (/\ number <= Len(HonestMessages)
     /\ Answer(number, HonestMessages[number]).id = number)
    ~> (hungUp \/ \E j \in 1..Len(received) : received[j].id = number)

\* The answers of that session: all of them, or those that were owed before.
HonestReplies ==
  IF \A frame \in Elements(sent) : Honest(frame)
  THEN Given
  ELSE [j \in (1..Len(Given)) \cap (1..Len(OwedAnswers(HonestMessages))) |-> Given[j]]

Session == INSTANCE RequestSession WITH asked <- HonestMessages, replied <- HonestReplies

(* As long as frames are honest, the pipes, the framing and the loop are to *)
(* the client a session that answers in order.                              *)
ImplementsSession == Session!Spec
=============================================================================
