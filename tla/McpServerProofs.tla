--------------------------- MODULE McpServerProofs ---------------------------
(***************************************************************************)
(* What the server answers to a client that frames its messages in any way *)
(* whatever, for frames with any headers and any declared length, sessions *)
(* and pipes of any size.  The invariant is about the units still to be    *)
(* read, in the pipe and with the client: bodies lie in them in the order  *)
(* of their frames, and behind every answer that has been decided.         *)
(*                                                                         *)
(* The second part shows that the server implements the session a client   *)
(* may rely on.  Its invariant says where the server is in the stream:     *)
(* following frames that have all told the truth about themselves, lost    *)
(* behind one that has not, or at its end.                                 *)
(***************************************************************************)
EXTENDS McpServer, SequenceTheorems, WellFoundedInduction, TLAPS

Units == [kind : {"head", "tail", "blank", "body"}, line : HeaderLines \cup {"none"},
          of : Nat, part : Nat]

Replies == {Silent, ParseError} \cup {Answer(n, m) : n \in Nat, m \in AllMessages}

\* The units the server has not read.
Rest == stdin \o unsent

TypeOK ==
  /\ sent \in Seq(Frames) /\ unsent \in Seq(Units) /\ stdin \in Seq(Units)
  /\ received \in Seq(Replies) /\ stdout \in Seq(Replies) /\ reply \in Replies
  /\ contentLength \in Nat \cup {None}
  /\ pc \in {"header", "body", "write", "exited", "failed"}
  /\ pc = "body" => contentLength # None
  /\ pc # "write" => reply = Silent

Bodies(units) == {j \in 1..Len(units) : units[j].kind = "body"}

Before(u, v) ==
  \/ u.of < v.of
  \/ u.of = v.of /\ u.part < v.part

\* Units of bodies are in order, and the last unit not written ends its frame.
InOrder ==
  /\ \A j \in Bodies(Rest) :
       Rest[j].of \in 1..Len(sent) /\ Rest[j].part \in 1..BodySize
  /\ \A j, k \in Bodies(Rest) : j < k => Before(Rest[j], Rest[k])
  /\ unsent # <<>> =>
       /\ Len(sent) > 0
       /\ unsent[Len(unsent)] = Unit("body", "none", Len(sent), BodySize)

\* An answer is to a message of the session, all of whose body has been read.
Answers(answer) ==
  answer.id # None =>
    /\ answer.id \in 1..Len(sent)
    /\ answer = Answer(answer.id, sent[answer.id].message)
    /\ \A j \in Bodies(Rest) : answer.id < Rest[j].of

Answered ==
  /\ \A j \in 1..Len(Given) : Answers(Given[j])
  /\ Answers(reply)
  /\ \A j, k \in 1..Len(Given) :
       j < k /\ Given[j].id # None /\ Given[k].id # None => Given[j].id < Given[k].id
  /\ \A j \in 1..Len(Given) : Given[j].id # None /\ reply.id # None => Given[j].id < reply.id

ServerInv == TypeOK /\ InOrder /\ Answered

-----------------------------------------------------------------------------
(* A set of numbers that is not empty has a least element. *)
LEMMA LeastElement ==
  ASSUME NEW S \in SUBSET Nat, S # {}
  PROVE  \E n \in S : \A m \in S : n <= m
<1> DEFINE R == OpToRel(<, Nat)
<1>1. \A x, y \in Nat : <<x, y>> \in R <=> x < y
  BY DEF OpToRel
<1>2. IsWellFoundedOn(R, Nat)
  BY NatLessThanWellFounded
<1> HIDE DEF R
<1>3. PICK n \in S : \A m \in S : ~ (<<m, n>> \in R)
  BY <1>2, WFMin
<1>4. ASSUME NEW m \in S PROVE n <= m
  <2>1. m \in Nat /\ n \in Nat /\ ~ (<<m, n>> \in R)
    BY <1>3
  <2>2. ~ (m < n)
    BY <1>1, <2>1
  <2> QED
    BY <2>1, <2>2
<1> QED
  BY <1>4

LEMMA ConcatParts ==
  ASSUME NEW S, NEW s \in Seq(S), NEW t \in Seq(S)
  PROVE  /\ s \o t \in Seq(S) /\ Len(s) \in Nat /\ Len(t) \in Nat
         /\ Len(s \o t) = Len(s) + Len(t)
         /\ \A k \in 1..Len(s) : (s \o t)[k] = s[k]
         /\ \A k \in 1..Len(t) : (s \o t)[Len(s) + k] = t[k]
  BY ConcatProperties, LenProperties

LEMMA ThreeParts ==
  ASSUME NEW S, NEW r \in Seq(S), NEW s \in Seq(S), NEW t \in Seq(S)
  PROVE  LET whole == r \o s \o t
         IN  /\ whole \in Seq(S) /\ Len(whole) = Len(r) + Len(s) + Len(t)
             /\ \A k \in 1..Len(r) : whole[k] = r[k]
             /\ \A k \in 1..Len(s) : whole[Len(r) + k] = s[k]
             /\ \A k \in 1..Len(t) : whole[Len(r) + Len(s) + k] = t[k]
<1>1. /\ r \o s \in Seq(S) /\ Len(r \o s) = Len(r) + Len(s)
      /\ Len(r) \in Nat /\ Len(s) \in Nat /\ Len(t) \in Nat
      /\ \A k \in 1..Len(r) : (r \o s)[k] = r[k]
      /\ \A k \in 1..Len(s) : (r \o s)[Len(r) + k] = s[k]
  BY ConcatParts
<1> DEFINE front == r \o s
<1> HIDE DEF front
<1>2. front \in Seq(S)
  BY <1>1 DEF front
<1>3. /\ front \o t \in Seq(S) /\ Len(front \o t) = Len(front) + Len(t)
      /\ \A k \in 1..Len(front) : (front \o t)[k] = front[k]
      /\ \A k \in 1..Len(t) : (front \o t)[Len(front) + k] = t[k]
  BY <1>2, ConcatParts
<1>4. /\ Len(front) = Len(r) + Len(s)
      /\ \A k \in 1..Len(r) : front[k] = r[k]
      /\ \A k \in 1..Len(s) : front[Len(r) + k] = s[k]
  BY <1>1 DEF front
<1>5. /\ \A k \in 1..Len(r) : (front \o t)[k] = r[k]
      /\ \A k \in 1..Len(s) : (front \o t)[Len(r) + k] = s[k]
  BY <1>1, <1>3, <1>4
<1> QED
  BY <1>3, <1>4, <1>5 DEF front

LEMMA FrameShape ==
  ASSUME NEW frame \in Frames
  PROVE  /\ frame.message \in AllMessages /\ frame.declared \in Nat
         /\ frame.headers \in Seq(HeaderLines) /\ Len(frame.headers) \in Nat
  BY FramesAssumption, LenProperties

(* The units of a frame: the halves of its header lines, the empty line,    *)
(* none of them a body, and behind them the parts of the body in order.     *)
LEMMA LinesOfFrame ==
  ASSUME NEW frame \in Frames, NEW number \in Nat
  PROVE  LET units == UnitsOf(number, frame)
             start == 2 * Len(frame.headers) + 1
         IN  /\ units \in Seq(Units) /\ Len(units) = start + BodySize
             /\ \A line \in 1..Len(frame.headers) :
                  /\ units[2 * line - 1] = Unit("head", frame.headers[line], number, 0)
                  /\ units[2 * line] = Unit("tail", frame.headers[line], number, frame.declared)
             /\ units[start] = Blank
             /\ \A j \in 1..start : units[j].kind # "body"
             /\ \A part \in 1..BodySize :
                  units[start + part] = Unit("body", "none", number, part)
<1> DEFINE lines == Len(frame.headers)
           Header(j) == frame.headers[(j + 1) \div 2]
           Part(j) == IF j % 2 = 1 THEN Unit("head", Header(j), number, 0)
                                   ELSE Unit("tail", Header(j), number, frame.declared)
           headers == [j \in 1..(2 * lines) |-> Part(j)]
           body == [part \in 1..BodySize |-> Unit("body", "none", number, part)]
<1>1. lines \in Nat /\ frame.declared \in Nat /\ frame.headers \in Seq(HeaderLines)
  BY FrameShape
<1>2. ASSUME NEW j \in 1..(2 * lines)
      PROVE  Part(j) \in Units /\ Part(j).kind # "body"
  <2>1. (j + 1) \div 2 \in 1..lines
    BY <1>1
  <2>2. Header(j) \in HeaderLines
    BY <1>1, <2>1, ElementOfSeq
  <2> HIDE DEF Header
  <2> QED
    BY <1>1, <2>2 DEF Unit, Units
<1>3. Blank \in Units /\ Blank.kind = "blank"
  BY DEF Blank, Unit, Units
<1>4. \A part \in 1..BodySize : Unit("body", "none", number, part) \in Units
  BY DEF Unit, Units, BodySize
<1> HIDE DEF Part, lines
<1>5. /\ headers \in Seq(Units) /\ Len(headers) = 2 * lines
      /\ \A j \in 1..(2 * lines) : headers[j] = Part(j)
  BY <1>1, <1>2
<1>6. /\ body \in Seq(Units) /\ Len(body) = BodySize
      /\ \A part \in 1..BodySize : body[part] = Unit("body", "none", number, part)
  BY <1>4 DEF BodySize
<1>7. /\ <<Blank>> \in Seq(Units) /\ Len(<<Blank>>) = 1 /\ <<Blank>>[1] = Blank
  BY <1>3
<1>8. UnitsOf(number, frame) = headers \o <<Blank>> \o body
  BY DEF UnitsOf, Part, lines
<1> HIDE DEF headers, body
<1>9. PICK h \in Seq(Units), b \in Seq(Units), e \in Seq(Units) :
        h = headers /\ b = body /\ e = <<Blank>>
  BY <1>5, <1>6, <1>7
<1> DEFINE whole == h \o e \o b
<1>10. /\ whole \in Seq(Units) /\ Len(whole) = Len(h) + Len(e) + Len(b)
       /\ \A k \in 1..Len(h) : whole[k] = h[k]
       /\ \A k \in 1..Len(e) : whole[Len(h) + k] = e[k]
       /\ \A k \in 1..Len(b) : whole[Len(h) + Len(e) + k] = b[k]
  BY ThreeParts
<1> HIDE DEF whole
<1>11. /\ Len(h) = 2 * lines /\ \A k \in 1..(2 * lines) : h[k] = Part(k)
       /\ Len(e) = 1 /\ e[1] = Blank
       /\ Len(b) = BodySize
       /\ \A part \in 1..BodySize : b[part] = Unit("body", "none", number, part)
  BY <1>5, <1>6, <1>7, <1>9
<1>12. UnitsOf(number, frame) = whole
  BY <1>8, <1>9 DEF whole
<1>13. /\ whole[2 * lines + 1] = Blank
       /\ \A j \in 1..(2 * lines) : whole[j] = Part(j)
       /\ Len(whole) = 2 * lines + 1 + BodySize
       /\ \A part \in 1..BodySize : whole[2 * lines + 1 + part] = b[part]
  BY <1>10, <1>11
<1>14. ASSUME NEW j \in 1..(2 * lines + 1)
       PROVE  whole[j].kind # "body"
  <2>1. CASE j = 2 * lines + 1
    BY <1>3, <1>13, <2>1
  <2>2. CASE j \in 1..(2 * lines)
    BY <1>2, <1>13, <2>2
  <2> QED
    BY <1>1, <2>1, <2>2
<1>15. ASSUME NEW line \in 1..lines
       PROVE  /\ whole[2 * line - 1] = Unit("head", frame.headers[line], number, 0)
              /\ whole[2 * line] = Unit("tail", frame.headers[line], number, frame.declared)
  <2>1. /\ 2 * line - 1 \in 1..(2 * lines) /\ (2 * line - 1) % 2 = 1
        /\ ((2 * line - 1) + 1) \div 2 = line
        /\ 2 * line \in 1..(2 * lines) /\ (2 * line) % 2 = 0
        /\ (2 * line + 1) \div 2 = line
    BY <1>1
  <2>2. whole[2 * line - 1] = Part(2 * line - 1) /\ whole[2 * line] = Part(2 * line)
    BY <1>13, <2>1
  <2>3. Header(2 * line - 1) = frame.headers[line] /\ Header(2 * line) = frame.headers[line]
    BY <2>1
  <2> HIDE DEF Header
  <2>4. /\ Part(2 * line - 1) = Unit("head", Header(2 * line - 1), number, 0)
        /\ Part(2 * line) = Unit("tail", Header(2 * line), number, frame.declared)
    BY <2>1 DEF Part
  <2> QED
    BY <2>2, <2>3, <2>4
<1> QED
  BY <1>14, <1>15, <1>10, <1>11, <1>12, <1>13 DEF lines

LEMMA UnitsOfFrame ==
  ASSUME NEW frame \in Frames, NEW number \in Nat
  PROVE  LET units == UnitsOf(number, frame)
             start == 2 * Len(frame.headers) + 1
         IN  /\ units \in Seq(Units) /\ Len(units) = start + BodySize
             /\ \A j \in 1..start : units[j].kind # "body"
             /\ \A part \in 1..BodySize :
                  units[start + part] = Unit("body", "none", number, part)
BY LinesOfFrame

LEMMA RestShape ==
  ASSUME TypeOK
  PROVE  /\ Rest \in Seq(Units) /\ Len(Rest) = Len(stdin) + Len(unsent)
         /\ Len(stdin) \in Nat /\ Len(unsent) \in Nat /\ Len(Rest) \in Nat
         /\ \A k \in 1..Len(stdin) : Rest[k] = stdin[k]
         /\ \A k \in 1..Len(unsent) : Rest[Len(stdin) + k] = unsent[k]
         /\ \A k \in 1..Len(Rest) : Rest[k] \in Units
<1>1. stdin \in Seq(Units) /\ unsent \in Seq(Units)
  BY DEF TypeOK
<1>2. /\ Rest \in Seq(Units) /\ Len(Rest) = Len(stdin) + Len(unsent)
      /\ Len(stdin) \in Nat /\ Len(unsent) \in Nat
      /\ \A k \in 1..Len(stdin) : Rest[k] = stdin[k]
      /\ \A k \in 1..Len(unsent) : Rest[Len(stdin) + k] = unsent[k]
  BY <1>1, ConcatParts DEF Rest
<1> QED
  BY <1>2, ElementOfSeq

\* What reading does: it takes units from the front.
Reads(m) ==
  /\ m \in 0..Len(stdin) /\ stdin' = SubSeq(stdin, m + 1, Len(stdin))
  /\ UNCHANGED <<sent, unsent>>

LEMMA RestAfterReading ==
  ASSUME TypeOK, NEW m, Reads(m)
  PROVE  /\ m \in Nat /\ stdin' \in Seq(Units) /\ Len(Rest') = Len(Rest) - m
         /\ \A k \in 1..Len(Rest') : Rest'[k] = Rest[k + m] /\ k + m \in 1..Len(Rest)
<1>1. /\ stdin \in Seq(Units) /\ unsent \in Seq(Units) /\ Len(stdin) \in Nat
      /\ Len(unsent) \in Nat /\ m \in 0..Len(stdin) /\ unsent' = unsent
  BY LenProperties DEF TypeOK, Reads
<1>2. /\ stdin' \in Seq(Units) /\ Len(stdin') = Len(stdin) - m
      /\ \A k \in 1..Len(stdin') : stdin'[k] = stdin[k + m]
  <2>1. m + 1 \in 1..(Len(stdin) + 1) /\ Len(stdin) \in m..Len(stdin)
    BY <1>1
  <2>2. CASE m = Len(stdin)
    <3>1. stdin' = <<>>
      BY <1>1, <2>2, SubSeqEmpty DEF Reads
    <3> QED
      BY <1>1, <2>2, <3>1, EmptySeq
  <2>3. CASE m < Len(stdin)
    BY <1>1, <2>3, SubSeqProperties DEF Reads
  <2> QED
    BY <1>1, <2>2, <2>3
<1>3. /\ Rest' = stdin' \o unsent /\ Len(Rest') = Len(stdin') + Len(unsent)
      /\ \A k \in 1..Len(stdin') : Rest'[k] = stdin'[k]
      /\ \A k \in 1..Len(unsent) : Rest'[Len(stdin') + k] = unsent[k]
  <2>1. /\ stdin' \in Seq(Units) /\ unsent \in Seq(Units) /\ Rest' = stdin' \o unsent
    BY <1>1, <1>2 DEF Rest
  <2> QED
    BY <2>1, ConcatParts
<1>4. /\ Len(Rest) = Len(stdin) + Len(unsent)
      /\ \A k \in 1..Len(stdin) : Rest[k] = stdin[k]
      /\ \A k \in 1..Len(unsent) : Rest[Len(stdin) + k] = unsent[k]
  BY RestShape
<1>5. Len(Rest') = Len(Rest) - m
  BY <1>1, <1>2, <1>3, <1>4
<1>6. ASSUME NEW k \in 1..Len(Rest')
      PROVE  Rest'[k] = Rest[k + m] /\ k + m \in 1..Len(Rest)
  <2>1. CASE k \in 1..Len(stdin')
    BY <1>1, <1>2, <1>3, <1>4, <2>1
  <2>2. CASE k \notin 1..Len(stdin')
    <3> DEFINE j == k - Len(stdin')
    <3>1. /\ j \in 1..Len(unsent) /\ Len(stdin') + j = k /\ Len(stdin) + j = k + m
      BY <1>1, <1>2, <1>3, <2>2
    <3> HIDE DEF j
    <3>2. Rest'[k] = unsent[j] /\ Rest[k + m] = unsent[j]
      BY <1>3, <1>4, <3>1
    <3>3. k + m \in 1..Len(Rest)
      BY <1>1, <1>2, <1>4, <1>5
    <3> QED
      BY <3>2, <3>3
  <2> QED
    BY <2>1, <2>2
<1> QED
  BY <1>1, <1>2, <1>5, <1>6

(* Reading disturbs neither the order of what is left nor an answer.        *)
LEMMA ReadingKeepsOrder ==
  ASSUME TypeOK, InOrder, NEW m, Reads(m)
  PROVE  /\ InOrder'
         /\ \A answer : Answers(answer) => Answers(answer)'
<1>1. /\ m \in Nat /\ Len(Rest') = Len(Rest) - m /\ Len(Rest) \in Nat
      /\ \A k \in 1..Len(Rest') : Rest'[k] = Rest[k + m] /\ k + m \in 1..Len(Rest)
      /\ UNCHANGED <<sent, unsent>>
  BY RestAfterReading, RestShape DEF Reads
<1>2. ASSUME NEW k \in Bodies(Rest')
      PROVE  k \in 1..Len(Rest') /\ k + m \in Bodies(Rest) /\ Rest'[k] = Rest[k + m]
  BY <1>1 DEF Bodies
<1>3. \A j, k \in Bodies(Rest') : j < k => Before(Rest'[j], Rest'[k])
  <2> SUFFICES ASSUME NEW j \in Bodies(Rest'), NEW k \in Bodies(Rest'), j < k
               PROVE  Before(Rest'[j], Rest'[k])
    OBVIOUS
  <2>1. j + m < k + m
    BY <1>1, <1>2
  <2> QED
    BY <1>2, <2>1 DEF InOrder
<1>4. InOrder'
  BY <1>1, <1>2, <1>3 DEF InOrder, Before
<1>5. ASSUME NEW answer, Answers(answer)
      PROVE  Answers(answer)'
  BY <1>1, <1>2, <1>5 DEF Answers
<1> QED
  BY <1>4, <1>5

LEMMA GivenShape ==
  ASSUME TypeOK
  PROVE  Given \in Seq(Replies) /\ Len(Given) \in Nat
BY ConcatProperties, LenProperties DEF TypeOK, Given

\* Steps that neither decide nor write an answer.
LEMMA AnswersKept ==
  ASSUME Answered, Given' = Given, reply' = reply,
         \A answer : Answers(answer) => Answers(answer)'
  PROVE  Answered'
<1>1. \A j \in 1..Len(Given) : Answers(Given[j])'
  BY DEF Answered, Answers
<1>2. Answers(reply)'
  BY DEF Answered, Answers
<1> QED
  BY <1>1, <1>2 DEF Answered

-----------------------------------------------------------------------------
LEMMA RepliesShape ==
  /\ Silent \in Replies /\ ParseError \in Replies
  /\ Silent.id = None /\ ParseError.id = None
  /\ \A n \in Nat, m \in AllMessages :
       Answer(n, m) \in Replies /\ (Answer(n, m).id # None => Answer(n, m).id = n)
BY DEF Replies, Silent, ParseError, Answer

LEMMA InvInit == Init => ServerInv
<1> SUFFICES ASSUME Init PROVE ServerInv
  OBVIOUS
<1>1. /\ sent = <<>> /\ unsent = <<>> /\ received = <<>> /\ stdin = <<>> /\ stdout = <<>>
      /\ contentLength = None /\ reply = Silent /\ pc = "header"
  BY DEF Init
<1>2. /\ <<>> \in Seq(Frames) /\ <<>> \in Seq(Units) /\ <<>> \in Seq(Replies)
      /\ Len(<<>>) = 0
  BY EmptySeq
<1>3. TypeOK
  BY <1>1, <1>2, RepliesShape DEF TypeOK
<1>4. Len(Rest) = 0 /\ Len(Given) = 0
  <2>1. Len(Rest) = Len(stdin) + Len(unsent)
    BY <1>3, RestShape
  <2>2. Given = <<>> \o <<>>
    BY <1>1 DEF Given
  <2> QED
    BY <1>1, <1>2, <2>1, <2>2
<1>5. InOrder
  BY <1>1, <1>4 DEF InOrder, Bodies
<1>6. Answered
  BY <1>1, <1>4, RepliesShape DEF Answered, Answers
<1> QED
  BY <1>3, <1>5, <1>6 DEF ServerInv

\* The client.
LEMMA BeginFrameKeepsInv ==
  ASSUME ServerInv, BeginFrame
  PROVE  ServerInv'
<1>1. PICK frame \in Frames :
        sent' = Append(sent, frame) /\ unsent' = UnitsOf(Len(sent) + 1, frame)
  BY DEF BeginFrame
<1>2. /\ TypeOK /\ InOrder /\ Answered /\ unsent = <<>>
      /\ UNCHANGED <<received, stdin, stdout, contentLength, reply, pc>>
  BY DEF ServerInv, BeginFrame, server
<1> DEFINE number == Len(sent) + 1
           start == 2 * Len(frame.headers) + 1
<1>3. /\ Len(sent) \in Nat /\ number \in Nat
      /\ sent' \in Seq(Frames) /\ Len(sent') = number
      /\ \A k \in 1..Len(sent) : sent'[k] = sent[k]
  BY <1>1, <1>2, AppendProperties, LenProperties DEF TypeOK
<1>4. /\ unsent' \in Seq(Units) /\ Len(unsent') = start + BodySize /\ start \in Nat
      /\ \A j \in 1..start : unsent'[j].kind # "body"
      /\ \A part \in 1..BodySize : unsent'[start + part] = Unit("body", "none", number, part)
  <2>1. Len(frame.headers) \in Nat
    BY FrameShape
  <2> HIDE DEF number
  <2>2. unsent' = UnitsOf(number, frame)
    BY <1>1 DEF number
  <2>3. LET units == UnitsOf(number, frame)
        IN  /\ units \in Seq(Units) /\ Len(units) = start + BodySize
            /\ \A j \in 1..start : units[j].kind # "body"
            /\ \A part \in 1..BodySize :
                 units[start + part] = Unit("body", "none", number, part)
    BY <1>3, UnitsOfFrame
  <2> QED
    BY <2>1, <2>2, <2>3
<1> HIDE DEF number, start
<1>5. TypeOK'
  BY <1>2, <1>3, <1>4 DEF TypeOK
<1>6. /\ Len(Rest) = Len(stdin) /\ Len(stdin) \in Nat
      /\ \A k \in 1..Len(stdin) : Rest[k] = stdin[k]
  <2>1. Len(unsent) = 0
    BY <1>2, EmptySeq
  <2> QED
    BY <1>2, <2>1, RestShape
<1>7. /\ Len(Rest') = Len(stdin) + Len(unsent')
      /\ \A k \in 1..Len(stdin) : Rest'[k] = stdin[k]
      /\ \A k \in 1..Len(unsent') : Rest'[Len(stdin) + k] = unsent'[k]
  <2>1. stdin \in Seq(Units) /\ unsent' \in Seq(Units) /\ Rest' = stdin \o unsent'
    BY <1>2, <1>4 DEF Rest, TypeOK
  <2> QED
    BY <2>1, ConcatParts
<1>8. ASSUME NEW j \in Bodies(Rest')
      PROVE  \/ j \in Bodies(Rest) /\ Rest'[j] = Rest[j] /\ j <= Len(stdin)
             \/ \E part \in 1..BodySize :
                  j = Len(stdin) + (start + part) /\ Rest'[j] = Unit("body", "none", number, part)
  <2>1. j \in 1..Len(Rest') /\ Rest'[j].kind = "body"
    BY <1>8 DEF Bodies
  <2>2. CASE j <= Len(stdin)
    BY <1>6, <1>7, <2>1, <2>2 DEF Bodies
  <2>3. CASE ~(j <= Len(stdin))
    <3>1. PICK k \in 1..Len(unsent') : j = Len(stdin) + k
      <4>1. Len(unsent') \in Nat /\ Len(Rest') = Len(stdin) + Len(unsent') /\ Len(stdin) \in Nat
        BY <1>4, <1>6, <1>7 DEF BodySize
      <4>2. j - Len(stdin) \in 1..Len(unsent') /\ j = Len(stdin) + (j - Len(stdin))
        BY <2>1, <2>3, <4>1
      <4> QED
        BY <4>2
    <3>2. Rest'[j] = unsent'[k] /\ k \notin 1..start
      BY <1>4, <1>7, <2>1, <3>1
    <3>3. PICK part \in 1..BodySize : k = start + part
      BY <1>4, <3>2 DEF BodySize
    <3> QED
      BY <1>4, <3>1, <3>2, <3>3
  <2> QED
    BY <2>2, <2>3
<1>9. ASSUME NEW part \in 1..BodySize
      PROVE  LET unit == Unit("body", "none", number, part)
             IN  unit.of = number /\ unit.part = part
  BY DEF Unit
<1>10. ASSUME NEW j \in Bodies(Rest')
       PROVE  Rest'[j].of \in 1..Len(sent') /\ Rest'[j].part \in 1..BodySize
  BY <1>2, <1>3, <1>8, <1>9 DEF InOrder, number
<1>11. ASSUME NEW j \in Bodies(Rest'), NEW k \in Bodies(Rest'), j < k
       PROVE  Before(Rest'[j], Rest'[k])
  <2>1. CASE j \in Bodies(Rest) /\ k \in Bodies(Rest) /\ Rest'[j] = Rest[j] /\ Rest'[k] = Rest[k]
    BY <1>2, <1>11, <2>1 DEF InOrder
  <2>2. CASE /\ j \in Bodies(Rest) /\ Rest'[j] = Rest[j]
             /\ \E part \in 1..BodySize : Rest'[k] = Unit("body", "none", number, part)
    <3>1. Rest'[j].of \in 1..Len(sent) /\ Rest'[k].of = number
      BY <1>2, <1>9, <2>2 DEF InOrder
    <3> QED
      BY <1>3, <3>1 DEF Before, number
  <2>3. CASE \E part, other \in 1..BodySize :
               /\ j = Len(stdin) + (start + part) /\ Rest'[j] = Unit("body", "none", number, part)
               /\ k = Len(stdin) + (start + other) /\ Rest'[k] = Unit("body", "none", number, other)
    <3>1. PICK part \in 1..BodySize, other \in 1..BodySize :
               /\ j = Len(stdin) + (start + part) /\ Rest'[j] = Unit("body", "none", number, part)
               /\ k = Len(stdin) + (start + other) /\ Rest'[k] = Unit("body", "none", number, other)
      BY <2>3
    <3>2. part < other
      BY <1>4, <1>6, <1>11, <3>1 DEF BodySize
    <3> QED
      BY <1>9, <3>1, <3>2 DEF Before
  <2> DEFINE Old(i) == i \in Bodies(Rest) /\ Rest'[i] = Rest[i] /\ i <= Len(stdin)
             New(i) == \E part \in 1..BodySize :
                         i = Len(stdin) + (start + part) /\ Rest'[i] = Unit("body", "none", number, part)
  <2>4. (Old(j) \/ New(j)) /\ (Old(k) \/ New(k))
    BY <1>8
  <2>5. ~ (New(j) /\ Old(k))
    <3> SUFFICES ASSUME New(j), Old(k) PROVE FALSE
      OBVIOUS
    <3>1. PICK part \in 1..BodySize : j = Len(stdin) + (start + part)
      OBVIOUS
    <3>2. j > Len(stdin)
      BY <1>4, <1>6, <3>1 DEF BodySize
    <3>3. k <= Len(stdin) /\ k \in Nat /\ j \in Nat
      BY <1>4, <1>6, <3>1 DEF Bodies, BodySize
    <3> QED
      BY <1>6, <1>11, <3>2, <3>3
  <2> QED
    BY <2>1, <2>2, <2>3, <2>4, <2>5
<1>12. InOrder'
  <2>1. unsent'[Len(unsent')] = Unit("body", "none", Len(sent'), BodySize)
    BY <1>3, <1>4 DEF BodySize
  <2> QED
    BY <1>3, <1>10, <1>11, <2>1 DEF InOrder, number
<1>13. ASSUME NEW answer, Answers(answer)
       PROVE  Answers(answer)'
  <2> SUFFICES ASSUME answer.id # None
               PROVE  /\ answer.id \in 1..Len(sent')
                      /\ answer = Answer(answer.id, sent'[answer.id].message)
                      /\ \A j \in Bodies(Rest') : answer.id < Rest'[j].of
    BY DEF Answers
  <2>1. /\ answer.id \in 1..Len(sent) /\ answer = Answer(answer.id, sent[answer.id].message)
        /\ \A j \in Bodies(Rest) : answer.id < Rest[j].of
    BY <1>13 DEF Answers
  <2>2. \A j \in Bodies(Rest') : answer.id < Rest'[j].of
    BY <1>3, <1>8, <1>9, <2>1 DEF number
  <2> QED
    BY <1>3, <2>1, <2>2 DEF number
<1>14. Answered'
  BY <1>2, <1>13, AnswersKept DEF Given
<1> QED
  BY <1>5, <1>12, <1>14 DEF ServerInv

(* A unit that is written is one the server has yet to read, as before.     *)
LEMMA WritingKeepsRest ==
  ASSUME TypeOK, WriteUnit
  PROVE  /\ stdin' \in Seq(Units) /\ unsent' \in Seq(Units) /\ Rest' = Rest
         /\ Len(unsent) \in Nat \ {0} /\ Len(unsent') = Len(unsent) - 1
         /\ unsent' # <<>> => unsent'[Len(unsent')] = unsent[Len(unsent)]
<1>1. /\ unsent # <<>> /\ stdin' = Append(stdin, Head(unsent)) /\ unsent' = Tail(unsent)
  BY DEF WriteUnit
<1>2. /\ Head(unsent) = unsent[1] /\ Head(unsent) \in Units
      /\ unsent' \in Seq(Units) /\ Len(unsent') = Len(unsent) - 1 /\ Len(unsent) \in Nat \ {0}
      /\ \A k \in 1..Len(unsent') : unsent'[k] = unsent[k + 1]
  BY <1>1, HeadTailProperties, LenProperties, EmptySeq DEF TypeOK
<1>3. /\ stdin' \in Seq(Units) /\ Len(stdin') = Len(stdin) + 1 /\ Len(stdin) \in Nat
      /\ \A k \in 1..Len(stdin) : stdin'[k] = stdin[k]
      /\ stdin'[Len(stdin) + 1] = unsent[1]
  BY <1>1, <1>2, AppendProperties, LenProperties DEF TypeOK
<1>4. Rest' = Rest
  <2>1. /\ Rest \in Seq(Units) /\ Rest' \in Seq(Units) /\ Len(Rest') = Len(Rest)
        /\ Len(Rest) = Len(stdin) + Len(unsent)
    BY <1>1, <1>2, <1>3, ConcatProperties DEF Rest, TypeOK
  <2>2. ASSUME NEW k \in 1..Len(Rest)
        PROVE  Rest'[k] = Rest[k]
    BY <1>1, <1>2, <1>3, <2>1, ConcatProperties DEF Rest, TypeOK
  <2> QED
    BY <2>1, <2>2, SeqEqual
<1>5. unsent' # <<>> => unsent'[Len(unsent')] = unsent[Len(unsent)]
  <2>1. ASSUME unsent' # <<>> PROVE Len(unsent') \in 1..Len(unsent')
    BY <1>2, <2>1, EmptySeq
  <2> QED
    BY <1>2, <2>1
<1> QED
  BY <1>2, <1>3, <1>4, <1>5

LEMMA WriteUnitKeepsInv ==
  ASSUME ServerInv, WriteUnit
  PROVE  ServerInv'
<1>1. /\ TypeOK /\ InOrder /\ Answered /\ unsent # <<>>
      /\ UNCHANGED <<sent, received, stdout, contentLength, reply, pc>>
  BY DEF ServerInv, WriteUnit, server
<1>2. /\ stdin' \in Seq(Units) /\ unsent' \in Seq(Units) /\ Rest' = Rest
      /\ unsent' # <<>> => unsent'[Len(unsent')] = unsent[Len(unsent)]
  BY <1>1, WritingKeepsRest
<1>3. TypeOK'
  BY <1>1, <1>2 DEF TypeOK
<1>4. InOrder'
  BY <1>1, <1>2 DEF InOrder
<1>5. Answered'
  BY <1>1, <1>2, AnswersKept DEF Answers, Given
<1> QED
  BY <1>3, <1>4, <1>5 DEF ServerInv

(* Reading a reply leaves what has been given as it is.                     *)
LEMMA ReceivingKeepsGiven ==
  ASSUME TypeOK, Receive
  PROVE  received' \in Seq(Replies) /\ stdout' \in Seq(Replies) /\ Given' = Given
<1>1. /\ stdout \in Seq(Replies) /\ received \in Seq(Replies) /\ stdout # <<>>
      /\ received' = Append(received, Head(stdout)) /\ stdout' = Tail(stdout)
  BY DEF Receive, TypeOK
<1>2. /\ Head(stdout) \in Replies /\ Head(stdout) = stdout[1]
      /\ stdout' \in Seq(Replies) /\ Len(stdout') = Len(stdout) - 1
      /\ Len(stdout) \in Nat \ {0}
      /\ \A k \in 1..Len(stdout') : stdout'[k] = stdout[k + 1]
  BY <1>1, HeadTailProperties, LenProperties, EmptySeq
<1>3. /\ received' \in Seq(Replies) /\ Len(received') = Len(received) + 1
      /\ Len(received) \in Nat
      /\ \A k \in 1..Len(received) : received'[k] = received[k]
      /\ received'[Len(received) + 1] = stdout[1]
  BY <1>1, <1>2, AppendProperties, LenProperties
<1>4. /\ Given \in Seq(Replies) /\ Given' \in Seq(Replies) /\ Len(Given') = Len(Given)
      /\ Len(Given) = Len(received) + Len(stdout)
  BY <1>1, <1>2, <1>3, ConcatProperties DEF Given
<1>5. ASSUME NEW k \in 1..Len(Given)
      PROVE  Given'[k] = Given[k]
  BY <1>1, <1>2, <1>3, <1>4, ConcatProperties DEF Given
<1> QED
  BY <1>2, <1>3, <1>4, <1>5, SeqEqual

LEMMA RestOfClientKeepsInv ==
  ASSUME ServerInv, Close \/ HangUp \/ Receive
  PROVE  ServerInv'
<1>1. /\ TypeOK /\ InOrder /\ Answered
      /\ UNCHANGED <<sent, unsent, stdin, contentLength, reply, pc>>
  BY DEF ServerInv, Close, HangUp, Receive, server
<1>2. /\ received' \in Seq(Replies) /\ stdout' \in Seq(Replies)
      /\ Given' = Given
  <2>1. CASE Close \/ HangUp
    BY <1>1, <2>1 DEF Close, HangUp, TypeOK, Given
  <2>2. CASE Receive
    BY <1>1, <2>2, ReceivingKeepsGiven
  <2> QED
    BY <2>1, <2>2
<1>3. TypeOK'
  BY <1>1, <1>2 DEF TypeOK
<1>4. Rest' = Rest
  BY <1>1 DEF Rest
<1>5. InOrder'
  BY <1>1, <1>4 DEF InOrder
<1>6. Answered'
  BY <1>1, <1>2, <1>4, AnswersKept DEF Answers
<1> QED
  BY <1>3, <1>5, <1>6 DEF ServerInv

-----------------------------------------------------------------------------
\* The server reads.
(* The line that is read ends at the first end of a line in the pipe.       *)
LEMMA LineEndIsFirst ==
  ASSUME stdin \in Seq(Units), LineEnds # {}
  PROVE  /\ LineEnd \in 1..Len(stdin) /\ LineEnd \in LineEnds
         /\ \A j \in LineEnds : LineEnd <= j
<1>1. LineEnds \in SUBSET Nat
  BY LenProperties DEF LineEnds
<1>2. \E j \in LineEnds : \A other \in LineEnds : j <= other
  BY <1>1, LeastElement
<1>3. LineEnd \in LineEnds /\ \A other \in LineEnds : LineEnd <= other
  BY <1>2 DEF LineEnd
<1> QED
  BY <1>3 DEF LineEnds

\* A step that reads and has nothing to answer.
LEMMA SilentReadingKeepsInv ==
  ASSUME ServerInv, NEW m, Reads(m), UNCHANGED <<received, stdout, reply>>,
         contentLength' \in Nat \cup {None},
         pc' \in {"header", "body", "exited", "failed"}, reply = Silent,
         pc' = "body" => contentLength' # None
  PROVE  ServerInv'
<1>1. TypeOK /\ InOrder /\ Answered
  BY DEF ServerInv
<1>2. stdin' \in Seq(Units) /\ UNCHANGED <<sent, unsent>>
  BY <1>1, RestAfterReading DEF Reads
<1>3. TypeOK'
  BY <1>1, <1>2 DEF TypeOK
<1>4. InOrder' /\ \A answer : Answers(answer) => Answers(answer)'
  BY <1>1, ReadingKeepsOrder
<1>5. Answered'
  <2>1. Given' = Given
    BY DEF Given
  <2> QED
    BY <1>1, <1>4, <2>1, AnswersKept
<1> QED
  BY <1>3, <1>4, <1>5 DEF ServerInv

LEMMA ReadLineKeepsInv ==
  ASSUME ServerInv, ReadLine
  PROVE  ServerInv'
<1>1. /\ TypeOK /\ stdin \in Seq(Units) /\ pc = "header" /\ LineEnds # {} /\ reply = Silent
      /\ contentLength \in Nat \cup {None}
  BY DEF ServerInv, TypeOK, ReadLine
<1>2. LineEnd \in 1..Len(stdin) /\ Len(stdin) \in Nat
  BY <1>1, LineEndIsFirst, LenProperties
<1> DEFINE line == SubSeq(stdin, 1, LineEnd)
<1>3. /\ line \in Seq(Units) /\ Len(line) = LineEnd
  BY <1>1, <1>2, SubSeqProperties
<1>4. /\ UNCHANGED <<sent, unsent, received, stdout, reply>>
      /\ stdin' = SubSeq(stdin, LineEnd + 1, Len(stdin))
      /\ \/ pc' \in {"header", "failed"} /\ contentLength' = contentLength
         \/ /\ pc' = (IF contentLength = None THEN "failed" ELSE "body")
            /\ contentLength' = contentLength
         \/ /\ IsHeader(line) /\ pc' = "header"
            /\ contentLength' = line[2].part
  BY <1>1 DEF ReadLine, client
<1> HIDE DEF line
<1>5. IsHeader(line) => line[2].part \in Nat
  <2> SUFFICES ASSUME Len(line) = 2 PROVE line[2].part \in Nat
    BY DEF IsHeader
  <2>1. line[2] \in Units
    BY <1>3, ElementOfSeq
  <2> QED
    BY <2>1 DEF Units
<1>6. Reads(LineEnd)
  BY <1>2, <1>4 DEF Reads
<1>7. contentLength' \in Nat \cup {None} /\ pc' \in {"header", "body", "exited", "failed"}
      /\ (pc' = "body" => contentLength' # None)
  BY <1>1, <1>4, <1>5
<1> QED
  BY <1>1, <1>4, <1>6, <1>7, SilentReadingKeepsInv

\* At the end of the input the server takes all there is.
LEMMA ReadToEndKeepsInv ==
  ASSUME ServerInv, ReadLastLine \/ MissBody \/ ReadEnd
  PROVE  ServerInv'
<1>1. /\ TypeOK /\ stdin \in Seq(Units) /\ reply = Silent
      /\ contentLength \in Nat \cup {None}
  BY DEF ServerInv, TypeOK, ReadLastLine, MissBody, ReadEnd
<1>2. /\ UNCHANGED <<sent, unsent, received, stdout, reply, contentLength>>
      /\ stdin' = <<>> /\ pc' \in {"header", "exited", "failed"}
  BY DEF ReadLastLine, MissBody, ReadEnd, client, server
<1>3. Len(stdin) \in Nat
  BY <1>1, LenProperties
<1>4. SubSeq(stdin, Len(stdin) + 1, Len(stdin)) = <<>>
  BY <1>1, <1>3, SubSeqEmpty
<1>5. Reads(Len(stdin))
  BY <1>2, <1>3, <1>4 DEF Reads
<1>6. contentLength' \in Nat \cup {None} /\ pc' \in {"header", "body", "exited", "failed"}
      /\ (pc' = "body" => contentLength' # None)
  BY <1>1, <1>2
<1> QED
  BY <1>1, <1>2, <1>5, <1>6, SilentReadingKeepsInv

(* A body that is answered under an id is the whole body of a frame: behind *)
(* it lie only bodies of later frames, and no answer was to a later one.    *)
LEMMA WholeBodyIsNext ==
  ASSUME TypeOK, InOrder, Answered, NEW number \in 1..Len(sent),
         contentLength \in Nat, Len(stdin) >= contentLength, Reads(contentLength),
         IsWholeBody(SubSeq(stdin, 1, contentLength), number)
  PROVE  /\ SubSeq(stdin, 1, contentLength)[1].of = number
         /\ \A j \in Bodies(Rest') : number < Rest'[j].of
         /\ \A j \in 1..Len(Given) : Given[j].id # None => Given[j].id < number
<1>1. /\ stdin \in Seq(Units) /\ Len(stdin) \in Nat /\ number \in Nat
      /\ Len(Rest) = Len(stdin) + Len(unsent) /\ Len(unsent) \in Nat
      /\ \A k \in 1..Len(stdin) : Rest[k] = stdin[k]
  BY RestShape DEF TypeOK
<1> DEFINE body == SubSeq(stdin, 1, contentLength)
<1>2. /\ body = [part \in 1..BodySize |-> Unit("body", "none", number, part)]
      /\ \A part \in 1..BodySize : body[part] = Unit("body", "none", number, part)
  BY DEF IsWholeBody
<1>3. contentLength = 2
  <2>1. DOMAIN body = 1..2
    BY <1>2 DEF BodySize
  <2>2. CASE contentLength = 0
    <3>1. body = <<>>
      BY <1>1, <2>2, SubSeqEmpty
    <3>2. 1 \in DOMAIN body
      BY <2>1
    <3> QED
      BY <3>1, <3>2, EmptySeq
  <2>3. CASE contentLength # 0
    <3>1. contentLength \in 1..Len(stdin)
      BY <1>1, <2>3
    <3>2. body \in Seq(Units) /\ Len(body) = contentLength
      BY <1>1, <3>1, SubSeqProperties
    <3> HIDE DEF body
    <3>3. DOMAIN body = 1..contentLength
      BY <3>2, LenProperties
    <3>4. 2 \in 1..contentLength /\ contentLength \in 1..contentLength
      BY <2>1, <3>1, <3>3
    <3>5. contentLength \in 1..2
      BY <2>1, <3>3, <3>4
    <3> QED
      BY <3>4, <3>5
  <2> QED
    BY <2>2, <2>3
<1>4. body[1] = stdin[1] /\ body[2] = stdin[2]
  BY <1>1, <1>3, SubSeqProperties
<1>5. ASSUME NEW part \in 1..2
      PROVE  /\ part \in Bodies(Rest) /\ Rest[part].of = number /\ Rest[part].part = part
  <2>1. /\ part \in 1..Len(stdin) /\ part \in 1..Len(Rest) /\ Rest[part] = stdin[part]
        /\ body[part] = stdin[part]
    BY <1>1, <1>3, <1>4
  <2>2. stdin[part] = Unit("body", "none", number, part)
    BY <1>2, <2>1 DEF BodySize
  <2>3. /\ Unit("body", "none", number, part).kind = "body"
        /\ Unit("body", "none", number, part).of = number
        /\ Unit("body", "none", number, part).part = part
    BY DEF Unit
  <2> QED
    BY <2>1, <2>2, <2>3 DEF Bodies
<1>6. ASSUME NEW j \in Bodies(Rest')
      PROVE  number < Rest'[j].of
  <2>1. /\ j \in Nat /\ j > 0 /\ Rest'[j] = Rest[j + 2] /\ j + 2 \in 1..Len(Rest)
        /\ j + 2 \in Bodies(Rest)
    BY <1>3, RestAfterReading DEF Bodies
  <2>2. 2 \in Bodies(Rest) /\ 2 < j + 2 /\ Rest[2].of = number /\ Rest[2].part = 2
    BY <1>5, <2>1
  <2>3. Before(Rest[2], Rest[j + 2])
    BY <2>1, <2>2 DEF InOrder
  <2>4. Rest[j + 2].part \in 1..2
    BY <2>1 DEF InOrder, BodySize
  <2> QED
    BY <2>1, <2>2, <2>3, <2>4 DEF Before
<1>7. ASSUME NEW j \in 1..Len(Given), Given[j].id # None
      PROVE  Given[j].id < number
  <2>1. Answers(Given[j])
    BY DEF Answered
  <2>2. 1 \in Bodies(Rest) /\ Rest[1].of = number
    BY <1>5
  <2> QED
    BY <1>7, <2>1, <2>2 DEF Answers
<1>8. body[1].of = number
  BY <1>2 DEF Unit, BodySize
<1> QED
  BY <1>6, <1>7, <1>8

LEMMA ReadBodyKeepsInv ==
  ASSUME ServerInv, ReadBody
  PROVE  ServerInv'
<1> DEFINE body == SubSeq(stdin, 1, contentLength)
<1>1. /\ TypeOK /\ InOrder /\ Answered /\ pc = "body" /\ reply = Silent
      /\ contentLength \in Nat /\ Len(stdin) >= contentLength
      /\ stdin \in Seq(Units) /\ Len(stdin) \in Nat
  BY LenProperties DEF ServerInv, TypeOK, ReadBody
<1>2. /\ UNCHANGED <<sent, unsent, received, stdout>> /\ contentLength' = None
      /\ Reads(contentLength)
      /\ reply' = Silent \/ reply' = HandleMessage(body)
      /\ \/ pc' \in {"header", "failed"} /\ reply' = Silent
         \/ pc' = "write"
  <2>1. /\ UNCHANGED <<sent, unsent, received, stdout>> /\ contentLength' = None
        /\ stdin' = SubSeq(stdin, contentLength + 1, Len(stdin))
        /\ reply' = IF IsText(body) THEN HandleMessage(body) ELSE Silent
        /\ pc' = IF ~IsText(body) THEN "failed"
                 ELSE IF reply' = Silent THEN "header" ELSE "write"
    BY DEF ReadBody, client
  <2>2. Reads(contentLength)
    BY <1>1, <2>1 DEF Reads
  <2> HIDE DEF body
  <2>3. reply' = Silent \/ reply' = HandleMessage(body)
    BY <2>1
  <2>4. \/ pc' \in {"header", "failed"} /\ reply' = Silent
        \/ pc' = "write"
    BY <2>1
  <2> QED
    BY <2>1, <2>2, <2>3, <2>4
<1>3. \/ reply' \in {Silent, ParseError}
      \/ \E number \in 1..Len(sent) :
           IsWholeBody(body, number) /\ reply' = Answer(body[1].of, sent[body[1].of].message)
  <2> HIDE DEF body
  <2> QED
    BY <1>2 DEF HandleMessage
<1>4. \/ reply' \in {Silent, ParseError}
      \/ \E number \in 1..Len(sent) :
           /\ reply' = Answer(number, sent[number].message)
           /\ \A j \in Bodies(Rest') : number < Rest'[j].of
           /\ \A j \in 1..Len(Given) : Given[j].id # None => Given[j].id < number
  BY <1>1, <1>2, <1>3, WholeBodyIsNext
<1> HIDE DEF body
<1>5. ASSUME NEW number \in 1..Len(sent)
      PROVE  number \in Nat /\ sent[number].message \in AllMessages
  <2>1. sent \in Seq(Frames)
    BY <1>1 DEF TypeOK
  <2>2. sent[number] \in Frames
    BY <2>1, ElementOfSeq
  <2> QED
    BY <2>2, FrameShape
<1>6. reply' \in Replies
  BY <1>4, <1>5, RepliesShape
<1>7. stdin' \in Seq(Units)
  BY <1>1, <1>2, RestAfterReading
<1>8. TypeOK'
  <2>1. /\ sent' \in Seq(Frames) /\ unsent' \in Seq(Units)
        /\ received' \in Seq(Replies) /\ stdout' \in Seq(Replies)
        /\ contentLength' \in Nat \cup {None}
    BY <1>1, <1>2 DEF TypeOK
  <2>2. /\ pc' \in {"header", "write", "failed"} /\ (pc' # "write" => reply' = Silent)
    BY <1>2
  <2> QED
    BY <1>6, <1>7, <2>1, <2>2 DEF TypeOK
<1>9. InOrder' /\ \A answer : Answers(answer) => Answers(answer)'
  BY <1>1, <1>2, ReadingKeepsOrder
<1>10. Given' = Given
  BY <1>2 DEF Given
<1>11. /\ Answers(reply)'
       /\ \A j \in 1..Len(Given) : Given[j].id # None /\ reply'.id # None => Given[j].id < reply'.id
  <2>1. CASE reply' \in {Silent, ParseError}
    BY <2>1, RepliesShape DEF Answers
  <2>2. CASE \E number \in 1..Len(sent) :
               /\ reply' = Answer(number, sent[number].message)
               /\ \A j \in Bodies(Rest') : number < Rest'[j].of
               /\ \A j \in 1..Len(Given) : Given[j].id # None => Given[j].id < number
    <3>1. PICK number \in 1..Len(sent) :
               /\ reply' = Answer(number, sent[number].message)
               /\ \A j \in Bodies(Rest') : number < Rest'[j].of
               /\ \A j \in 1..Len(Given) : Given[j].id # None => Given[j].id < number
      BY <2>2
    <3>2. reply'.id # None => reply'.id = number
      BY <1>5, <3>1, RepliesShape
    <3>3. Answers(reply)'
      BY <1>2, <3>1, <3>2 DEF Answers
    <3> QED
      BY <3>1, <3>2, <3>3
  <2> QED
    BY <1>4, <2>1, <2>2
<1>12. Answered'
  <2>1. ASSUME NEW j \in 1..Len(Given)
        PROVE  Answers(Given[j])'
    <3>1. PICK answer : answer = Given[j]
      OBVIOUS
    <3>2. Answers(answer)'
      BY <1>1, <1>9, <3>1 DEF Answered
    <3> QED
      BY <1>10, <3>1, <3>2 DEF Answers
  <2> QED
    BY <1>1, <1>10, <1>11, <2>1 DEF Answered, Answers
<1> QED
  BY <1>8, <1>9, <1>12 DEF ServerInv

\* The server writes.
LEMMA ConcatAppend ==
  ASSUME NEW S, NEW r \in Seq(S), NEW t \in Seq(S), NEW x \in S
  PROVE  r \o Append(t, x) = Append(r \o t, x)
<1>1. PICK long : long = Append(t, x)
  OBVIOUS
<1>2. /\ long \in Seq(S) /\ Len(long) = Len(t) + 1 /\ Len(t) \in Nat /\ Len(r) \in Nat
      /\ \A k \in 1..Len(t) : long[k] = t[k]
      /\ long[Len(t) + 1] = x
  BY <1>1, AppendProperties, LenProperties
<1>3. PICK left : left = r \o long
  OBVIOUS
<1>4. /\ left \in Seq(S) /\ Len(left) = Len(r) + Len(long)
      /\ \A k \in 1..Len(r) : left[k] = r[k]
      /\ \A k \in 1..Len(long) : left[Len(r) + k] = long[k]
  <2>1. long \in Seq(S)
    BY <1>2
  <2>2. LET all == r \o long
        IN  /\ all \in Seq(S) /\ Len(all) = Len(r) + Len(long)
            /\ \A k \in 1..Len(r) : all[k] = r[k]
            /\ \A k \in 1..Len(long) : all[Len(r) + k] = long[k]
    BY <2>1, ConcatParts
  <2> QED
    BY <1>3, <2>2
<1>5. PICK both : both = r \o t
  OBVIOUS
<1>6. /\ both \in Seq(S) /\ Len(both) = Len(r) + Len(t)
      /\ \A k \in 1..Len(r) : both[k] = r[k]
      /\ \A k \in 1..Len(t) : both[Len(r) + k] = t[k]
  BY <1>5, ConcatParts
<1>7. PICK right : right = Append(both, x)
  OBVIOUS
<1>8. /\ right \in Seq(S) /\ Len(right) = Len(both) + 1
      /\ \A k \in 1..Len(both) : right[k] = both[k]
      /\ right[Len(both) + 1] = x
  BY <1>6, <1>7, AppendProperties
<1>9. Len(left) = Len(right) /\ Len(left) = Len(r) + Len(t) + 1
  BY <1>2, <1>4, <1>6, <1>8
<1>10. ASSUME NEW k \in 1..Len(left)
       PROVE  left[k] = right[k]
  <2>1. CASE k \in 1..Len(r)
    BY <1>2, <1>4, <1>6, <1>8, <2>1
  <2>2. CASE k \notin 1..Len(r)
    <3>1. PICK j : j = k - Len(r)
      OBVIOUS
    <3>2. j \in 1..(Len(t) + 1) /\ k = Len(r) + j
      BY <1>2, <1>9, <2>2, <3>1
    <3>3. left[k] = long[j]
      BY <1>2, <1>4, <3>2
    <3>4. CASE j = Len(t) + 1
      <4>1. k = Len(both) + 1
        BY <1>2, <1>6, <3>2, <3>4
      <4> QED
        BY <1>2, <1>8, <3>3, <3>4, <4>1
    <3>5. CASE j \in 1..Len(t)
      <4>1. k \in 1..Len(both) /\ both[k] = t[j]
        BY <1>2, <1>6, <3>2, <3>5
      <4> QED
        BY <1>2, <1>8, <3>3, <3>5, <4>1
    <3> QED
      BY <1>2, <3>2, <3>4, <3>5
  <2> QED
    BY <2>1, <2>2
<1> QED
  BY <1>1, <1>3, <1>4, <1>5, <1>7, <1>8, <1>9, <1>10, SeqEqual

LEMMA WritingIsGiving ==
  ASSUME TypeOK, stdout' = Append(stdout, reply), received' = received
  PROVE  Given' = Append(Given, reply)
BY ConcatAppend DEF TypeOK, Given

LEMMA WriteReplyKeepsInv ==
  ASSUME ServerInv, WriteReply
  PROVE  ServerInv'
<1>1. /\ TypeOK /\ InOrder /\ Answered
      /\ stdout' = Append(stdout, reply) /\ reply' = Silent /\ pc' = "header"
      /\ UNCHANGED <<sent, unsent, received, stdin, contentLength>>
  BY DEF ServerInv, WriteReply, client
<1>2. /\ stdout \in Seq(Replies) /\ received \in Seq(Replies) /\ reply \in Replies
      /\ Len(stdout) \in Nat /\ Len(received) \in Nat
  BY <1>1, LenProperties DEF TypeOK
<1>3. /\ stdout' \in Seq(Replies) /\ Len(stdout') = Len(stdout) + 1
      /\ \A k \in 1..Len(stdout) : stdout'[k] = stdout[k]
      /\ stdout'[Len(stdout) + 1] = reply
  BY <1>1, <1>2, AppendProperties
<1>4. TypeOK'
  BY <1>1, <1>3, RepliesShape DEF TypeOK
<1>5. Rest' = Rest
  BY <1>1 DEF Rest
<1>6. InOrder'
  BY <1>1, <1>5 DEF InOrder
<1>7. /\ Len(Given) \in Nat /\ Len(Given') = Len(Given) + 1
      /\ \A k \in 1..Len(Given) : Given'[k] = Given[k]
      /\ Given'[Len(Given) + 1] = reply
  <2>1. Given \in Seq(Replies) /\ Given' = Append(Given, reply)
    BY <1>1, WritingIsGiving, GivenShape
  <2> QED
    BY <1>2, <2>1, AppendProperties, LenProperties
<1>8. ASSUME NEW answer, Answers(answer)
      PROVE  Answers(answer)'
  BY <1>1, <1>5, <1>8 DEF Answers
<1>9. ASSUME NEW j \in 1..Len(Given')
      PROVE  \/ j \in 1..Len(Given) /\ Given'[j] = Given[j]
             \/ j = Len(Given) + 1 /\ Given'[j] = reply
  BY <1>7
<1>10. ASSUME NEW j \in 1..Len(Given')
       PROVE  Answers(Given[j])'
  <2>1. PICK answer : answer = Given'[j] /\ Answers(answer)
    BY <1>1, <1>9 DEF Answered
  <2>2. Answers(answer)'
    BY <1>8, <2>1
  <2> QED
    BY <2>1, <2>2 DEF Answers
<1>11. ASSUME NEW j \in 1..Len(Given'), NEW k \in 1..Len(Given'), j < k,
              Given'[j].id # None, Given'[k].id # None
       PROVE  Given'[j].id < Given'[k].id
  <2>1. j \in 1..Len(Given) /\ Given'[j] = Given[j]
    BY <1>7, <1>9, <1>11
  <2> QED
    BY <1>1, <1>9, <1>11, <2>1 DEF Answered
<1>12. Answered'
  <2>1. reply'.id = None /\ Answers(reply)'
    BY <1>1, RepliesShape DEF Answers
  <2>2. \A j \in 1..Len(Given') : Answers(Given[j])'
    BY <1>10
  <2> QED
    BY <1>11, <2>1, <2>2 DEF Answered
<1> QED
  BY <1>4, <1>6, <1>12 DEF ServerInv

LEMMA WriteToNobodyKeepsInv ==
  ASSUME ServerInv, WriteToNobody
  PROVE  ServerInv'
<1>1. /\ TypeOK /\ InOrder /\ Answered /\ reply' = Silent /\ pc' = "failed"
      /\ UNCHANGED <<sent, unsent, received, stdin, stdout, contentLength>>
  BY DEF ServerInv, WriteToNobody, client
<1>2. TypeOK'
  BY <1>1, RepliesShape DEF TypeOK
<1>3. Rest' = Rest /\ Given' = Given
  BY <1>1 DEF Rest, Given
<1>4. InOrder'
  BY <1>1, <1>3 DEF InOrder
<1>5. \A j \in 1..Len(Given) : Answers(Given[j])'
  BY <1>1, <1>3 DEF Answered, Answers
<1>6. Answered'
  BY <1>1, <1>3, <1>5, RepliesShape DEF Answered, Answers
<1> QED
  BY <1>2, <1>4, <1>6 DEF ServerInv

-----------------------------------------------------------------------------
(* Bodies lie in the pipe in the order of their frames, and every answer    *)
(* given or to be given is to a frame whose body has been read (serve and   *)
(* read_frame of packages/cli/src/mcp.rs), whatever the frames declare.     *)
THEOREM ServerInvariant == Spec => []ServerInv
<1>1. Init => ServerInv
  BY InvInit
<1>2. ServerInv /\ [Next]_vars => ServerInv'
  <2> SUFFICES ASSUME ServerInv, [Next]_vars PROVE ServerInv'
    OBVIOUS
  <2>1. CASE Client
    BY <2>1, BeginFrameKeepsInv, WriteUnitKeepsInv, RestOfClientKeepsInv DEF Client
  <2>2. CASE Server
    BY <2>2, ReadLineKeepsInv, ReadToEndKeepsInv, ReadBodyKeepsInv, WriteReplyKeepsInv,
       WriteToNobodyKeepsInv DEF Server
  <2>3. CASE UNCHANGED vars
    BY <2>3 DEF vars, client, server, ServerInv, TypeOK, InOrder, Answered, Answers, Rest, Given
  <2> QED
    BY <2>1, <2>2, <2>3 DEF Next
<1> QED
  BY <1>1, <1>2, PTL DEF Spec

LEMMA AnswersAreToCompleteFrames ==
  ASSUME ServerInv
  PROVE  AnswersStayInOrder
<1>1. TypeOK /\ InOrder /\ Answered
  BY DEF ServerInv
<1>2. sent \in Seq(Frames) /\ Len(sent) \in Nat
  BY <1>1, LenProperties DEF TypeOK
<1>3. ASSUME NEW j \in 1..Len(Given), Given[j].id # None
      PROVE  /\ Given[j].id <= Len(Complete)
             /\ Given[j] = Answer(Given[j].id, Complete[Given[j].id].message)
  <2>1. /\ Given[j].id \in 1..Len(sent)
        /\ Given[j] = Answer(Given[j].id, sent[Given[j].id].message)
        /\ \A k \in Bodies(Rest) : Given[j].id < Rest[k].of
    BY <1>1, <1>3 DEF Answered, Answers
  <2>2. CASE unsent = <<>>
    BY <1>2, <2>1, <2>2 DEF Complete
  <2>3. CASE unsent # <<>>
    <3>1. /\ Len(unsent) \in Nat \ {0} /\ Len(stdin) \in Nat
          /\ Len(Rest) = Len(stdin) + Len(unsent)
          /\ \A k \in 1..Len(unsent) : Rest[Len(stdin) + k] = unsent[k]
      <4>1. unsent \in Seq(Units)
        BY <1>1 DEF TypeOK
      <4> QED
        BY <1>1, <2>3, <4>1, RestShape, EmptySeq
    <3>2. Rest[Len(Rest)] = Unit("body", "none", Len(sent), BodySize) /\ Len(Rest) \in 1..Len(Rest)
      BY <1>1, <2>3, <3>1 DEF InOrder
    <3>3. Len(Rest) \in Bodies(Rest) /\ Rest[Len(Rest)].of = Len(sent)
      BY <3>2 DEF Bodies, Unit
    <3>4. Given[j].id < Len(sent)
      BY <2>1, <3>3
    <3>5. /\ Complete = SubSeq(sent, 1, Len(sent) - 1)
          /\ Len(sent) - 1 \in 1..Len(sent) /\ Given[j].id \in 1..(Len(sent) - 1)
      BY <1>2, <2>1, <2>3, <3>4 DEF Complete
    <3>6. /\ Len(Complete) = Len(sent) - 1
          /\ \A k \in 1..(Len(sent) - 1) : Complete[k] = sent[k]
      BY <1>2, <3>5, SubSeqProperties
    <3> QED
      BY <2>1, <3>5, <3>6
  <2> QED
    BY <2>2, <2>3
<1>4. \A j, k \in 1..Len(Given) :
        j < k /\ Given[j].id # None /\ Given[k].id # None => Given[j].id < Given[k].id
  BY <1>1 DEF Answered
<1> QED
  BY <1>3, <1>4 DEF AnswersStayInOrder

(* However badly a client frames its messages, what comes back under an id  *)
(* is the answer to the message of that id, sent whole, and answers keep    *)
(* the order of their messages and are not given twice.                     *)
THEOREM AnswersInOrder == Spec => []AnswersStayInOrder
<1>1. ServerInv => AnswersStayInOrder
  BY AnswersAreToCompleteFrames
<1> QED
  BY <1>1, ServerInvariant, PTL

-----------------------------------------------------------------------------
\* What a session is owed, message after message.

(* Induction over the rounds of a loop.                                     *)
LEMMA RoundsInduction ==
  ASSUME NEW S, 0 \in S, \A n \in Nat : n \in S => n + 1 \in S
  PROVE  Nat \subseteq S
<1> SUFFICES ASSUME Nat \ S # {} PROVE FALSE
  OBVIOUS
<1>1. PICK n \in Nat \ S : \A m \in Nat \ S : n <= m
  <2>1. Nat \ S \in SUBSET Nat
    OBVIOUS
  <2> QED
    BY <2>1, LeastElement
<1>2. n # 0 /\ n - 1 \in Nat /\ n - 1 \notin Nat \ S
  BY <1>1
<1> QED
  BY <1>1, <1>2

Begins(s, t) == Len(s) <= Len(t) /\ \A k \in 1..Len(s) : s[k] = t[k]

Messages(s, n) == [k \in 1..n |-> s[k].message]

\* What the first n frames of s are owed.
Owed(s, n) == OwedAnswers(Messages(s, n))

\* One round of the loop of OwedAnswers.
Owe(s, owed, k) ==
  IF Answer(k, s[k].message) = Silent THEN owed ELSE Append(owed, Answer(k, s[k].message))

\* What the first prefixes of s are owed, round by round.
IsRun(s, owed, n) ==
  /\ owed \in [0..n -> Seq(Replies)]
  /\ owed[0] = <<>> /\ \A k \in 1..n : owed[k] = Owe(s, owed[k - 1], k)

LEMMA RunsExist ==
  ASSUME NEW s \in Seq(Frames), NEW n \in 0..Len(s)
  PROVE  \E owed : IsRun(s, owed, n)
<1> DEFINE Good == {m \in Nat : m <= Len(s) => \E owed : IsRun(s, owed, m)}
<1>1. Len(s) \in Nat /\ <<>> \in Seq(Replies)
  BY LenProperties, EmptySeq
<1>2. 0 \in Good
  <2>1. IsRun(s, [k \in 0..0 |-> <<>>], 0)
    BY <1>1 DEF IsRun
  <2> QED
    BY <2>1
<1>3. ASSUME NEW m \in Nat, m \in Good PROVE m + 1 \in Good
  <2> SUFFICES ASSUME m + 1 <= Len(s) PROVE \E owed : IsRun(s, owed, m + 1)
    OBVIOUS
  <2>1. PICK f : IsRun(s, f, m)
    BY <1>1, <1>3
  <2> DEFINE last == Owe(s, f[m], m + 1)
             g == [k \in 0..(m + 1) |-> IF k = m + 1 THEN last ELSE f[k]]
  <2>2. last \in Seq(Replies)
    <3>1. s[m + 1] \in Frames
      BY <1>1, ElementOfSeq
    <3>2. Answer(m + 1, s[m + 1].message) \in Replies
      BY <3>1, FrameShape, RepliesShape
    <3>3. f[m] \in Seq(Replies)
      BY <2>1 DEF IsRun
    <3> QED
      BY <3>2, <3>3, AppendProperties DEF Owe
  <2>3. \A k \in 1..(m + 1) : g[k] = Owe(s, g[k - 1], k)
    BY <2>1 DEF IsRun
  <2>4. g \in [0..(m + 1) -> Seq(Replies)] /\ g[0] = <<>>
    <3> HIDE DEF last
    <3> QED
      BY <2>1, <2>2 DEF IsRun
  <2>5. IsRun(s, g, m + 1)
    <3> HIDE DEF g
    <3> QED
      BY <2>3, <2>4 DEF IsRun
  <2> HIDE DEF g
  <2> QED
    BY <2>5
<1> HIDE DEF Good
<1>4. Nat \subseteq Good
  BY <1>2, <1>3, RoundsInduction
<1> QED
  BY <1>1, <1>4 DEF Good

LEMMA OwedByRound ==
  ASSUME NEW s \in Seq(Frames), NEW n \in 0..Len(s), NEW f,
         f[0] = <<>> /\ \A k \in 1..n : f[k] = Owe(s, f[k - 1], k)
  PROVE  Owed(s, n) = f[n]
<1> DEFINE m == Messages(s, n)
           Body(g) == [k \in 0..Len(m) |->
                         IF k = 0 THEN <<>>
                         ELSE IF Answer(k, m[k]) = Silent THEN g[k - 1]
                              ELSE Append(g[k - 1], Answer(k, m[k]))]
           F == CHOOSE g : g = Body(g)
           h == [k \in 0..n |-> f[k]]
<1>1. Len(s) \in Nat /\ n \in Nat /\ Len(m) = n /\ \A k \in 1..n : m[k] = s[k].message
  BY LenProperties DEF Messages
<1>2. Owed(s, n) = F[n]
  BY <1>1 DEF Owed, OwedAnswers
<1> HIDE DEF m
<1>3. h = Body(h)
  <2>1. ASSUME NEW k \in 0..n PROVE h[k] = Body(h)[k]
    <3>1. CASE k = 0
      BY <1>1, <3>1
    <3>2. CASE k # 0
      <4>1. k \in 1..n /\ k - 1 \in 0..n
        BY <1>1, <3>2
      <4>2. h[k] = f[k] /\ h[k - 1] = f[k - 1] /\ f[k] = Owe(s, f[k - 1], k)
        BY <4>1
      <4>3. Body(h)[k] = Owe(s, h[k - 1], k)
        BY <1>1, <3>2, <4>1 DEF Owe
      <4> QED
        BY <4>2, <4>3
    <3> QED
      BY <3>1, <3>2
  <2>2. h = [k \in 0..n |-> h[k]] /\ Body(h) = [k \in 0..n |-> Body(h)[k]]
    BY <1>1
  <2> HIDE DEF Body, h
  <2> QED
    BY <2>1, <2>2
<1>4. F = Body(F)
  <2> HIDE DEF Body, h
  <2> QED
    BY <1>3
<1> HIDE DEF F, h
<1> DEFINE G == {k \in Nat : k <= n => F[k] = f[k]}
<1>5. 0 \in G
  BY <1>1, <1>4
<1>6. ASSUME NEW k \in Nat, k \in G PROVE k + 1 \in G
  <2> SUFFICES ASSUME k + 1 <= n PROVE F[k + 1] = f[k + 1]
    OBVIOUS
  <2>1. k + 1 \in 1..n /\ k + 1 \in 0..Len(m) /\ F[k] = f[k] /\ (k + 1) - 1 = k /\ k + 1 # 0
    BY <1>1, <1>6
  <2>2. F[k + 1] = Body(F)[k + 1]
    <3> HIDE DEF Body
    <3> QED
      BY <1>4
  <2>3. Body(F)[k + 1] = Owe(s, F[k], k + 1)
    BY <1>1, <2>1 DEF Owe
  <2>4. f[k + 1] = Owe(s, f[k], k + 1)
    BY <2>1
  <2> QED
    BY <2>1, <2>2, <2>3, <2>4
<1> HIDE DEF G
<1>7. Nat \subseteq G
  BY <1>5, <1>6, RoundsInduction
<1> QED
  BY <1>1, <1>2, <1>7 DEF G

(* The owed answers of a session, one message after another.                *)
LEMMA OwedRounds ==
  ASSUME NEW s \in Seq(Frames)
  PROVE  /\ Owed(s, 0) = <<>>
         /\ \A n \in 0..Len(s) : Owed(s, n) \in Seq(Replies) /\ Len(Owed(s, n)) \in Nat
         /\ \A n \in 1..Len(s) : Owed(s, n) = Owe(s, Owed(s, n - 1), n)
<1>1. Len(s) \in Nat /\ Len(s) \in 0..Len(s)
  BY LenProperties
<1>2. PICK f \in [0..Len(s) -> Seq(Replies)] :
        f[0] = <<>> /\ \A k \in 1..Len(s) : f[k] = Owe(s, f[k - 1], k)
  BY <1>1, RunsExist DEF IsRun
<1>3. ASSUME NEW n \in 0..Len(s) PROVE Owed(s, n) = f[n]
  <2>1. \A k \in 1..n : f[k] = Owe(s, f[k - 1], k)
    BY <1>1, <1>2
  <2> QED
    BY <1>2, <2>1, OwedByRound
<1>4. \A n \in 0..Len(s) : Owed(s, n) \in Seq(Replies)
  BY <1>2, <1>3
<1>5. ASSUME NEW n \in 1..Len(s) PROVE Owed(s, n) = Owe(s, Owed(s, n - 1), n)
  <2>1. n \in 0..Len(s) /\ n - 1 \in 0..Len(s)
    BY <1>1
  <2> QED
    BY <1>2, <1>3, <2>1
<1> QED
  BY <1>1, <1>2, <1>3, <1>4, <1>5, LenProperties

LEMMA BeginsAppended ==
  ASSUME NEW S, NEW a \in Seq(S), NEW b \in Seq(S), NEW x \in S, Begins(a, b)
  PROVE  Begins(a, Append(b, x))
BY AppendProperties, LenProperties DEF Begins

(* More messages are owed no less.                                          *)
LEMMA OwedGrows ==
  ASSUME NEW s \in Seq(Frames), NEW n \in 0..Len(s), NEW m \in n..Len(s)
  PROVE  Begins(Owed(s, n), Owed(s, m))
<1>1. Len(s) \in Nat /\ n \in Nat /\ m \in Nat /\ n <= m /\ m <= Len(s)
  BY LenProperties
<1> DEFINE G == {d \in Nat : n + d <= Len(s) => Begins(Owed(s, n), Owed(s, n + d))}
<1>2. 0 \in G
  BY <1>1, OwedRounds DEF Begins
<1>3. ASSUME NEW d \in Nat, d \in G PROVE d + 1 \in G
  <2> SUFFICES ASSUME n + (d + 1) <= Len(s) PROVE Begins(Owed(s, n), Owed(s, n + (d + 1)))
    OBVIOUS
  <2> DEFINE k == n + (d + 1)
  <2>1. k \in 1..Len(s) /\ k \in Nat /\ k - 1 = n + d /\ k - 1 \in 0..Len(s)
    BY <1>1
  <2>2. Begins(Owed(s, n), Owed(s, k - 1))
    BY <1>1, <1>3, <2>1
  <2>3. Owed(s, k) = Owe(s, Owed(s, k - 1), k)
    BY <2>1, OwedRounds
  <2>4. Owed(s, n) \in Seq(Replies) /\ Owed(s, k - 1) \in Seq(Replies)
    BY <2>1, OwedRounds
  <2>5. Answer(k, s[k].message) \in Replies
    BY <2>1, ElementOfSeq, FrameShape, RepliesShape
  <2> HIDE DEF k
  <2>6. Begins(Owed(s, n), Owed(s, k))
    BY <2>2, <2>3, <2>4, <2>5, BeginsAppended DEF Owe
  <2> QED
    BY <2>6 DEF k
<1> HIDE DEF G
<1>4. Nat \subseteq G
  BY <1>2, <1>3, RoundsInduction
<1>5. m - n \in Nat /\ n + (m - n) = m
  BY <1>1
<1> QED
  BY <1>1, <1>4, <1>5 DEF G

Size(frame) == 2 * Len(frame.headers) + 1 + BodySize

\* The frames of s from at on lie in rest from where start says: what is left
\* of frame at begins behind start[at], which is not positive.
Laid(s, rest, at, start) ==
  /\ \A j \in at..(Len(s) + 1) : start[j] \in Int
  /\ start[Len(s) + 1] = Len(rest)
  /\ \A j \in at..Len(s) :
       /\ start[j + 1] = start[j] + Size(s[j]) /\ start[j + 1] <= Len(rest)
       /\ \A i \in 1..Size(s[j]) : start[j] + i >= 1 => rest[start[j] + i] = UnitsOf(j, s[j])[i]

LEMMA SizeOfFrame ==
  ASSUME NEW frame \in Frames
  PROVE  /\ Size(frame) \in Nat /\ Len(frame.headers) \in Nat
         /\ Size(frame) = 2 * Len(frame.headers) + 3
BY FrameShape DEF Size, BodySize

\* What is left of rest behind its first m units.
Dropped(rest, m, left) ==
  /\ Len(rest) \in Nat /\ Len(left) = Len(rest) - m
  /\ \A k \in 1..Len(left) : left[k] = rest[k + m]

LEMMA Inside ==
  ASSUME NEW a \in Int, NEW size \in Nat, NEW total \in Nat, a + size <= total,
         NEW m \in Nat, NEW i \in 1..size, (a - m) + i >= 1
  PROVE  /\ (a - m) + i \in 1..(total - m) /\ a + i >= 1
         /\ ((a - m) + i) + m = a + i
OBVIOUS

LEMMA LaidShifted ==
  ASSUME NEW s \in Seq(Frames), NEW rest, NEW left, NEW at \in Nat \ {0}, at <= Len(s) + 1,
         NEW start, Laid(s, rest, at, start),
         NEW m \in Nat, Dropped(rest, m, left)
  PROVE  Laid(s, left, at, [j \in at..(Len(s) + 1) |-> start[j] - m])
<1> Len(rest) \in Nat /\ Len(left) = Len(rest) - m /\ \A k \in 1..Len(left) : left[k] = rest[k + m]
  BY DEF Dropped
<1> DEFINE moved == [j \in at..(Len(s) + 1) |-> start[j] - m]
<1>1. Len(s) \in Nat
  BY LenProperties
<1>2. \A j \in at..(Len(s) + 1) : start[j] \in Int /\ moved[j] = start[j] - m
  BY DEF Laid
<1>3. start[Len(s) + 1] = Len(rest) /\ Len(s) + 1 \in at..(Len(s) + 1)
  BY <1>1 DEF Laid
<1> HIDE DEF moved
<1>4. moved[Len(s) + 1] = Len(left)
  BY <1>2, <1>3
<1>5. ASSUME NEW j \in at..Len(s)
      PROVE  /\ moved[j + 1] = moved[j] + Size(s[j]) /\ moved[j + 1] <= Len(left)
             /\ \A i \in 1..Size(s[j]) :
                  moved[j] + i >= 1 => left[moved[j] + i] = UnitsOf(j, s[j])[i]
  <2>1. /\ start[j + 1] = start[j] + Size(s[j]) /\ start[j + 1] <= Len(rest)
        /\ \A i \in 1..Size(s[j]) : start[j] + i >= 1 => rest[start[j] + i] = UnitsOf(j, s[j])[i]
    BY DEF Laid
  <2>2. /\ j \in at..(Len(s) + 1) /\ j + 1 \in at..(Len(s) + 1) /\ j \in 1..Len(s)
    BY <1>1
  <2>3. Size(s[j]) \in Nat
    BY <2>2, ElementOfSeq, SizeOfFrame
  <2>4. /\ start[j] \in Int /\ start[j + 1] \in Int
        /\ moved[j] = start[j] - m /\ moved[j + 1] = start[j + 1] - m
    BY <1>2, <2>2
  <2>5. ASSUME NEW i \in 1..Size(s[j]), moved[j] + i >= 1
        PROVE  left[moved[j] + i] = UnitsOf(j, s[j])[i]
    <3>1. PICK k : k = moved[j] + i
      OBVIOUS
    <3>2. k \in 1..Len(left) /\ k + m = start[j] + i /\ start[j] + i >= 1
      <4>1. start[j] + Size(s[j]) <= Len(rest)
        BY <2>1
      <4>2. Len(rest) \in Nat
        BY DEF Dropped
      <4>3. (start[j] - m) + i >= 1
        BY <2>4, <2>5
      <4>4. /\ (start[j] - m) + i \in 1..(Len(rest) - m) /\ start[j] + i >= 1
            /\ ((start[j] - m) + i) + m = start[j] + i
        BY <2>3, <2>4, <4>1, <4>2, <4>3, Inside
      <4>5. k = (start[j] - m) + i /\ Len(left) = Len(rest) - m
        BY <2>4, <3>1 DEF Dropped
      <4> QED
        BY <4>4, <4>5
    <3>3. k \in 1..Len(left)
      BY <3>2
    <3>4. left[k] = rest[k + m]
      BY <3>3
    <3>5. rest[k + m] = UnitsOf(j, s[j])[i]
      BY <2>1, <3>2
    <3> QED
      BY <3>1, <3>4, <3>5
  <2> QED
    BY <2>1, <2>3, <2>4, <2>5
<1>6. \A j \in at..(Len(s) + 1) : moved[j] \in Int
  BY <1>2
<1>7. Laid(s, left, at, moved)
  BY <1>4, <1>5, <1>6 DEF Laid
<1> QED
  BY <1>7 DEF moved

LEMMA LaidAppended ==
  ASSUME NEW s \in Seq(Frames), NEW rest \in Seq(Units), NEW at \in Nat \ {0}, at <= Len(s) + 1,
         NEW start, Laid(s, rest, at, start),
         NEW frame \in Frames
  PROVE  LET more == Append(s, frame)
             all == rest \o UnitsOf(Len(s) + 1, frame)
         IN  Laid(more, all, at,
                  [j \in at..(Len(s) + 2) |-> IF j = Len(s) + 2 THEN Len(all) ELSE start[j]])
<1>1. PICK more : more = Append(s, frame)
  OBVIOUS
<1>2. PICK units : units = UnitsOf(Len(s) + 1, frame)
  OBVIOUS
<1>3. PICK all : all = rest \o units
  OBVIOUS
<1>4. /\ Len(s) \in Nat /\ more \in Seq(Frames) /\ Len(more) = Len(s) + 1
      /\ \A k \in 1..Len(s) : more[k] = s[k]
      /\ more[Len(s) + 1] = frame
  BY <1>1, AppendProperties, LenProperties
<1>5. units \in Seq(Units) /\ Len(units) = Size(frame) /\ Size(frame) \in Nat
  <2>1. Len(s) + 1 \in Nat
    BY <1>4
  <2>2. LET all_ == UnitsOf(Len(s) + 1, frame)
        IN  all_ \in Seq(Units) /\ Len(all_) = (2 * Len(frame.headers) + 1) + BodySize
    BY <2>1, LinesOfFrame
  <2> QED
    BY <1>2, <2>2, SizeOfFrame DEF BodySize
<1>6. /\ Len(rest) \in Nat /\ Len(all) = Len(rest) + Size(frame)
      /\ \A k \in 1..Len(rest) : all[k] = rest[k]
      /\ \A k \in 1..Size(frame) : all[Len(rest) + k] = units[k]
  <2>1. /\ Len(rest) \in Nat /\ Len(rest \o units) = Len(rest) + Len(units)
        /\ \A k \in 1..Len(rest) : (rest \o units)[k] = rest[k]
        /\ \A k \in 1..Len(units) : (rest \o units)[Len(rest) + k] = units[k]
    <3>1. units \in Seq(Units)
      BY <1>5
    <3> QED
      BY <3>1, ConcatParts
  <2>2. Len(all) = Len(rest) + Size(frame)
    BY <1>3, <1>5, <2>1
  <2>3. \A k \in 1..Len(rest) : all[k] = rest[k]
    BY <1>3, <2>1
  <2>4. \A k \in 1..Size(frame) : all[Len(rest) + k] = units[k]
    BY <1>3, <1>5, <2>1
  <2> QED
    BY <2>1, <2>2, <2>3, <2>4
<1> DEFINE longer == [j \in at..(Len(s) + 2) |-> IF j = Len(s) + 2 THEN Len(all) ELSE start[j]]
<1>7. /\ \A j \in at..(Len(s) + 1) : longer[j] = start[j] /\ start[j] \in Int
      /\ longer[Len(s) + 2] = Len(all)
      /\ start[Len(s) + 1] = Len(rest)
  BY <1>4 DEF Laid
<1> HIDE DEF longer
<1>8. \A j \in at..(Len(more) + 1) : longer[j] \in Int
  <2> SUFFICES ASSUME NEW j \in at..(Len(more) + 1) PROVE longer[j] \in Int
    OBVIOUS
  <2>1. j \in at..(Len(s) + 1) \/ j = Len(s) + 2
    BY <1>4
  <2>2. Len(all) \in Int
    BY <1>5, <1>6
  <2> QED
    BY <1>7, <2>1, <2>2
<1>9. ASSUME NEW j \in at..Len(more)
      PROVE  /\ longer[j + 1] = longer[j] + Size(more[j]) /\ longer[j + 1] <= Len(all)
             /\ \A i \in 1..Size(more[j]) :
                  longer[j] + i >= 1 => all[longer[j] + i] = UnitsOf(j, more[j])[i]
  <2>1. CASE j = Len(s) + 1
    <3>1. /\ more[j] = frame /\ longer[j] = Len(rest) /\ longer[j + 1] = Len(all)
          /\ units = UnitsOf(j, more[j])
      <4>1. j + 1 = Len(s) + 2 /\ j \in at..(Len(s) + 1)
        BY <1>4, <2>1
      <4> QED
        BY <1>2, <1>4, <1>7, <2>1, <4>1
    <3> QED
      BY <1>5, <1>6, <3>1
  <2>2. CASE j # Len(s) + 1
    <3>1. /\ j \in at..Len(s) /\ j \in at..(Len(s) + 1) /\ j + 1 \in at..(Len(s) + 1)
          /\ j \in 1..Len(s)
      BY <1>4, <2>2
    <3>2. /\ start[j + 1] = start[j] + Size(s[j]) /\ start[j + 1] <= Len(rest)
          /\ \A i \in 1..Size(s[j]) : start[j] + i >= 1 => rest[start[j] + i] = UnitsOf(j, s[j])[i]
      BY <3>1 DEF Laid
    <3>3. more[j] = s[j] /\ Size(s[j]) \in Nat
      BY <1>4, <3>1, ElementOfSeq, SizeOfFrame
    <3>4. /\ longer[j] = start[j] /\ longer[j + 1] = start[j + 1]
          /\ start[j] \in Int /\ start[j + 1] \in Int
      BY <1>7, <3>1
    <3>5. ASSUME NEW i \in 1..Size(s[j]), start[j] + i >= 1
          PROVE  all[start[j] + i] = UnitsOf(j, s[j])[i]
      <4>1. start[j] + i \in 1..Len(rest)
        BY <1>6, <3>2, <3>3, <3>4, <3>5
      <4> QED
        BY <1>6, <3>2, <3>5, <4>1
    <3> QED
      BY <1>5, <1>6, <3>2, <3>3, <3>4, <3>5
  <2> QED
    BY <2>1, <2>2
<1>10. Laid(more, all, at, longer)
  <2>1. longer[Len(more) + 1] = Len(all)
    BY <1>4, <1>7
  <2> QED
    BY <1>8, <1>9, <2>1 DEF Laid
<1> QED
  BY <1>1, <1>2, <1>3, <1>10 DEF longer

LEMMA LaidNext ==
  ASSUME NEW s \in Seq(Frames), NEW rest, NEW at \in Nat, at <= Len(s), NEW start,
         Laid(s, rest, at, start)
  PROVE  Laid(s, rest, at + 1, start)
<1>1. Len(s) \in Nat
  BY LenProperties
<1>2. \A j \in (at + 1)..(Len(s) + 1) : j \in at..(Len(s) + 1)
  BY <1>1
<1>3. \A j \in (at + 1)..Len(s) : j \in at..Len(s)
  BY <1>1
<1> QED
  BY <1>2, <1>3 DEF Laid

\* What the server has decided to say, the reply it is about to write included.
Out == IF pc = "write" THEN Append(Given, reply) ELSE Given

HonestTo(n) == \A j \in 1..n : Honest(sent[j])

HonestCount(n) ==
  /\ n \in 0..Len(Complete) /\ HonestTo(n)
  /\ n < Len(Complete) => ~Honest(sent[n + 1])

\* What is said and what is owed to the honest messages are one list, as far
\* as both go.
Matches ==
  \A n : HonestCount(n) =>
    /\ Begins(Out, Owed(sent, n)) \/ Begins(Owed(sent, n), Out)
    /\ HonestTo(Len(sent)) => Begins(Out, Owed(sent, n))

Counted(frame, l) == IF \E i \in 1..l : frame.headers[i] = "length" THEN BodySize ELSE None

\* The server has read l header lines of frame at, has read them all and the
\* empty line, or is about to answer the frame before it.
AtHeader(at, l) ==
  /\ pc = "header"
  /\ at <= Len(sent) => l <= Len(sent[at].headers) /\ contentLength = Counted(sent[at], l)
  /\ at > Len(sent) => l = 0 /\ contentLength = None

AtBody(at, l) ==
  /\ pc = "body" /\ at <= Len(sent)
  /\ l = Len(sent[at].headers) /\ contentLength = BodySize

AtReply(l) == pc = "write" /\ l = 0 /\ contentLength = None

Following(at, l, start) ==
  /\ at \in 1..(Len(sent) + 1) /\ l \in Nat
  /\ \A j \in 1..Len(sent) : j <= at => Honest(sent[j])
  /\ Out = Owed(sent, at - 1)
  /\ Laid(sent, Rest, at, start)
  /\ start[at] = IF pc = "body" THEN 0 - (2 * l + 1) ELSE 0 - (2 * l)
  /\ AtHeader(at, l) \/ AtBody(at, l) \/ AtReply(l)

\* A frame that lies is behind the frames whose answers have been decided.
Lost ==
  \E n \in 0..(Len(sent) - 1) :
    HonestTo(n) /\ ~Honest(sent[n + 1]) /\ Begins(Owed(sent, n), Out)

Ended ==
  /\ ~Running \/ (closed /\ stdin = <<>> /\ pc = "header")
  /\ Matches

Follows == \E at, l, start : Following(at, l, start)

Place == Lost \/ Ended \/ Follows

-----------------------------------------------------------------------------
LEMMA CompleteShape ==
  ASSUME TypeOK, InOrder
  PROVE  /\ Len(sent) \in Nat
         /\ unsent = <<>> => Len(Complete) = Len(sent)
         /\ unsent # <<>> => Len(Complete) = Len(sent) - 1
         /\ Len(Complete) \in Nat /\ Len(Complete) <= Len(sent)
         /\ DOMAIN Complete = 1..Len(Complete)
         /\ \A k \in 1..Len(Complete) : k \in 1..Len(sent) /\ Complete[k] = sent[k]
<1>1. sent \in Seq(Frames) /\ Len(sent) \in Nat
  BY LenProperties DEF TypeOK
<1>2. CASE unsent = <<>>
  <2>1. Complete = sent
    BY <1>2 DEF Complete
  <2> QED
    BY <1>1, <1>2, <2>1, LenProperties
<1>3. CASE unsent # <<>>
  <2>1. Complete = SubSeq(sent, 1, Len(sent) - 1) /\ Len(sent) > 0
    BY <1>3 DEF Complete, InOrder
  <2>2. CASE Len(sent) = 1
    <3>1. Complete = <<>>
      BY <1>1, <2>1, <2>2, SubSeqEmpty
    <3> QED
      <4>1. Len(Complete) = 0 /\ DOMAIN Complete = {}
        BY <3>1, EmptySeq, LenProperties
      <4>2. /\ Len(Complete) = Len(sent) - 1 /\ Len(Complete) \in Nat
            /\ Len(Complete) <= Len(sent) /\ 1..Len(Complete) = {}
        BY <1>1, <2>2, <4>1
      <4> QED
        BY <1>1, <1>3, <4>1, <4>2
  <2>3. CASE Len(sent) > 1
    <3>1. PICK m : m = Len(sent) - 1
      OBVIOUS
    <3>2. m \in 1..Len(sent) /\ Complete = SubSeq(sent, 1, m)
      BY <1>1, <2>1, <2>3, <3>1
    <3>3. /\ SubSeq(sent, 1, m) \in Seq(Frames) /\ Len(SubSeq(sent, 1, m)) = m
          /\ \A k \in 1..m : SubSeq(sent, 1, m)[k] = sent[k]
      BY <1>1, <3>2, SubSeqProperties
    <3>4. /\ Complete \in Seq(Frames) /\ Len(Complete) = m
          /\ \A k \in 1..m : Complete[k] = sent[k]
      BY <3>2, <3>3
    <3>5. DOMAIN Complete = 1..m
      BY <3>4, LenProperties
    <3> QED
      <4>1. /\ Len(Complete) = Len(sent) - 1 /\ Len(Complete) \in Nat
            /\ Len(Complete) <= Len(sent) /\ m = Len(Complete)
        BY <1>1, <2>3, <3>1, <3>4
      <4>2. DOMAIN Complete = 1..Len(Complete)
        BY <3>5, <4>1
      <4>3. \A k \in 1..Len(Complete) : k \in 1..Len(sent) /\ Complete[k] = sent[k]
        BY <1>1, <3>4, <4>1
      <4> QED
        BY <1>1, <1>3, <4>1, <4>2, <4>3
  <2>4. Len(sent) = 1 \/ Len(sent) > 1
    <3>1. PICK n \in Nat : n = Len(sent)
      BY <1>1
    <3>2. n > 0
      BY <2>1, <3>1
    <3>3. n = 1 \/ n > 1
      BY <3>2
    <3> QED
      BY <3>1, <3>3
  <2> QED
    BY <2>2, <2>3, <2>4
<1> QED
  BY <1>2, <1>3

LEMMA OutShape ==
  ASSUME TypeOK
  PROVE  /\ Out \in Seq(Replies) /\ Len(Out) \in Nat
         /\ Given \in Seq(Replies) /\ Len(Given) \in Nat /\ Begins(Given, Out)
<1>1. Given \in Seq(Replies) /\ Len(Given) \in Nat /\ reply \in Replies
  BY GivenShape DEF TypeOK
<1>2. /\ Append(Given, reply) \in Seq(Replies)
      /\ Begins(Given, Given) /\ Begins(Given, Append(Given, reply))
  BY <1>1, AppendProperties DEF Begins
<1> QED
  BY <1>1, <1>2, LenProperties DEF Out

LEMMA BeginsTransitive ==
  ASSUME NEW S, NEW a \in Seq(S), NEW b \in Seq(S), NEW c \in Seq(S), Begins(a, b), Begins(b, c)
  PROVE  Begins(a, c)
BY LenProperties DEF Begins

LEMMA BeginningsCompare ==
  ASSUME NEW S, NEW a \in Seq(S), NEW b \in Seq(S), NEW c \in Seq(S),
         Begins(a, b), Begins(c, b)
  PROVE  Begins(a, c) \/ Begins(c, a)
BY LenProperties DEF Begins

LEMMA LostMatches ==
  ASSUME ServerInv, Lost
  PROVE  Matches
<1>1. TypeOK /\ InOrder
  BY DEF ServerInv
<1>2. PICK m \in 0..(Len(sent) - 1) :
        HonestTo(m) /\ ~Honest(sent[m + 1]) /\ Begins(Owed(sent, m), Out)
  BY DEF Lost
<1>3. /\ Len(sent) \in Nat /\ Len(Complete) \in Nat
      /\ Len(Complete) <= Len(sent) /\ Len(Complete) >= Len(sent) - 1
  BY <1>1, CompleteShape
<1>4. ASSUME NEW n, HonestCount(n)
      PROVE  n = m
  <2>1. /\ n \in Nat /\ n <= Len(Complete) /\ HonestTo(n)
        /\ n < Len(Complete) => ~Honest(sent[n + 1])
    BY <1>3, <1>4 DEF HonestCount
  <2>2. ~ (n > m)
    <3> SUFFICES ASSUME n > m PROVE FALSE
      OBVIOUS
    <3>1. m + 1 \in 1..n
      BY <1>3, <2>1
    <3> QED
      BY <1>2, <2>1, <3>1 DEF HonestTo
  <2>3. ~ (n < m)
    <3> SUFFICES ASSUME n < m PROVE FALSE
      OBVIOUS
    <3>1. n + 1 \in 1..m /\ n < Len(Complete)
      BY <1>3, <2>1
    <3> QED
      BY <1>2, <2>1, <3>1 DEF HonestTo
  <2> QED
    BY <1>3, <2>1, <2>2, <2>3
<1>5. ~ HonestTo(Len(sent))
  <2>1. m + 1 \in 1..Len(sent)
    BY <1>3
  <2> QED
    BY <1>2, <2>1 DEF HonestTo
<1> QED
  BY <1>2, <1>4, <1>5 DEF Matches

LEMMA FollowingMatches ==
  ASSUME ServerInv, Follows
  PROVE  Matches
<1>1. TypeOK /\ InOrder /\ sent \in Seq(Frames)
  BY DEF ServerInv, TypeOK
<1>2. PICK at, l, start : Following(at, l, start)
  BY DEF Follows
<1>3. /\ Len(sent) \in Nat /\ Len(Complete) \in Nat /\ Len(Complete) <= Len(sent)
      /\ unsent = <<>> => Len(Complete) = Len(sent)
      /\ unsent # <<>> => Len(Complete) = Len(sent) - 1
  BY <1>1, CompleteShape
<1>4. /\ at \in 1..(Len(sent) + 1) /\ l \in Nat /\ at - 1 \in 0..Len(sent)
      /\ \A j \in 1..Len(sent) : j <= at => Honest(sent[j])
      /\ Out = Owed(sent, at - 1)
  BY <1>2, <1>3 DEF Following
<1>5. at - 1 <= Len(Complete)
  <2>1. CASE unsent = <<>>
    BY <1>3, <1>4, <2>1
  <2>2. CASE at <= Len(sent)
    BY <1>3, <1>4, <2>2
  <2>3. CASE unsent # <<>> /\ at = Len(sent) + 1
    <3>1. start[at] = Len(Rest) /\ start[at] <= 0
      BY <1>2, <1>4, <2>3 DEF Following, Laid
    <3>2. Len(unsent) > 0 /\ Len(Rest) = Len(stdin) + Len(unsent)
          /\ Len(stdin) \in Nat /\ Len(unsent) \in Nat
      <4>1. unsent \in Seq(Units) /\ Len(unsent) # 0
        BY <1>1, <2>3, EmptySeq DEF TypeOK
      <4> QED
        BY <1>1, <4>1, RestShape
    <3> QED
      BY <3>1, <3>2
  <2> QED
    BY <1>3, <1>4, <2>1, <2>2, <2>3
<1>6. ASSUME NEW n, HonestCount(n)
      PROVE  Begins(Out, Owed(sent, n))
  <2>1. /\ n \in Nat /\ n <= Len(Complete) /\ (n < Len(Complete) => ~Honest(sent[n + 1]))
    BY <1>3, <1>6 DEF HonestCount
  <2>2. ~ (n < at - 1)
    <3> SUFFICES ASSUME n < at - 1 PROVE FALSE
      OBVIOUS
    <3>1. n + 1 \in 1..Len(sent) /\ n + 1 <= at /\ n < Len(Complete)
      BY <1>3, <1>4, <1>5, <2>1
    <3> QED
      BY <1>4, <2>1, <3>1
  <2>3. n \in (at - 1)..Len(sent)
    BY <1>3, <1>4, <2>1, <2>2
  <2> QED
    BY <1>1, <1>4, <2>3, OwedGrows
<1> QED
  BY <1>6 DEF Matches

(* Wherever the server is, what it says is what it owes.                    *)
LEMMA PlaceMatches ==
  ASSUME ServerInv, Place
  PROVE  Matches
BY LostMatches, FollowingMatches DEF Place, Ended

LEMMA OwedSame ==
  ASSUME NEW s, NEW t, NEW n \in Nat, \A k \in 1..n : s[k] = t[k]
  PROVE  Owed(s, n) = Owed(t, n)
<1>1. Messages(s, n) = Messages(t, n)
  BY DEF Messages
<1> QED
  BY <1>1 DEF Owed

LEMMA BeginsItself ==
  ASSUME NEW s, Len(s) \in Nat
  PROVE  Begins(s, s)
BY DEF Begins

LEMMA OutShapeNext ==
  ASSUME TypeOK'
  PROVE  Out' \in Seq(Replies)
<1>1. received' \in Seq(Replies) /\ stdout' \in Seq(Replies) /\ reply' \in Replies
  BY DEF TypeOK
<1>2. received' \o stdout' \in Seq(Replies)
  BY <1>1, ConcatProperties
<1>3. Append(received' \o stdout', reply') \in Seq(Replies)
  BY <1>1, <1>2, AppendProperties
<1> QED
  BY <1>2, <1>3 DEF Out, Given

\* The list of frames may grow, and the answers too.
LEMMA LostKept ==
  ASSUME ServerInv, ServerInv', Lost, Begins(Out, Out'),
         Len(sent) <= Len(sent'), \A k \in 1..Len(sent) : sent'[k] = sent[k]
  PROVE  Lost'
<1>1. /\ TypeOK /\ TypeOK' /\ sent \in Seq(Frames) /\ sent' \in Seq(Frames)
      /\ Len(sent) \in Nat /\ Len(sent') \in Nat
  BY LenProperties DEF ServerInv, TypeOK
<1>2. PICK n \in 0..(Len(sent) - 1) :
        HonestTo(n) /\ ~Honest(sent[n + 1]) /\ Begins(Owed(sent, n), Out)
  BY DEF Lost
<1>3. n \in Nat /\ n \in 0..Len(sent) /\ n \in 0..(Len(sent') - 1) /\ n + 1 \in 1..Len(sent)
  BY <1>1
<1>4. \A k \in 1..n : sent[k] = sent'[k]
  BY <1>1, <1>3
<1>5. HonestTo(n)' /\ ~Honest(sent'[n + 1])
  BY <1>2, <1>3, <1>4 DEF HonestTo
<1>6. Owed(sent, n) = Owed(sent', n)
  BY <1>3, <1>4, OwedSame
<1>7. /\ Owed(sent, n) \in Seq(Replies) /\ Out \in Seq(Replies) /\ Out' \in Seq(Replies)
  <2>1. Out' \in Seq(Replies)
    BY <1>1, OutShapeNext
  <2>2. Out \in Seq(Replies)
    BY <1>1, OutShape
  <2> QED
    BY <1>1, <1>3, <2>1, <2>2, OwedRounds
<1>8. Begins(Owed(sent, n), Out')
  BY <1>2, <1>7, BeginsTransitive
<1> QED
  BY <1>3, <1>5, <1>6, <1>8 DEF Lost

LEMMA StillThere ==
  ASSUME ServerInv, ServerInv', Lost \/ Follows,
         UNCHANGED <<sent, Rest, Out, pc, contentLength>>
  PROVE  (Lost \/ Follows)'
<1>1. CASE Lost
  BY <1>1 DEF Lost, HonestTo
<1>2. CASE Follows
  <2>1. PICK at, l, start : Following(at, l, start)
    BY <1>2 DEF Follows
  <2>2. Following(at, l, start)'
    BY <2>1 DEF Following, AtHeader, AtBody, AtReply
  <2> QED
    BY <2>2 DEF Follows
<1> QED
  BY <1>1, <1>2

LEMMA MatchesKept ==
  ASSUME ServerInv, ServerInv', Matches, UNCHANGED <<sent, unsent>>, Begins(Out', Out)
  PROVE  Matches'
<1>1. /\ TypeOK /\ TypeOK' /\ InOrder /\ sent \in Seq(Frames)
  BY DEF ServerInv, TypeOK
<1>2. Out \in Seq(Replies) /\ Out' \in Seq(Replies)
  <2>1. Out' \in Seq(Replies)
    BY <1>1, OutShapeNext
  <2>2. Out \in Seq(Replies)
    BY <1>1, OutShape
  <2> QED
    BY <2>1, <2>2
<1>3. ASSUME NEW n, HonestCount(n)'
      PROVE  /\ Begins(Out', Owed(sent, n)) \/ Begins(Owed(sent, n), Out')
             /\ HonestTo(Len(sent)) => Begins(Out', Owed(sent, n))
  <2>1. HonestCount(n)
    BY <1>3 DEF HonestCount, HonestTo, Complete
  <2>2. n \in 0..Len(sent)
    BY <1>1, <2>1, CompleteShape DEF HonestCount
  <2>3. Owed(sent, n) \in Seq(Replies)
    BY <1>1, <2>2, OwedRounds
  <2>4. Begins(Out, Owed(sent, n)) => Begins(Out', Owed(sent, n))
    BY <1>2, <2>3, BeginsTransitive
  <2>5. Begins(Owed(sent, n), Out) => Begins(Out', Owed(sent, n)) \/ Begins(Owed(sent, n), Out')
    BY <1>2, <2>3, BeginningsCompare
  <2> QED
    BY <2>1, <2>4, <2>5 DEF Matches
<1> QED
  BY <1>3 DEF Matches, HonestTo

LEMMA RestOfClientKeepsPlace ==
  ASSUME ServerInv, ServerInv', Place, WriteUnit \/ Close \/ HangUp \/ Receive
  PROVE  Place'
<1>1. TypeOK /\ TypeOK'
  BY DEF ServerInv
<1>2. /\ UNCHANGED <<sent, reply, pc, contentLength>>
      /\ Rest' = Rest /\ Given' = Given
  <2>1. CASE WriteUnit
    BY <1>1, <2>1, WritingKeepsRest DEF WriteUnit, server, Given
  <2>2. CASE Receive
    BY <1>1, <2>2, ReceivingKeepsGiven DEF Receive, server, Rest
  <2>3. CASE Close \/ HangUp
    BY <2>3 DEF Close, HangUp, server, Rest, Given
  <2> QED
    BY <2>1, <2>2, <2>3
<1>3. Out' = Out
  BY <1>2 DEF Out
<1>4. CASE Lost \/ Follows
  BY <1>2, <1>3, <1>4, StillThere DEF Place
<1>5. CASE Ended
  <2>1. ~WriteUnit
    BY <1>5 DEF Ended, WriteUnit, Running
  <2>2. UNCHANGED <<unsent, stdin>> /\ (closed => closed')
    BY <2>1 DEF Close, HangUp, Receive
  <2>3. Matches'
    <3>1. Begins(Out', Out)
      BY <1>1, <1>3, OutShape, BeginsItself
    <3> QED
      BY <1>2, <1>5, <2>2, <3>1, MatchesKept DEF Ended
  <2>4. Ended'
    BY <1>2, <1>5, <2>2, <2>3 DEF Ended, Running
  <2> QED
    BY <2>4 DEF Place
<1> QED
  BY <1>4, <1>5 DEF Place

LEMMA EndingKeepsPlace ==
  ASSUME ServerInv, ServerInv', Place,
         ReadLastLine \/ ReadEnd \/ MissBody \/ WriteToNobody
  PROVE  Place'
<1>1. TypeOK /\ TypeOK'
  BY DEF ServerInv
<1>2. /\ UNCHANGED <<sent, unsent, received, stdout>>
      /\ pc' \in {"exited", "failed"} \/ (pc' = "header" /\ closed' /\ stdin' = <<>>)
      /\ pc # "write" => pc' # "write"
      /\ pc' # "write"
  BY DEF ReadLastLine, ReadEnd, MissBody, WriteToNobody, client, server
<1>3. Out' = Given
  BY <1>2 DEF Out, Given
<1>4. Matches'
  <2>1. Begins(Out', Out)
    BY <1>1, <1>3, OutShape
  <2> QED
    BY <1>2, <2>1, PlaceMatches, MatchesKept
<1> QED
  BY <1>2, <1>4 DEF Place, Ended, Running

LEMMA NoneCounted ==
  ASSUME NEW frame
  PROVE  Counted(frame, 0) = None
BY DEF Counted

LEMMA WriteReplyKeepsPlace ==
  ASSUME ServerInv, ServerInv', Place, WriteReply
  PROVE  Place'
<1>1. TypeOK /\ TypeOK'
  BY DEF ServerInv
<1>2. /\ pc = "write" /\ stdout' = Append(stdout, reply) /\ pc' = "header"
      /\ UNCHANGED <<sent, unsent, received, stdin, contentLength>>
  BY DEF WriteReply, client
<1>3. Given' = Append(Given, reply)
  BY <1>1, <1>2, WritingIsGiving
<1>4. Out' = Out /\ Rest' = Rest
  BY <1>2, <1>3 DEF Out, Rest
<1>5. CASE Lost
  BY <1>2, <1>4, <1>5 DEF Place, Lost, HonestTo
<1>6. CASE Follows
  <2>1. PICK at, l, start : Following(at, l, start)
    BY <1>6 DEF Follows
  <2>2. AtReply(l)
    BY <1>2, <2>1 DEF Following, AtHeader, AtBody
  <2>3. AtHeader(at, l)'
    <3>1. at \in 1..(Len(sent) + 1) /\ (at <= Len(sent) => Len(sent[at].headers) \in Nat)
      <4>1. sent \in Seq(Frames) /\ Len(sent) \in Nat /\ at \in 1..(Len(sent) + 1)
        BY <1>1, <2>1, LenProperties DEF TypeOK, Following
      <4>2. at <= Len(sent) => sent[at] \in Frames
        BY <4>1, ElementOfSeq
      <4> QED
        BY <4>1, <4>2, FrameShape
    <3> QED
      BY <1>2, <2>2, <3>1, NoneCounted DEF AtReply, AtHeader
  <2>4. Following(at, l, start)'
    BY <1>2, <1>4, <2>1, <2>3 DEF Following
  <2> QED
    BY <2>4 DEF Place, Follows
<1>7. ~Ended
  BY <1>2 DEF Ended, Running
<1> QED
  BY <1>5, <1>6, <1>7 DEF Place

LEMMA BeginFrameKeepsPlace ==
  ASSUME ServerInv, ServerInv', Place, BeginFrame
  PROVE  Place'
<1>1. PICK frame \in Frames :
        sent' = Append(sent, frame) /\ unsent' = UnitsOf(Len(sent) + 1, frame)
  BY DEF BeginFrame
<1>2. /\ TypeOK /\ sent \in Seq(Frames) /\ Len(sent) \in Nat /\ unsent = <<>>
      /\ Running /\ ~closed
      /\ UNCHANGED <<received, stdin, stdout, contentLength, reply, pc>>
  BY LenProperties DEF ServerInv, TypeOK, BeginFrame, server
<1>3. /\ sent' \in Seq(Frames) /\ Len(sent') = Len(sent) + 1
      /\ \A k \in 1..Len(sent) : sent'[k] = sent[k]
      /\ sent'[Len(sent) + 1] = frame
  BY <1>1, <1>2, AppendProperties
<1>4. Out' = Out /\ Out \in Seq(Replies) /\ Begins(Out, Out')
  <2>1. Out' = Out
    BY <1>2 DEF Out, Given
  <2> QED
    BY <1>2, <2>1, OutShape, BeginsItself
<1>5. CASE Lost
  <2>1. Lost'
    BY <1>2, <1>3, <1>4, <1>5, LostKept
  <2> QED
    BY <2>1 DEF Place
<1>6. CASE Follows
  <2>1. PICK at, l, start : Following(at, l, start)
    BY <1>6 DEF Follows
  <2>2. /\ at \in 1..(Len(sent) + 1) /\ at \in Nat \ {0} /\ at <= Len(sent) + 1 /\ l \in Nat
        /\ at - 1 \in Nat /\ at - 1 <= Len(sent)
        /\ \A j \in 1..Len(sent) : j <= at => Honest(sent[j])
        /\ Out = Owed(sent, at - 1) /\ Laid(sent, Rest, at, start)
        /\ start[at] = IF pc = "body" THEN 0 - (2 * l + 1) ELSE 0 - (2 * l)
        /\ AtHeader(at, l) \/ AtBody(at, l) \/ AtReply(l)
    BY <1>2, <2>1 DEF Following
  <2>3. Out' = Owed(sent', at - 1)
    <3>1. \A k \in 1..(at - 1) : sent[k] = sent'[k]
      BY <1>2, <1>3, <2>2
    <3>2. Owed(sent, at - 1) = Owed(sent', at - 1)
      BY <2>2, <3>1, OwedSame
    <3> QED
      BY <1>4, <2>2, <3>2
  <2>4. CASE at = Len(sent) + 1 /\ ~Honest(frame)
    <3>1. HonestTo(at - 1)' /\ ~Honest(sent'[(at - 1) + 1])
      <4>1. \A j \in 1..(at - 1) : Honest(sent'[j])
        BY <1>2, <1>3, <2>2, <2>4
      <4>2. (at - 1) + 1 = Len(sent) + 1
        BY <1>2, <2>4
      <4> QED
        BY <1>3, <2>4, <4>1, <4>2 DEF HonestTo
    <3>2. Begins(Owed(sent', at - 1), Out')
      BY <1>4, <2>3
    <3>3. at - 1 \in 0..(Len(sent') - 1)
      BY <1>2, <1>3, <2>2
    <3>4. Lost'
      BY <3>1, <3>2, <3>3 DEF Lost
    <3> QED
      BY <3>4 DEF Place
  <2>5. CASE at <= Len(sent) \/ Honest(frame)
    <3>1. Rest \in Seq(Units) /\ Rest' = Rest \o UnitsOf(Len(sent) + 1, frame)
      <4>1. Rest = stdin
        BY <1>2, ConcatProperties, EmptySeq DEF Rest, TypeOK
      <4> QED
        BY <1>1, <1>2, <4>1 DEF Rest, TypeOK
    <3>2. PICK longer : longer = [j \in at..(Len(sent) + 2) |->
                                    IF j = Len(sent) + 2 THEN Len(Rest') ELSE start[j]]
      OBVIOUS
    <3>3. longer[at] = start[at]
      BY <1>2, <2>2, <3>2
    <3>4. Laid(sent', Rest', at, longer)
      <4>1. PICK rest \in Seq(Units) : rest = Rest
        BY <3>1
      <4>2. Laid(sent, rest, at, start)
        BY <2>2, <4>1
      <4>3. LET more == Append(sent, frame)
                all == rest \o UnitsOf(Len(sent) + 1, frame)
            IN  Laid(more, all, at,
                     [j \in at..(Len(sent) + 2) |->
                        IF j = Len(sent) + 2 THEN Len(all) ELSE start[j]])
        BY <1>2, <2>2, <4>2, LaidAppended
      <4>4. Rest' = rest \o UnitsOf(Len(sent) + 1, frame)
        BY <3>1, <4>1
      <4> QED
        BY <1>1, <3>2, <4>3, <4>4
    <3>5. \A j \in 1..Len(sent') : j <= at => Honest(sent'[j])
      <4> SUFFICES ASSUME NEW j \in 1..Len(sent'), j <= at PROVE Honest(sent'[j])
        OBVIOUS
      <4>1. CASE j \in 1..Len(sent)
        BY <1>3, <2>2, <4>1
      <4>2. CASE j = Len(sent) + 1
        BY <1>2, <1>3, <2>2, <2>5, <4>2
      <4> QED
        BY <1>2, <1>3, <4>1, <4>2
    <3>6. AtHeader(at, l)' \/ AtBody(at, l)' \/ AtReply(l)'
      <4>1. at <= Len(sent) => sent'[at] = sent[at] /\ at <= Len(sent')
        BY <1>2, <1>3, <2>2
      <4>2. CASE AtHeader(at, l)
        <5>1. CASE at <= Len(sent)
          <6>1. ~ (at > Len(sent'))
            BY <1>2, <1>3, <2>2, <5>1
          <6> QED
            BY <1>2, <4>1, <4>2, <5>1, <6>1 DEF AtHeader
        <5>2. CASE at = Len(sent) + 1
          <6>1. l = 0 /\ contentLength = None /\ pc = "header"
            BY <1>2, <4>2, <5>2 DEF AtHeader
          <6>2. Counted(sent'[at], 0) = None /\ Len(sent'[at].headers) \in Nat
            BY <1>3, <5>2, NoneCounted, FrameShape
          <6>3. ~ (at > Len(sent'))
            BY <1>2, <1>3, <5>2
          <6> QED
            BY <1>2, <6>1, <6>2, <6>3 DEF AtHeader
        <5> QED
          BY <1>2, <2>2, <5>1, <5>2
      <4>3. CASE AtBody(at, l)
        BY <1>2, <4>1, <4>3 DEF AtBody
      <4>4. CASE AtReply(l)
        BY <1>2, <4>4 DEF AtReply
      <4> QED
        BY <2>2, <4>2, <4>3, <4>4
    <3>7. at \in 1..(Len(sent') + 1)
      BY <1>2, <1>3, <2>2
    <3>8. longer[at] = IF pc' = "body" THEN 0 - (2 * l + 1) ELSE 0 - (2 * l)
      BY <1>2, <2>2, <3>3
    <3>9. Following(at, l, longer)'
      <4>1. l \in Nat
        BY <2>2
      <4> QED
        BY <2>3, <3>5, <3>6, <3>7, <3>8, <3>4, <4>1 DEF Following
    <3> QED
      BY <3>9 DEF Place, Follows
  <2> QED
    BY <1>2, <2>2, <2>4, <2>5
<1>7. ~Ended
  BY <1>2 DEF Ended
<1> QED
  BY <1>5, <1>6, <1>7 DEF Place

-----------------------------------------------------------------------------
LEMMA FirstUnits ==
  ASSUME NEW s \in Seq(Units), NEW n \in 1..Len(s)
  PROVE  /\ SubSeq(s, 1, n) \in Seq(Units) /\ Len(SubSeq(s, 1, n)) = n
         /\ \A k \in 1..n : SubSeq(s, 1, n)[k] = s[k]
BY LenProperties, SubSeqProperties

\* What lies at the front of the pipe, and what the frame is.
LEMMA FrameInFront ==
  ASSUME ServerInv, NEW at, NEW l, NEW start, Following(at, l, start), at <= Len(sent)
  PROVE  /\ at \in Nat \ {0} /\ at \in 1..Len(sent) /\ l \in Nat
         /\ sent[at] \in Frames /\ Honest(sent[at])
         /\ Len(sent[at].headers) \in Nat
         /\ start[at] \in Int /\ start[at + 1] = start[at] + Size(sent[at])
         /\ \A i \in 1..(2 * Len(sent[at].headers) + 3) :
              start[at] + i \in 1..Len(stdin) =>
                stdin[start[at] + i] = UnitsOf(at, sent[at])[i]
<1>1. /\ TypeOK /\ sent \in Seq(Frames) /\ Len(sent) \in Nat
  BY LenProperties DEF ServerInv, TypeOK
<1>2. /\ at \in 1..(Len(sent) + 1) /\ l \in Nat /\ Laid(sent, Rest, at, start)
      /\ \A j \in 1..Len(sent) : j <= at => Honest(sent[j])
  BY DEF Following
<1>3. at \in Nat \ {0} /\ at \in 1..Len(sent) /\ at \in at..Len(sent) /\ at \in at..(Len(sent) + 1)
  BY <1>1, <1>2
<1>4. sent[at] \in Frames /\ Honest(sent[at])
  BY <1>1, <1>2, <1>3, ElementOfSeq
<1>5. Len(sent[at].headers) \in Nat /\ Size(sent[at]) = 2 * Len(sent[at].headers) + 3
  BY <1>4, SizeOfFrame
<1>6. /\ start[at] \in Int /\ start[at + 1] = start[at] + Size(sent[at])
      /\ \A i \in 1..Size(sent[at]) :
           start[at] + i >= 1 => Rest[start[at] + i] = UnitsOf(at, sent[at])[i]
  BY <1>2, <1>3 DEF Laid
<1>7. ASSUME NEW i \in 1..(2 * Len(sent[at].headers) + 3), start[at] + i \in 1..Len(stdin)
      PROVE  stdin[start[at] + i] = UnitsOf(at, sent[at])[i]
  <2>1. i \in 1..Size(sent[at]) /\ start[at] + i >= 1
    BY <1>5, <1>7
  <2>2. Rest[start[at] + i] = UnitsOf(at, sent[at])[i]
    BY <1>6, <2>1
  <2>3. Rest[start[at] + i] = stdin[start[at] + i]
    BY <1>1, <1>7, RestShape
  <2> QED
    BY <2>2, <2>3
<1> QED
  BY <1>2, <1>3, <1>4, <1>5, <1>6, <1>7

LEMMA CountedNext ==
  ASSUME NEW frame \in Frames, NEW l \in Nat, l < Len(frame.headers)
  PROVE  Counted(frame, l + 1) =
           IF frame.headers[l + 1] = "length" THEN BodySize ELSE Counted(frame, l)
<1>1. \A i \in 1..(l + 1) : i \in 1..l \/ i = l + 1
  OBVIOUS
<1>2. \A i \in 1..l : i \in 1..(l + 1)
  OBVIOUS
<1>3. l + 1 \in 1..(l + 1)
  OBVIOUS
<1> QED
  BY <1>1, <1>2, <1>3 DEF Counted

\* The first unit in the pipe, and the second, of a frame whose header lines are being read.
LEMMA LineInFront ==
  ASSUME ServerInv, NEW at, NEW l, NEW start, Following(at, l, start), pc = "header",
         LineEnds # {}
  PROVE  /\ at <= Len(sent) /\ l <= Len(sent[at].headers)
         /\ l < Len(sent[at].headers) =>
              /\ LineEnd = 2 /\ 2 <= Len(stdin)
              /\ stdin[1] = Unit("head", sent[at].headers[l + 1], at, 0)
              /\ stdin[2] = Unit("tail", sent[at].headers[l + 1], at, sent[at].declared)
         /\ l = Len(sent[at].headers) => LineEnd = 1 /\ stdin[1] = Blank
<1>1. /\ TypeOK /\ stdin \in Seq(Units) /\ Len(sent) \in Nat /\ Len(stdin) \in Nat
  BY LenProperties DEF ServerInv, TypeOK
<1>2. /\ LineEnd \in 1..Len(stdin) /\ LineEnd \in LineEnds
      /\ \A j \in LineEnds : LineEnd <= j
  BY <1>1, LineEndIsFirst
<1>3. /\ AtHeader(at, l) /\ start[at] = 0 - (2 * l) /\ l \in Nat /\ at \in 1..(Len(sent) + 1)
      /\ Laid(sent, Rest, at, start)
  BY DEF Following, AtBody, AtReply
<1>4. at <= Len(sent)
  <2> SUFFICES ASSUME ~ (at <= Len(sent)) PROVE FALSE
    OBVIOUS
  <2>1. at = Len(sent) + 1 /\ l = 0
    BY <1>1, <1>3 DEF AtHeader
  <2>2. Len(Rest) = 0
    BY <1>3, <2>1 DEF Laid
  <2>3. Len(Rest) >= Len(stdin)
    BY <1>1, RestShape
  <2> QED
    BY <1>1, <1>2, <2>2, <2>3
<1> DEFINE frame == sent[at]
           lines == Len(frame.headers)
<1>5. /\ at \in Nat /\ frame \in Frames /\ lines \in Nat /\ l <= lines
      /\ \A i \in 1..(2 * lines + 3) :
           start[at] + i \in 1..Len(stdin) => stdin[start[at] + i] = UnitsOf(at, frame)[i]
  <2>1. l <= Len(sent[at].headers)
    BY <1>3, <1>4 DEF AtHeader
  <2>2. /\ at \in Nat \ {0} /\ sent[at] \in Frames /\ Len(sent[at].headers) \in Nat
        /\ \A i \in 1..(2 * Len(sent[at].headers) + 3) :
             start[at] + i \in 1..Len(stdin) => stdin[start[at] + i] = UnitsOf(at, sent[at])[i]
    BY <1>4, FrameInFront
  <2> QED
    BY <2>1, <2>2
<1>6. LET units == UnitsOf(at, frame)
      IN  /\ \A line \in 1..lines :
               /\ units[2 * line - 1] = Unit("head", frame.headers[line], at, 0)
               /\ units[2 * line] = Unit("tail", frame.headers[line], at, frame.declared)
          /\ units[2 * lines + 1] = Blank
  BY <1>5, LinesOfFrame
<1> HIDE DEF lines, frame
<1>7. 1 \in 1..Len(stdin)
  BY <1>1, <1>2
<1>8. \A j \in 1..Len(stdin) : j \in LineEnds <=> stdin[j].kind \in {"tail", "blank"}
  BY DEF LineEnds
<1>9. ASSUME l < lines
      PROVE  /\ LineEnd = 2 /\ 2 <= Len(stdin)
             /\ stdin[1] = Unit("head", frame.headers[l + 1], at, 0)
             /\ stdin[2] = Unit("tail", frame.headers[l + 1], at, frame.declared)
  <2>1. /\ l + 1 \in 1..lines /\ 2 * (l + 1) - 1 = 2 * l + 1 /\ 2 * (l + 1) = 2 * l + 2
        /\ 2 * l + 1 \in 1..(2 * lines + 3) /\ 2 * l + 2 \in 1..(2 * lines + 3)
        /\ start[at] + (2 * l + 1) = 1 /\ start[at] + (2 * l + 2) = 2
    BY <1>3, <1>5, <1>9
  <2>2. stdin[1] = Unit("head", frame.headers[l + 1], at, 0)
    <3>1. stdin[1] = UnitsOf(at, frame)[2 * l + 1]
      BY <1>5, <1>7, <2>1
    <3>2. UnitsOf(at, frame)[2 * (l + 1) - 1] = Unit("head", frame.headers[l + 1], at, 0)
      BY <1>6, <2>1
    <3> QED
      BY <2>1, <3>1, <3>2
  <2>3. LineEnd # 1
    BY <1>2, <1>7, <1>8, <2>2 DEF Unit
  <2>4. 2 \in 1..Len(stdin) /\ LineEnd >= 2
    BY <1>1, <1>2, <2>3
  <2>5. stdin[2] = Unit("tail", frame.headers[l + 1], at, frame.declared)
    <3>1. stdin[2] = UnitsOf(at, frame)[2 * l + 2]
      BY <1>5, <2>1, <2>4
    <3>2. UnitsOf(at, frame)[2 * (l + 1)] = Unit("tail", frame.headers[l + 1], at, frame.declared)
      BY <1>6, <2>1
    <3> QED
      BY <2>1, <3>1, <3>2
  <2>6. 2 \in LineEnds
    BY <1>8, <2>4, <2>5 DEF Unit
  <2>7. LineEnd = 2
    BY <1>1, <1>2, <2>4, <2>6
  <2> QED
    BY <1>1, <2>2, <2>4, <2>5, <2>7
<1>10. ASSUME l = lines
       PROVE  LineEnd = 1 /\ stdin[1] = Blank
  <2>1. 2 * l + 1 \in 1..(2 * lines + 3) /\ start[at] + (2 * l + 1) = 1 /\ 2 * l + 1 = 2 * lines + 1
    BY <1>3, <1>5, <1>10
  <2>2. stdin[1] = Blank
    BY <1>5, <1>6, <1>7, <2>1
  <2>3. 1 \in LineEnds
    BY <1>7, <1>8, <2>2 DEF Blank, Unit
  <2> QED
    BY <1>1, <1>2, <2>2, <2>3
<1> QED
  BY <1>4, <1>5, <1>9, <1>10 DEF lines, frame

\* A step that reads m units goes on in the frames where it was.
LEMMA ReadingMovesOn ==
  ASSUME ServerInv, NEW m, Reads(m), NEW at \in 1..(Len(sent) + 1), NEW start,
         Laid(sent, Rest, at, start)
  PROVE  Laid(sent', Rest', at, [j \in at..(Len(sent) + 1) |-> start[j] - m])
<1>1. /\ TypeOK /\ sent \in Seq(Frames) /\ Len(sent) \in Nat /\ sent' = sent
  BY LenProperties DEF ServerInv, TypeOK, Reads
<1>2. /\ m \in Nat /\ Len(Rest') = Len(Rest) - m /\ Len(Rest) \in Nat
      /\ \A k \in 1..Len(Rest') : Rest'[k] = Rest[k + m]
  BY <1>1, RestAfterReading, RestShape
<1>3. at \in Nat \ {0} /\ at <= Len(sent) + 1
  BY <1>1
<1>4. Dropped(Rest, m, Rest')
  BY <1>2 DEF Dropped
<1>5. PICK rest, left : rest = Rest /\ left = Rest'
  OBVIOUS
<1>6. Laid(sent, rest, at, start) /\ Dropped(rest, m, left)
  BY <1>4, <1>5
<1>7. Laid(sent, left, at, [j \in at..(Len(sent) + 1) |-> start[j] - m])
  BY <1>1, <1>2, <1>3, <1>6, LaidShifted
<1> QED
  BY <1>1, <1>5, <1>7

LEMMA HeaderKeepsFollowing ==
  ASSUME ServerInv, ServerInv', NEW at, NEW l, NEW start, Following(at, l, start),
         NEW m \in {1, 2}, Reads(m), UNCHANGED <<received, stdout, reply>>,
         at <= Len(sent), pc = "header",
         \/ /\ m = 2 /\ l < Len(sent[at].headers) /\ pc' = "header"
            /\ contentLength' = Counted(sent[at], l + 1)
         \/ /\ m = 1 /\ l = Len(sent[at].headers) /\ pc' = "body"
            /\ contentLength' = BodySize
  PROVE  Follows'
<1>1. /\ sent' = sent /\ Len(sent) \in Nat
  BY LenProperties DEF ServerInv, TypeOK, Reads
<1>2. /\ at \in 1..(Len(sent) + 1) /\ l \in Nat /\ Laid(sent, Rest, at, start)
      /\ \A j \in 1..Len(sent) : j <= at => Honest(sent[j])
      /\ Out = Owed(sent, at - 1) /\ start[at] = 0 - (2 * l)
  BY DEF Following
<1>3. Out' = Owed(sent', at - 1)
  BY <1>1, <1>2 DEF Out, Given
<1>4. PICK moved : moved = [j \in at..(Len(sent) + 1) |-> start[j] - m]
  OBVIOUS
<1>5. Laid(sent', Rest', at, moved)
  BY <1>2, <1>4, ReadingMovesOn
<1>6. moved[at] = start[at] - m
  BY <1>1, <1>2, <1>4
<1>7. Len(sent[at].headers) \in Nat
  BY FrameInFront
<1>8. \E k \in Nat :
        /\ moved[at] = IF pc' = "body" THEN 0 - (2 * k + 1) ELSE 0 - (2 * k)
        /\ AtHeader(at, k)' \/ AtBody(at, k)' \/ AtReply(k)'
  <2>1. CASE /\ m = 2 /\ l < Len(sent[at].headers) /\ pc' = "header"
             /\ contentLength' = Counted(sent[at], l + 1)
    <3>1. moved[at] = 0 - (2 * (l + 1)) /\ l + 1 \in Nat /\ l + 1 <= Len(sent[at].headers)
      BY <1>2, <1>6, <1>7, <2>1
    <3>2. AtHeader(at, l + 1)'
      <4>1. ~ (at > Len(sent))
        BY <1>1, <1>2
      <4> QED
        BY <1>1, <2>1, <3>1, <4>1 DEF AtHeader
    <3> QED
      BY <2>1, <3>1, <3>2
  <2>2. CASE /\ m = 1 /\ l = Len(sent[at].headers) /\ pc' = "body"
             /\ contentLength' = BodySize
    <3>1. moved[at] = 0 - (2 * l + 1)
      BY <1>2, <1>6, <2>2
    <3>2. AtBody(at, l)'
      BY <1>1, <2>2 DEF AtBody
    <3> QED
      BY <1>2, <2>2, <3>1, <3>2
  <2> QED
    BY <2>1, <2>2
<1>9. PICK k \in Nat :
        /\ moved[at] = IF pc' = "body" THEN 0 - (2 * k + 1) ELSE 0 - (2 * k)
        /\ AtHeader(at, k)' \/ AtBody(at, k)' \/ AtReply(k)'
  BY <1>8
<1>10. Following(at, k, moved)'
  BY <1>1, <1>2, <1>3, <1>5, <1>9 DEF Following
<1> QED
  BY <1>10 DEF Follows

LEMMA ReadLineKeepsPlace ==
  ASSUME ServerInv, ServerInv', Place, ReadLine
  PROVE  Place'
<1>1. /\ TypeOK /\ TypeOK' /\ stdin \in Seq(Units) /\ Len(stdin) \in Nat
      /\ pc = "header" /\ LineEnds # {}
  BY LenProperties DEF ServerInv, TypeOK, ReadLine
<1>2. LineEnd \in 1..Len(stdin)
  BY <1>1, LineEndIsFirst
<1> DEFINE line == SubSeq(stdin, 1, LineEnd)
<1>3. /\ line \in Seq(Units) /\ Len(line) = LineEnd
      /\ \A k \in 1..LineEnd : line[k] = stdin[k]
  BY <1>1, <1>2, FirstUnits
<1>4. /\ UNCHANGED <<sent, unsent, received, stdout, reply>>
      /\ stdin' = SubSeq(stdin, LineEnd + 1, Len(stdin))
      /\ pc' # "write"
  BY <1>1 DEF ReadLine, client
<1>5. \/ /\ line = <<Blank>> /\ contentLength' = contentLength
         /\ pc' = IF contentLength = None THEN "failed" ELSE "body"
      \/ /\ IsHeader(line) /\ line[1].line = "length"
         /\ contentLength' = line[2].part /\ pc' = pc
      \/ /\ IsHeader(line) /\ line[1].line = "invalid"
         /\ pc' = "failed" /\ contentLength' = contentLength
      \/ /\ line # <<Blank>> /\ ~(IsHeader(line) /\ line[1].line # "other")
         /\ contentLength' = contentLength /\ pc' = pc
  BY DEF ReadLine
<1> HIDE DEF line
<1>6. Reads(LineEnd)
  BY <1>1, <1>2, <1>4 DEF Reads
<1>7. Out' = Given /\ Out = Given
  BY <1>1, <1>4 DEF Out, Given
<1>8. CASE Lost
  <2>1. Begins(Out, Out')
    BY <1>1, <1>7, OutShape, BeginsItself
  <2>2. Len(sent) <= Len(sent') /\ \A k \in 1..Len(sent) : sent'[k] = sent[k]
    BY <1>1, <1>4, LenProperties DEF TypeOK
  <2> QED
    BY <1>8, <2>1, <2>2, LostKept DEF Place
<1>9. CASE Follows
  <2>1. PICK at, l, start : Following(at, l, start)
    BY <1>9 DEF Follows
  <2>2. /\ at <= Len(sent) /\ l <= Len(sent[at].headers)
        /\ l < Len(sent[at].headers) =>
             /\ LineEnd = 2 /\ 2 <= Len(stdin)
             /\ stdin[1] = Unit("head", sent[at].headers[l + 1], at, 0)
             /\ stdin[2] = Unit("tail", sent[at].headers[l + 1], at, sent[at].declared)
        /\ l = Len(sent[at].headers) => LineEnd = 1 /\ stdin[1] = Blank
    BY <1>1, <2>1, LineInFront
  <2>3. /\ at \in Nat \ {0} /\ l \in Nat /\ sent[at] \in Frames /\ Honest(sent[at])
        /\ Len(sent[at].headers) \in Nat
    BY <2>1, <2>2, FrameInFront
  <2>4. contentLength = Counted(sent[at], l)
    BY <1>1, <2>1, <2>2 DEF Following, AtHeader, AtBody, AtReply
  <2>5. CASE l < Len(sent[at].headers)
    <3>1. l + 1 \in 1..Len(sent[at].headers)
      BY <2>3, <2>5
    <3>2. PICK h : h = sent[at].headers[l + 1]
      OBVIOUS
    <3>3. h \in HeaderLines /\ h # "invalid"
      <4>1. sent[at].headers \in Seq(HeaderLines)
        BY <2>3, FrameShape
      <4>2. h \in HeaderLines
        BY <3>1, <3>2, <4>1, ElementOfSeq
      <4>3. h \in Elements(sent[at].headers)
        BY <3>1, <3>2 DEF Elements
      <4> QED
        BY <2>3, <4>2, <4>3 DEF Honest
    <3>4. /\ LineEnd = 2 /\ Len(line) = 2
          /\ line[1] = Unit("head", h, at, 0)
          /\ line[2] = Unit("tail", h, at, sent[at].declared)
      BY <1>3, <2>2, <2>5, <3>2
    <3>5. /\ IsHeader(line) /\ line[1].line = h /\ line[2].part = sent[at].declared
          /\ Len(line) # 1
      BY <3>4 DEF IsHeader, Unit
    <3>6. sent[at].declared = BodySize
      BY <2>3 DEF Honest
    <3>7. line # <<Blank>>
      <4>1. Len(<<Blank>>) = 1
        OBVIOUS
      <4> QED
        BY <3>5, <4>1
    <3>8. pc' = pc /\ contentLength' = IF h = "length" THEN BodySize ELSE contentLength
      BY <1>5, <3>3, <3>5, <3>6, <3>7 DEF HeaderLines
    <3>9. contentLength' = Counted(sent[at], l + 1)
      BY <2>3, <2>4, <2>5, <3>2, <3>8, CountedNext
    <3>10. Follows'
      BY <1>1, <1>4, <1>6, <2>1, <2>2, <2>5, <3>4, <3>8, <3>9, HeaderKeepsFollowing
    <3> QED
      BY <3>10 DEF Place
  <2>6. CASE l = Len(sent[at].headers)
    <3>1. LineEnd = 1 /\ stdin[1] = Blank
      BY <2>2, <2>6
    <3>2. line = <<Blank>> /\ Len(line) = 1
      <4>1. line \in Seq(Units) /\ Len(line) = 1 /\ line[1] = Blank
        BY <1>3, <3>1
      <4> QED
        BY <4>1, LenProperties
    <3>3. contentLength = BodySize /\ contentLength # None
      <4>1. \E i \in 1..Len(sent[at].headers) : sent[at].headers[i] = "length"
        BY <2>3 DEF Honest, Elements
      <4> QED
        BY <2>4, <2>6, <4>1, NoneAssumption DEF Counted, BodySize
    <3>4. ~ IsHeader(line)
      BY <3>2 DEF IsHeader
    <3>5. pc' = "body" /\ contentLength' = BodySize
      BY <1>5, <3>2, <3>3, <3>4
    <3>6. Follows'
      BY <1>1, <1>4, <1>6, <2>1, <2>2, <2>6, <3>1, <3>5, HeaderKeepsFollowing
    <3> QED
      BY <3>6 DEF Place
  <2> QED
    BY <2>2, <2>3, <2>5, <2>6
<1>10. ~Ended
  <2>1. stdin # <<>>
    BY <1>2, EmptySeq
  <2> QED
    BY <1>1, <2>1 DEF Ended, Running
<1> QED
  BY <1>8, <1>9, <1>10 DEF Place

-----------------------------------------------------------------------------
(* The body of an honest frame is read as what it is.                       *)
LEMMA BodyInFront ==
  ASSUME ServerInv, NEW at, NEW l, NEW start, Following(at, l, start), ReadBody
  PROVE  /\ at \in 1..Len(sent) /\ contentLength = BodySize
         /\ reply' = Answer(at, sent[at].message)
         /\ pc' = IF reply' = Silent THEN "header" ELSE "write"
<1>1. /\ TypeOK /\ stdin \in Seq(Units) /\ Len(stdin) \in Nat
      /\ pc = "body" /\ Len(stdin) >= contentLength
  BY LenProperties DEF ServerInv, TypeOK, ReadBody
<1>2. /\ at <= Len(sent) /\ l = Len(sent[at].headers) /\ contentLength = 2
      /\ start[at] = 0 - (2 * l + 1)
  BY <1>1 DEF Following, AtHeader, AtBody, AtReply, BodySize
<1>3. /\ at \in Nat \ {0} /\ at \in 1..Len(sent) /\ l \in Nat /\ sent[at] \in Frames
      /\ \A i \in 1..(2 * Len(sent[at].headers) + 3) :
           start[at] + i \in 1..Len(stdin) => stdin[start[at] + i] = UnitsOf(at, sent[at])[i]
  <2>1. at <= Len(sent)
    BY <1>2
  <2> QED
    BY <2>1, FrameInFront
<1> DEFINE body == SubSeq(stdin, 1, contentLength)
<1>4. body \in Seq(Units) /\ Len(body) = 2 /\ \A k \in 1..2 : body[k] = stdin[k]
  BY <1>1, <1>2, FirstUnits
<1>5. ASSUME NEW part \in 1..2
      PROVE  body[part] = Unit("body", "none", at, part)
  <2>1. PICK i : i = (2 * l + 1) + part
    OBVIOUS
  <2>2. /\ i \in 1..(2 * Len(sent[at].headers) + 3) /\ start[at] + i = part
        /\ part \in 1..Len(stdin)
    BY <1>1, <1>2, <1>3, <2>1
  <2>3. stdin[part] = UnitsOf(at, sent[at])[i]
    BY <1>3, <2>2
  <2>4. UnitsOf(at, sent[at])[(2 * Len(sent[at].headers) + 1) + part]
          = Unit("body", "none", at, part)
    BY <1>3, LinesOfFrame DEF BodySize
  <2> QED
    BY <1>2, <1>4, <2>1, <2>3, <2>4
<1>6. /\ reply' = IF IsText(body) THEN HandleMessage(body) ELSE Silent
      /\ pc' = IF ~IsText(body) THEN "failed"
               ELSE IF reply' = Silent THEN "header" ELSE "write"
  BY DEF ReadBody
<1> HIDE DEF body
<1>7. IsWholeBody(body, at)
  <2>1. body = [part \in 1..2 |-> body[part]]
    BY <1>4, LenProperties
  <2> QED
    BY <1>5, <2>1 DEF IsWholeBody, BodySize
<1>8. \A part \in 1..2 : body[part].of = at /\ body[part].kind = "body" /\ body[part].part = part
  BY <1>5 DEF Unit
<1>9. IsText(body)
  <2> SUFFICES ASSUME NEW j \in 1..2
               PROVE  \E k \in 1..2 : /\ body[k].of = body[j].of /\ body[k].kind = "body"
                                      /\ body[k].part = 3 - body[j].part
    BY <1>4 DEF IsText, BodySize
  <2>1. 3 - j \in 1..2
    OBVIOUS
  <2> QED
    BY <1>8, <2>1
<1>10. HandleMessage(body) = Answer(at, sent[at].message)
  <2>1. body[1].of = at
    BY <1>8
  <2> QED
    BY <1>3, <1>7, <2>1 DEF HandleMessage
<1> QED
  BY <1>2, <1>3, <1>6, <1>9, <1>10 DEF BodySize

LEMMA ReadBodyKeepsPlace ==
  ASSUME ServerInv, ServerInv', Place, ReadBody
  PROVE  Place'
<1>1. /\ TypeOK /\ TypeOK' /\ pc = "body" /\ sent \in Seq(Frames) /\ Len(sent) \in Nat
      /\ Len(stdin) \in Nat /\ Len(stdin) >= contentLength /\ contentLength \in Nat
  BY LenProperties DEF ServerInv, TypeOK, ReadBody
<1>2. /\ UNCHANGED <<sent, unsent, received, stdout>> /\ contentLength' = None
      /\ stdin' = SubSeq(stdin, contentLength + 1, Len(stdin))
  BY DEF ReadBody, client
<1>3. Given' = Given /\ Out = Given
  BY <1>1, <1>2 DEF Out, Given
<1>4. Reads(contentLength)
  BY <1>1, <1>2 DEF Reads
<1>5. CASE Lost
  <2>1. Begins(Out, Out')
    <3>1. Given \in Seq(Replies) /\ Len(Given) \in Nat /\ reply' \in Replies
      BY <1>1, GivenShape DEF TypeOK
    <3>2. Out' = Given \/ Out' = Append(Given, reply')
      BY <1>3 DEF Out
    <3>3. Begins(Given, Append(Given, reply'))
      BY <3>1, AppendProperties DEF Begins
    <3> QED
      BY <1>3, <3>1, <3>2, <3>3, BeginsItself
  <2>2. Len(sent) <= Len(sent') /\ \A k \in 1..Len(sent) : sent'[k] = sent[k]
    BY <1>1, <1>2
  <2> QED
    BY <1>5, <2>1, <2>2, LostKept DEF Place
<1>6. CASE Follows
  <2>1. PICK at, l, start : Following(at, l, start)
    BY <1>6 DEF Follows
  <2>2. /\ at \in 1..Len(sent) /\ contentLength = BodySize
        /\ reply' = Answer(at, sent[at].message)
        /\ pc' = IF reply' = Silent THEN "header" ELSE "write"
    BY <2>1, BodyInFront
  <2>3. /\ at \in 1..(Len(sent) + 1) /\ l \in Nat /\ Laid(sent, Rest, at, start)
        /\ \A j \in 1..Len(sent) : j <= at => Honest(sent[j])
        /\ Out = Owed(sent, at - 1)
        /\ start[at] = 0 - (2 * l + 1) /\ l = Len(sent[at].headers)
    BY <1>1, <2>1 DEF Following, AtHeader, AtBody, AtReply
  <2>4. Out' = Owed(sent', at)
    <3>1. Out' = Owe(sent, Given, at)
      BY <1>3, <2>2 DEF Out, Owe
    <3>2. Owed(sent, at) = Owe(sent, Owed(sent, at - 1), at)
      BY <1>1, <2>2, OwedRounds
    <3> QED
      BY <1>2, <1>3, <2>3, <3>1, <3>2
  <2>5. CASE at + 1 <= Len(sent) /\ ~Honest(sent[at + 1])
    <3>1. at \in 0..(Len(sent') - 1)
      BY <1>1, <1>2, <2>2, <2>5
    <3>2. HonestTo(at)' /\ ~Honest(sent'[at + 1])
      BY <1>1, <1>2, <2>2, <2>3, <2>5 DEF HonestTo
    <3>3. Begins(Owed(sent', at), Out')
      <4>1. Out' \in Seq(Replies)
        BY <1>1, OutShapeNext
      <4> QED
        BY <2>4, <4>1, BeginsItself, LenProperties
    <3> QED
      BY <3>1, <3>2, <3>3 DEF Place, Lost
  <2>6. CASE ~(at + 1 <= Len(sent) /\ ~Honest(sent[at + 1]))
    <3>1. PICK moved : moved = [j \in at..(Len(sent) + 1) |-> start[j] - BodySize]
      OBVIOUS
    <3>2. Laid(sent', Rest', at, moved)
      BY <1>4, <2>2, <2>3, <3>1, ReadingMovesOn
    <3>3. Laid(sent', Rest', at + 1, moved)
      <4>1. at \in Nat /\ at <= Len(sent')
        BY <1>1, <1>2, <2>2
      <4> QED
        BY <1>1, <1>2, <3>2, <4>1, LaidNext
    <3>4. moved[at + 1] = 0
      <4>1. /\ sent[at] \in Frames /\ start[at + 1] = start[at] + Size(sent[at])
            /\ at + 1 \in at..(Len(sent) + 1)
        BY <1>1, <2>1, <2>2, FrameInFront
      <4>2. Size(sent[at]) = 2 * l + 3
        BY <2>3, <4>1, SizeOfFrame
      <4>3. moved[at + 1] = start[at + 1] - 2
        BY <3>1, <4>1 DEF BodySize
      <4>4. start[at + 1] = 2
        <5>1. l \in Nat /\ start[at + 1] = 0 - (2 * l + 1) + (2 * l + 3)
          BY <2>3, <4>1, <4>2
        <5>2. 0 - (2 * l + 1) + (2 * l + 3) = 2
          BY <5>1
        <5> QED
          BY <5>1, <5>2
      <4> QED
        BY <4>3, <4>4
    <3>5. at + 1 \in 1..(Len(sent') + 1)
      BY <1>1, <1>2, <2>2
    <3>6. \A j \in 1..Len(sent') : j <= at + 1 => Honest(sent'[j])
      <4> SUFFICES ASSUME NEW j \in 1..Len(sent), j <= at + 1 PROVE Honest(sent[j])
        BY <1>2
      <4>1. j <= at \/ j = at + 1
        BY <1>1, <2>2
      <4> QED
        BY <1>1, <2>2, <2>3, <2>6, <4>1
    <3>7. Out' = Owed(sent', (at + 1) - 1)
      <4>1. (at + 1) - 1 = at
        BY <2>2
      <4> QED
        BY <2>4, <4>1
    <3>8. AtHeader(at + 1, 0)' \/ AtReply(0)'
      <4>1. CASE reply' = Silent
        <5>1. pc' = "header"
          BY <2>2, <4>1
        <5>2. at + 1 <= Len(sent') =>
                0 <= Len(sent'[at + 1].headers) /\ Counted(sent'[at + 1], 0) = None
          <6> SUFFICES ASSUME at + 1 <= Len(sent)
                       PROVE  Len(sent[at + 1].headers) \in Nat
            BY <1>2, NoneCounted
          <6>1. at + 1 \in 1..Len(sent)
            BY <1>1, <2>2
          <6> QED
            BY <1>1, <6>1, ElementOfSeq, FrameShape
        <5> QED
          BY <1>2, <5>1, <5>2 DEF AtHeader
      <4>2. CASE reply' # Silent
        BY <1>2, <2>2, <4>2 DEF AtReply
      <4> QED
        BY <4>1, <4>2
    <3>9. moved[at + 1] = IF pc' = "body" THEN 0 - (2 * 0 + 1) ELSE 0 - (2 * 0)
      <4>1. pc' # "body"
        BY <2>2
      <4>2. 0 - (2 * 0) = 0
        OBVIOUS
      <4> QED
        BY <3>4, <4>1, <4>2
    <3>10. Following(at + 1, 0, moved)'
      BY <3>3, <3>5, <3>6, <3>7, <3>8, <3>9 DEF Following
    <3> QED
      BY <3>10 DEF Place, Follows
  <2> QED
    BY <2>5, <2>6
<1>7. ~Ended
  BY <1>1 DEF Ended, Running
<1> QED
  BY <1>5, <1>6, <1>7 DEF Place

LEMMA PlaceInit == ASSUME Init PROVE Place
<1>1. /\ sent = <<>> /\ unsent = <<>> /\ received = <<>> /\ stdin = <<>> /\ stdout = <<>>
      /\ contentLength = None /\ pc = "header"
  BY DEF Init
<1>2. /\ <<>> \in Seq(Frames) /\ Len(<<>>) = 0 /\ <<>> \o <<>> = <<>>
  BY EmptySeq
<1>3. Rest = <<>> /\ Out = <<>>
  BY <1>1, <1>2 DEF Rest, Out, Given
<1>4. Owed(sent, 0) = <<>>
  BY <1>1, <1>2, OwedRounds
<1>5. PICK start : start = [j \in 1..1 |-> 0]
  OBVIOUS
<1>6. Laid(sent, Rest, 1, start)
  BY <1>1, <1>2, <1>3, <1>5 DEF Laid
<1>7. AtHeader(1, 0)
  BY <1>1, <1>2 DEF AtHeader
<1>8. start[1] = IF pc = "body" THEN 0 - (2 * 0 + 1) ELSE 0 - (2 * 0)
  <2>1. 0 - (2 * 0) = 0
    OBVIOUS
  <2> QED
    BY <1>1, <1>5, <2>1
<1>9. Out = Owed(sent, 1 - 1)
  BY <1>3, <1>4
<1>10. Following(1, 0, start)
  BY <1>1, <1>2, <1>6, <1>7, <1>8, <1>9 DEF Following
<1> QED
  BY <1>10 DEF Place, Follows

(* The server is behind as many frames as it has decided answers, or a      *)
(* frame has lied to it, or it reads no more (serve and read_frame of       *)
(* packages/cli/src/mcp.rs).                                                *)
THEOREM PlaceInvariant == Spec => []Place
<1>1. Init => Place
  BY PlaceInit
<1>2. ServerInv /\ ServerInv' /\ Place /\ [Next]_vars => Place'
  <2> SUFFICES ASSUME ServerInv, ServerInv', Place, [Next]_vars PROVE Place'
    OBVIOUS
  <2>1. CASE Client
    BY <2>1, BeginFrameKeepsPlace, RestOfClientKeepsPlace DEF Client
  <2>2. CASE Server
    BY <2>2, ReadLineKeepsPlace, ReadBodyKeepsPlace, EndingKeepsPlace, WriteReplyKeepsPlace
       DEF Server
  <2>3. CASE UNCHANGED vars
    <3>1. /\ UNCHANGED <<sent, unsent, closed, stdin, stdout, received, contentLength, reply, pc>>
      BY <2>3 DEF vars, client, server
    <3>2. UNCHANGED <<Rest, Out>>
      BY <3>1 DEF Rest, Out, Given
    <3>3. CASE Ended
      <4>1. Matches'
        <5>1. TypeOK
          BY DEF ServerInv
        <5>2. Begins(Out', Out)
          BY <3>2, <5>1, OutShape, BeginsItself
        <5> QED
          BY <3>1, <3>3, <5>2, MatchesKept DEF Ended
      <4> QED
        BY <3>1, <3>3, <4>1 DEF Place, Ended, Running
    <3>4. CASE Lost \/ Follows
      BY <3>1, <3>2, <3>4, StillThere DEF Place
    <3> QED
      BY <3>3, <3>4 DEF Place
  <2> QED
    BY <2>1, <2>2, <2>3 DEF Next
<1> QED
  BY <1>1, <1>2, ServerInvariant, PTL DEF Spec

-----------------------------------------------------------------------------
\* The messages of the frames in c up to the first that lies.
Counts(c, n) ==
  /\ n \in 0..Len(c) /\ \A j \in 1..n : Honest(c[j])
  /\ n < Len(c) => ~Honest(c[n + 1])

HonestPart(c) ==
  LET honest == {k \in 1..Len(c) : \A j \in 1..k : Honest(c[j])}
  IN  [k \in honest |-> c[k].message]

LEMMA SomeCount ==
  ASSUME NEW c, Len(c) \in Nat
  PROVE  \E n \in 0..Len(c) : Counts(c, n)
<1> DEFINE lies == {k \in 1..Len(c) : ~Honest(c[k])}
<1>1. CASE lies = {}
  <2>1. Counts(c, Len(c))
    BY <1>1 DEF Counts
  <2> QED
    BY <2>1
<1>2. CASE lies # {}
  <2>1. lies \in SUBSET Nat
    OBVIOUS
  <2>2. PICK k \in lies : \A m \in lies : k <= m
    <3> HIDE DEF lies
    <3> QED
      BY <1>2, <2>1, LeastElement
  <2>3. k \in 1..Len(c) /\ ~Honest(c[k])
    OBVIOUS
  <2>4. \A j \in 1..(k - 1) : Honest(c[j])
    BY <2>2
  <2>5. k - 1 \in 0..Len(c) /\ (k - 1) + 1 = k
    BY <2>3
  <2>6. Counts(c, k - 1)
    BY <2>3, <2>4, <2>5 DEF Counts
  <2> QED
    BY <2>5, <2>6
<1> QED
  BY <1>1, <1>2

LEMMA HonestPartIs ==
  ASSUME NEW c, Len(c) \in Nat, NEW n, Counts(c, n)
  PROVE  HonestPart(c) = Messages(c, n)
<1> DEFINE honest == {k \in 1..Len(c) : \A j \in 1..k : Honest(c[j])}
<1>1. n \in Nat /\ n <= Len(c) /\ \A j \in 1..n : Honest(c[j])
  BY DEF Counts
<1>2. ASSUME NEW k \in 1..Len(c)
      PROVE  k \in honest <=> k \in 1..n
  <2>1. CASE k <= n
    <3>1. k \in 1..n /\ \A j \in 1..k : j \in 1..n
      BY <1>1, <2>1
    <3> QED
      BY <1>1, <3>1
  <2>2. CASE k > n
    <3>1. n + 1 \in 1..k /\ n < Len(c) /\ k \notin 1..n
      BY <1>1, <2>2
    <3> QED
      BY <3>1 DEF Counts
  <2> QED
    BY <1>1, <2>1, <2>2
<1>3. honest = 1..n
  <2>1. \A k \in honest : k \in 1..Len(c)
    OBVIOUS
  <2>2. \A k \in 1..n : k \in 1..Len(c)
    BY <1>1
  <2> HIDE DEF honest
  <2> QED
    BY <1>2, <2>1, <2>2
<1> QED
  BY <1>3 DEF HonestPart, Messages

LEMMA SessionOwes ==
  ASSUME NEW messages
  PROVE  Session!OwedAnswers(messages) = OwedAnswers(messages)
BY DEF Session!OwedAnswers, OwedAnswers, Session!Answer, Answer, Session!Silent, Silent,
       Session!ParseError, ParseError, Session!OutcomeOfCall, OutcomeOfCall

\* The first n of the answers given.
Cut(s, n) == [j \in (1..Len(s)) \cap (1..n) |-> s[j]]

LEMMA CutShape ==
  ASSUME NEW S, NEW s \in Seq(S), NEW n \in Nat
  PROVE  Len(s) <= n => Cut(s, n) = s
<1>1. Len(s) \in Nat /\ s = [j \in 1..Len(s) |-> s[j]]
  BY LenProperties
<1>2. Len(s) <= n => (1..Len(s)) \cap (1..n) = 1..Len(s)
  BY <1>1
<1> QED
  BY <1>1, <1>2 DEF Cut

LEMMA RepliesAre ==
  /\ HonestMessages = HonestPart(Complete)
  /\ HonestTo(Len(sent)) => HonestReplies = Given
  /\ ~HonestTo(Len(sent)) => HonestReplies = Cut(Given, Len(OwedAnswers(HonestMessages)))
<1>1. (\A frame \in Elements(sent) : Honest(frame)) <=> HonestTo(Len(sent))
  BY DEF Elements, HonestTo
<1> QED
  BY <1>1 DEF HonestMessages, HonestPart, HonestReplies, Cut

LEMMA HonestIs ==
  ASSUME ServerInv
  PROVE  \E n \in 0..Len(Complete) :
           /\ HonestCount(n) /\ Counts(Complete, n) /\ n \in 0..Len(sent)
           /\ HonestMessages = Messages(sent, n)
           /\ OwedAnswers(HonestMessages) = Owed(sent, n)
<1>1. /\ Len(Complete) \in Nat /\ Len(sent) \in Nat /\ Len(Complete) <= Len(sent)
      /\ \A k \in 1..Len(Complete) : Complete[k] = sent[k]
  BY CompleteShape DEF ServerInv
<1>2. PICK n \in 0..Len(Complete) : Counts(Complete, n)
  BY <1>1, SomeCount
<1>3. n \in 0..Len(sent)
  BY <1>1
<1>4. HonestMessages = Messages(Complete, n)
  BY <1>1, <1>2, HonestPartIs, RepliesAre
<1>5. Messages(Complete, n) = Messages(sent, n)
  <2>1. \A k \in 1..n : Complete[k] = sent[k]
    BY <1>1
  <2> QED
    BY <2>1 DEF Messages
<1>6. HonestCount(n)
  <2>1. \A j \in 1..n : Honest(sent[j])
    BY <1>1, <1>2 DEF Counts
  <2>2. n < Len(Complete) => ~Honest(sent[n + 1])
    <3> SUFFICES ASSUME n < Len(Complete) PROVE ~Honest(sent[n + 1])
      OBVIOUS
    <3>1. n + 1 \in 1..Len(Complete)
      BY <1>1
    <3> QED
      BY <1>1, <1>2, <3>1 DEF Counts
  <2> QED
    BY <2>1, <2>2 DEF HonestCount, HonestTo
<1> QED
  BY <1>2, <1>3, <1>4, <1>5, <1>6 DEF Owed

LEMMA SameSession ==
  ASSUME UNCHANGED <<sent, Given, Complete>>
  PROVE  UNCHANGED Session!vars
BY DEF Session!vars, HonestMessages, HonestReplies

LEMMA BeginFrameIsNoStep ==
  ASSUME ServerInv, Place, BeginFrame
  PROVE  UNCHANGED Session!vars
<1>1. PICK frame \in Frames :
        sent' = Append(sent, frame) /\ unsent' = UnitsOf(Len(sent) + 1, frame)
  BY DEF BeginFrame
<1>2. /\ TypeOK /\ sent \in Seq(Frames) /\ Len(sent) \in Nat /\ unsent = <<>>
      /\ UNCHANGED <<received, stdout>>
  BY LenProperties DEF ServerInv, TypeOK, BeginFrame
<1>3. /\ sent' \in Seq(Frames) /\ Len(sent') = Len(sent) + 1
      /\ \A k \in 1..Len(sent) : sent'[k] = sent[k]
  BY <1>1, <1>2, AppendProperties
<1>4. unsent' # <<>>
  <2>1. PICK number \in Nat : number = Len(sent) + 1
    BY <1>2
  <2>2. Len(UnitsOf(number, frame)) = (2 * Len(frame.headers) + 1) + BodySize
    BY UnitsOfFrame
  <2>3. Len(UnitsOf(number, frame)) # 0
    BY <2>2, FrameShape DEF BodySize
  <2> QED
    BY <1>1, <2>1, <2>3, EmptySeq
<1>5. Complete = sent /\ Complete' = sent
  <2>1. Complete' = SubSeq(sent', 1, Len(sent))
    BY <1>2, <1>3, <1>4 DEF Complete
  <2>2. SubSeq(sent', 1, Len(sent)) = sent
    <3>1. PICK more \in Seq(Frames) : more = sent'
      BY <1>3
    <3>2. /\ Len(more) = Len(sent) + 1 /\ \A k \in 1..Len(sent) : more[k] = sent[k]
      BY <1>3, <3>1
    <3>3. \A k \in 1..Len(sent) : more[k] \in Frames
      BY <1>2, <3>2, ElementOfSeq
    <3>4. /\ SubSeq(more, 1, Len(sent)) \in Seq(Frames)
          /\ Len(SubSeq(more, 1, Len(sent))) = Len(sent)
          /\ \A k \in 1..Len(sent) : SubSeq(more, 1, Len(sent))[k] = more[k]
      BY <1>2, <3>3, SubSeqProperties
    <3>5. SubSeq(more, 1, Len(sent)) = sent
      BY <1>2, <3>2, <3>4, SeqEqual
    <3> QED
      BY <3>1, <3>5
  <2> QED
    BY <1>2, <2>1, <2>2 DEF Complete
<1>6. HonestMessages' = HonestMessages
  BY <1>5 DEF HonestMessages
<1>7. Given' = Given
  BY <1>2 DEF Given
<1>8. HonestReplies' = HonestReplies
  <2> DEFINE all == \A frame_ \in Elements(sent) : Honest(frame_)
             owed == Len(OwedAnswers(HonestMessages))
  <2>1. HonestReplies = IF all THEN Given ELSE Cut(Given, owed)
    BY DEF HonestReplies, Cut
  <2>2. HonestReplies' = IF all' THEN Given ELSE Cut(Given, owed)
    BY <1>6, <1>7 DEF HonestReplies, Cut
  <2>3. all' => all
    <3>1. \A frame_ \in Elements(sent) : frame_ \in Elements(sent')
      <4> SUFFICES ASSUME NEW k \in 1..Len(sent) PROVE sent[k] \in Elements(sent')
        BY DEF Elements
      <4>1. k \in 1..Len(sent') /\ sent'[k] = sent[k]
        BY <1>2, <1>3
      <4> QED
        BY <4>1 DEF Elements
    <3> QED
      BY <3>1
  <2>4. all => Cut(Given, owed) = Given
    <3> SUFFICES ASSUME all PROVE Cut(Given, owed) = Given
      OBVIOUS
    <3>1. HonestTo(Len(sent))
      BY DEF HonestTo, Elements
    <3>2. PICK n \in 0..Len(sent) : /\ HonestCount(n)
                                    /\ OwedAnswers(HonestMessages) = Owed(sent, n)
      BY HonestIs
    <3>3. Begins(Out, Owed(sent, n))
      BY <3>1, <3>2, PlaceMatches DEF Matches
    <3>4. /\ Out \in Seq(Replies) /\ Given \in Seq(Replies) /\ Begins(Given, Out)
          /\ Len(Given) \in Nat /\ Len(Out) \in Nat
      BY <1>2, OutShape
    <3>5. Len(Owed(sent, n)) \in Nat
      BY <1>2, OwedRounds
    <3>6. Len(Given) <= Len(Owed(sent, n))
      BY <3>3, <3>4, <3>5 DEF Begins
    <3> QED
      BY <3>2, <3>4, <3>5, <3>6, CutShape
  <2> QED
    BY <2>1, <2>2, <2>3, <2>4
<1> QED
  BY <1>6, <1>8 DEF Session!vars

LEMMA WriteUnitAsks ==
  ASSUME ServerInv, WriteUnit
  PROVE  [Session!Ask]_Session!vars
<1>1. /\ TypeOK /\ InOrder /\ sent \in Seq(Frames) /\ Len(sent) \in Nat /\ unsent # <<>>
      /\ UNCHANGED <<sent, received, stdout>>
  BY LenProperties DEF ServerInv, TypeOK, WriteUnit
<1>2. Given' = Given
  BY <1>1 DEF Given
<1>3. CASE unsent' # <<>>
  <2>1. Complete' = Complete
    BY <1>1, <1>3 DEF Complete
  <2> QED
    BY <1>1, <1>2, <2>1, SameSession
<1>4. CASE unsent' = <<>>
  <2>1. /\ Complete' = sent
        /\ Len(sent) > 0 /\ Len(Complete) = Len(sent) - 1
        /\ \A k \in 1..Len(Complete) : Complete[k] = sent[k]
    BY <1>1, <1>4, CompleteShape DEF Complete, InOrder
  <2>2. PICK n \in 0..Len(Complete) :
          /\ Counts(Complete, n) /\ HonestMessages = Messages(sent, n)
    BY HonestIs
  <2>3. /\ n \in Nat /\ n <= Len(Complete) /\ Len(Complete) \in Nat
        /\ \A j \in 1..n : Honest(sent[j])
        /\ n < Len(Complete) => ~Honest(sent[n + 1])
    <3>1. n \in Nat /\ n <= Len(Complete) /\ Len(Complete) \in Nat
      BY <1>1, <2>1
    <3>2. \A j \in 1..n : Honest(sent[j])
      BY <2>1, <2>2, <3>1 DEF Counts
    <3>3. ASSUME n < Len(Complete) PROVE ~Honest(sent[n + 1])
      <4>1. n + 1 \in 1..Len(Complete)
        BY <3>1, <3>3
      <4> QED
        BY <2>1, <2>2, <3>3, <4>1 DEF Counts
    <3> QED
      BY <3>1, <3>2, <3>3
  <2>4. HonestMessages' = HonestPart(sent)
    BY <2>1 DEF HonestMessages, HonestPart
  <2>5. CASE ~Honest(sent[n + 1])
    <3>1. Counts(sent, n)
      BY <1>1, <2>1, <2>3, <2>5 DEF Counts
    <3>2. HonestMessages' = HonestMessages
      BY <1>1, <2>2, <2>4, <3>1, HonestPartIs
    <3>3. HonestReplies' = HonestReplies
      BY <1>1, <1>2, <3>2 DEF HonestReplies
    <3> QED
      BY <3>2, <3>3 DEF Session!vars
  <2>6. CASE Honest(sent[n + 1])
    <3>1. n + 1 = Len(sent)
      BY <1>1, <2>1, <2>3, <2>6
    <3>2. \A j \in 1..Len(sent) : Honest(sent[j])
      BY <2>3, <2>6, <3>1
    <3>3. HonestReplies' = HonestReplies
      <4>1. \A frame \in Elements(sent) : Honest(frame)
        BY <3>2 DEF Elements
      <4> QED
        BY <1>1, <1>2, <4>1 DEF HonestReplies
    <3>4. Counts(sent, n + 1)
      BY <1>1, <3>1, <3>2 DEF Counts
    <3>5. HonestMessages' = Messages(sent, n + 1)
      BY <1>1, <2>4, <3>4, HonestPartIs
    <3>6. sent[n + 1].message \in AllMessages /\ \A k \in 1..n : sent[k].message \in AllMessages
      <4>1. \A k \in 1..Len(sent) : sent[k] \in Frames
        BY <1>1, ElementOfSeq
      <4>2. n + 1 \in 1..Len(sent) /\ \A k \in 1..n : k \in 1..Len(sent)
        BY <2>3, <3>1
      <4> QED
        BY <4>1, <4>2, FrameShape
    <3>7. HonestMessages' = Append(HonestMessages, sent[n + 1].message)
      <4>1. PICK old : old = Messages(sent, n)
        OBVIOUS
      <4>2. PICK new : new = Messages(sent, n + 1)
        OBVIOUS
      <4>3. /\ old \in Seq(AllMessages) /\ Len(old) = n
            /\ \A k \in 1..n : old[k] = sent[k].message
        BY <2>3, <3>6, <4>1 DEF Messages
      <4>4. /\ new \in Seq(AllMessages) /\ Len(new) = n + 1
            /\ \A k \in 1..(n + 1) : new[k] = sent[k].message
        <5>1. \A k \in 1..(n + 1) : sent[k].message \in AllMessages
          <6>1. \A k \in 1..(n + 1) : k \in 1..n \/ k = n + 1
            BY <2>3
          <6> QED
            BY <3>6, <6>1
        <5> QED
          BY <2>3, <4>2, <5>1 DEF Messages
      <4>5. PICK more : more = Append(old, sent[n + 1].message)
        OBVIOUS
      <4>6. /\ more \in Seq(AllMessages) /\ Len(more) = n + 1
            /\ \A k \in 1..n : more[k] = old[k]
            /\ more[n + 1] = sent[n + 1].message
        BY <3>6, <4>3, <4>5, AppendProperties
      <4>7. \A k \in 1..(n + 1) : new[k] = more[k]
        <5>1. \A k \in 1..(n + 1) : k \in 1..n \/ k = n + 1
          BY <2>3
        <5> QED
          BY <4>3, <4>4, <4>6, <5>1
      <4>8. new = more
        BY <4>4, <4>6, <4>7, SeqEqual
      <4> QED
        BY <2>2, <3>5, <4>1, <4>2, <4>5, <4>8
    <3>8. Session!Ask
      BY <3>3, <3>6, <3>7 DEF Session!Ask, Session!AllMessages, AllMessages, Session!Forms, Forms,
                              Session!Methods, Methods, Session!Calls, Calls
    <3> QED
      BY <3>8
  <2> QED
    BY <2>5, <2>6
<1> QED
  BY <1>3, <1>4

LEMMA WriteReplyReplies ==
  ASSUME ServerInv, Place, WriteReply
  PROVE  [Session!Reply]_Session!vars
<1>1. /\ TypeOK /\ pc = "write" /\ stdout' = Append(stdout, reply)
      /\ UNCHANGED <<sent, unsent, received>> /\ reply \in Replies
  BY DEF ServerInv, TypeOK, WriteReply, client
<1>2. HonestMessages' = HonestMessages
  BY <1>1 DEF HonestMessages, Complete
<1>3. Given' = Append(Given, reply) /\ Out = Append(Given, reply)
  BY <1>1, WritingIsGiving DEF Out
<1>4. Given \in Seq(Replies) /\ Len(Given) \in Nat
  BY <1>1, GivenShape
<1>5. PICK given \in Seq(Replies) : given = Given
  BY <1>4
<1>6. PICK more : more = Append(given, reply)
  OBVIOUS
<1>7. /\ given = Given /\ more = Append(Given, reply)
      /\ Len(given) \in Nat /\ more \in Seq(Replies) /\ Len(more) = Len(given) + 1
      /\ more[Len(given) + 1] = reply
      /\ \A k \in 1..Len(given) : more[k] = given[k]
  BY <1>1, <1>5, <1>6, AppendProperties, LenProperties
<1>8. PICK n \in 0..Len(sent) : /\ HonestCount(n)
                                /\ OwedAnswers(HonestMessages) = Owed(sent, n)
  BY HonestIs
<1>9. PICK owed \in Seq(Replies) : owed = Owed(sent, n) /\ Len(owed) \in Nat
  BY <1>1, <1>8, OwedRounds DEF TypeOK
<1>10. /\ Begins(more, owed) \/ Begins(owed, more)
       /\ HonestTo(Len(sent)) => Begins(more, owed)
  BY <1>3, <1>7, <1>8, <1>9, PlaceMatches DEF Matches
<1>11. Session!OwedAnswers(HonestMessages) = owed
  BY <1>8, <1>9, SessionOwes
<1>12. ASSUME HonestReplies = given, HonestReplies' = more,
              Len(more) <= Len(owed), Begins(more, owed) \/ Begins(owed, more)
       PROVE  Session!Reply
  <2>1. Len(given) < Len(owed) /\ Len(given) + 1 \in 1..Len(more) /\ Len(given) + 1 \in 1..Len(owed)
    BY <1>7, <1>9, <1>12
  <2>2. owed[Len(given) + 1] = reply
    BY <1>7, <1>12, <2>1 DEF Begins
  <2> QED
    BY <1>2, <1>7, <1>11, <1>12, <2>1, <2>2 DEF Session!Reply
<1> DEFINE all == \A frame \in Elements(sent) : Honest(frame)
<1>13. all <=> HonestTo(Len(sent))
  BY DEF Elements, HonestTo
<1>14. HonestReplies = IF all THEN given ELSE Cut(given, Len(owed))
  BY <1>7, <1>8, <1>9 DEF HonestReplies, Cut
<1>15. HonestReplies' = IF all THEN more ELSE Cut(more, Len(owed))
  BY <1>1, <1>2, <1>3, <1>7, <1>8, <1>9 DEF HonestReplies, Cut
<1> HIDE DEF all
<1>16. CASE all
  <2>1. Begins(more, owed)
    BY <1>10, <1>13, <1>16
  <2>2. Len(more) <= Len(owed)
    BY <2>1 DEF Begins
  <2> QED
    BY <1>12, <1>14, <1>15, <1>16, <2>1, <2>2
<1>17. CASE ~all /\ Len(given) < Len(owed)
  <2>1. Len(more) <= Len(owed) /\ Len(given) <= Len(owed)
    BY <1>7, <1>9, <1>17
  <2>2. Cut(given, Len(owed)) = given /\ Cut(more, Len(owed)) = more
    BY <1>7, <1>9, <2>1, CutShape
  <2> QED
    BY <1>10, <1>12, <1>14, <1>15, <1>17, <2>1, <2>2
<1>18. CASE ~all /\ ~(Len(given) < Len(owed))
  <2>1. /\ (1..Len(given)) \cap (1..Len(owed)) = 1..Len(owed)
        /\ (1..Len(more)) \cap (1..Len(owed)) = 1..Len(owed)
    BY <1>7, <1>9, <1>18
  <2>2. \A j \in 1..Len(owed) : more[j] = given[j]
    BY <1>7, <1>9, <1>18
  <2>3. Cut(given, Len(owed)) = Cut(more, Len(owed))
    BY <2>1, <2>2 DEF Cut
  <2> QED
    BY <1>2, <1>14, <1>15, <1>18, <2>3 DEF Session!vars
<1> QED
  BY <1>16, <1>17, <1>18

LEMMA SessionStarts == ASSUME Init PROVE Session!Init
<1>1. sent = <<>> /\ unsent = <<>> /\ received = <<>> /\ stdout = <<>> /\ Len(<<>>) = 0
  BY EmptySeq DEF Init
<1>2. Complete = <<>> /\ Given = <<>>
  BY <1>1 DEF Complete, Given
<1>3. HonestMessages = <<>>
  <2>1. Counts(<<>>, 0)
    BY <1>1 DEF Counts
  <2>2. HonestMessages = Messages(<<>>, 0)
    BY <1>1, <1>2, <2>1, HonestPartIs, RepliesAre
  <2>3. Messages(<<>>, 0) = <<>>
    BY DEF Messages
  <2> QED
    BY <2>2, <2>3
<1>4. HonestReplies = <<>>
  <2>1. Elements(sent) = {}
    BY <1>1 DEF Elements
  <2> QED
    BY <1>2, <2>1 DEF HonestReplies
<1> QED
  BY <1>3, <1>4 DEF Session!Init

(* As long as frames are honest, the pipes, the framing and the loop of     *)
(* serve are to the client a session that answers its requests in their     *)
(* order, each once, and no notification; behind a frame that lies, the     *)
(* answers owed before it are still those of that session.                  *)
THEOREM ServerImplementsSession == Spec => ImplementsSession
<1>1. Init => Session!Init
  BY SessionStarts
<1>2. ServerInv /\ Place /\ [Next]_vars => [Session!Next]_Session!vars
  <2> SUFFICES ASSUME ServerInv, Place, [Next]_vars
               PROVE  [Session!Next]_Session!vars
    OBVIOUS
  <2>1. CASE BeginFrame
    BY <2>1, BeginFrameIsNoStep
  <2>2. CASE WriteUnit
    BY <2>2, WriteUnitAsks DEF Session!Next
  <2>3. CASE WriteReply
    BY <2>3, WriteReplyReplies DEF Session!Next
  <2>4. CASE Receive
    <3>1. Given' = Given
      BY <2>4, ReceivingKeepsGiven DEF ServerInv
    <3> QED
      BY <2>4, <3>1, SameSession DEF Receive, Complete
  <2>5. CASE \/ Close \/ HangUp \/ UNCHANGED vars
             \/ ReadLine \/ ReadLastLine \/ ReadEnd \/ ReadBody \/ MissBody \/ WriteToNobody
    <3>1. UNCHANGED <<sent, unsent, received, stdout>>
      BY <2>5 DEF Close, HangUp, ReadLine, ReadLastLine, ReadEnd, ReadBody, MissBody,
                  WriteToNobody, vars, client
    <3> QED
      BY <3>1, SameSession DEF Given, Complete
  <2> QED
    BY <2>1, <2>2, <2>3, <2>4, <2>5 DEF Next, Client, Server
<1> QED
  BY <1>1, <1>2, ServerInvariant, PlaceInvariant, PTL
     DEF Spec, ImplementsSession, Session!Spec
=============================================================================
