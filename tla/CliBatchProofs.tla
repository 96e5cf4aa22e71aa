--------------------------- MODULE CliBatchProofs ----------------------------
(***************************************************************************)
(* What `semagraph batch` tells its caller, for inputs of every length,    *)
(* pipes of every capacity and readers that leave at any time.  The        *)
(* invariant says where the lines of the input are (looked at, read, in    *)
(* the pipe, still with the caller), what has become of those looked at,   *)
(* and why the command may have ended before the last of them.             *)
(***************************************************************************)
EXTENDS CliBatch, FiniteSetTheorems, SequenceTheorems, TLAPS

Outputs == {Present(line.tokens) : line \in Lines}

TypeOK ==
  /\ script \in Scripts /\ written \in 0..Len(script)
  /\ closed \in BOOLEAN /\ hungUp \in BOOLEAN /\ deaf \in BOOLEAN /\ hadError \in BOOLEAN
  /\ stdin \in Seq(Lines) /\ input \in Seq(Lines)
  /\ stdout \in Seq(Outputs) /\ received \in Seq(Outputs)
  /\ stderr \in Seq(Nat) /\ told \in Seq(Nat) /\ next \in 0..Len(input)
  /\ pc \in {"reading", "lines", "failing", "exited"} /\ code \in {0, 1, 101}

\* What has been written is in the input or in the pipe, in its order.
WhereLinesAre ==
  /\ Len(input) + Len(stdin) = written
  /\ \A k \in 1..Len(input) : input[k] = script[k]
  /\ \A k \in 1..Len(stdin) : stdin[k] = script[Len(input) + k]

IsText == \A k \in DOMAIN script : script[k].text

AllGood == IsText /\ \A k \in DOMAIN script : ~IsBad(script[k])

Stages ==
  /\ closed => written = Len(script)
  /\ pc = "reading" => next = 0
  /\ pc # "reading" => closed /\ stdin = <<>>
  /\ pc = "lines" => IsText
  /\ pc = "failing" => ~AllGood
  /\ pc # "exited" =>
       /\ code = 0 /\ (hadError <=> BadLines # {})
       /\ \A k \in DOMAIN Complaints : Complaints[k] # Closing
  /\ pc = "exited" => (code = 0 <=> AllGood) /\ (code = 101 => deaf)

BatchInv == TypeOK /\ WhereLinesAre /\ Stages /\ AccountsForEveryLine

-----------------------------------------------------------------------------
LEMMA ScriptShape ==
  ASSUME NEW theScript \in Scripts
  PROVE  /\ theScript \in Seq(Lines) /\ Len(theScript) \in Nat
         /\ DOMAIN theScript = 1..Len(theScript)
         /\ \A k \in 1..Len(theScript) : theScript[k] \in Lines
  BY ScriptsAssumption, ElementOfSeq, LenProperties

LEMMA GoodLinesAreFinite ==
  ASSUME next \in Nat
  PROVE  /\ IsFiniteSet(GoodLines) /\ Cardinality(GoodLines) \in Nat
         /\ \A line : /\ IsFiniteSet({k \in GoodLines : k <= line})
                      /\ Place(line) \in Nat /\ Place(line) <= Cardinality(GoodLines)
<1>1. IsFiniteSet(1..next)
  BY FS_Interval
<1>2. IsFiniteSet(GoodLines)
  BY <1>1, FS_Subset DEF GoodLines
<1>3. ASSUME NEW line
      PROVE  /\ IsFiniteSet({k \in GoodLines : k <= line})
             /\ Cardinality({k \in GoodLines : k <= line}) <= Cardinality(GoodLines)
  BY <1>2, FS_Subset
<1> QED
  BY <1>2, <1>3, FS_CardinalityType DEF Place

(* The line looked at next comes last among the good lines, or changes       *)
(* nothing about them.                                                      *)
LEMMA NextLine ==
  ASSUME NEW n \in Nat, next = n, UNCHANGED script, next' = n + 1
  PROVE  /\ \A line \in GoodLines : line \in GoodLines' /\ Place(line)' = Place(line)
         /\ Parses(script[n + 1]) =>
              /\ GoodLines' = GoodLines \cup {n + 1}
              /\ Cardinality(GoodLines') = Cardinality(GoodLines) + 1
              /\ Place(n + 1)' = Cardinality(GoodLines) + 1
         /\ ~Parses(script[n + 1]) => GoodLines' = GoodLines
         /\ BadLines' = IF IsBad(script[n + 1]) THEN BadLines \cup {n + 1} ELSE BadLines
<1>0. 1..(n + 1) = (1..n) \cup {n + 1} /\ n + 1 \notin 1..n
  OBVIOUS
<1>1. GoodLines' = GoodLines \cup {k \in {n + 1} : Parses(script[k])}
  BY <1>0 DEF GoodLines
<1>2. \A line \in GoodLines : line \in 1..n
  BY DEF GoodLines
<1>3. ASSUME NEW line \in GoodLines
      PROVE  line \in GoodLines' /\ Place(line)' = Place(line)
  <2>1. line \in GoodLines' /\ ~(n + 1 <= line)
    BY <1>1, <1>2
  <2>2. {k \in GoodLines' : k <= line} = {k \in GoodLines : k <= line}
    BY <1>1, <2>1
  <2> QED
    BY <2>1, <2>2 DEF Place
<1>4. ASSUME Parses(script[n + 1])
      PROVE  /\ GoodLines' = GoodLines \cup {n + 1}
             /\ Cardinality(GoodLines') = Cardinality(GoodLines) + 1
             /\ Place(n + 1)' = Cardinality(GoodLines) + 1
  <2>1. GoodLines' = GoodLines \cup {n + 1} /\ n + 1 \notin GoodLines
    BY <1>1, <1>2, <1>4
  <2>2. Cardinality(GoodLines') = Cardinality(GoodLines) + 1
    BY <2>1, GoodLinesAreFinite, FS_AddElement
  <2>3. \A k \in GoodLines' : k <= n + 1
    BY <1>2, <2>1
  <2>4. {k \in GoodLines' : k <= n + 1} = GoodLines'
    BY <2>3
  <2> QED
    BY <2>1, <2>2, <2>4 DEF Place
<1>5. BadLines' = BadLines \cup {k \in {n + 1} : IsBad(script[k])}
  BY <1>0 DEF BadLines
<1> QED
  BY <1>1, <1>3, <1>4, <1>5

LEMMA WrittenShape ==
  ASSUME TypeOK
  PROVE  /\ Emitted \in Seq(Outputs) /\ Len(Emitted) \in Nat
         /\ DOMAIN Emitted = 1..Len(Emitted)
         /\ Complaints \in Seq(Nat) /\ Len(Complaints) \in Nat
         /\ DOMAIN Complaints = 1..Len(Complaints)
  BY ConcatProperties, LenProperties DEF TypeOK, Emitted, Complaints

\* Actions that look at no line leave the account as it is, when what has been
\* written stays what it is and a reader that has left stays away.
LEMMA AccountKept ==
  ASSUME AccountsForEveryLine, UNCHANGED <<script, next>>,
         Emitted' = Emitted, Complaints' = Complaints, hungUp => hungUp'
  PROVE  AccountsForEveryLine' /\ BadLines' = BadLines
<1>1. GoodLines' = GoodLines /\ BadLines' = BadLines /\ Closing' = Closing
  BY DEF GoodLines, BadLines, Closing
<1>2. \A line : Place(line)' = Place(line)
  BY <1>1 DEF Place
<1> QED
  BY <1>1, <1>2 DEF AccountsForEveryLine

\* Reading the head of a pipe changes nothing of all that was written to it.
LEMMA ReadingKeepsWritten ==
  ASSUME NEW S, NEW read \in Seq(S), NEW pipe \in Seq(S), pipe # <<>>
  PROVE  /\ Append(read, Head(pipe)) \in Seq(S) /\ Tail(pipe) \in Seq(S)
         /\ Append(read, Head(pipe)) \o Tail(pipe) = read \o pipe
<1> DEFINE all == Append(read, Head(pipe)) \o Tail(pipe)
<1>1. /\ Head(pipe) \in S /\ Tail(pipe) \in Seq(S)
      /\ Len(Tail(pipe)) = Len(pipe) - 1
      /\ \A k \in 1..Len(Tail(pipe)) : Tail(pipe)[k] = pipe[k + 1]
      /\ Head(pipe) = pipe[1] /\ Len(pipe) \in Nat /\ Len(pipe) > 0
  BY HeadTailProperties, LenProperties, EmptySeq
<1>2. /\ Append(read, Head(pipe)) \in Seq(S) /\ Len(read) \in Nat
      /\ Len(Append(read, Head(pipe))) = Len(read) + 1
      /\ \A k \in 1..Len(read) : Append(read, Head(pipe))[k] = read[k]
      /\ Append(read, Head(pipe))[Len(read) + 1] = pipe[1]
  BY <1>1, AppendProperties, LenProperties
<1>3. /\ read \o pipe \in Seq(S) /\ all \in Seq(S)
      /\ Len(read \o pipe) = Len(read) + Len(pipe) /\ Len(all) = Len(read) + Len(pipe)
  BY <1>1, <1>2, ConcatProperties
<1>4. ASSUME NEW k \in 1..Len(read \o pipe) PROVE all[k] = (read \o pipe)[k]
  BY <1>1, <1>2, <1>3
<1> QED
  BY <1>1, <1>2, <1>3, <1>4, SeqEqual

\* Writing to a pipe adds to the end of all that was written to it.
LEMMA WritingAddsLast ==
  ASSUME NEW S, NEW read \in Seq(S), NEW pipe \in Seq(S), NEW item \in S
  PROVE  /\ Append(pipe, item) \in Seq(S)
         /\ read \o Append(pipe, item) = Append(read \o pipe, item)
<1>1. <<item>> \in Seq(S) /\ read \o pipe \in Seq(S)
  BY ConcatProperties
<1>2. Append(pipe, item) = pipe \o <<item>>
  BY AppendIsConcat
<1>3. Append(read \o pipe, item) = (read \o pipe) \o <<item>>
  BY <1>1, AppendIsConcat
<1> QED
  BY <1>1, <1>2, <1>3, ConcatAssociative, AppendProperties

\* What the account is once stderr has been told one more thing, numbered after
\* all it was told before.
LEMMA ComplaintAdded ==
  ASSUME TypeOK, UNCHANGED told, NEW n \in Nat, stderr' = Append(stderr, n),
         \A j, k \in DOMAIN Complaints : j < k => Complaints[j] < Complaints[k],
         \A k \in DOMAIN Complaints : Complaints[k] < n
  PROVE  /\ stderr' \in Seq(Nat)
         /\ \A j, k \in DOMAIN Complaints' : j < k => Complaints'[j] < Complaints'[k]
         /\ {Complaints'[k] : k \in DOMAIN Complaints'} =
              {Complaints[k] : k \in DOMAIN Complaints} \cup {n}
<1>1. /\ Complaints \in Seq(Nat) /\ Len(Complaints) \in Nat
      /\ DOMAIN Complaints = 1..Len(Complaints)
  BY WrittenShape
<1>2. stderr' \in Seq(Nat) /\ Complaints' = Append(Complaints, n)
  BY WritingAddsLast DEF TypeOK, Complaints
<1>3. /\ DOMAIN Complaints' = 1..(Len(Complaints) + 1)
      /\ \A k \in 1..Len(Complaints) : Complaints'[k] = Complaints[k]
      /\ Complaints'[Len(Complaints) + 1] = n
  BY <1>1, <1>2, AppendProperties, LenProperties
<1>4. \A k \in 1..Len(Complaints) : Complaints[k] \in Nat
  BY <1>1, ElementOfSeq
<1>5. ASSUME NEW j \in DOMAIN Complaints', NEW k \in DOMAIN Complaints', j < k
      PROVE  Complaints'[j] < Complaints'[k]
  <2>1. j \in 1..Len(Complaints) /\ Complaints'[j] = Complaints[j]
    BY <1>1, <1>3, <1>5
  <2>2. CASE k \in 1..Len(Complaints)
    BY <1>1, <1>3, <1>5, <2>1, <2>2
  <2>3. CASE k = Len(Complaints) + 1
    BY <1>1, <1>3, <2>1, <2>3
  <2> QED
    BY <1>1, <1>3, <2>2, <2>3
<1>6. {Complaints'[k] : k \in DOMAIN Complaints'} =
        {Complaints[k] : k \in DOMAIN Complaints} \cup {n}
  <2>1. DOMAIN Complaints' = DOMAIN Complaints \cup {Len(Complaints) + 1}
    BY <1>1, <1>3
  <2>2. \A k \in DOMAIN Complaints : Complaints'[k] = Complaints[k]
    BY <1>1, <1>3
  <2> QED
    BY <1>3, <2>1, <2>2
<1> QED
  BY <1>2, <1>5, <1>6

-----------------------------------------------------------------------------
LEMMA InvInit == Init => BatchInv
<1> SUFFICES ASSUME Init PROVE BatchInv
  OBVIOUS
<1>1. /\ script \in Seq(Lines) /\ Len(script) \in Nat
  BY ScriptShape DEF Init
<1>2. /\ <<>> \in Seq(Lines) /\ <<>> \in Seq(Outputs) /\ <<>> \in Seq(Nat)
      /\ Len(<<>>) = 0 /\ DOMAIN <<>> = {} /\ <<>> \o <<>> = <<>>
  BY EmptySeq
<1>3. TypeOK /\ WhereLinesAre
  <2>1. script \in Scripts /\ written = 0 /\ next = 0 /\ input = <<>> /\ stdin = <<>>
    BY DEF Init
  <2>2. TypeOK
    <3>1. closed \in BOOLEAN /\ hungUp \in BOOLEAN /\ deaf \in BOOLEAN /\ hadError \in BOOLEAN
      BY DEF Init
    <3>2. stdin \in Seq(Lines) /\ stdout \in Seq(Outputs) /\ received \in Seq(Outputs)
          /\ stderr \in Seq(Nat) /\ told \in Seq(Nat) /\ input \in Seq(Lines)
      BY <1>2 DEF Init
    <3>3. /\ written \in 0..Len(script) /\ next \in 0..Len(input)
          /\ pc \in {"reading", "lines", "failing", "exited"} /\ code \in {0, 1, 101}
      BY <1>1, <1>2, <2>1 DEF Init
    <3> QED
      BY <2>1, <3>1, <3>2, <3>3 DEF TypeOK
  <2>3. WhereLinesAre
    BY <1>2, <2>1 DEF WhereLinesAre
  <2> QED
    BY <2>2, <2>3
<1>4. GoodLines = {} /\ BadLines = {}
  BY DEF Init, GoodLines, BadLines
<1>5. Emitted = <<>> /\ Complaints = <<>>
  BY <1>2 DEF Init, Emitted, Complaints
<1>6. Stages
  BY <1>1, <1>2, <1>4, <1>5 DEF Init, Stages
<1>7. Cardinality(GoodLines) = 0
  BY <1>4, FS_EmptySet
<1>8. AccountsForEveryLine
  BY <1>2, <1>4, <1>5, <1>7 DEF Init, AccountsForEveryLine
<1> QED
  BY <1>3, <1>6, <1>8 DEF BatchInv

LEMMA ScriptKept ==
  ASSUME UNCHANGED script
  PROVE  (IsText' <=> IsText) /\ (AllGood' <=> AllGood) /\ Closing' = Closing
BY DEF IsText, AllGood, Closing

\* The caller.
LEMMA WriteKeepsInv ==
  ASSUME BatchInv, Write
  PROVE  BatchInv'
<1>1. /\ TypeOK /\ WhereLinesAre /\ Stages /\ AccountsForEveryLine
      /\ written < Len(script) /\ pc # "exited"
      /\ written' = written + 1 /\ stdin' = Append(stdin, script[written + 1])
      /\ UNCHANGED <<script, closed, hungUp, deaf, received, told, stdout, stderr, input, next,
                     hadError, pc, code>>
  BY DEF BatchInv, Write, batch, habits
<1>2. /\ written \in Nat /\ Len(script) \in Nat /\ script[written + 1] \in Lines
      /\ Len(input) \in Nat /\ Len(stdin) \in Nat
  BY <1>1, ScriptShape, LenProperties DEF TypeOK
<1>3. ~closed /\ pc = "reading"
  BY <1>1, <1>2 DEF Stages, TypeOK
<1>4. /\ stdin' \in Seq(Lines) /\ Len(stdin') = Len(stdin) + 1
      /\ \A k \in 1..Len(stdin) : stdin'[k] = stdin[k]
      /\ stdin'[Len(stdin) + 1] = script[written + 1]
  BY <1>1, <1>2, AppendProperties DEF TypeOK
<1>5. TypeOK'
  BY <1>1, <1>2, <1>4 DEF TypeOK
<1>6. WhereLinesAre'
  <2>1. Len(input') + Len(stdin') = written'
    BY <1>1, <1>2, <1>4 DEF WhereLinesAre
  <2>2. ASSUME NEW k \in 1..Len(stdin') PROVE stdin'[k] = script'[Len(input') + k]
    BY <1>1, <1>2, <1>4 DEF WhereLinesAre
  <2> QED
    BY <1>1, <2>1, <2>2 DEF WhereLinesAre
<1>7. Emitted' = Emitted /\ Complaints' = Complaints
  BY <1>1 DEF Emitted, Complaints
<1>8. AccountsForEveryLine' /\ BadLines' = BadLines
  BY <1>1, <1>7, AccountKept
<1>9. Stages'
  BY <1>1, <1>3, <1>7, <1>8, ScriptKept DEF Stages
<1> QED
  BY <1>5, <1>6, <1>8, <1>9 DEF BatchInv

LEMMA ReadingSideKeepsInv ==
  ASSUME BatchInv, Close \/ Receive \/ HangUp \/ ReceiveError \/ HangUpErrors
  PROVE  BatchInv'
<1>1. /\ TypeOK /\ WhereLinesAre /\ Stages /\ AccountsForEveryLine
      /\ UNCHANGED <<script, written, stdin, input, next, hadError, pc, code>>
  BY DEF BatchInv, Close, Receive, HangUp, ReceiveError, HangUpErrors, batch, habits, pipes
<1>2. /\ closed' \in BOOLEAN /\ hungUp' \in BOOLEAN /\ deaf' \in BOOLEAN
      /\ hungUp => hungUp'
      /\ deaf => deaf'
      /\ closed => closed'
      /\ closed' => written = Len(script)
  <2>1. /\ closed \in BOOLEAN /\ hungUp \in BOOLEAN /\ deaf \in BOOLEAN
        /\ closed => written = Len(script)
    BY <1>1 DEF TypeOK, Stages
  <2>2. CASE Close
    BY <2>1, <2>2 DEF Close
  <2>3. CASE Receive \/ ReceiveError
    BY <2>1, <2>3 DEF Receive, ReceiveError
  <2>4. CASE HangUp
    BY <2>1, <2>4 DEF HangUp
  <2>5. CASE HangUpErrors
    BY <2>1, <2>5 DEF HangUpErrors
  <2> QED
    BY <2>2, <2>3, <2>4, <2>5
<1>3. /\ Emitted' = Emitted
      /\ received' \in Seq(Outputs) /\ stdout' \in Seq(Outputs)
  <2>1. CASE Receive
    <3>1. /\ received \in Seq(Outputs) /\ stdout \in Seq(Outputs) /\ stdout # <<>>
          /\ received' = Append(received, Head(stdout)) /\ stdout' = Tail(stdout)
      BY <1>1, <2>1 DEF Receive, TypeOK
    <3>2. /\ Append(received, Head(stdout)) \in Seq(Outputs) /\ Tail(stdout) \in Seq(Outputs)
          /\ Append(received, Head(stdout)) \o Tail(stdout) = received \o stdout
      BY <3>1, ReadingKeepsWritten
    <3> QED
      BY <3>1, <3>2 DEF Emitted
  <2>2. CASE ~Receive
    BY <1>1, <2>2 DEF Close, HangUp, ReceiveError, HangUpErrors, pipes, Emitted, TypeOK
  <2> QED
    BY <2>1, <2>2
<1>4. /\ Complaints' = Complaints
      /\ told' \in Seq(Nat) /\ stderr' \in Seq(Nat)
  <2>1. CASE ReceiveError
    <3>1. /\ told \in Seq(Nat) /\ stderr \in Seq(Nat) /\ stderr # <<>>
          /\ told' = Append(told, Head(stderr)) /\ stderr' = Tail(stderr)
      BY <1>1, <2>1 DEF ReceiveError, TypeOK
    <3>2. /\ Append(told, Head(stderr)) \in Seq(Nat) /\ Tail(stderr) \in Seq(Nat)
          /\ Append(told, Head(stderr)) \o Tail(stderr) = told \o stderr
      BY <3>1, ReadingKeepsWritten
    <3> QED
      BY <3>1, <3>2 DEF Complaints
  <2>2. CASE ~ReceiveError
    BY <1>1, <2>2 DEF Close, HangUp, Receive, HangUpErrors, pipes, Complaints, TypeOK
  <2> QED
    BY <2>1, <2>2
<1>5. TypeOK'
  BY <1>1, <1>2, <1>3, <1>4 DEF TypeOK
<1>6. WhereLinesAre'
  BY <1>1 DEF WhereLinesAre
<1>7. AccountsForEveryLine' /\ BadLines' = BadLines
  BY <1>1, <1>2, <1>3, <1>4, AccountKept
<1>8. Stages'
  BY <1>1, <1>2, <1>4, <1>7, ScriptKept DEF Stages
<1> QED
  BY <1>5, <1>6, <1>7, <1>8 DEF BatchInv

\* The command.
LEMMA ReadKeepsInv ==
  ASSUME BatchInv, Read
  PROVE  BatchInv'
<1>1. /\ TypeOK /\ WhereLinesAre /\ Stages /\ AccountsForEveryLine
      /\ pc = "reading" /\ stdin # <<>>
      /\ input' = Append(input, Head(stdin)) /\ stdin' = Tail(stdin)
      /\ UNCHANGED <<script, written, closed, hungUp, deaf, received, told, stdout, stderr, next,
                     hadError, pc, code>>
  BY DEF BatchInv, Read, caller, habits
<1>2. /\ Len(input) \in Nat /\ Len(stdin) \in Nat \ {0}
      /\ Head(stdin) \in Lines /\ Head(stdin) = stdin[1]
      /\ stdin' \in Seq(Lines) /\ Len(stdin') = Len(stdin) - 1
      /\ \A k \in 1..Len(stdin') : stdin'[k] = stdin[k + 1]
  BY <1>1, HeadTailProperties, LenProperties, EmptySeq DEF TypeOK
<1>3. /\ input' \in Seq(Lines) /\ Len(input') = Len(input) + 1
      /\ \A k \in 1..Len(input) : input'[k] = input[k]
      /\ input'[Len(input) + 1] = stdin[1]
  BY <1>1, <1>2, AppendProperties DEF TypeOK
<1>4. TypeOK'
  BY <1>1, <1>2, <1>3 DEF TypeOK
<1>5. WhereLinesAre'
  <2>1. Len(input') + Len(stdin') = written'
    BY <1>1, <1>2, <1>3 DEF WhereLinesAre
  <2>2. ASSUME NEW k \in 1..Len(input') PROVE input'[k] = script'[k]
    BY <1>1, <1>2, <1>3 DEF WhereLinesAre
  <2>3. ASSUME NEW k \in 1..Len(stdin') PROVE stdin'[k] = script'[Len(input') + k]
    <3>1. k + 1 \in 1..Len(stdin) /\ Len(input) + (k + 1) = Len(input') + k
      BY <1>2, <1>3
    <3> QED
      BY <1>1, <1>2, <3>1 DEF WhereLinesAre
  <2> QED
    BY <2>1, <2>2, <2>3 DEF WhereLinesAre
<1>6. Emitted' = Emitted /\ Complaints' = Complaints
  BY <1>1 DEF Emitted, Complaints
<1>7. AccountsForEveryLine' /\ BadLines' = BadLines
  BY <1>1, <1>6, AccountKept
<1>8. Stages'
  BY <1>1, <1>6, <1>7, ScriptKept DEF Stages
<1> QED
  BY <1>4, <1>5, <1>7, <1>8 DEF BatchInv

\* Once the input has been read it is the caller's.
LEMMA InputIsScript ==
  ASSUME TypeOK, WhereLinesAre, closed => written = Len(script), closed, stdin = <<>>
  PROVE  /\ Len(input) = Len(script) /\ Len(input) \in Nat
         /\ DOMAIN input = 1..Len(input) /\ DOMAIN script = 1..Len(input)
         /\ \A k \in 1..Len(input) : input[k] = script[k]
<1>1. Len(stdin) = 0
  BY EmptySeq
<1> QED
  BY <1>1, ScriptShape, LenProperties DEF TypeOK, WhereLinesAre

LEMMA StartLinesKeepsInv ==
  ASSUME BatchInv, StartLines
  PROVE  BatchInv'
<1>1. /\ TypeOK /\ WhereLinesAre /\ Stages /\ AccountsForEveryLine
      /\ pc = "reading" /\ closed /\ stdin = <<>>
      /\ pc' = IF \A k \in DOMAIN input : input[k].text THEN "lines" ELSE "failing"
      /\ UNCHANGED <<script, written, closed, hungUp, deaf, received, told, stdin, stdout, stderr,
                     input, next, hadError, code>>
  BY DEF BatchInv, StartLines, InputRead, caller, habits, pipes
<1>2. (\A k \in DOMAIN input : input[k].text) <=> IsText
  BY <1>1, InputIsScript DEF IsText, Stages
<1>3. TypeOK'
  BY <1>1 DEF TypeOK
<1>4. WhereLinesAre'
  BY <1>1 DEF WhereLinesAre
<1>5. Emitted' = Emitted /\ Complaints' = Complaints
  BY <1>1 DEF Emitted, Complaints
<1>6. AccountsForEveryLine' /\ BadLines' = BadLines
  BY <1>1, <1>5, AccountKept
<1>7. Stages'
  <2>1. IsText => pc' = "lines"
    BY <1>1, <1>2
  <2>2. ~IsText => pc' = "failing" /\ ~AllGood
    BY <1>1, <1>2 DEF AllGood
  <2> QED
    BY <1>1, <1>5, <1>6, <2>1, <2>2, ScriptKept DEF Stages
<1> QED
  BY <1>3, <1>4, <1>6, <1>7 DEF BatchInv

LEMMA ExitKeepsInv ==
  ASSUME BatchInv, Exit
  PROVE  BatchInv'
<1>1. /\ TypeOK /\ WhereLinesAre /\ Stages /\ AccountsForEveryLine
      /\ pc = "lines" /\ next = Len(input)
      /\ pc' = IF hadError THEN "failing" ELSE "exited"
      /\ UNCHANGED <<script, written, closed, hungUp, deaf, received, told, stdin, stdout, stderr,
                     input, next, hadError, code>>
  BY DEF BatchInv, Exit, caller, habits, pipes
<1>2. /\ closed /\ stdin = <<>> /\ IsText /\ code = 0
      /\ hadError <=> BadLines # {}
      /\ DOMAIN script = 1..next
  BY <1>1, InputIsScript DEF Stages
<1>3. hadError <=> ~AllGood
  BY <1>2 DEF BadLines, AllGood
<1>4. TypeOK'
  BY <1>1 DEF TypeOK
<1>5. WhereLinesAre'
  BY <1>1 DEF WhereLinesAre
<1>6. Emitted' = Emitted /\ Complaints' = Complaints
  BY <1>1 DEF Emitted, Complaints
<1>7. AccountsForEveryLine' /\ BadLines' = BadLines
  BY <1>1, <1>6, AccountKept
<1>8. Stages'
  BY <1>1, <1>2, <1>3, <1>6, <1>7, ScriptKept DEF Stages
<1> QED
  BY <1>4, <1>5, <1>7, <1>8 DEF BatchInv

LEMMA FailKeepsInv ==
  ASSUME BatchInv, Fail
  PROVE  BatchInv'
<1>1. /\ TypeOK /\ WhereLinesAre /\ Stages /\ AccountsForEveryLine
      /\ pc = "failing" /\ pc' = "exited"
      /\ \/ stderr' = Append(stderr, Closing) /\ code' = 1
         \/ deaf /\ code' = 101 /\ UNCHANGED stderr
      /\ UNCHANGED <<script, written, closed, hungUp, deaf, received, told, stdin, stdout,
                     input, next, hadError>>
  BY DEF BatchInv, Fail, Complain, Panic, caller, habits
<1>2. /\ ~AllGood /\ closed /\ stdin = <<>>
      /\ \A k \in DOMAIN Complaints : Complaints[k] # Closing
  BY <1>1 DEF Stages
<1>3. /\ Closing \in Nat
      /\ \A k \in DOMAIN Complaints : Complaints[k] < Closing
  <2>1. Len(script) \in Nat /\ next \in Nat /\ next <= Len(script)
    BY <1>1, <1>2, InputIsScript, ScriptShape DEF TypeOK, Stages
  <2>2. \A k \in DOMAIN Complaints : Complaints[k] \in 1..next
    BY <1>1, <1>2 DEF AccountsForEveryLine, BadLines
  <2> QED
    BY <2>1, <2>2 DEF Closing
<1>4. /\ UNCHANGED <<script, next>>
      /\ GoodLines' = GoodLines /\ BadLines' = BadLines /\ Closing' = Closing
      /\ Emitted' = Emitted
      /\ \A line : Place(line)' = Place(line)
  <2>1. GoodLines' = GoodLines
    BY <1>1 DEF GoodLines
  <2> QED
    BY <1>1, <2>1 DEF GoodLines, BadLines, Closing, Emitted, Place
<1>5. stderr' \in Seq(Nat) /\ AccountsForEveryLine'
  <2>1. CASE stderr' = Append(stderr, Closing)
    <3>1. /\ stderr' \in Seq(Nat)
          /\ \A j, k \in DOMAIN Complaints' : j < k => Complaints'[j] < Complaints'[k]
          /\ {Complaints'[k] : k \in DOMAIN Complaints'} =
               {Complaints[k] : k \in DOMAIN Complaints} \cup {Closing}
      BY <1>1, <1>3, <2>1, ComplaintAdded DEF AccountsForEveryLine
    <3>2. {Complaints'[k] : k \in DOMAIN Complaints'} \ {Closing'} = BadLines'
      BY <1>1, <1>4, <3>1 DEF AccountsForEveryLine
    <3> QED
      BY <1>1, <1>4, <3>1, <3>2 DEF AccountsForEveryLine
  <2>2. CASE UNCHANGED stderr
    <3>1. Complaints' = Complaints
      BY <1>1, <2>2 DEF Complaints
    <3> QED
      BY <1>1, <1>4, <2>2, <3>1, AccountKept DEF TypeOK
  <2> QED
    BY <1>1, <2>1, <2>2
<1>6. TypeOK'
  BY <1>1, <1>5 DEF TypeOK
<1>7. WhereLinesAre'
  BY <1>1 DEF WhereLinesAre
<1>8. Stages'
  BY <1>1, <1>2, ScriptKept DEF Stages
<1> QED
  BY <1>5, <1>6, <1>7, <1>8 DEF BatchInv

\* The three ways to look at a line.
LEMMA LookShape ==
  ASSUME BatchInv, HasLine
  PROVE  /\ next \in Nat /\ next + 1 \in 0..Len(input) /\ next + 1 \in 1..Len(script)
         /\ Line = script[next + 1] /\ Line \in Lines
         /\ closed /\ stdin = <<>> /\ IsText
<1>1. /\ TypeOK /\ WhereLinesAre /\ Stages /\ pc = "lines" /\ next < Len(input)
      /\ next \in 0..Len(input)
  BY DEF BatchInv, HasLine, TypeOK
<1>2. closed /\ stdin = <<>> /\ IsText
  BY <1>1 DEF Stages
<1>3. /\ Len(input) = Len(script) /\ Len(input) \in Nat
      /\ \A k \in 1..Len(input) : input[k] = script[k]
  BY <1>1, <1>2, InputIsScript DEF Stages
<1>4. next + 1 \in 1..Len(script) /\ next + 1 \in 1..Len(input)
  BY <1>1, <1>3
<1>5. script \in Scripts /\ script[next + 1] \in Lines
  BY <1>1, <1>4, ScriptShape DEF TypeOK
<1> QED
  BY <1>1, <1>2, <1>3, <1>4, <1>5 DEF Line

LEMMA LookKeepsInv ==
  ASSUME BatchInv, HasLine, next' = next + 1,
         UNCHANGED <<caller, stdin, input, pc, code>>,
         stdout' \in Seq(Outputs), stderr' \in Seq(Nat), hadError' \in BOOLEAN,
         hadError' <=> hadError \/ IsBad(Line), AccountsForEveryLine',
         \A k \in DOMAIN Complaints' : Complaints'[k] # Closing
  PROVE  BatchInv'
<1>1. /\ TypeOK /\ WhereLinesAre /\ Stages /\ pc = "lines"
      /\ UNCHANGED <<script, written, closed, hungUp, deaf, received, told>>
  BY DEF BatchInv, HasLine, caller, habits
<1>2. next + 1 \in 0..Len(input) /\ Line = script[next + 1] /\ closed /\ stdin = <<>> /\ IsText
  BY LookShape
<1>3. TypeOK'
  BY <1>1, <1>2 DEF TypeOK
<1>4. WhereLinesAre'
  BY <1>1 DEF WhereLinesAre
<1>5. PICK n \in Nat : next = n /\ next' = n + 1
  BY <1>1 DEF TypeOK
<1>6. BadLines' = IF IsBad(Line) THEN BadLines \cup {n + 1} ELSE BadLines
  BY <1>1, <1>2, <1>5, NextLine
<1>7. hadError' <=> BadLines' # {}
  BY <1>1, <1>6 DEF Stages
<1>8. Stages'
  BY <1>1, <1>2, <1>7, ScriptKept DEF Stages
<1> QED
  BY <1>3, <1>4, <1>8 DEF BatchInv

\* Until it has exited, the command has not had its last word.
LEMMA NotClosedYet ==
  ASSUME BatchInv, HasLine
  PROVE  \A k \in DOMAIN Complaints : Complaints[k] # Closing
BY DEF BatchInv, Stages, HasLine

LEMMA SkipBlankKeepsInv ==
  ASSUME BatchInv, SkipBlank
  PROVE  BatchInv'
<1>1. /\ TypeOK /\ AccountsForEveryLine /\ HasLine /\ IsBlank(Line)
      /\ next' = next + 1
      /\ UNCHANGED <<caller, stdin, stdout, stderr, input, hadError, pc, code>>
  BY DEF BatchInv, SkipBlank, pipes
<1>2. /\ UNCHANGED <<script, hungUp, received>> /\ Emitted' = Emitted
      /\ Complaints' = Complaints /\ Closing' = Closing
  BY <1>1 DEF caller, habits, Emitted, Complaints, Closing
<1>3. PICK n \in Nat : next = n /\ next' = n + 1
  BY <1>1 DEF TypeOK
<1>4. Line = script[n + 1] /\ ~Parses(Line) /\ ~IsBad(Line)
  BY <1>1, <1>3, LookShape DEF IsBlank, IsBad, Parses
<1>5. /\ GoodLines' = GoodLines /\ BadLines' = BadLines
      /\ \A line \in GoodLines : Place(line)' = Place(line)
  BY <1>2, <1>3, <1>4, NextLine
<1>6. AccountsForEveryLine'
  BY <1>1, <1>2, <1>5 DEF AccountsForEveryLine
<1> QED
  BY <1>1, <1>2, <1>4, <1>6, LookKeepsInv, NotClosedYet DEF TypeOK

LEMMA CompressKeepsInv ==
  ASSUME BatchInv, Compress
  PROVE  BatchInv'
<1> DEFINE output == Present(Line.tokens)
<1>1. /\ TypeOK /\ AccountsForEveryLine /\ HasLine /\ Parses(Line)
      /\ \/ ~hungUp /\ stdout' = Append(stdout, output)
         \/ hungUp /\ stdout' = stdout
      /\ next' = next + 1 /\ UNCHANGED <<caller, stdin, stderr, input, hadError, pc, code>>
  BY DEF BatchInv, Compress
<1>2. /\ UNCHANGED <<script, hungUp, received>>
      /\ Complaints' = Complaints /\ Closing' = Closing
  BY <1>1 DEF caller, habits, Complaints, Closing
<1>3. PICK n \in Nat : next = n /\ next' = n + 1
  BY <1>1 DEF TypeOK
<1>4. /\ Line = script[n + 1] /\ Line \in Lines /\ ~IsBad(Line)
  BY <1>1, <1>3, LookShape DEF IsBad
<1>5. output \in Outputs
  BY <1>4 DEF Outputs
<1> HIDE DEF output
<1>6. /\ GoodLines' = GoodLines \cup {n + 1} /\ BadLines' = BadLines
      /\ Cardinality(GoodLines') = Cardinality(GoodLines) + 1
      /\ Place(n + 1)' = Cardinality(GoodLines) + 1
      /\ \A line \in GoodLines : Place(line)' = Place(line)
  BY <1>1, <1>2, <1>3, <1>4, NextLine
<1>7. /\ Cardinality(GoodLines) \in Nat
      /\ \A line : Place(line) \in Nat /\ Place(line) <= Cardinality(GoodLines)
  BY <1>3, GoodLinesAreFinite
<1>8. /\ Emitted \in Seq(Outputs) /\ Len(Emitted) \in Nat /\ DOMAIN Emitted = 1..Len(Emitted)
  BY <1>1, WrittenShape
<1>9. CASE hungUp
  <2>1. Emitted' = Emitted /\ stdout' \in Seq(Outputs)
    BY <1>1, <1>2, <1>9 DEF Emitted, TypeOK
  <2>2. AccountsForEveryLine'
    BY <1>1, <1>2, <1>4, <1>6, <1>7, <1>8, <1>9, <2>1 DEF AccountsForEveryLine
  <2> QED
    BY <1>1, <1>2, <1>4, <2>1, <2>2, LookKeepsInv, NotClosedYet DEF TypeOK
<1>10. CASE ~hungUp
  <2>1. stdout' \in Seq(Outputs) /\ Emitted' = Append(Emitted, output)
    <3>1. received \in Seq(Outputs) /\ stdout \in Seq(Outputs) /\ stdout' = Append(stdout, output)
      BY <1>1, <1>10 DEF TypeOK
    <3>2. /\ Append(stdout, output) \in Seq(Outputs)
          /\ received \o Append(stdout, output) = Append(received \o stdout, output)
      BY <1>5, <3>1, WritingAddsLast
    <3> QED
      BY <1>2, <3>1, <3>2 DEF Emitted
  <2>2. /\ Len(Emitted') = Len(Emitted) + 1
        /\ \A k \in 1..Len(Emitted) : Emitted'[k] = Emitted[k]
        /\ Emitted'[Len(Emitted) + 1] = output
    BY <1>5, <1>8, <2>1, AppendProperties
  <2>3. Len(Emitted) = Cardinality(GoodLines)
    BY <1>1, <1>7, <1>8, <1>10 DEF AccountsForEveryLine
  <2>4. ASSUME NEW line \in GoodLines', Place(line)' <= Len(Emitted')
        PROVE  Emitted'[Place(line)'] = Present(script[line].tokens)
    <3>1. CASE line \in GoodLines
      <4>1. /\ Place(line)' = Place(line) /\ Place(line) <= Len(Emitted)
            /\ Emitted[Place(line)] = Present(script[line].tokens)
        BY <1>1, <1>6, <1>7, <2>3, <3>1 DEF AccountsForEveryLine
      <4>2. Place(line) \in 1..Len(Emitted)
        <5>1. line \in {k \in GoodLines : k <= line}
          BY <3>1 DEF GoodLines
        <5>2. Place(line) # 0
          BY <1>3, <5>1, GoodLinesAreFinite, FS_EmptySet DEF Place
        <5> QED
          BY <1>7, <4>1, <5>2
      <4> QED
        BY <2>2, <4>1, <4>2
    <3>2. CASE line = n + 1
      BY <1>4, <1>6, <2>2, <2>3, <3>2 DEF output
    <3> QED
      BY <1>6, <3>1, <3>2
  <2>5. AccountsForEveryLine'
    <3>1. \A line \in GoodLines' :
            Place(line)' <= Len(Emitted)' => Emitted'[Place(line)'] = Present(script'[line].tokens)
      BY <1>2, <2>4
    <3>2. /\ Len(Emitted)' <= Cardinality(GoodLines)'
          /\ ~(Len(Emitted)' < Cardinality(GoodLines)')
      BY <1>6, <1>7, <2>2, <2>3
    <3> QED
      BY <1>1, <1>2, <1>6, <3>1, <3>2 DEF AccountsForEveryLine
  <2> QED
    BY <1>1, <1>2, <1>4, <2>1, <2>5, LookKeepsInv, NotClosedYet DEF TypeOK
<1> QED
  BY <1>9, <1>10

LEMMA RefuseKeepsInv ==
  ASSUME BatchInv, Refuse, next' = next + 1
  PROVE  BatchInv'
<1>1. /\ TypeOK /\ AccountsForEveryLine /\ HasLine /\ IsBad(Line) /\ ~Parses(Line)
      /\ hadError' = TRUE /\ UNCHANGED <<caller, stdin, stdout, input>>
      /\ next \in Nat
  BY DEF BatchInv, TypeOK, Refuse, IsBad
<1>2. stderr' = Append(stderr, next + 1) /\ UNCHANGED <<pc, code>>
  BY <1>1 DEF Refuse, Complain, Panic
<1>3. /\ UNCHANGED <<script, hungUp, received, told>>
      /\ Emitted' = Emitted /\ Closing' = Closing
  BY <1>1 DEF caller, habits, Emitted, Closing
<1>4. PICK n \in Nat : next = n /\ next' = n + 1
  BY <1>1
<1>5. /\ Line = script[n + 1] /\ n + 1 # Closing
      /\ \A k \in DOMAIN Complaints : Complaints[k] # Closing
  BY <1>1, <1>4, LookShape, NotClosedYet, ScriptShape DEF Closing, TypeOK
<1>6. /\ GoodLines' = GoodLines /\ BadLines' = BadLines \cup {n + 1}
      /\ \A line \in GoodLines : Place(line)' = Place(line)
  BY <1>1, <1>3, <1>4, <1>5, NextLine
<1>7. \A k \in DOMAIN Complaints : Complaints[k] \in 1..n
  BY <1>1, <1>4, <1>5 DEF AccountsForEveryLine, BadLines
<1>8. /\ stderr' \in Seq(Nat)
      /\ \A j, k \in DOMAIN Complaints' : j < k => Complaints'[j] < Complaints'[k]
      /\ {Complaints'[k] : k \in DOMAIN Complaints'} =
           {Complaints[k] : k \in DOMAIN Complaints} \cup {n + 1}
  <2>1. \A k \in DOMAIN Complaints : Complaints[k] < n + 1
    BY <1>7
  <2>2. \A j, k \in DOMAIN Complaints : j < k => Complaints[j] < Complaints[k]
    BY <1>1 DEF AccountsForEveryLine
  <2>3. n + 1 \in Nat /\ stderr' = Append(stderr, n + 1) /\ UNCHANGED told
    BY <1>2, <1>3, <1>4
  <2> QED
    BY <1>1, <2>1, <2>2, <2>3, ComplaintAdded
<1>9. {Complaints'[k] : k \in DOMAIN Complaints'} \ {Closing} = BadLines'
  BY <1>1, <1>5, <1>6, <1>8 DEF AccountsForEveryLine
<1>10. AccountsForEveryLine'
  BY <1>1, <1>3, <1>6, <1>8, <1>9 DEF AccountsForEveryLine
<1>11. \A k \in DOMAIN Complaints' : Complaints'[k] # Closing
  BY <1>5, <1>8
<1> QED
  BY <1>1, <1>2, <1>8, <1>10, <1>11, LookKeepsInv DEF TypeOK

\* The refusal that cannot be written ends the command before the line is passed.
LEMMA PanicKeepsInv ==
  ASSUME BatchInv, Refuse, next' # next + 1
  PROVE  BatchInv'
<1>1. /\ TypeOK /\ WhereLinesAre /\ Stages /\ AccountsForEveryLine
      /\ HasLine /\ IsBad(Line) /\ hadError' = TRUE
      /\ deaf /\ pc' = "exited" /\ code' = 101
      /\ UNCHANGED <<script, written, closed, hungUp, deaf, received, told, stdin, stdout, stderr,
                     input, next>>
  BY DEF BatchInv, Refuse, Complain, Panic, caller, habits
<1>2. closed /\ stdin = <<>> /\ ~AllGood
  BY <1>1, LookShape, ScriptShape DEF AllGood, TypeOK
<1>3. TypeOK'
  BY <1>1 DEF TypeOK
<1>4. WhereLinesAre'
  BY <1>1 DEF WhereLinesAre
<1>5. AccountsForEveryLine'
  BY <1>1, AccountKept DEF Emitted, Complaints
<1>6. Stages'
  BY <1>1, <1>2, ScriptKept DEF Stages
<1> QED
  BY <1>3, <1>4, <1>5, <1>6 DEF BatchInv

-----------------------------------------------------------------------------
(* The lines of the input and what has become of them, at every step of the *)
(* batch command: read in their order, looked at once, and each line looked *)
(* at skipped, compressed or refused.                                       *)
THEOREM BatchInvariant == Spec => []BatchInv
<1>1. BatchInv /\ [Next]_vars => BatchInv'
  <2> SUFFICES ASSUME BatchInv, [Next]_vars PROVE BatchInv'
    OBVIOUS
  <2>1. CASE Write
    BY <2>1, WriteKeepsInv
  <2>2. CASE Close \/ Receive \/ HangUp \/ ReceiveError \/ HangUpErrors
    BY <2>2, ReadingSideKeepsInv
  <2>3. CASE Read
    BY <2>3, ReadKeepsInv
  <2>4. CASE StartLines
    BY <2>4, StartLinesKeepsInv
  <2>5. CASE SkipBlank
    BY <2>5, SkipBlankKeepsInv
  <2>6. CASE Compress
    BY <2>6, CompressKeepsInv
  <2>7. CASE Refuse
    BY <2>7, RefuseKeepsInv, PanicKeepsInv
  <2>8. CASE Exit
    BY <2>8, ExitKeepsInv
  <2>9. CASE Fail
    BY <2>9, FailKeepsInv
  <2>10. CASE UNCHANGED vars
    <3>1. UNCHANGED <<script, written, closed, hungUp, deaf, received, told, stdin, stdout, stderr,
                      input, next, hadError, pc, code>>
      BY <2>10 DEF vars, caller, habits, pipes, batch
    <3>2. Emitted' = Emitted /\ Complaints' = Complaints
      BY <3>1 DEF Emitted, Complaints
    <3>3. AccountsForEveryLine' /\ BadLines' = BadLines
      BY <3>1, <3>2, AccountKept DEF BatchInv
    <3> QED
      BY <3>1, <3>2, <3>3, ScriptKept DEF BatchInv, TypeOK, WhereLinesAre, Stages
  <2> QED
    BY <2>1, <2>2, <2>3, <2>4, <2>5, <2>6, <2>7, <2>8, <2>9, <2>10 DEF Next, Caller, Batch
<1> QED
  BY InvInit, <1>1, PTL DEF Spec

(* Every line the batch command has passed is blank, or its projection has  *)
(* gone out in the order of the lines, or stderr names it, unless the       *)
(* reader of the output has left: for inputs and pipes of every size.       *)
THEOREM EveryLineAccounted == Spec => []AccountsForEveryLine
BY BatchInvariant, PTL DEF BatchInv

LEMMA InvGivesExitCode == BatchInv => ExitCodeTellsRefusals
BY DEF BatchInv, TypeOK, Stages, AllGood, IsText, ExitCodeTellsRefusals

(* The exit code of the batch command tells of refused lines and of nothing *)
(* else, wherever they stand in an input of any length; 101 stands for a    *)
(* refusal that nobody was there to read.                                   *)
THEOREM ExitCodeIsExact == Spec => []ExitCodeTellsRefusals
BY BatchInvariant, InvGivesExitCode, PTL
=============================================================================
