------------------------------ MODULE CliBatch -------------------------------
(***************************************************************************)
(* `semagraph batch` (cmd_batch of packages/cli/src/main.rs) between the   *)
(* caller that writes its input and the one that reads what it says, who   *)
(* may be the same process, read only after it has written everything, and *)
(* read stderr only after stdout has ended.  The command reads all of its  *)
(* input before it looks at the first line; lines are then parsed and      *)
(* answered one by one, bad ones on stderr.  All three pipes are bounded:  *)
(* a write waits for room, and fails when the reader has left.             *)
(***************************************************************************)
EXTENDS Integers, Sequences, FiniteSets

CONSTANTS
  Scripts,         \* the inputs a caller may have: sequences of lines
  StdinCapacity, StdoutCapacity, StderrCapacity,  \* lines the pipes hold
  Empty, Word      \* tokens between two commas that hold nothing, or no number

Q3Max == 7

\* A line is text or not, has its brackets or not, and has tokens between its
\* commas; a blank line has neither brackets nor tokens.
Lines == [text : BOOLEAN, brackets : BOOLEAN, tokens : Seq(Nat \cup {Empty, Word})]

ASSUME ScriptsAssumption == Scripts \subseteq Seq(Lines)

ASSUME CapacitiesAssumption ==
  {StdinCapacity, StdoutCapacity, StderrCapacity} \subseteq Nat \ {0}

IsBlank(line) == ~line.brackets /\ line.tokens = <<>>

Present(tokens) == SelectSeq(tokens, LAMBDA token : token # Empty)

\* parse_json_int_array: tokens that hold nothing are passed over.
Parses(line) ==
  /\ line.brackets
  /\ Len(Present(line.tokens)) >= 2
  /\ \A k \in DOMAIN line.tokens :
       line.tokens[k] # Empty => line.tokens[k] # Word /\ line.tokens[k] <= Q3Max

IsBad(line) == ~IsBlank(line) /\ ~Parses(line)

VARIABLES
  script,    \* the lines the caller has
  patient,   \* whether the caller reads only when it has written them all
  inTurn,    \* whether the caller reads stderr only when stdout has ended
  quiet,     \* the --quiet flag, ctx.quiet
  written,   \* how many lines it has written
  closed,    \* whether it has closed stdin
  hungUp,    \* whether stdout has lost its reader
  deaf,      \* whether stderr has lost its reader
  received,  \* what has been read of stdout: paths, each with its projections
  told,      \* what has been read of stderr: numbers of lines refused, Closing
  stdin, stdout, stderr, \* the pipes
  input,     \* the lines read
  next,      \* lines looked at
  hadError,
  pc,        \* "reading", "lines", "failing", "exited"
  code       \* the exit code, once it has exited

habits == <<script, patient, inTurn, quiet>>
caller == <<habits, written, closed, hungUp, deaf, received, told>>
pipes == <<stdin, stdout, stderr>>
batch == <<input, next, hadError, pc, code>>
vars == <<caller, pipes, batch>>

Init ==
  /\ script \in Scripts /\ patient \in BOOLEAN /\ inTurn \in BOOLEAN /\ quiet \in BOOLEAN
  /\ written = 0 /\ closed = FALSE /\ hungUp = FALSE /\ deaf = FALSE
  /\ received = <<>> /\ told = <<>>
  /\ stdin = <<>> /\ stdout = <<>> /\ stderr = <<>>
  /\ input = <<>> /\ next = 0 /\ hadError = FALSE /\ pc = "reading" /\ code = 0

\* All that has been written to stdout, and to stderr.
Emitted == received \o stdout

Complaints == told \o stderr

-----------------------------------------------------------------------------
\* The caller.

Write ==
  /\ written < Len(script) /\ Len(stdin) < StdinCapacity /\ pc # "exited"
  /\ written' = written + 1
  /\ stdin' = Append(stdin, script[written + 1])
  /\ UNCHANGED <<habits, closed, hungUp, deaf, received, told, stdout, stderr, batch>>

Close ==
  /\ written = Len(script) /\ ~closed
  /\ closed' = TRUE
  /\ UNCHANGED <<habits, written, hungUp, deaf, received, told, pipes, batch>>

Receive ==
  /\ stdout # <<>> /\ ~hungUp /\ (patient => closed)
  /\ received' = Append(received, Head(stdout))
  /\ stdout' = Tail(stdout)
  /\ UNCHANGED <<habits, written, closed, hungUp, deaf, told, stdin, stderr, batch>>

HangUp ==
  /\ ~hungUp
  /\ hungUp' = TRUE
  /\ UNCHANGED <<habits, written, closed, deaf, received, told, pipes, batch>>

\* There is nothing more to read on stdout, or nobody reads it.
StdoutEnded == hungUp \/ (pc = "exited" /\ stdout = <<>>)

ReceiveError ==
  /\ stderr # <<>> /\ ~deaf /\ (patient => closed) /\ (inTurn => StdoutEnded)
  /\ told' = Append(told, Head(stderr))
  /\ stderr' = Tail(stderr)
  /\ UNCHANGED <<habits, written, closed, hungUp, deaf, received, stdin, stdout, batch>>

HangUpErrors ==
  /\ ~deaf
  /\ deaf' = TRUE
  /\ UNCHANGED <<habits, written, closed, hungUp, received, told, pipes, batch>>

-----------------------------------------------------------------------------
\* read_to_string

Read ==
  /\ pc = "reading" /\ stdin # <<>>
  /\ input' = Append(input, Head(stdin))
  /\ stdin' = Tail(stdin)
  /\ UNCHANGED <<caller, stdout, stderr, next, hadError, pc, code>>

\* Mutation: the input is complete when nothing is left in the pipe.
InputReadSoFar == input # <<>> /\ stdin = <<>>

InputRead == closed /\ stdin = <<>>

StartLines ==
  /\ pc = "reading" /\ InputRead
  /\ pc' = IF \A k \in DOMAIN input : input[k].text THEN "lines" ELSE "failing"
  /\ UNCHANGED <<caller, pipes, input, next, hadError, code>>

\* The loop over the lines.
Line == input[next + 1]

HasLine == pc = "lines" /\ next < Len(input)

SkipBlank ==
  /\ HasLine /\ IsBlank(Line)
  /\ next' = next + 1
  /\ UNCHANGED <<caller, pipes, input, hadError, pc, code>>

\* A write to a pipe nobody reads fails, and the failure is ignored.
Compress ==
  /\ HasLine /\ Parses(Line)
  /\ \/ ~hungUp /\ Len(stdout) < StdoutCapacity /\ stdout' = Append(stdout, Present(Line.tokens))
     \/ hungUp /\ UNCHANGED stdout
  /\ next' = next + 1
  /\ UNCHANGED <<caller, stdin, stderr, input, hadError, pc, code>>

\* eprintln! waits for room in the pipe, and panics when nobody reads it.
Complain(message) ==
  ~deaf /\ Len(stderr) < StderrCapacity /\ stderr' = Append(stderr, message)

Panic == deaf /\ pc' = "exited" /\ code' = 101 /\ UNCHANGED stderr

\* Mutation: a line is numbered by the lines that were not blank.
RefuseByCount ==
  /\ HasLine /\ IsBad(Line)
  /\ hadError' = TRUE
  /\ \/ /\ Complain(Len(Emitted) + Len(Complaints) + 1)
        /\ next' = next + 1 /\ UNCHANGED <<pc, code>>
     \/ Panic /\ UNCHANGED next
  /\ UNCHANGED <<caller, stdin, stdout, input>>

Refuse ==
  /\ HasLine /\ IsBad(Line)
  /\ hadError' = TRUE
  /\ \/ Complain(next + 1) /\ next' = next + 1 /\ UNCHANGED <<pc, code>>
     \/ Panic /\ UNCHANGED next
  /\ UNCHANGED <<caller, stdin, stdout, input>>

\* Mutation: the exit code is that of the last line.
ExitWithLast ==
  /\ pc = "lines" /\ next = Len(input)
  /\ pc' = IF next > 0 /\ IsBad(input[next]) THEN "failing" ELSE "exited"
  /\ UNCHANGED <<caller, pipes, input, next, hadError, code>>

\* Success is code 0, which the variable holds from the start.
Exit ==
  /\ pc = "lines" /\ next = Len(input)
  /\ pc' = IF hadError THEN "failing" ELSE "exited"
  /\ UNCHANGED <<caller, pipes, input, next, hadError, code>>

\* main()'s own word on the input as a whole, numbered after its last line.
Closing == Len(script) + 1

Fail ==
  /\ pc = "failing"
  /\ \/ Complain(Closing) /\ pc' = "exited" /\ code' = 1
     \/ Panic
  /\ UNCHANGED <<caller, stdin, stdout, input, next, hadError>>

Caller == Write \/ Close \/ Receive \/ HangUp \/ ReceiveError \/ HangUpErrors

Batch == Read \/ StartLines \/ SkipBlank \/ Compress \/ Refuse \/ Exit \/ Fail

Next == Caller \/ Batch

\* Both processes run; nobody has to hang up.
Fairness ==
  WF_vars(Batch) /\ WF_vars(Write \/ Close) /\ WF_vars(Receive) /\ WF_vars(ReceiveError)

Spec == Init /\ [][Next]_vars /\ Fairness

-----------------------------------------------------------------------------
\* The lines compressed, and the place of one among them.
GoodLines == {k \in 1..next : Parses(script[k])}

BadLines == {k \in 1..next : IsBad(script[k])}

Place(line) == Cardinality({k \in GoodLines : k <= line})

(* Every line passed is blank, or compressed, or refused under its own      *)
(* number in the input, in the order of the lines and before main()'s own   *)
(* word; outputs come in the order of the lines, beside refusals too, and   *)
(* one that is missing is missing because nobody reads.                     *)
AccountsForEveryLine ==
  /\ \A j, k \in DOMAIN Complaints : j < k => Complaints[j] < Complaints[k]
  /\ {Complaints[k] : k \in DOMAIN Complaints} \ {Closing} = BadLines
  /\ Len(Emitted) <= Cardinality(GoodLines)
  /\ \A line \in GoodLines :
       Place(line) <= Len(Emitted) => Emitted[Place(line)] = Present(script[line].tokens)
  /\ Len(Emitted) < Cardinality(GoodLines) => hungUp

(* The exit code tells of any line of the caller's input that was refused,  *)
(* wherever it stands, and of nothing else, even if nobody reads; only the  *)
(* loss of stderr's reader gives one that no document names.                *)
ExitCodeTellsRefusals ==
  pc = "exited" =>
    /\ code = 0 <=> \A k \in DOMAIN script : script[k].text /\ ~IsBad(script[k])
    /\ code \in {0, 1} \/ (code = 101 /\ deaf)

\* What stderr will be asked to hold: the refusals and main()'s word on them.
Due ==
  IF \E k \in DOMAIN script : ~script[k].text
  THEN 1
  ELSE LET bad == {k \in DOMAIN script : IsBad(script[k])}
       IN  IF bad = {} THEN 0 ELSE Cardinality(bad) + 1

(* The command finishes for every caller, the one that writes all of its    *)
(* input before it reads any output among them, unless the caller leaves    *)
(* stderr unread until stdout has ended and the pipe cannot hold what comes *)
(* before that: those two would wait for each other.                        *)
FinishesForAnyCaller == (inTurn => Due <= StderrCapacity) => <>(pc = "exited")

(* The help text says that --quiet suppresses the data on stdout, and       *)
(* TOOL_DESCRIPTION.md that on invalid input stdout stays clean.  By either *)
(* a quiet batch that fails over its input has said nothing there; the code *)
(* keeps neither.                                                           *)
QuietFailureIsSilent == pc = "exited" /\ quiet /\ code = 1 => Emitted = <<>>
=============================================================================
