---------------------------- MODULE CommandLine -----------------------------
(***************************************************************************)
(* The command line of the shell (labs/07-shell/tsh.c): how a line is      *)
(* split into arguments, which of them are builtin commands, and what fg   *)
(* and bg take for a job.                                                  *)
(*                                                                         *)
(* A line is a sequence of tokens that ends with a newline.  A token is a  *)
(* character that has a meaning, a number ("0" or "n", any other), or a    *)
(* run of letters, of which only the builtin names have a meaning.         *)
(***************************************************************************)
EXTENDS Naturals, Sequences

Space == " "
Quote == "'"
Digits == {"0", "n"}

\* The places where an argument may end; none if its quote is not closed.
Ends(buf, first, quoted) ==
  {i \in first..Len(buf) : buf[i] = IF quoted THEN Quote ELSE Space}

Leading(buf) ==
  CHOOSE n \in 0..Len(buf) :
    /\ \A k \in 1..n : buf[k] = Space
    /\ n < Len(buf) => buf[n + 1] # Space

\* argv
Arguments[buf \in Seq(STRING)] ==
  LET start == Leading(buf) + 1
      quoted == start <= Len(buf) /\ buf[start] = Quote
      first == IF quoted THEN start + 1 ELSE start
      ends == Ends(buf, first, quoted)
  IN  IF ends = {} THEN <<>>
      ELSE LET delim == CHOOSE d \in ends : \A e \in ends : d <= e
           IN  <<SubSeq(buf, first, delim - 1)>> \o Arguments[SubSeq(buf, delim + 1, Len(buf))]

\* A blank line is one in the background.  An argument that only begins with &
\* asks for the background too, and is dropped.
parseline(cmdline) ==
  LET argv == Arguments[[cmdline EXCEPT ![Len(cmdline)] = Space]]
      last == argv[Len(argv)]
      bg == argv = <<>> \/ (last # <<>> /\ last[1] = "&")
  IN  [argv |-> IF bg /\ argv # <<>> THEN SubSeq(argv, 1, Len(argv) - 1) ELSE argv,
       bg |-> bg]

-----------------------------------------------------------------------------

\* strtol, with nothing behind the number.
Number(id) ==
  \E i \in 1..Len(id) :
    /\ \A k \in 1..i - 1 : id[k] = Space
    /\ \A k \in i..Len(id) : id[k] \in Digits
Zero(id) == \A k \in 1..Len(id) : id[k] # "n"

Job(bg, arg) ==
  LET arg_jid == arg # <<>> /\ arg[1] = "%"
      id == IF arg_jid THEN Tail(arg) ELSE arg
  IN  IF Number(id) THEN [cmd |-> "cont", bg |-> bg, jid |-> arg_jid, zero |-> Zero(id)]
      ELSE [cmd |-> "malformed"]

\* What eval does for a line: nothing, a builtin command or a program.
Command(cmdline) ==
  LET line == parseline(cmdline)
      argv == line.argv
  IN  CASE argv = <<>> -> [cmd |-> "none"]
        [] argv # <<>> /\ argv[1] \in {<<"fg">>, <<"bg">>} ->
             IF Len(argv) = 1 THEN [cmd |-> "incomplete"]
             ELSE Job(argv[1] = <<"bg">>, argv[2])
        [] argv # <<>> /\ argv[1] \in {<<"jobs">>, <<"quit">>} -> [cmd |-> argv[1][1]]
        [] OTHER -> [cmd |-> "run", bg |-> line.bg]
=============================================================================
