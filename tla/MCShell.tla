------------------------------ MODULE MCShell ------------------------------
(* Small instances of the shell.  The children are interchangeable.        *)
EXTENDS Shell, CommandLine, SequencesExt

Symmetry == Permutations(Pids)

Run(b) == [cmd |-> "run", bg |-> b]
Resume(b, j) == [cmd |-> "cont", bg |-> b, jid |-> j, zero |-> FALSE]

\* The command with the number 0.
Zeroth(b, j) == [Resume(b, j) EXCEPT !.zero = TRUE]

\* Programs, and the forms of fg and bg but for the pid 0.
FewCommands == {Run(b) : b \in BOOLEAN} \cup {Resume(b, j) : b \in BOOLEAN, j \in BOOLEAN}
MCCommands ==
  FewCommands \cup {Zeroth(b, TRUE) : b \in BOOLEAN}
    \cup {[cmd |-> c] : c \in {"none", "incomplete", "malformed", "quit", "jobs"}}

\* They are what all lines of up to four tokens ask for, without that pid.
NL == "\n"
Tokens == {" ", "'", "&", "%", "n", "0", "x", "fg", "bg", "jobs", "quit"}
ASSUME AllCommands ==
  MCCommands = {Command(Append(text, NL)) : text \in SeqOf(Tokens, 4)}
                 \ {Zeroth(b, FALSE) : b \in BOOLEAN}

-----------------------------------------------------------------------------
(* Characters enclosed in single quotes are treated as a single argument   *)
(* (tsh.c:208): a line that is put together from arguments, with any       *)
(* spaces around them and quotes around those that hold a space or nothing,*)
(* is split into the same arguments, and a last one that begins with & is  *)
(* taken for the background.                                               *)
Spaces == {<<>>, <<" ">>, <<" ", " ">>}
Quoted(arg) == IF arg = <<>> \/ " " \in Range(arg) THEN <<"'">> \o arg \o <<"'">> ELSE arg
Typed(argv, gap) ==
  FoldLeft(LAMBDA line, arg : line \o Quoted(arg) \o gap, gap, argv)
Background(argv) == argv = <<>> \/ (Last(argv) # <<>> /\ Last(argv)[1] = "&")

ASSUME SplitsAsTyped ==
  \A argv \in SeqOf(SeqOf({" ", "&", "x"}, 2), 2), gap \in Spaces \ {<<>>} :
    LET line == parseline(Append(Typed(argv, gap), NL)) IN
    /\ line.bg = Background(argv)
    /\ line.argv = IF argv # <<>> /\ line.bg THEN Front(argv) ELSE argv
=============================================================================
