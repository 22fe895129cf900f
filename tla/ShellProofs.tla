---------------------------- MODULE ShellProofs -----------------------------
(* Proofs about Shell, for any children, slots of the job list and lines,  *)
(* as long as no line asks for the process 0.                              *)
EXTENDS Shell, FiniteSetTheorems, TLAPS

\* fg 0 and bg 0 find slots that hold no job.
NamesJobs == \A c \in Commands : c.cmd = "cont" /\ c.zero => c.jid

-----------------------------------------------------------------------------
(* The inductive invariant                                                 *)

(* The handler interrupts the main program only where SIGCHLD is open, and *)
(* what waitpid told a frame of its child stays true until it acts on it.  *)
Control ==
  /\ DOMAIN at = Frames
  /\ at["handler"] # "off" => at["main"] \in {"prompt", "waitfg", "block"}
  /\ at["main"] \in {"addjob", "cont", "restore", "reap", "clear", "collect"} => "CHLD" \in mask
  /\ at["main"] \in {"addjob", "cont", "restore", "waitfg", "block", "reap", "clear"} =>
       pid["main"] \in Pids
  /\ at["handler"] \in {"reap", "clear"} => pid["handler"] \in Pids

Told ==
  \A f \in Frames : at[f] \in {"block", "reap"} =>
    \/ status[f] = "exit" /\ proc[pid[f]] = "reaped"
    \/ status[f] = "stop" /\ proc[pid[f]] \in {"stopped", "zombie", "reaped"}

(* The list has a child at most once, and a slot without a child is free,  *)
(* but for the one that a frame is about to free.                          *)
Halfway(i) == jobs[i].pid = NoPid /\ jobs[i].jid # 0
Table ==
  /\ \A i, j \in Slots : jobs[i].pid \in Pids /\ jobs[i].pid = jobs[j].pid => i = j
  /\ \A i \in Slots : jobs[i].pid \in Pids =>
       proc[jobs[i].pid] # "unused" /\ jobs[i].state # "UNDEF"
  /\ \A i \in Slots : jobs[i].jid = 0 => jobs[i] = Cleared
  /\ \A i, j \in Slots : Halfway(i) /\ Halfway(j) => i = j
  /\ \A i \in Slots : Halfway(i) => \E f \in Frames : at[f] = "clear"
  /\ at["main"] = "clear" => \A i \in Slots : jobs[i].pid # pid["main"]

(* The child that eval is about to add has not been waited for.            *)
Fresh ==
  at["main"] = "addjob" =>
    /\ proc[pid["main"]] \in {"starting", "running", "stopped", "zombie"}
    /\ proc[pid["main"]] = "stopped" => pid["main"] \in unreported
    /\ \A i \in Slots : jobs[i].pid # pid["main"]

(* A job whose end was reported is about to be deleted.                    *)
Stale ==
  \A i \in Slots : jobs[i].pid \in Pids /\ proc[jobs[i].pid] = "reaped" =>
    \E f \in Frames : /\ pid[f] = jobs[i].pid /\ status[f] = "exit"
                      /\ at[f] \in {"block", "reap"}

(* No job is in the foreground unless the main program is on its way to    *)
(* wait for it.                                                            *)
Awaited ==
  \A i \in Slots : jobs[i].state = "FG" =>
    /\ at["main"] \in {"cont", "restore", "waitfg", "block", "reap", "clear"}
    /\ at["main"] \in {"cont", "restore"} => ~bg
    /\ jobs[i].pid \in {pid["main"], NoPid}

(* A job is ST only while its child does not run, and any other state of a *)
(* stopped child's job is about to be corrected.                           *)
Truthful ==
  /\ \A p \in unreported : proc[p] = "stopped"
  /\ \A i \in Slots : jobs[i].pid \in Pids =>
       /\ jobs[i].state = "ST" => proc[jobs[i].pid] \in {"stopped", "zombie", "reaped"}
       /\ at["main"] = "cont" /\ pid["main"] = jobs[i].pid => jobs[i].state \in {"FG", "BG"}
       /\ proc[jobs[i].pid] = "stopped" /\ jobs[i].state # "ST" =>
            \/ jobs[i].pid \in unreported
            \/ \E f \in Frames : /\ pid[f] = jobs[i].pid /\ status[f] = "stop"
                                 /\ at[f] \in {"block", "reap"}
            \/ at["main"] = "cont" /\ pid["main"] = jobs[i].pid

IInv == /\ TypeOK /\ Control /\ Told /\ Table /\ Fresh /\ Stale /\ Awaited /\ Truthful
        /\ ReportsKept

-----------------------------------------------------------------------------
(* The searches of the job list                                            *)

HasEnds(S) == /\ \E m \in S : \A x \in S : m <= x
              /\ \E m \in S : \A x \in S : x <= m

LEMMA Extremes ==
  ASSUME NEW S \in SUBSET Int, IsFiniteSet(S), S # {}
  PROVE  HasEnds(S)
<1> DEFINE R == StrictSubsetOrdering(S)
<1> DEFINE T == {U \in SUBSET S : U # {} /\ ~HasEnds(U)}
<1> SUFFICES ASSUME ~HasEnds(S)
             PROVE  FALSE
  OBVIOUS
<1>1. IsWellFoundedOn(R, FiniteSubsetsOf(S))
  BY FS_StrictSubsetOrderingWellFounded
<1>2. T \subseteq FiniteSubsetsOf(S) /\ S \in T
  BY FS_Subset DEF FiniteSubsetsOf
<1>3. PICK U \in T : \A V \in T : <<V, U>> \notin R
  <2> HIDE DEF R, T
  <2> QED
    BY <1>1, <1>2, WFMin
<1>4. PICK x \in U : TRUE
  OBVIOUS
<1>5. x \in Int /\ U \subseteq Int
  OBVIOUS
<1>6. CASE U = {x}
  BY <1>5, <1>6 DEF HasEnds
<1>7. CASE U # {x}
  <2> DEFINE V == U \ {x}
  <2>1. V # {} /\ V \in SUBSET S /\ <<V, U>> \in R
    BY <1>4, <1>7 DEF StrictSubsetOrdering
  <2>2. HasEnds(V)
    BY <2>1, <1>3
  <2>3. PICK m \in V : \A y \in V : m <= y
    BY <2>2 DEF HasEnds
  <2>4. PICK n \in V : \A y \in V : y <= n
    BY <2>2 DEF HasEnds
  <2>5. \E k \in U : \A y \in U : k <= y
    <3>1. CASE x <= m
      <4>1. \A y \in U : x <= y
        BY <1>5, <2>3, <3>1
      <4> QED
        BY <4>1, <1>4
    <3>2. CASE m <= x
      <4>1. \A y \in U : m <= y
        BY <1>5, <2>3, <3>2
      <4> QED
        BY <4>1
    <3> QED
      BY <3>1, <3>2, <1>5
  <2>6. \E k \in U : \A y \in U : y <= k
    <3>1. CASE n <= x
      <4>1. \A y \in U : y <= x
        BY <1>5, <2>4, <3>1
      <4> QED
        BY <4>1, <1>4
    <3>2. CASE x <= n
      <4>1. \A y \in U : y <= n
        BY <1>5, <2>4, <3>2
      <4> QED
        BY <4>1
    <3> QED
      BY <3>1, <3>2, <1>5
  <2> QED
    BY <2>5, <2>6 DEF HasEnds
<1> QED
  BY <1>6, <1>7

LEMMA SlotsFinite == IsFiniteSet(Slots) /\ Slots \subseteq Nat \ {0}
<1>1. 1 \in Int /\ MaxJobs \in Int
  BY JobTableAssumption
<1> QED
  BY <1>1, FS_Interval DEF Slots

(* A search finds a slot that fits, or there is none.                      *)
LEMMA FirstFits ==
  ASSUME NEW S \in SUBSET Slots
  PROVE  /\ FirstOf(S) \in S \cup {0}
         /\ FirstOf(S) = 0 <=> S = {}
<1>1. CASE S = {}
  BY <1>1 DEF FirstOf
<1>2. CASE S # {}
  <2>1. IsFiniteSet(S) /\ S \subseteq Int
    <3>1. IsFiniteSet(S)
      BY SlotsFinite, FS_Subset
    <3>2. S \subseteq Int
      BY SlotsFinite
    <3> QED
      BY <3>1, <3>2
  <2>2. \E m \in S : \A x \in S : m <= x
    BY <2>1, <1>2, Extremes DEF HasEnds
  <2>3. FirstOf(S) \in S
    BY <1>2, <2>2 DEF FirstOf
  <2> QED
    BY <1>2, <2>3, SlotsFinite
<1> QED
  BY <1>1, <1>2

LEMMA MaxJidFound ==
  ASSUME NEW js, \A i \in Slots : js[i].jid \in Nat
  PROVE  MaxJid(js) \in Nat /\ \A i \in Slots : js[i].jid <= MaxJid(js)
<1> DEFINE J == {js[i].jid : i \in Slots}
<1> DEFINE f == [i \in Slots |-> js[i].jid]
<1>1. f \in Surjection(Slots, J)
  BY DEF Surjection
<1>2. IsFiniteSet(J)
  <2> HIDE DEF f, J
  <2> QED
    BY <1>1, SlotsFinite, FS_Surjection
<1>3. IsFiniteSet(J \cup {0}) /\ J \cup {0} \subseteq Nat
  <2>1. J \subseteq Nat
    OBVIOUS
  <2> HIDE DEF J
  <2> QED
    BY <1>2, <2>1, FS_AddElement
<1>4. \E m \in J \cup {0} : \A x \in J \cup {0} : x <= m
  <2> HIDE DEF J
  <2> QED
    BY <1>3, Extremes DEF HasEnds
<1>5. \E m \in J \cup {0} : \A i \in Slots : js[i].jid <= m
  BY <1>4
<1>6. MaxJid(js) \in J \cup {0} /\ \A i \in Slots : js[i].jid <= MaxJid(js)
  BY <1>5 DEF MaxJid
<1> QED
  BY <1>3, <1>6

-----------------------------------------------------------------------------
(* What the operations on the list do                                      *)

Job == [pid : Pids \cup {NoPid}, jid : Nat, state : {"UNDEF", "FG", "BG", "ST"}]
TableTyped == jobs \in [Slots -> Job] /\ nextjid \in Nat \ {0}

LEMMA TypedTable == TypeOK => TableTyped
BY DEF TypeOK, TableTyped, Job

(* The table after an operation: slot i became j, or nothing changed.      *)
Becomes(i, j) ==
  /\ jobs'[i] = j /\ j \in Job /\ \A k \in Slots \ {i} : jobs'[k] = jobs[k]

LEMMA AddEffect ==
  ASSUME TableTyped, NEW p \in Pids \cup {NoPid}, NEW b \in {"FG", "BG"}, addjob(p, b)
  PROVE  /\ TableTyped'
         /\ \/ Full /\ UNCHANGED jobs
            \/ ~Full /\ \E i \in Slots : /\ jobs[i].pid = NoPid
                                        /\ Becomes(i, [pid |-> p, jid |-> nextjid, state |-> b])
<1>1. CASE Full
  BY <1>1 DEF addjob, TableTyped
<1>2. CASE ~Full
  <2>1. getjobpid(NoPid) \in WithPid(NoPid)
    BY <1>2, FirstFits DEF Full, getjobpid, WithPid
  <2>2. PICK i \in Slots : i = getjobpid(NoPid) /\ jobs[i].pid = NoPid
    BY <2>1 DEF WithPid
  <2>3. jobs' = [jobs EXCEPT ![i] = [pid |-> p, jid |-> nextjid, state |-> b]]
          /\ nextjid' = IF nextjid + 1 > MaxJobs THEN 1 ELSE nextjid + 1
    BY <1>2, <2>2 DEF addjob
  <2>4. [pid |-> p, jid |-> nextjid, state |-> b] \in Job
    BY DEF Job, TableTyped
  <2> QED
    BY <1>2, <2>2, <2>3, <2>4 DEF TableTyped, Becomes
<1> QED
  BY <1>1, <1>2

LEMMA StateEffect ==
  ASSUME TableTyped, NEW i \in Slots, NEW b \in {"FG", "BG", "ST"}, setstate(i, b)
  PROVE  /\ TableTyped'
         /\ Becomes(i, [pid |-> jobs[i].pid, jid |-> jobs[i].jid, state |-> b])
<1>1. jobs[i] \in Job /\ jobs' = [jobs EXCEPT ![i].state = b] /\ nextjid' = nextjid
  BY DEF setstate, TableTyped
<1>2. jobs' = [jobs EXCEPT ![i] = [jobs[i] EXCEPT !.state = b]]
  BY <1>1
<1>3. [jobs[i] EXCEPT !.state = b] = [pid |-> jobs[i].pid, jid |-> jobs[i].jid, state |-> b]
  BY <1>1 DEF Job
<1>4. [pid |-> jobs[i].pid, jid |-> jobs[i].jid, state |-> b] \in Job
  BY <1>1 DEF Job
<1> QED
  BY <1>1, <1>2, <1>3, <1>4 DEF TableTyped, Becomes

LEMMA ClearPidEffect ==
  ASSUME TableTyped, NEW i \in Slots, clearpid(i)
  PROVE  /\ TableTyped'
         /\ Becomes(i, [pid |-> NoPid, jid |-> jobs[i].jid, state |-> jobs[i].state])
<1>1. jobs[i] \in Job /\ jobs' = [jobs EXCEPT ![i].pid = NoPid] /\ nextjid' = nextjid
  BY DEF clearpid, TableTyped
<1>2. jobs' = [jobs EXCEPT ![i] = [jobs[i] EXCEPT !.pid = NoPid]]
  BY <1>1
<1>3. [jobs[i] EXCEPT !.pid = NoPid] = [pid |-> NoPid, jid |-> jobs[i].jid, state |-> jobs[i].state]
  BY <1>1 DEF Job
<1>4. [pid |-> NoPid, jid |-> jobs[i].jid, state |-> jobs[i].state] \in Job
  BY <1>1 DEF Job
<1> QED
  BY <1>1, <1>2, <1>3, <1>4 DEF TableTyped, Becomes

LEMMA DeleteEffect ==
  ASSUME TableTyped, NEW i \in Slots, deletejob(i)
  PROVE  TableTyped' /\ Becomes(i, Cleared)
<1>1. Cleared \in Job
  BY DEF Cleared, Job
<1>2. jobs' = [jobs EXCEPT ![i] = Cleared] /\ nextjid' = MaxJid(jobs') + 1
  BY DEF deletejob
<1>3. jobs' \in [Slots -> Job]
  BY <1>1, <1>2 DEF TableTyped
<1>4. \A k \in Slots : jobs'[k].jid \in Nat
  BY <1>3 DEF Job
<1>5. MaxJid(jobs') \in Nat
  BY <1>4, MaxJidFound
<1> QED
  BY <1>1, <1>2, <1>3, <1>5 DEF TableTyped, Becomes

(* The jobs that fg and bg can name.                                       *)
LEMMA ChosenFits ==
  ASSUME TableTyped, Table, \A f \in Frames : at[f] # "clear",
         NEW c \in Commands, c.cmd = "cont", c.zero => c.jid, NEW i \in Chosen(c) \ {0}
  PROVE  i \in Slots /\ jobs[i].pid \in Pids /\ c.bg \in BOOLEAN
<1>1. c \in [cmd : {"cont"}, bg : BOOLEAN, jid : BOOLEAN, zero : BOOLEAN]
  BY ShellAssumption
<1>2. \A j \in Slots : jobs[j].jid # 0 => jobs[j].pid \in Pids
  BY DEF Table, Halfway, TableTyped, Job
<1>3. CASE c.jid
  <2>1. getjobjid(0) = 0
    BY DEF getjobjid
  <2>2. PICK j \in Slots : jobs[j].jid # 0 /\ i = getjobjid(jobs[j].jid)
    BY <1>1, <1>3, <2>1 DEF Chosen
  <2>3. i \in WithJid(jobs[j].jid)
    BY <2>2, FirstFits DEF getjobjid, WithJid
  <2> QED
    BY <1>1, <1>2, <2>2, <2>3 DEF WithJid
<1>4. CASE ~c.jid
  <2>1. PICK p \in Pids : i = getjobpid(p)
    BY <1>1, <1>4 DEF Chosen
  <2>2. i \in WithPid(p)
    BY <2>1, FirstFits DEF getjobpid, WithPid
  <2> QED
    BY <1>1, <2>1, <2>2 DEF WithPid
<1> QED
  BY <1>1, <1>3, <1>4

-----------------------------------------------------------------------------
(* A step of a frame                                                       *)

LEMMA StepMoves ==
  ASSUME DOMAIN at = Frames, NEW f \in Frames, NEW from, NEW to, Step(f, from, to)
  PROVE  /\ at[f] = from /\ at'[f] = to /\ DOMAIN at' = Frames
         /\ \A g \in Frames \ {f} : at'[g] = at[g]
         /\ ~Ended
         /\ f = "main" => at["handler"] = "off" /\ at'["handler"] = "off"
BY DEF Step, Running, Frames

LEMMA StepEffect ==
  ASSUME Control, NEW f \in Frames, NEW from, NEW to, Step(f, from, to)
  PROVE  /\ at[f] = from /\ at'[f] = to /\ DOMAIN at' = Frames
         /\ \A g \in Frames \ {f} : at'[g] = at[g]
         /\ ~Ended
         /\ f = "main" => at["handler"] = "off" /\ at'["handler"] = "off"
BY StepMoves DEF Control

(* What reap_child does to the list: it corrects the state of a stopped    *)
(* child's job, or begins to delete the one of a child that ended.         *)
LEMMA ReapEffect ==
  ASSUME TypeOK, Control, Told, Table, NEW f \in Frames, Reap(f)
  PROVE  /\ TableTyped' /\ at[f] = "reap" /\ pid[f] \in Pids
         /\ UNCHANGED <<kernel, mask, main, pid, status, sent>>
         /\ \/ /\ \A i \in Slots : jobs[i].pid # pid[f]
               /\ Step(f, "reap", "collect") /\ UNCHANGED jobs
            \/ /\ status[f] = "stop" /\ Step(f, "reap", "collect")
               /\ \E i \in Slots : /\ jobs[i].pid = pid[f]
                                   /\ Becomes(i, [pid |-> pid[f], jid |-> jobs[i].jid, state |-> "ST"])
            \/ /\ status[f] = "exit" /\ Step(f, "reap", "clear")
               /\ \E i \in Slots : /\ jobs[i].pid = pid[f]
                                   /\ Becomes(i, [pid |-> NoPid, jid |-> jobs[i].jid, state |-> jobs[i].state])
<1> DEFINE i == getjobpid(pid[f])
<1>1. at[f] = "reap"
  BY DEF Reap, Step
<1>2. pid[f] \in Pids
  BY <1>1 DEF Control, Frames
<1>3. status[f] \in {"exit", "stop"}
  BY <1>1 DEF Told
<1>4. UNCHANGED <<kernel, mask, main, pid, status, sent>>
  BY DEF Reap
<1>5. TableTyped
  BY TypedTable
<1>6. CASE i = 0
  <2>1. WithPid(pid[f]) = {}
    BY <1>6, FirstFits DEF getjobpid, WithPid
  <2>2. \A k \in Slots : jobs[k].pid # pid[f]
    BY <2>1 DEF WithPid
  <2>3. Step(f, "reap", "collect") /\ UNCHANGED table
    BY <1>6 DEF Reap
  <2> QED
    BY <1>1, <1>2, <1>4, <1>5, <2>2, <2>3 DEF table, TableTyped
<1>7. CASE i # 0 /\ status[f] = "stop"
  <2>1. i \in Slots /\ jobs[i].pid = pid[f]
    BY <1>7, FirstFits DEF getjobpid, WithPid
  <2>2. Step(f, "reap", "collect") /\ setstate(i, "ST")
    BY <1>7 DEF Reap
  <2> HIDE DEF i
  <2>3. TableTyped' /\ Becomes(i, [pid |-> jobs[i].pid, jid |-> jobs[i].jid, state |-> "ST"])
    BY <1>5, <2>1, <2>2, StateEffect
  <2> QED
    BY <1>1, <1>2, <1>4, <1>7, <2>1, <2>2, <2>3
<1>8. CASE i # 0 /\ status[f] = "exit"
  <2>1. i \in Slots /\ jobs[i].pid = pid[f]
    BY <1>8, FirstFits DEF getjobpid, WithPid
  <2>2. Step(f, "reap", "clear") /\ clearpid(i)
    BY <1>8 DEF Reap
  <2> HIDE DEF i
  <2>3. TableTyped' /\ Becomes(i, [pid |-> NoPid, jid |-> jobs[i].jid, state |-> jobs[i].state])
    BY <1>5, <2>1, <2>2, ClearPidEffect
  <2> QED
    BY <1>1, <1>2, <1>4, <1>8, <2>1, <2>2, <2>3
<1> QED
  BY <1>3, <1>6, <1>7, <1>8

-----------------------------------------------------------------------------
(* The children                                                            *)

Lives == {"unused", "starting", "running", "stopped", "zombie", "reaped"}

\* What can happen to a child that nobody waits for at that moment.
Moves(p) ==
  \/ proc'[p] = proc[p] /\ (p \in unreported' <=> p \in unreported)
  \/ proc[p] = "starting" /\ proc'[p] = "running" /\ p \notin unreported'
  \/ proc[p] = "running" /\ proc'[p] = "zombie" /\ p \notin unreported'
  \/ proc[p] = "running" /\ proc'[p] = "stopped" /\ p \in unreported'
  \/ proc[p] = "stopped" /\ proc'[p] = "zombie" /\ p \notin unreported'

LEMMA ChildMoves ==
  ASSUME IInv, UNCHANGED <<jobs, mask, bg, at, pid, status>>,
         unreported' \subseteq Pids,
         \A p \in Pids : Moves(p)
  PROVE  Control' /\ Told' /\ Table' /\ Fresh' /\ Stale' /\ Awaited' /\ Truthful'
<1>0. TypeOK /\ Control /\ Told /\ Table /\ Fresh /\ Stale /\ Awaited /\ Truthful
  BY DEF IInv
<1>1. Control' /\ Awaited'
  BY <1>0 DEF Control, Awaited
<1>2. Told'
  <2>1. \A f \in Frames : at[f] \in {"block", "reap"} => pid[f] \in Pids
    BY <1>0 DEF Control, Frames, TypeOK
  <2> QED
    BY <1>0, <2>1 DEF Told, Moves
<1>3. Table'
  BY <1>0 DEF Table, Halfway, Moves
<1>4. Fresh'
  <2>1. at["main"] = "addjob" => pid["main"] \in Pids
    BY <1>0 DEF Control
  <2> QED
    BY <1>0, <2>1 DEF Fresh, Moves
<1>5. Stale'
  BY <1>0 DEF Stale, Moves
<1>6. Truthful'
  <2>1. \A p \in unreported' : proc'[p] = "stopped"
    BY <1>0 DEF Truthful, Moves
  <2>2. ASSUME NEW i \in Slots, jobs[i].pid \in Pids
        PROVE  /\ jobs[i].state = "ST" => proc'[jobs[i].pid] \in {"stopped", "zombie", "reaped"}
               /\ proc'[jobs[i].pid] = "stopped" /\ jobs[i].state # "ST" =>
                    \/ jobs[i].pid \in unreported'
                    \/ proc[jobs[i].pid] = "stopped" /\ jobs[i].pid \notin unreported
    BY <1>0, <2>2 DEF Truthful, Moves
  <2> QED
    BY <1>0, <2>1, <2>2 DEF Truthful
<1> QED
  BY <1>1, <1>2, <1>3, <1>4, <1>5, <1>6

LEMMA ChildSteps ==
  ASSUME IInv, \/ \E p \in Pids : Exec(p) \/ Exit(p) \/ Stop(p)
               \/ \E sig \in {"INT", "TSTP"} : KeyHandler(sig) \/ Press(sig)
  PROVE  IInv'
<1>0. TypeOK /\ Control /\ Truthful /\ ReportsKept /\ Table
  BY DEF IInv
<1>1. UNCHANGED <<table, mask, main, at, pid, status>>
  BY DEF Exec, Exit, Stop, KeyHandler, Press, Quiet
<1>2. ASSUME NEW p \in Pids, Exec(p)
      PROVE  IInv'
  <2>1. proc[p] = "starting" /\ proc' = [proc EXCEPT ![p] = "running"]
          /\ UNCHANGED <<unreported, chld, keys, keysLeft, sent>>
    BY <1>2 DEF Exec, Quiet
  <2>2. TypeOK'
    BY <1>0, <1>1, <2>1 DEF TypeOK, table, main
  <2>3. \A q \in Pids : Moves(q)
    BY <1>0, <2>1 DEF Moves, TypeOK, Truthful
  <2>4. ReportsKept'
    BY <1>0, <1>1, <2>1 DEF ReportsKept, Ended, TypeOK
  <2> QED
    BY <1>0, <1>1, <2>1, <2>2, <2>3, <2>4, ChildMoves DEF IInv, table, main, TypeOK
<1>3. ASSUME NEW p \in Pids, Exit(p) \/ Stop(p)
      PROVE  IInv'
  <2>1. /\ \/ /\ proc[p] \in {"running", "stopped"}
              /\ proc' = [proc EXCEPT ![p] = "zombie"] /\ unreported' = unreported \ {p}
           \/ /\ proc[p] = "running"
              /\ proc' = [proc EXCEPT ![p] = "stopped"] /\ unreported' = unreported \cup {p}
        /\ chld' = TRUE /\ UNCHANGED <<keys, keysLeft, sent>>
    BY <1>3 DEF Exit, Stop, Quiet
  <2>2. TypeOK'
    BY <1>0, <1>1, <2>1 DEF TypeOK, table, main
  <2>3. \A q \in Pids : Moves(q)
    BY <1>0, <2>1 DEF Moves, TypeOK
  <2>4. ReportsKept'
    BY <2>1 DEF ReportsKept
  <2> QED
    BY <1>1, <2>2, <2>3, <2>4, ChildMoves DEF IInv, table, main, TypeOK
<1>4. ASSUME NEW sig \in {"INT", "TSTP"}, Press(sig)
      PROVE  IInv'
  <2>1. /\ keysLeft > 0 /\ keys' = keys \cup {sig} /\ keysLeft' = keysLeft - 1
        /\ UNCHANGED <<proc, unreported, chld, sent>>
    BY <1>4 DEF Press, Quiet
  <2>2. keysLeft' \in 0..KeysMax
    BY <1>0, <2>1, ShellAssumption DEF TypeOK
  <2>3. TypeOK'
    BY <1>0, <1>1, <2>1, <2>2 DEF TypeOK, table, main
  <2>4. ReportsKept'
    BY <1>0, <1>1, <2>1 DEF ReportsKept, Ended
  <2> QED
    BY <1>1, <2>1, <2>3, <2>4, ChildMoves DEF IInv, table, main, TypeOK, Moves
<1>5. ASSUME NEW sig \in {"INT", "TSTP"}, KeyHandler(sig)
      PROVE  IInv'
  <2>1. keys' = keys \ {sig} /\ sent' \in {"ok", "self"} /\ keysLeft' = keysLeft
    BY <1>5 DEF KeyHandler
  <2>2. \/ UNCHANGED <<proc, unreported, chld>>
        \/ \E i \in Slots : jobs[i].pid # NoPid /\ Signalled(jobs[i].pid, sig)
    <3>1. getjobfg \in Slots \cup {0}
      BY FirstFits DEF getjobfg
    <3> QED
      BY <1>5, <3>1 DEF KeyHandler
  <2>3. \/ UNCHANGED <<proc, unreported, chld>>
        \/ \E p \in Pids : /\ proc[p] = "running" /\ chld' = TRUE
                           /\ \/ proc' = [proc EXCEPT ![p] = "zombie"] /\ UNCHANGED unreported
                              \/ proc' = [proc EXCEPT ![p] = "stopped"]
                                 /\ unreported' = unreported \cup {p}
    <3>1. CASE UNCHANGED <<proc, unreported, chld>>
      BY <3>1
    <3>2. ASSUME NEW i \in Slots, jobs[i].pid # NoPid, Signalled(jobs[i].pid, sig)
          PROVE  <2>3!1 \/ <2>3!2
      <4>1. jobs[i].pid \in Pids
        BY <1>0, <3>2 DEF TypeOK
      <4> QED
        BY <3>2, <4>1 DEF Signalled
    <3> QED
      BY <2>2, <3>1, <3>2
  <2>4. TypeOK'
    BY <1>0, <1>1, <2>1, <2>3 DEF TypeOK, table, main
  <2>5. \A q \in Pids : Moves(q)
    BY <1>0, <2>3 DEF Moves, TypeOK, Truthful
  <2>6. ReportsKept'
    BY <1>0, <1>1, <2>3 DEF ReportsKept, Ended
  <2> QED
    BY <1>1, <2>4, <2>5, <2>6, ChildMoves DEF IInv, table, main, TypeOK
<1> QED
  BY <1>2, <1>3, <1>4, <1>5

-----------------------------------------------------------------------------
(* The steps of the main program that leave the list alone                 *)

LEMMA Starts == Init => IInv
<1> SUFFICES ASSUME Init
             PROVE  IInv
  OBVIOUS
<1>1. /\ \A i \in Slots : jobs[i] = Cleared
      /\ at["main"] = "prompt" /\ at["handler"] = "off" /\ DOMAIN at = Frames
      /\ jobs \in [Slots -> Job] /\ nextjid = 1
  BY DEF Init, initjobs, Cleared, Job, Frames
<1>2. TypeOK
  <2>1. keysLeft \in 0..KeysMax
    BY ShellAssumption DEF Init
  <2>2. TableTyped
    BY <1>1 DEF TableTyped
  <2>3. /\ proc \in [Pids -> Lives] /\ unreported = {} /\ chld = FALSE /\ keys = {}
        /\ mask = {} /\ oldset = {} /\ bg = FALSE /\ sent = "ok"
        /\ pid \in [Frames -> Pids \cup {NoPid}]
        /\ status \in [Frames -> {"none", "exit", "stop"}]
    BY DEF Init, Lives
  <2> QED
    BY <1>1, <2>1, <2>2, <2>3 DEF TypeOK, TableTyped, Job, Lives
<1>3. Control /\ Told /\ Fresh
  BY <1>1 DEF Control, Told, Fresh, Frames
<1>4. Table /\ Stale /\ Awaited /\ Truthful
  BY <1>1, JobTableAssumption DEF Init, Table, Halfway, Stale, Awaited, Truthful, Cleared
<1>5. ReportsKept
  BY DEF Init, ReportsKept
<1> QED
  BY <1>2, <1>3, <1>4, <1>5 DEF IInv

(* Where the main program and the handler go, and what they work on, when  *)
(* neither the list nor a child changes.                                   *)
LEMMA RestoreKeeps ==
  ASSUME IInv, Restore
  PROVE  IInv'
<1>0. TypeOK /\ Control /\ Told /\ Table /\ Fresh /\ Stale /\ Awaited /\ Truthful /\ ReportsKept
  BY DEF IInv
<1>1. PICK to \in {"prompt", "waitfg"} :
        /\ Step("main", "restore", to) /\ (to = "prompt" <=> bg)
        /\ ~bg => pid' = pid
        /\ pid' = [pid EXCEPT !["main"] = IF bg THEN NoPid ELSE @]
        /\ UNCHANGED <<jobs, nextjid, proc, unreported, chld, keys, keysLeft, status, sent>>
        /\ mask' = oldset /\ oldset' = {} /\ bg' = FALSE
  BY <1>0 DEF Restore, restore_signal, table, kernel, TypeOK
<1>2. /\ at["main"] = "restore" /\ at'["main"] = to /\ DOMAIN at' = Frames /\ ~Ended
      /\ at["handler"] = "off" /\ at'["handler"] = "off"
  BY <1>0, <1>1, StepEffect DEF Frames
<1>3. TypeOK'
  BY <1>0, <1>1, <1>2 DEF TypeOK, Frames
<1>4. Control' /\ Told' /\ Fresh'
  BY <1>0, <1>1, <1>2 DEF Control, Told, Fresh, Frames
<1>5. Table' /\ Stale'
  BY <1>0, <1>1, <1>2 DEF Table, Halfway, Stale, Frames
<1>6. Awaited' /\ Truthful' /\ ReportsKept'
  BY <1>0, <1>1, <1>2 DEF Awaited, Truthful, ReportsKept, Frames
<1> QED
  BY <1>3, <1>4, <1>5, <1>6 DEF IInv

LEMMA BadArgumentKeeps ==
  ASSUME IInv, BadArgument
  PROVE  IInv'
<1>0. TypeOK /\ Control /\ Told /\ Table /\ Fresh /\ Stale /\ Awaited /\ Truthful /\ ReportsKept
  BY DEF IInv
<1>1. /\ Step("main", "prompt", "prompt") /\ mask' \in SUBSET Signals
      /\ UNCHANGED <<jobs, nextjid, proc, unreported, chld, keys, keysLeft, status, sent, pid, oldset, bg>>
  BY DEF BadArgument, table, kernel, main
<1>2. /\ at["main"] = "prompt" /\ at'["main"] = "prompt" /\ DOMAIN at' = Frames /\ ~Ended
      /\ at["handler"] = "off" /\ at'["handler"] = "off"
  BY <1>0, <1>1, StepEffect DEF Frames
<1>3. TypeOK'
  BY <1>0, <1>1, <1>2 DEF TypeOK, Frames
<1>4. Control' /\ Told' /\ Fresh'
  BY <1>0, <1>1, <1>2 DEF Control, Told, Fresh, Frames
<1>5. Table' /\ Stale'
  BY <1>0, <1>1, <1>2 DEF Table, Halfway, Stale, Frames
<1>6. Awaited' /\ Truthful' /\ ReportsKept'
  BY <1>0, <1>1, <1>2 DEF Awaited, Truthful, ReportsKept, Frames
<1> QED
  BY <1>3, <1>4, <1>5, <1>6 DEF IInv

LEMMA BlockKeeps ==
  ASSUME IInv, Block
  PROVE  IInv'
<1>0. TypeOK /\ Control /\ Told /\ Table /\ Fresh /\ Stale /\ Awaited /\ Truthful /\ ReportsKept
  BY DEF IInv
<1>1. /\ Step("main", "block", "reap")
      /\ UNCHANGED <<jobs, nextjid, proc, unreported, chld, keys, keysLeft, status, sent, pid, bg>>
      /\ oldset' = mask /\ mask' = mask \cup {"CHLD"}
  BY DEF Block, block_sigchld, table, kernel
<1>2. /\ at["main"] = "block" /\ at'["main"] = "reap" /\ DOMAIN at' = Frames /\ ~Ended
      /\ at["handler"] = "off" /\ at'["handler"] = "off"
  BY <1>0, <1>1, StepEffect DEF Frames
<1>3. TypeOK'
  BY <1>0, <1>1, <1>2 DEF TypeOK, Frames, Signals
<1>4. Control' /\ Told' /\ Fresh'
  BY <1>0, <1>1, <1>2 DEF Control, Told, Fresh, Frames
<1>5. Table' /\ Stale'
  BY <1>0, <1>1, <1>2 DEF Table, Halfway, Stale, Frames
<1>6. Awaited' /\ Truthful' /\ ReportsKept'
  BY <1>0, <1>1, <1>2 DEF Awaited, Truthful, ReportsKept, Frames
<1> QED
  BY <1>3, <1>4, <1>5, <1>6 DEF IInv

(* waitpid has nothing to tell of a child that was waited for: its job is  *)
(* no longer in the list.                                                  *)
LEMMA WaitFgNoChildKeeps ==
  ASSUME IInv, WaitFgNoChild
  PROVE  IInv'
<1>0. TypeOK /\ Control /\ Told /\ Table /\ Fresh /\ Stale /\ Awaited /\ Truthful /\ ReportsKept
  BY DEF IInv
<1>1. /\ Step("main", "waitfg", "prompt")
      /\ UNCHANGED <<jobs, nextjid, proc, unreported, chld, keys, keysLeft, status, sent, mask, oldset, bg>>
      /\ pid' = [pid EXCEPT !["main"] = NoPid]
      /\ pid["main"] \in Pids => proc[pid["main"]] = "reaped"
  BY DEF WaitFgNoChild, table, kernel, main
<1>2. /\ at["main"] = "waitfg" /\ at'["main"] = "prompt" /\ DOMAIN at' = Frames /\ ~Ended
      /\ at["handler"] = "off" /\ at'["handler"] = "off"
  BY <1>0, <1>1, StepEffect DEF Frames
<1>3. TypeOK'
  BY <1>0, <1>1, <1>2 DEF TypeOK, Frames
<1>4. Control' /\ Told' /\ Fresh'
  BY <1>0, <1>1, <1>2 DEF Control, Told, Fresh, Frames
<1>5. Table' /\ Stale'
  BY <1>0, <1>1, <1>2 DEF Table, Halfway, Stale, Frames
<1>6. Truthful' /\ ReportsKept'
  BY <1>0, <1>1, <1>2 DEF Truthful, ReportsKept, Frames
<1>7. \A i \in Slots : jobs[i].state # "FG"
  <2> SUFFICES ASSUME NEW i \in Slots, jobs[i].state = "FG"
               PROVE  FALSE
    OBVIOUS
  <2>1. jobs[i].pid \in {pid["main"], NoPid} /\ pid["main"] \in Pids
    BY <1>0, <1>2 DEF Awaited, Control
  <2>2. jobs[i].pid # pid["main"]
    BY <1>0, <1>1, <1>2, <2>1 DEF Stale, Frames
  <2>3. Halfway(i)
    BY <1>0, <2>1, <2>2 DEF Table, Halfway, Cleared
  <2> QED
    BY <1>0, <1>2, <2>3 DEF Table, Frames
<1>8. Awaited'
  BY <1>1, <1>7 DEF Awaited
<1> QED
  BY <1>3, <1>4, <1>5, <1>6, <1>8 DEF IInv

LEMMA CollectNoneKeeps ==
  ASSUME IInv, NEW f \in Frames, CollectNone(f)
  PROVE  IInv'
<1>0. TypeOK /\ Control /\ Told /\ Table /\ Fresh /\ Stale /\ Awaited /\ Truthful /\ ReportsKept
  BY DEF IInv
<1>1. PICK to \in {"prompt", "off"} :
        /\ Step(f, "collect", to) /\ to = IF f = "main" THEN "prompt" ELSE "off"
        /\ UNCHANGED <<jobs, nextjid, proc, unreported, chld, keys, keysLeft, sent, bg>>
        /\ mask' = IF f = "main" THEN oldset ELSE mask \ {"CHLD"}
        /\ oldset' = IF f = "main" THEN {} ELSE oldset
        /\ pid' = [pid EXCEPT ![f] = NoPid]
        /\ status' = [status EXCEPT ![f] = "none"]
        /\ unreported = {} /\ \A p \in Pids : proc[p] # "zombie"
  BY DEF CollectNone, table, kernel
<1>2. /\ at[f] = "collect" /\ at'[f] = to /\ DOMAIN at' = Frames /\ ~Ended
      /\ \A g \in Frames \ {f} : at'[g] = at[g]
      /\ f = "main" => at["handler"] = "off" /\ at'["handler"] = "off"
  BY <1>0, <1>1, StepEffect
<1>3. TypeOK'
  BY <1>0, <1>1, <1>2 DEF TypeOK, Frames
<1>4. Control' /\ Told' /\ Fresh'
  BY <1>0, <1>1, <1>2 DEF Control, Told, Fresh, Frames, TypeOK
<1>5. Table' /\ Stale'
  BY <1>0, <1>1, <1>2 DEF Table, Halfway, Stale, Frames, Control, TypeOK
<1>6. Truthful' /\ ReportsKept'
  BY <1>0, <1>1, <1>2 DEF Truthful, ReportsKept, Frames, Control, TypeOK
<1>7. Awaited'
  BY <1>0, <1>1, <1>2 DEF Awaited, Frames, TypeOK
<1> QED
  BY <1>3, <1>4, <1>5, <1>6, <1>7 DEF IInv

LEMMA DeliverKeeps ==
  ASSUME IInv, Deliver
  PROVE  IInv'
<1>0. TypeOK /\ Control /\ Told /\ Table /\ Fresh /\ Stale /\ Awaited /\ Truthful /\ ReportsKept
  BY DEF IInv
<1>1. /\ Step("handler", "off", "collect") /\ chld' = FALSE
      /\ "CHLD" \notin mask /\ mask' = mask \cup {"CHLD"}
      /\ UNCHANGED <<jobs, nextjid, proc, unreported, keys, keysLeft, sent, oldset, bg, pid, status>>
  BY DEF Deliver, table, main
<1>2. /\ at["handler"] = "off" /\ at'["handler"] = "collect" /\ DOMAIN at' = Frames
      /\ at'["main"] = at["main"] /\ ~Ended
  BY <1>0, <1>1, StepEffect DEF Frames
<1>3. TypeOK'
  BY <1>0, <1>1, <1>2 DEF TypeOK, Frames, Signals
<1>4. Control' /\ Told' /\ Fresh'
  BY <1>0, <1>1, <1>2 DEF Control, Told, Fresh, Frames, TypeOK, Ended
<1>5. Table' /\ Stale'
  BY <1>0, <1>1, <1>2 DEF Table, Halfway, Stale, Frames
<1>6. Truthful' /\ ReportsKept'
  BY <1>0, <1>1, <1>2 DEF Truthful, ReportsKept, Frames
<1>7. Awaited'
  BY <1>0, <1>1, <1>2 DEF Awaited, Frames
<1> QED
  BY <1>3, <1>4, <1>5, <1>6, <1>7 DEF IInv
LEMMA QuitKeeps ==
  ASSUME IInv, Quit
  PROVE  IInv'
<1>0. TypeOK /\ Control /\ Told /\ Table /\ Fresh /\ Stale /\ Awaited /\ Truthful /\ ReportsKept
  BY DEF IInv
<1>1. /\ Step("main", "prompt", "exited")
      /\ UNCHANGED <<jobs, nextjid, unreported, chld, keys, keysLeft, status, sent, mask, oldset, bg, pid>>
      /\ proc' = [p \in Pids |->
           IF WithPid(p) # {} /\ proc[p] = "running" THEN "zombie" ELSE proc[p]]
  BY DEF Quit, table, main
<1>2. /\ at["main"] = "prompt" /\ at'["main"] = "exited" /\ DOMAIN at' = Frames
      /\ at["handler"] = "off" /\ at'["handler"] = "off"
  BY <1>0, <1>1, StepEffect DEF Frames
<1>3. \A p \in Pids : proc'[p] # proc[p] => proc[p] = "running" /\ proc'[p] = "zombie"
  BY <1>1
<1>4. TypeOK'
  <2>1. proc' \in [Pids -> Lives]
    BY <1>0, <1>1 DEF TypeOK, Lives
  <2> QED
    BY <1>0, <1>1, <1>2, <2>1 DEF TypeOK, Frames, Lives
<1>5. Control' /\ Told' /\ Fresh'
  BY <1>0, <1>1, <1>2 DEF Control, Told, Fresh, Frames
<1>6. Table' /\ Stale'
  BY <1>0, <1>1, <1>2, <1>3 DEF Table, Halfway, Stale, Frames
<1>7. Truthful'
  BY <1>0, <1>1, <1>2, <1>3 DEF Truthful, Frames, TypeOK
<1>8. Awaited' /\ ReportsKept'
  BY <1>0, <1>1, <1>2 DEF Awaited, ReportsKept, Frames, Ended
<1> QED
  BY <1>4, <1>5, <1>6, <1>7, <1>8 DEF IInv

LEMMA ContKeeps ==
  ASSUME IInv, Cont
  PROVE  IInv'
<1>0. TypeOK /\ Control /\ Told /\ Table /\ Fresh /\ Stale /\ Awaited /\ Truthful /\ ReportsKept
  BY DEF IInv
<1> DEFINE q == pid["main"]
<1>1. /\ Step("main", "cont", "restore")
      /\ UNCHANGED <<jobs, nextjid, keys, keysLeft, status, sent, mask, oldset, bg, pid>>
  BY DEF Cont, table, main
<1>2. /\ at["main"] = "cont" /\ at'["main"] = "restore" /\ DOMAIN at' = Frames /\ ~Ended
      /\ at["handler"] = "off" /\ at'["handler"] = "off" /\ q \in Pids
  BY <1>0, <1>1, StepEffect DEF Frames, Control
<1>3. \/ /\ proc[q] = "stopped" /\ proc' = [proc EXCEPT ![q] = "running"]
         /\ unreported' = unreported \ {q} /\ chld' = TRUE
      \/ proc[q] # "stopped" /\ UNCHANGED <<proc, unreported, chld>>
  BY <1>2 DEF Cont
<1>4. TypeOK'
  BY <1>0, <1>1, <1>2, <1>3 DEF TypeOK, Frames
<1>5. Control' /\ Told' /\ Fresh'
  BY <1>0, <1>1, <1>2 DEF Control, Told, Fresh, Frames
<1>6. Table' /\ Stale'
  BY <1>0, <1>1, <1>2, <1>3 DEF Table, Halfway, Stale, Frames, TypeOK
<1>7. Truthful'
  BY <1>0, <1>1, <1>2, <1>3 DEF Truthful, Frames, TypeOK
<1>8. Awaited' /\ ReportsKept'
  BY <1>0, <1>1, <1>2, <1>3 DEF Awaited, ReportsKept, Frames
<1> QED
  BY <1>4, <1>5, <1>6, <1>7, <1>8 DEF IInv

LEMMA ForkKeeps ==
  ASSUME IInv, NEW p \in Pids, NEW b \in BOOLEAN, Fork(p, b)
  PROVE  IInv'
<1>0. TypeOK /\ Control /\ Told /\ Table /\ Fresh /\ Stale /\ Awaited /\ Truthful /\ ReportsKept
  BY DEF IInv
<1>1. /\ Step("main", "prompt", "addjob")
      /\ proc[p] = "unused" /\ proc' = [proc EXCEPT ![p] = "starting"]
      /\ UNCHANGED <<jobs, nextjid, unreported, chld, keys, keysLeft, status, sent>>
      /\ oldset' = mask /\ mask' = mask \cup {"CHLD"}
      /\ pid' = [pid EXCEPT !["main"] = p] /\ bg' = b
  BY DEF Fork, block_sigchld, table
<1>2. /\ at["main"] = "prompt" /\ at'["main"] = "addjob" /\ DOMAIN at' = Frames /\ ~Ended
      /\ at["handler"] = "off" /\ at'["handler"] = "off"
  BY <1>0, <1>1, StepEffect DEF Frames
<1>3. \A i \in Slots : jobs[i].pid # p
  BY <1>0, <1>1 DEF Table
<1>4. TypeOK'
  BY <1>0, <1>1, <1>2 DEF TypeOK, Frames, Signals
<1>5. Control' /\ Told'
  BY <1>0, <1>1, <1>2 DEF Control, Told, Frames, TypeOK
<1>6. Fresh'
  BY <1>0, <1>1, <1>2, <1>3 DEF Fresh, Frames, TypeOK
<1>7. Table' /\ Stale'
  BY <1>0, <1>1, <1>2, <1>3 DEF Table, Halfway, Stale, Frames, TypeOK
<1>8. Truthful'
  BY <1>0, <1>1, <1>2, <1>3 DEF Truthful, Frames, TypeOK
<1>9. Awaited' /\ ReportsKept'
  BY <1>0, <1>1, <1>2 DEF Awaited, ReportsKept, Frames, TypeOK
<1> QED
  BY <1>4, <1>5, <1>6, <1>7, <1>8, <1>9 DEF IInv
-----------------------------------------------------------------------------
(* The reports of waitpid                                                  *)

LEMMA ReportKeeps ==
  ASSUME IInv, NEW f \in Frames, NEW p \in Pids, NEW from, NEW to,
         \/ from = "collect" /\ to = "reap"
         \/ f = "main" /\ from = "waitfg" /\ to = "block" /\ p = pid[f],
         Step(f, from, to), Report(f, p), pid' = [pid EXCEPT ![f] = p],
         UNCHANGED <<table, chld, keys, keysLeft, mask, main, sent>>
  PROVE  IInv'
<1>0. TypeOK /\ Control /\ Told /\ Table /\ Fresh /\ Stale /\ Awaited /\ Truthful /\ ReportsKept
  BY DEF IInv
<1>1. UNCHANGED <<jobs, nextjid, chld, keys, keysLeft, mask, oldset, bg, sent>>
  BY DEF table, main
<1>2. /\ at[f] = from /\ at'[f] = to /\ DOMAIN at' = Frames /\ ~Ended
      /\ \A g \in Frames \ {f} : at'[g] = at[g]
      /\ f = "main" => at["handler"] = "off" /\ at'["handler"] = "off"
  BY <1>0, StepEffect
<1>3. \/ /\ proc[p] = "zombie" /\ proc' = [proc EXCEPT ![p] = "reaped"]
         /\ status' = [status EXCEPT ![f] = "exit"] /\ UNCHANGED unreported
      \/ /\ p \in unreported /\ proc[p] = "stopped" /\ unreported' = unreported \ {p}
         /\ status' = [status EXCEPT ![f] = "stop"] /\ UNCHANGED proc
  BY <1>0 DEF Report, Truthful
<1>4. /\ pid'[f] = p /\ \A g \in Frames \ {f} : pid'[g] = pid[g] /\ status'[g] = status[g]
      /\ \/ status'[f] = "exit" /\ proc[p] = "zombie" /\ proc'[p] = "reaped"
         \/ status'[f] = "stop" /\ proc[p] = "stopped" /\ proc'[p] = "stopped"
      /\ \A q \in Pids \ {p} : proc'[q] = proc[q]
  BY <1>0, <1>3 DEF TypeOK
<1>5. TypeOK'
  BY <1>0, <1>1, <1>2, <1>3 DEF TypeOK, Frames
<1>6. Control' /\ Fresh'
  BY <1>0, <1>1, <1>2, <1>4 DEF Control, Fresh, Frames
<1>7. Told'
  <2>1. ASSUME NEW g \in Frames \ {f}, at[g] \in {"block", "reap"}
        PROVE  pid[g] \in Pids
    BY <1>0, <2>1 DEF Control, Frames, TypeOK
  <2> QED
    BY <1>0, <1>2, <1>4, <2>1 DEF Told
<1>8. Table'
  BY <1>0, <1>1, <1>2, <1>4 DEF Table, Halfway, Control, Frames
<1>9. Stale'
  BY <1>0, <1>1, <1>2, <1>4 DEF Stale
<1>10. Awaited'
  BY <1>0, <1>1, <1>2, <1>4 DEF Awaited, Frames
<1>11. Truthful'
  <2>1. \A q \in unreported' : proc'[q] = "stopped"
    BY <1>0, <1>3 DEF Truthful, TypeOK
  <2>2. \A q \in Pids \ {p} : q \in unreported' <=> q \in unreported
    BY <1>3
  <2>3. at'["main"] = "cont" <=> at["main"] = "cont"
    BY <1>2 DEF Frames
  <2>4. at["main"] = "cont" => pid'["main"] = pid["main"]
    BY <1>2, <1>4 DEF Frames
  <2>5. ASSUME NEW i \in Slots, jobs[i].pid \in Pids
        PROVE  /\ jobs[i].state = "ST" => proc'[jobs[i].pid] \in {"stopped", "zombie", "reaped"}
               /\ at'["main"] = "cont" /\ pid'["main"] = jobs[i].pid => jobs[i].state \in {"FG", "BG"}
    BY <1>0, <1>4, <2>3, <2>4, <2>5 DEF Truthful
  <2>6. ASSUME NEW i \in Slots, jobs[i].pid \in Pids,
               proc'[jobs[i].pid] = "stopped", jobs[i].state # "ST"
        PROVE  \/ jobs[i].pid \in unreported'
               \/ \E g \in Frames : /\ pid'[g] = jobs[i].pid /\ status'[g] = "stop"
                                    /\ at'[g] \in {"block", "reap"}
               \/ at'["main"] = "cont" /\ pid'["main"] = jobs[i].pid
    <3>1. CASE jobs[i].pid = p
      BY <1>2, <1>4, <2>6, <3>1
    <3>2. CASE jobs[i].pid # p
      <4>1. \/ jobs[i].pid \in unreported
            \/ \E g \in Frames : /\ pid[g] = jobs[i].pid /\ status[g] = "stop"
                                 /\ at[g] \in {"block", "reap"}
            \/ at["main"] = "cont" /\ pid["main"] = jobs[i].pid
        BY <1>0, <1>4, <2>6, <3>2 DEF Truthful
      <4> QED
        BY <1>2, <1>4, <2>2, <2>3, <2>4, <2>6, <3>2, <4>1
    <3> QED
      BY <3>1, <3>2
  <2> QED
    BY <1>1, <2>1, <2>5, <2>6 DEF Truthful
<1>12. ReportsKept'
  <2>1. unreported' \subseteq unreported /\ \A q \in Pids : proc'[q] = "zombie" => proc[q] = "zombie"
    BY <1>3, <1>4
  <2> QED
    BY <1>0, <1>1, <1>2, <2>1 DEF ReportsKept, Frames, Ended
<1> QED
  BY <1>5, <1>6, <1>7, <1>8, <1>9, <1>10, <1>11, <1>12 DEF IInv

LEMMA WaitFgKeeps ==
  ASSUME IInv, WaitFg
  PROVE  IInv'
<1>1. /\ Step("main", "waitfg", "block") /\ pid["main"] \in Pids /\ Report("main", pid["main"])
      /\ UNCHANGED <<table, chld, keys, keysLeft, mask, main, sent>>
      /\ pid' = [pid EXCEPT !["main"] = pid["main"]] /\ "main" \in Frames
  BY DEF WaitFg, IInv, TypeOK, Frames
<1> QED
  BY <1>1, ReportKeeps

LEMMA CollectKeeps ==
  ASSUME IInv, NEW f \in Frames, Collect(f)
  PROVE  IInv'
BY ReportKeeps DEF Collect
-----------------------------------------------------------------------------
(* The steps that change the list                                          *)

LEMMA AddJobKeeps ==
  ASSUME IInv, AddJob
  PROVE  IInv'
<1>0. /\ TypeOK /\ Control /\ Told /\ Table /\ Fresh /\ Stale /\ Awaited /\ Truthful /\ ReportsKept
      /\ TableTyped
  BY TypedTable DEF IInv
<1> DEFINE q == pid["main"]
<1>1. PICK to \in {"crashed", "restore"} :
        /\ Step("main", "addjob", to) /\ to = IF Full /\ bg THEN "crashed" ELSE "restore"
        /\ addjob(q, IF bg THEN "BG" ELSE "FG")
        /\ UNCHANGED <<proc, unreported, chld, keys, keysLeft, mask, oldset, bg, pid, status, sent>>
  BY DEF AddJob, kernel, main
<1>2. /\ at["main"] = "addjob" /\ at'["main"] = to /\ DOMAIN at' = Frames
      /\ at["handler"] = "off" /\ at'["handler"] = "off" /\ q \in Pids
      /\ \A g \in Frames : at[g] \notin {"block", "reap", "clear"}
  BY <1>0, <1>1, StepEffect DEF Frames, Control
<1>3. PICK b \in {"FG", "BG"} : b = IF bg THEN "BG" ELSE "FG"
  OBVIOUS
<1>4. /\ TableTyped'
      /\ \/ Full /\ UNCHANGED jobs
         \/ ~Full /\ \E i \in Slots : /\ jobs[i].pid = NoPid
                                     /\ Becomes(i, [pid |-> q, jid |-> nextjid, state |-> b])
  <2>1. addjob(q, b)
    BY <1>1, <1>3
  <2> HIDE DEF q
  <2> QED
    BY <1>0, <1>2, <2>1, AddEffect
<1>5. TypeOK'
  BY <1>0, <1>1, <1>2, <1>4 DEF TypeOK, TableTyped, Job, Frames
<1>6. Control' /\ Told'
  BY <1>0, <1>1, <1>2 DEF Control, Told, Frames
<1>7. Fresh'
  BY <1>1, <1>2 DEF Fresh
<1>8. ReportsKept'
  BY <1>0, <1>1, <1>2 DEF ReportsKept, Ended
<1>9. CASE UNCHANGED jobs
  <2>1. Table' /\ Stale' /\ Truthful'
    BY <1>0, <1>1, <1>2, <1>9 DEF Table, Halfway, Stale, Truthful, Frames
  <2>2. Awaited'
    BY <1>0, <1>1, <1>2, <1>9 DEF Awaited
  <2> QED
    BY <1>5, <1>6, <1>7, <1>8, <2>1, <2>2 DEF IInv
<1>10. ASSUME NEW i \in Slots, jobs[i].pid = NoPid, ~Full,
              Becomes(i, [pid |-> q, jid |-> nextjid, state |-> b])
       PROVE  IInv'
  <2>1. /\ jobs'[i].pid = q /\ jobs'[i].jid # 0 /\ jobs'[i].state = b
        /\ \A k \in Slots \ {i} : jobs'[k] = jobs[k]
    BY <1>0, <1>10 DEF Becomes, TableTyped
  <2>2. \A k \in Slots : jobs[k].pid # q /\ jobs[k].state # "FG" /\ ~Halfway(k)
    BY <1>0, <1>2 DEF Fresh, Awaited, Table
  <2>3. /\ proc[q] \in {"starting", "running", "stopped", "zombie"}
        /\ proc[q] = "stopped" => q \in unreported
    BY <1>0, <1>2 DEF Fresh
  <2>4. Table'
    BY <1>0, <1>1, <1>2, <2>1, <2>2, <2>3, JobTableAssumption DEF Table, Halfway
  <2>5. Stale'
    BY <1>0, <1>1, <1>2, <2>1, <2>2, <2>3 DEF Stale
  <2>6. Awaited'
    BY <1>1, <1>2, <1>3, <1>10, <2>1, <2>2 DEF Awaited
  <2>7. Truthful'
    BY <1>0, <1>1, <1>2, <2>1, <2>2, <2>3 DEF Truthful
  <2> QED
    BY <1>5, <1>6, <1>7, <1>8, <2>4, <2>5, <2>6, <2>7 DEF IInv
<1> QED
  BY <1>4, <1>9, <1>10

LEMMA BgFgKeeps ==
  ASSUME IInv, NEW i \in Slots, NEW b \in BOOLEAN, jobs[i].pid \in Pids, BgFg(i, b)
  PROVE  IInv'
<1>0. /\ TypeOK /\ Control /\ Told /\ Table /\ Fresh /\ Stale /\ Awaited /\ Truthful /\ ReportsKept
      /\ TableTyped
  BY TypedTable DEF IInv
<1>1. PICK s \in {"FG", "BG", "ST"} :
        /\ s = IF b THEN "BG" ELSE "FG"
        /\ Step("main", "prompt", "cont") /\ setstate(i, s)
        /\ oldset' = mask /\ mask' = mask \cup {"CHLD"}
        /\ pid' = [pid EXCEPT !["main"] = jobs[i].pid] /\ bg' = b
        /\ UNCHANGED <<proc, unreported, chld, keys, keysLeft, status, sent>>
  BY DEF BgFg, block_sigchld, kernel
<1>2. /\ at["main"] = "prompt" /\ at'["main"] = "cont" /\ DOMAIN at' = Frames
      /\ at["handler"] = "off" /\ at'["handler"] = "off" /\ ~Ended
      /\ \A g \in Frames : at[g] \notin {"block", "reap", "clear"}
  BY <1>0, <1>1, StepEffect DEF Frames
<1>3. TableTyped' /\ Becomes(i, [pid |-> jobs[i].pid, jid |-> jobs[i].jid, state |-> s])
  BY <1>0, <1>1, StateEffect
<1>4. /\ jobs'[i].pid = jobs[i].pid /\ jobs'[i].jid = jobs[i].jid /\ jobs'[i].state = s
      /\ \A k \in Slots \ {i} : jobs'[k] = jobs[k]
  BY <1>3 DEF Becomes
<1>5. pid'["main"] = jobs[i].pid
  BY <1>0, <1>1 DEF TypeOK, Frames
<1>6. \A k \in Slots : jobs[k].state # "FG" /\ ~Halfway(k)
  BY <1>0, <1>2 DEF Awaited, Table
<1>7. TypeOK'
  BY <1>0, <1>1, <1>2, <1>3 DEF TypeOK, TableTyped, Job, Frames, Signals
<1>8. Control' /\ Told' /\ Fresh'
  BY <1>0, <1>1, <1>2, <1>5 DEF Control, Told, Fresh, Frames
<1>9. Table'
  BY <1>0, <1>1, <1>2, <1>4, <1>6, JobTableAssumption DEF Table, Halfway, Cleared
<1>10. Stale'
  BY <1>0, <1>1, <1>2, <1>4 DEF Stale
<1>11. Awaited'
  BY <1>1, <1>2, <1>4, <1>5, <1>6 DEF Awaited
<1>12. Truthful'
  BY <1>0, <1>1, <1>2, <1>4, <1>5 DEF Truthful, Table
<1>13. ReportsKept'
  BY <1>0, <1>1, <1>2 DEF ReportsKept
<1> QED
  BY <1>7, <1>8, <1>9, <1>10, <1>11, <1>12, <1>13 DEF IInv

LEMMA ReapKeeps ==
  ASSUME IInv, NEW f \in Frames, Reap(f)
  PROVE  IInv'
<1>0. /\ TypeOK /\ Control /\ Told /\ Table /\ Fresh /\ Stale /\ Awaited /\ Truthful /\ ReportsKept
  BY DEF IInv
<1>1. /\ TableTyped' /\ at[f] = "reap" /\ pid[f] \in Pids
      /\ UNCHANGED <<proc, unreported, chld, keys, keysLeft, mask, oldset, bg, pid, status, sent>>
  BY <1>0, ReapEffect DEF kernel, main
<1>2. PICK to \in {"collect", "clear"} :
        /\ Step(f, "reap", to)
        /\ \/ /\ \A i \in Slots : jobs[i].pid # pid[f]
              /\ to = "collect" /\ UNCHANGED jobs
           \/ /\ status[f] = "stop" /\ to = "collect"
              /\ \E i \in Slots : /\ jobs[i].pid = pid[f]
                                  /\ Becomes(i, [pid |-> pid[f], jid |-> jobs[i].jid, state |-> "ST"])
           \/ /\ status[f] = "exit" /\ to = "clear"
              /\ \E i \in Slots : /\ jobs[i].pid = pid[f]
                                  /\ Becomes(i, [pid |-> NoPid, jid |-> jobs[i].jid, state |-> jobs[i].state])
  <2>1. \/ /\ \A i \in Slots : jobs[i].pid # pid[f]
           /\ Step(f, "reap", "collect") /\ UNCHANGED jobs
        \/ /\ status[f] = "stop" /\ Step(f, "reap", "collect")
           /\ \E i \in Slots : /\ jobs[i].pid = pid[f]
                               /\ Becomes(i, [pid |-> pid[f], jid |-> jobs[i].jid, state |-> "ST"])
        \/ /\ status[f] = "exit" /\ Step(f, "reap", "clear")
           /\ \E i \in Slots : /\ jobs[i].pid = pid[f]
                               /\ Becomes(i, [pid |-> NoPid, jid |-> jobs[i].jid, state |-> jobs[i].state])
    BY <1>0, ReapEffect
  <2> QED
    BY <2>1
<1>3. /\ at'[f] = to /\ DOMAIN at' = Frames /\ ~Ended
      /\ \A g \in Frames \ {f} : at'[g] = at[g]
      /\ f = "main" => at["handler"] = "off" /\ at'["handler"] = "off"
  BY <1>0, <1>2, StepEffect
<1>4. \A g \in Frames : at[g] # "clear"
  BY <1>0, <1>1, <1>3 DEF Control, Frames
<1>5. \A k \in Slots : ~Halfway(k)
  BY <1>0, <1>4 DEF Table
<1>6. TypeOK'
  BY <1>0, <1>1, <1>2, <1>3 DEF TypeOK, TableTyped, Job, Frames
<1>7. Control' /\ Told'
  BY <1>0, <1>1, <1>2, <1>3 DEF Control, Told, Frames
<1>8. Fresh'
  BY <1>0, <1>1, <1>3 DEF Fresh, Control, Frames
<1>9. ReportsKept'
  BY <1>0, <1>1, <1>3 DEF ReportsKept, Ended, Frames
<1>10. f = "main" => \A k \in Slots : jobs[k].state = "FG" => jobs[k].pid = pid[f]
  BY <1>0, <1>5 DEF Awaited, Halfway, Table, Cleared
<1>11. /\ at'["main"] = "cont" <=> at["main"] = "cont"
       /\ f = "handler" => at'["main"] = at["main"] /\ at["main"] # "clear"
  BY <1>1, <1>2, <1>3, <1>4 DEF Frames
<1>12. CASE UNCHANGED jobs /\ (\A i \in Slots : jobs[i].pid # pid[f]) /\ to = "collect"
  <2>1. Table'
    BY <1>0, <1>1, <1>5, <1>11, <1>12, <1>3 DEF Table, Halfway, Frames
  <2>2. Stale' /\ Truthful'
    BY <1>0, <1>1, <1>3, <1>11, <1>12 DEF Stale, Truthful
  <2>3. Awaited'
    BY <1>0, <1>1, <1>10, <1>11, <1>12 DEF Awaited, Frames
  <2> QED
    BY <1>6, <1>7, <1>8, <1>9, <2>1, <2>2, <2>3 DEF IInv
<1>13. ASSUME NEW i \in Slots, jobs[i].pid = pid[f], status[f] = "stop", to = "collect",
              Becomes(i, [pid |-> pid[f], jid |-> jobs[i].jid, state |-> "ST"])
       PROVE  IInv'
  <2>1. /\ jobs'[i].pid = pid[f] /\ jobs'[i].jid = jobs[i].jid /\ jobs'[i].state = "ST"
        /\ \A k \in Slots \ {i} : jobs'[k] = jobs[k] /\ jobs[k].pid # pid[f]
    BY <1>0, <1>1, <1>13 DEF Becomes, Table
  <2>2. proc[pid[f]] \in {"stopped", "zombie", "reaped"}
    BY <1>0, <1>1, <1>13 DEF Told
  <2>3. Table'
    BY <1>0, <1>1, <1>3, <1>5, <1>11, <1>13, <2>1, JobTableAssumption DEF Table, Halfway, Cleared, Frames
  <2>4. Stale'
    BY <1>0, <1>1, <1>3, <1>13, <2>1 DEF Stale
  <2>5. Truthful'
    <3>1. at["main"] = "cont" => pid["main"] # pid[f]
      BY <1>0, <1>1, <1>3 DEF Control, Frames
    <3> QED
      BY <1>0, <1>1, <1>3, <1>11, <1>13, <2>1, <2>2, <3>1 DEF Truthful
  <2>6. Awaited'
    BY <1>0, <1>1, <1>10, <1>11, <1>13, <2>1 DEF Awaited, Frames
  <2> QED
    BY <1>6, <1>7, <1>8, <1>9, <2>3, <2>4, <2>5, <2>6 DEF IInv
<1>14. ASSUME NEW i \in Slots, jobs[i].pid = pid[f], status[f] = "exit", to = "clear",
              Becomes(i, [pid |-> NoPid, jid |-> jobs[i].jid, state |-> jobs[i].state])
       PROVE  IInv'
  <2>1. /\ jobs'[i].pid = NoPid /\ jobs'[i].jid = jobs[i].jid /\ jobs'[i].state = jobs[i].state
        /\ \A k \in Slots \ {i} : jobs'[k] = jobs[k] /\ jobs[k].pid # pid[f]
    BY <1>0, <1>1, <1>14 DEF Becomes, Table
  <2>2. jobs[i].jid # 0
    BY <1>0, <1>1, <1>14, JobTableAssumption DEF Table, Cleared
  <2>3. Table'
    BY <1>0, <1>1, <1>3, <1>5, <1>11, <1>14, <2>1, <2>2, JobTableAssumption DEF Table, Halfway, Frames
  <2>4. Stale'
    BY <1>0, <1>1, <1>3, <1>14, <2>1, JobTableAssumption DEF Stale
  <2>5. Truthful'
    BY <1>0, <1>1, <1>3, <1>11, <1>14, <2>1, JobTableAssumption DEF Truthful
  <2>6. Awaited'
    BY <1>0, <1>1, <1>3, <1>11, <1>14, <2>1 DEF Awaited, Frames
  <2> QED
    BY <1>6, <1>7, <1>8, <1>9, <2>3, <2>4, <2>5, <2>6 DEF IInv
<1> QED
  BY <1>2, <1>12, <1>13, <1>14

LEMMA ClearKeeps ==
  ASSUME IInv, NEW f \in Frames, Clear(f)
  PROVE  IInv'
<1>0. /\ TypeOK /\ Control /\ Told /\ Table /\ Fresh /\ Stale /\ Awaited /\ Truthful /\ ReportsKept
      /\ TableTyped
  BY TypedTable DEF IInv
<1>1. /\ Step(f, "clear", "collect")
      /\ UNCHANGED <<proc, unreported, chld, keys, keysLeft, mask, oldset, bg, pid, status, sent>>
  BY DEF Clear, kernel, main
<1>2. PICK i \in Slots : Halfway(i) /\ deletejob(i)
  BY DEF Clear, Halfway
<1>3. TableTyped' /\ jobs'[i] = Cleared /\ \A k \in Slots \ {i} : jobs'[k] = jobs[k]
  BY <1>0, <1>2, DeleteEffect DEF Becomes
<1>4. /\ at[f] = "clear" /\ at'[f] = "collect" /\ DOMAIN at' = Frames /\ ~Ended
      /\ \A g \in Frames \ {f} : at'[g] = at[g]
      /\ f = "main" => at["handler"] = "off" /\ at'["handler"] = "off"
  BY <1>0, <1>1, StepEffect
<1>5. \A k \in Slots \ {i} : ~Halfway(k)
  BY <1>0, <1>2 DEF Table
<1>6. TypeOK'
  BY <1>0, <1>1, <1>3, <1>4 DEF TypeOK, TableTyped, Job, Frames
<1>7. Control' /\ Told' /\ Fresh'
  BY <1>0, <1>1, <1>4 DEF Control, Told, Fresh, Frames
<1>8. /\ at'["main"] # "clear" /\ (at'["main"] = "cont" <=> at["main"] = "cont")
      /\ f = "handler" => at'["main"] = at["main"]
  BY <1>0, <1>4 DEF Control, Frames
<1>9. Cleared.pid = NoPid /\ Cleared.jid = 0 /\ Cleared.state = "UNDEF"
  BY DEF Cleared
<1>10. Table'
  BY <1>0, <1>1, <1>3, <1>5, <1>8, <1>9, JobTableAssumption DEF Table, Halfway
<1>11. Stale' /\ Truthful'
  BY <1>0, <1>1, <1>3, <1>4, <1>8, <1>9, JobTableAssumption DEF Stale, Truthful
<1>12. Awaited'
  <2>1. CASE f = "main"
    <3>1. \A k \in Slots \ {i} : jobs[k].state # "FG"
      BY <1>0, <1>4, <1>5, <1>9, <2>1 DEF Awaited, Table, Halfway
    <3> QED
      BY <1>3, <1>9, <3>1 DEF Awaited
  <2>2. CASE f = "handler"
    BY <1>0, <1>1, <1>3, <1>8, <1>9, <2>2 DEF Awaited
  <2> QED
    BY <2>1, <2>2 DEF Frames
<1>13. ReportsKept'
  BY <1>0, <1>1, <1>4 DEF ReportsKept, Frames, Ended
<1> QED
  BY <1>6, <1>7, <1>10, <1>11, <1>12, <1>13 DEF IInv
-----------------------------------------------------------------------------
(* Every step                                                              *)

LEMMA NextKeeps ==
  ASSUME NamesJobs, IInv, [Next]_vars
  PROVE  IInv'
<1>1. CASE UNCHANGED vars
  BY <1>1 DEF vars, table, kernel, main, IInv, TypeOK, Control, Told, Table, Halfway, Fresh,
       Stale, Awaited, Truthful, ReportsKept, Ended
<1>2. ASSUME NEW c \in Commands, c.cmd = "cont", NEW i \in Chosen(c) \ {0}, BgFg(i, c.bg)
      PROVE  IInv'
  <2>1. at["main"] = "prompt" /\ at["handler"] = "off"
    BY <1>2 DEF BgFg, Step, Running
  <2>2. i \in Slots /\ jobs[i].pid \in Pids /\ c.bg \in BOOLEAN
    BY <1>2, <2>1, TypedTable, ChosenFits DEF IInv, NamesJobs, Frames
  <2> QED
    BY <1>2, <2>2, BgFgKeeps
<1>3. ASSUME NEW f \in Frames, Frame(f)
      PROVE  IInv'
  BY <1>3, ReapKeeps, ClearKeeps, CollectKeeps, CollectNoneKeeps DEF Frame
<1>4. CASE \/ \E p \in Pids : Exec(p) \/ Exit(p) \/ Stop(p)
           \/ \E sig \in {"INT", "TSTP"} : KeyHandler(sig) \/ Press(sig)
  BY <1>4, ChildSteps
<1>5. CASE \/ \E p \in Pids, b \in BOOLEAN : Fork(p, b)
           \/ AddJob \/ Restore \/ Cont \/ BadArgument \/ Quit
           \/ WaitFg \/ WaitFgNoChild \/ Block \/ Deliver
  BY <1>5, ForkKeeps, AddJobKeeps, RestoreKeeps, ContKeeps, BadArgumentKeeps, QuitKeeps,
     WaitFgKeeps, WaitFgNoChildKeeps, BlockKeeps, DeliverKeeps
<1> QED
  BY <1>1, <1>2, <1>3, <1>4, <1>5 DEF Next

(* Every reachable state of the shell satisfies the invariant.             *)
THEOREM Invariant ==
  ASSUME NamesJobs
  PROVE  Spec => []IInv
<1>1. IInv /\ [Next]_vars => IInv'
  BY NextKeeps
<1> QED
  BY <1>1, Starts, PTL DEF Spec
-----------------------------------------------------------------------------
(* Whatever is typed: the types, and the reports                           *)

Basics == TypeOK /\ DOMAIN at = Frames /\ ReportsKept

\* The end and the stop that a frame was told of are the only reports used up.
LEMMA NoReportLost ==
  ASSUME Basics, NEW f \in Frames, NEW from, NEW to, Step(f, from, to),
         UNCHANGED chld, unreported' \subseteq unreported,
         \A p \in Pids : proc'[p] = "zombie" => proc[p] = "zombie",
         to = "off" => unreported = {} /\ \A p \in Pids : proc[p] # "zombie"
  PROVE  ReportsKept'
<1>1. /\ at'[f] = to /\ \A g \in Frames \ {f} : at'[g] = at[g]
      /\ ~Ended
      /\ f = "main" => at["handler"] = "off" /\ at'["handler"] = "off"
  BY StepMoves DEF Basics
<1> QED
  BY <1>1 DEF Basics, ReportsKept, Frames

LEMMA TableSteps ==
  ASSUME Basics,
         \/ AddJob \/ \E f \in Frames : Reap(f) \/ Clear(f)
         \/ \E c \in {d \in Commands : d.cmd = "cont"} : \E i \in Chosen(c) \ {0} : BgFg(i, c.bg)
  PROVE  Basics'
<1>0. TypeOK /\ TableTyped /\ DOMAIN at = Frames
  BY TypedTable DEF Basics
<1>1. ASSUME AddJob
      PROVE  Basics'
  <2>1. PICK to \in {"crashed", "restore"}, b \in {"FG", "BG"} :
          /\ Step("main", "addjob", to) /\ addjob(pid["main"], b)
          /\ UNCHANGED <<proc, unreported, chld, keys, keysLeft, mask, oldset, bg, pid, status, sent>>
    BY <1>1 DEF AddJob, kernel, main
  <2>2. pid["main"] \in Pids \cup {NoPid}
    BY <1>0 DEF TypeOK, Frames
  <2>3. TableTyped'
    BY <1>0, <2>1, <2>2, AddEffect
  <2>4. DOMAIN at' = Frames /\ at'["main"] = to /\ at'["handler"] = at["handler"]
    BY <1>0, <2>1, StepMoves DEF Frames
  <2>5. ReportsKept'
    BY <2>1, NoReportLost DEF Frames
  <2> QED
    BY <1>0, <2>1, <2>3, <2>4, <2>5 DEF Basics, TypeOK, TableTyped, Job
<1>2. ASSUME NEW f \in Frames, Reap(f) \/ Clear(f)
      PROVE  Basics'
  <2>1. PICK to \in {"collect", "clear"}, from \in {"reap", "clear"} : Step(f, from, to)
    BY <1>2 DEF Reap, Clear
  <2>2. UNCHANGED <<proc, unreported, chld, keys, keysLeft, mask, oldset, bg, pid, status, sent>>
    BY <1>2 DEF Reap, Clear, kernel, main
  <2>3. ASSUME Reap(f)
        PROVE  TableTyped'
    <3>1. getjobpid(pid[f]) \in Slots \cup {0}
      BY FirstFits DEF getjobpid, WithPid
    <3>2. CASE getjobpid(pid[f]) = 0
      <4>1. UNCHANGED <<jobs, nextjid>>
        BY <2>3, <3>2 DEF Reap, table
      <4> QED
        BY <1>0, <4>1 DEF TableTyped
    <3>3. ASSUME NEW i \in Slots, i = getjobpid(pid[f])
          PROVE  TableTyped'
      <4>1. i # 0
        BY SlotsFinite
      <4>2. setstate(i, "ST") \/ clearpid(i)
        BY <2>3, <3>3, <4>1 DEF Reap
      <4> QED
        BY <1>0, <4>2, StateEffect, ClearPidEffect
    <3> QED
      BY <3>1, <3>2, <3>3
  <2>4. ASSUME Clear(f)
        PROVE  TableTyped'
    BY <1>0, <2>4, DeleteEffect DEF Clear
  <2>5. /\ DOMAIN at' = Frames /\ at'[f] = to /\ \A g \in Frames \ {f} : at'[g] = at[g]
    BY <1>0, <2>1, StepMoves
  <2>6. ReportsKept'
    BY <2>1, <2>2, NoReportLost
  <2>7. TableTyped'
    BY <1>2, <2>3, <2>4
  <2> QED
    BY <1>0, <2>2, <2>5, <2>6, <2>7 DEF Basics, TypeOK, TableTyped, Job, Frames
<1>3. ASSUME NEW c \in Commands, c.cmd = "cont", NEW i \in Chosen(c) \ {0}, BgFg(i, c.bg)
      PROVE  Basics'
  <2>1. c \in [cmd : {"cont"}, bg : BOOLEAN, jid : BOOLEAN, zero : BOOLEAN]
    BY <1>3, ShellAssumption
  <2>2. \A S \in SUBSET Slots : FirstOf(S) \in Slots \cup {0}
    BY FirstFits
  <2>3. i \in Slots
    <3>1. \A j : getjobjid(j) \in Slots \cup {0}
      BY <2>2 DEF getjobjid, WithJid
    <3>2. \A p : getjobpid(p) \in Slots \cup {0}
      BY <2>2 DEF getjobpid, WithPid
    <3> QED
      BY <2>1, <3>1, <3>2 DEF Chosen
  <2>4. PICK s \in {"FG", "BG", "ST"} : setstate(i, s)
    BY <1>3 DEF BgFg
  <2>5. /\ Step("main", "prompt", "cont")
        /\ oldset' = mask /\ mask' = mask \cup {"CHLD"}
        /\ pid' = [pid EXCEPT !["main"] = jobs[i].pid] /\ bg' = c.bg
        /\ UNCHANGED <<proc, unreported, chld, keys, keysLeft, status, sent>>
    BY <1>3 DEF BgFg, block_sigchld, kernel
  <2>6. TableTyped'
    BY <1>0, <2>3, <2>4, StateEffect
  <2>7. DOMAIN at' = Frames /\ at'["main"] = "cont" /\ at'["handler"] = at["handler"]
    BY <1>0, <2>5, StepMoves DEF Frames
  <2>8. ReportsKept'
    BY <2>5, NoReportLost DEF Frames
  <2>9. jobs[i].pid \in Pids \cup {NoPid}
    BY <1>0, <2>3 DEF TableTyped, Job
  <2> QED
    BY <1>0, <2>1, <2>5, <2>6, <2>7, <2>8, <2>9 DEF Basics, TypeOK, TableTyped, Job, Signals
<1> QED
  BY <1>1, <1>2, <1>3
LEMMA MainSteps ==
  ASSUME Basics,
         \/ Restore \/ Cont \/ BadArgument \/ Quit \/ WaitFgNoChild \/ Block \/ Deliver
         \/ \E p \in Pids, b \in BOOLEAN : Fork(p, b)
         \/ \E f \in Frames : CollectNone(f)
  PROVE  Basics'
<1>0. TypeOK /\ DOMAIN at = Frames /\ ReportsKept
  BY DEF Basics
<1>1. ASSUME Restore \/ BadArgument \/ WaitFgNoChild \/ Block
      PROVE  Basics'
  <2>1. PICK from \in {"restore", "prompt", "waitfg", "block"}, to \in {"prompt", "waitfg", "reap"} :
          Step("main", from, to)
    BY <1>1 DEF Restore, BadArgument, WaitFgNoChild, Block
  <2>2. /\ UNCHANGED <<table, proc, unreported, chld, keys, keysLeft, status, sent>>
        /\ mask' \in SUBSET Signals /\ oldset' \in SUBSET Signals /\ bg' \in BOOLEAN
        /\ pid' \in [Frames -> Pids \cup {NoPid}]
    <3>1. /\ mask \in SUBSET Signals /\ oldset \in SUBSET Signals /\ bg \in BOOLEAN
          /\ pid \in [Frames -> Pids \cup {NoPid}] /\ "CHLD" \in Signals
      BY <1>0 DEF TypeOK, Signals
    <3>2. CASE Restore
      BY <3>1, <3>2 DEF Restore, restore_signal, kernel, main
    <3>3. CASE BadArgument
      BY <3>1, <3>3 DEF BadArgument, restore_signal, kernel, main
    <3>4. CASE WaitFgNoChild
      BY <3>1, <3>4 DEF WaitFgNoChild, kernel, main
    <3>5. CASE Block
      BY <3>1, <3>5 DEF Block, block_sigchld, kernel, main
    <3> QED
      BY <1>1, <3>2, <3>3, <3>4, <3>5
  <2>3. DOMAIN at' = Frames /\ at'["main"] = to /\ at'["handler"] = at["handler"]
    BY <1>0, <2>1, StepMoves DEF Frames
  <2>4. ReportsKept'
    BY <2>1, <2>2, NoReportLost DEF Frames
  <2> QED
    BY <1>0, <2>2, <2>3, <2>4 DEF Basics, TypeOK, table
<1>2. ASSUME Cont
      PROVE  Basics'
  <2>1. /\ Step("main", "cont", "restore")
        /\ UNCHANGED <<table, keys, keysLeft, mask, main, pid, status, sent>>
    BY <1>2 DEF Cont
  <2>2. \/ /\ proc' = [proc EXCEPT ![pid["main"]] = "running"]
           /\ unreported' = unreported \ {pid["main"]} /\ chld' = TRUE
        \/ UNCHANGED <<proc, unreported, chld>>
    BY <1>2 DEF Cont
  <2>3. DOMAIN at' = Frames /\ at'["main"] = "restore" /\ at'["handler"] = at["handler"]
    BY <1>0, <2>1, StepMoves DEF Frames
  <2>4. ReportsKept'
    <3>1. CASE chld' = TRUE
      BY <3>1 DEF ReportsKept
    <3>2. CASE UNCHANGED <<proc, unreported, chld>>
      BY <2>1, <3>2, NoReportLost DEF Frames
    <3> QED
      BY <2>2, <3>1, <3>2
  <2> QED
    BY <1>0, <2>1, <2>2, <2>3, <2>4 DEF Basics, TypeOK, table, main
<1>3. ASSUME Quit
      PROVE  Basics'
  <2>1. /\ Step("main", "prompt", "exited") /\ proc' \in [Pids -> Lives]
        /\ UNCHANGED <<table, unreported, chld, keys, keysLeft, mask, main, pid, status, sent>>
    BY <1>0, <1>3 DEF Quit, TypeOK, Lives
  <2>2. DOMAIN at' = Frames /\ at'["main"] = "exited" /\ at'["handler"] = at["handler"]
    BY <1>0, <2>1, StepMoves DEF Frames
  <2>3. ReportsKept'
    BY <2>2 DEF ReportsKept, Ended
  <2> QED
    BY <1>0, <2>1, <2>2, <2>3 DEF Basics, TypeOK, table, main, Lives
<1>4. ASSUME Deliver
      PROVE  Basics'
  <2>1. /\ Step("handler", "off", "collect") /\ chld' = FALSE /\ mask' = mask \cup {"CHLD"}
        /\ UNCHANGED <<table, proc, unreported, keys, keysLeft, main, pid, status, sent>>
    BY <1>4 DEF Deliver
  <2>2. DOMAIN at' = Frames /\ at'["handler"] = "collect" /\ at'["main"] = at["main"]
    BY <1>0, <2>1, StepMoves DEF Frames
  <2>3. ReportsKept'
    BY <2>2 DEF ReportsKept
  <2> QED
    BY <1>0, <2>1, <2>2, <2>3 DEF Basics, TypeOK, table, main, Signals
<1>5. ASSUME NEW p \in Pids, NEW b \in BOOLEAN, Fork(p, b)
      PROVE  Basics'
  <2>1. /\ Step("main", "prompt", "addjob") /\ proc' = [proc EXCEPT ![p] = "starting"]
        /\ oldset' = mask /\ mask' = mask \cup {"CHLD"}
        /\ pid' = [pid EXCEPT !["main"] = p] /\ bg' = b
        /\ UNCHANGED <<table, unreported, chld, keys, keysLeft, status, sent>>
    BY <1>5 DEF Fork, block_sigchld
  <2>2. DOMAIN at' = Frames /\ at'["main"] = "addjob" /\ at'["handler"] = at["handler"]
    BY <1>0, <2>1, StepMoves DEF Frames
  <2>3. ReportsKept'
    <3>1. \A q \in Pids : proc'[q] = "zombie" => proc[q] = "zombie"
      BY <1>0, <2>1 DEF TypeOK
    <3> QED
      BY <2>1, <3>1, NoReportLost DEF Frames
  <2> QED
    BY <1>0, <2>1, <2>2, <2>3 DEF Basics, TypeOK, table, Signals
<1>6. ASSUME NEW f \in Frames, CollectNone(f)
      PROVE  Basics'
  <2>1. PICK to \in {"prompt", "off"} :
          Step(f, "collect", to) /\ to = IF f = "main" THEN "prompt" ELSE "off"
    BY <1>6 DEF CollectNone
  <2>2. /\ unreported = {} /\ \A p \in Pids : proc[p] # "zombie"
        /\ mask' = IF f = "main" THEN oldset ELSE mask \ {"CHLD"}
        /\ oldset' = IF f = "main" THEN {} ELSE oldset
        /\ pid' = [pid EXCEPT ![f] = NoPid] /\ status' = [status EXCEPT ![f] = "none"]
        /\ UNCHANGED <<table, proc, unreported, chld, keys, keysLeft, bg, sent>>
    BY <1>6 DEF CollectNone, kernel
  <2>3. /\ DOMAIN at' = Frames /\ at'[f] = to /\ \A g \in Frames \ {f} : at'[g] = at[g]
    BY <1>0, <2>1, StepMoves
  <2>4. ReportsKept'
    BY <2>1, <2>2, NoReportLost
  <2> QED
    BY <1>0, <2>1, <2>2, <2>3, <2>4 DEF Basics, TypeOK, table, Frames
<1> QED
  BY <1>1, <1>2, <1>3, <1>4, <1>5, <1>6

LEMMA WaitSteps ==
  ASSUME Basics, WaitFg \/ \E f \in Frames : Collect(f)
  PROVE  Basics'
<1>0. TypeOK /\ DOMAIN at = Frames /\ ReportsKept
  BY DEF Basics
<1>1. PICK f \in Frames, p \in Pids, from \in {"waitfg", "collect"}, to \in {"block", "reap"} :
        /\ Step(f, from, to) /\ Report(f, p) /\ pid' = [pid EXCEPT ![f] = p]
        /\ f = "handler" => to = "reap"
        /\ UNCHANGED <<table, chld, keys, keysLeft, mask, main, sent>>
  BY <1>0 DEF WaitFg, Collect, Frames, TypeOK
<1>2. /\ proc' \in [Pids -> Lives] /\ unreported' \subseteq unreported
      /\ status' \in [Frames -> {"none", "exit", "stop"}]
      /\ \A q \in Pids : proc'[q] = "zombie" => proc[q] = "zombie"
  BY <1>0, <1>1 DEF Report, TypeOK, Lives
<1>3. DOMAIN at' = Frames /\ at'[f] = to /\ \A g \in Frames \ {f} : at'[g] = at[g]
  BY <1>0, <1>1, StepMoves
<1>4. ReportsKept'
  BY <1>1, <1>2, NoReportLost
<1> QED
  BY <1>0, <1>1, <1>2, <1>3, <1>4 DEF Basics, TypeOK, table, main, Frames, Lives

LEMMA OutsideSteps ==
  ASSUME Basics,
         \/ \E p \in Pids : Exec(p) \/ Exit(p) \/ Stop(p)
         \/ \E sig \in {"INT", "TSTP"} : KeyHandler(sig) \/ Press(sig)
  PROVE  Basics'
<1>0. TypeOK /\ TableTyped /\ DOMAIN at = Frames /\ ReportsKept
  BY TypedTable DEF Basics
<1>1. UNCHANGED <<table, mask, main, at, pid, status>>
  BY DEF Exec, Exit, Stop, KeyHandler, Press, Quiet
<1>2. /\ proc' \in [Pids -> Lives] /\ unreported' \subseteq Pids
      /\ \/ chld' = TRUE
         \/ /\ chld' = chld /\ unreported' = unreported
            /\ \A p \in Pids : proc'[p] = "zombie" => proc[p] = "zombie"
  <2>1. CASE \E p \in Pids : Exec(p) \/ Exit(p) \/ Stop(p)
    BY <1>0, <2>1 DEF Exec, Exit, Stop, Quiet, TypeOK, Lives
  <2>2. ASSUME NEW sig \in {"INT", "TSTP"}, KeyHandler(sig)
        PROVE  <1>2!:
    <3>1. getjobfg \in Slots \cup {0}
      BY FirstFits DEF getjobfg
    <3>2. \/ UNCHANGED <<proc, unreported, chld>>
          \/ \E i \in Slots : jobs[i].pid # NoPid /\ Signalled(jobs[i].pid, sig)
      BY <2>2, <3>1 DEF KeyHandler
    <3>3. \A i \in Slots : jobs[i].pid # NoPid => jobs[i].pid \in Pids
      BY <1>0 DEF TableTyped, Job
    <3> QED
      BY <1>0, <3>2, <3>3 DEF Signalled, TypeOK, Lives
  <2>3. CASE \E sig \in {"INT", "TSTP"} : Press(sig)
    BY <1>0, <2>3 DEF Press, TypeOK, Lives
  <2> QED
    BY <2>1, <2>2, <2>3
<1>3. keys' \subseteq {"INT", "TSTP"} /\ keysLeft' \in 0..KeysMax /\ sent' \in {"ok", "self"}
  <2>1. CASE \E sig \in {"INT", "TSTP"} : Press(sig)
    <3>1. keysLeft > 0 /\ keysLeft' = keysLeft - 1 /\ sent' = sent
      BY <2>1 DEF Press, Quiet
    <3>2. keysLeft' \in 0..KeysMax
      BY <1>0, <3>1, ShellAssumption DEF TypeOK
    <3>3. keys' \subseteq {"INT", "TSTP"}
      BY <1>0, <2>1 DEF Press, TypeOK
    <3> QED
      BY <1>0, <3>1, <3>2, <3>3 DEF TypeOK
  <2>2. CASE \E sig \in {"INT", "TSTP"} : KeyHandler(sig)
    BY <1>0, <2>2 DEF KeyHandler, TypeOK
  <2>3. CASE \E p \in Pids : Exec(p) \/ Exit(p) \/ Stop(p)
    BY <1>0, <2>3 DEF Exec, Exit, Stop, Quiet, TypeOK
  <2> QED
    BY <2>1, <2>2, <2>3
<1>4. ReportsKept'
  BY <1>0, <1>1, <1>2 DEF ReportsKept, Ended
<1> QED
  BY <1>0, <1>1, <1>2, <1>3, <1>4 DEF Basics, TypeOK, table, main, Lives

LEMMA BasicSteps == Basics /\ [Next]_vars => Basics'
<1> SUFFICES ASSUME Basics, [Next]_vars
             PROVE  Basics'
  OBVIOUS
<1>1. CASE UNCHANGED vars
  BY <1>1 DEF vars, table, kernel, main, Basics, TypeOK, ReportsKept, Ended
<1>2. CASE Next
  BY <1>2, TableSteps, MainSteps, WaitSteps, OutsideSteps DEF Next, Frame
<1> QED
  BY <1>1, <1>2
-----------------------------------------------------------------------------
(* The theorems                                                            *)

(* Every variable of the shell has its type, whatever is typed.            *)
THEOREM TypesKept == Spec => []TypeOK
<1>1. Init => Basics
  BY Starts DEF IInv, Control, Basics
<1>2. Basics => TypeOK
  BY DEF Basics
<1> QED
  BY <1>1, <1>2, BasicSteps, PTL DEF Spec

(* No end and no stop of a child is forgotten, whatever is typed: while    *)
(* waitpid has one to tell, SIGCHLD is pending or its handler runs.        *)
THEOREM NothingForgotten == Spec => []ReportsKept
<1>1. Init => Basics
  BY Starts DEF IInv, Control, Basics
<1>2. Basics => ReportsKept
  BY DEF Basics
<1> QED
  BY <1>1, <1>2, BasicSteps, PTL DEF Spec

(* No job is left behind once the end of its child was reported: the race  *)
(* of eval's addjob with the SIGCHLD handler.                              *)
THEOREM NoneLeftBehind ==
  ASSUME NamesJobs
  PROVE  Spec => []NoStaleJob
<1>1. IInv => NoStaleJob
  BY DEF IInv, Stale, NoStaleJob
<1> QED
  BY <1>1, Invariant, PTL

(* A job is FG only while the main program waits for it, or is about to.   *)
THEOREM AlwaysAwaited ==
  ASSUME NamesJobs
  PROVE  Spec => []ForegroundAwaited
<1>1. IInv => ForegroundAwaited
  BY DEF IInv, Awaited, ForegroundAwaited
<1> QED
  BY <1>1, Invariant, PTL

(* At a prompt with nothing outstanding the list says of every job what    *)
(* its child does.                                                         *)
THEOREM ListTruthful ==
  ASSUME NamesJobs
  PROVE  Spec => []StatesTruthful
<1>1. ASSUME IInv, at["main"] = "prompt", at["handler"] = "off", ~chld, unreported = {},
             NEW i \in Slots, jobs[i].pid \in Pids
      PROVE  jobs[i].state = IF proc[jobs[i].pid] = "stopped" THEN "ST" ELSE "BG"
  <2>1. TypeOK /\ Table /\ Stale /\ Awaited /\ Truthful /\ ReportsKept
    BY <1>1 DEF IInv
  <2>2. \A f \in Frames : at[f] \notin {"block", "reap"}
    BY <1>1 DEF Frames
  <2>3. proc[jobs[i].pid] # "zombie"
    BY <1>1, <2>1 DEF ReportsKept, Ended
  <2>4. proc[jobs[i].pid] # "reaped"
    BY <1>1, <2>1, <2>2 DEF Stale
  <2>5. jobs[i].state \in {"BG", "ST"}
    BY <1>1, <2>1 DEF Awaited, Table, TypeOK
  <2>6. proc[jobs[i].pid] = "stopped" => jobs[i].state = "ST"
    BY <1>1, <2>1, <2>2 DEF Truthful
  <2>7. jobs[i].state = "ST" => proc[jobs[i].pid] = "stopped"
    BY <1>1, <2>1, <2>3, <2>4 DEF Truthful
  <2> QED
    BY <2>5, <2>6, <2>7
<1>2. IInv => StatesTruthful
  BY <1>1 DEF StatesTruthful
<1> QED
  BY <1>2, Invariant, PTL

\* How a step changes the list: not at all; a slot without a child gets one or
\* is freed; a job gets another state; or the job of a child that was waited
\* for loses it.
LEMMA ListSteps ==
  ASSUME NamesJobs, IInv, [Next]_vars
  PROVE  \/ UNCHANGED jobs
         \/ \E i \in Slots : jobs[i].pid = NoPid /\ \E j \in Job : Becomes(i, j)
         \/ \E i \in Slots : \E s \in {"FG", "BG", "ST"} :
              /\ jobs[i].pid \in Pids /\ (s = jobs[i].state \/ Restated(jobs[i].pid, jobs[i].state, s))
              /\ Becomes(i, [pid |-> jobs[i].pid, jid |-> jobs[i].jid, state |-> s])
         \/ \E i \in Slots :
              /\ jobs[i].pid \in Pids /\ proc[jobs[i].pid] = "reaped"
              /\ Becomes(i, [pid |-> NoPid, jid |-> jobs[i].jid, state |-> jobs[i].state])
<1>0. TypeOK /\ Control /\ Told /\ Table /\ Awaited /\ TableTyped
  BY TypedTable DEF IInv
<1>1. ASSUME AddJob
      PROVE  \/ UNCHANGED jobs
             \/ \E i \in Slots : jobs[i].pid = NoPid /\ \E j \in Job : Becomes(i, j)
  <2>1. PICK b \in {"FG", "BG"} : addjob(pid["main"], b)
    BY <1>1 DEF AddJob
  <2>2. pid["main"] \in Pids
    BY <1>0, <1>1 DEF AddJob, Step, Control
  <2> QED
    BY <1>0, <2>1, <2>2, AddEffect DEF Becomes
<1>2. ASSUME NEW f \in Frames, Clear(f)
      PROVE  \E i \in Slots : jobs[i].pid = NoPid /\ \E j \in Job : Becomes(i, j)
  BY <1>0, <1>2, DeleteEffect DEF Clear, Becomes
<1>3. ASSUME NEW c \in Commands, c.cmd = "cont", NEW i \in Chosen(c) \ {0}, BgFg(i, c.bg)
      PROVE  /\ i \in Slots
             /\ \E s \in {"FG", "BG", "ST"} :
                  /\ jobs[i].pid \in Pids /\ (s = jobs[i].state \/ Restated(jobs[i].pid, jobs[i].state, s))
                  /\ Becomes(i, [pid |-> jobs[i].pid, jid |-> jobs[i].jid, state |-> s])
  <2>1. at["main"] = "prompt" /\ at["handler"] = "off"
    BY <1>3 DEF BgFg, Step, Running
  <2>2. i \in Slots /\ jobs[i].pid \in Pids
    BY <1>0, <1>3, <2>1, ChosenFits DEF NamesJobs, Frames
  <2>3. PICK s \in {"FG", "BG"} : setstate(i, s) /\ s = IF c.bg THEN "BG" ELSE "FG"
    BY <1>3 DEF BgFg
  <2>4. jobs[i].state \in {"BG", "ST"}
    BY <1>0, <2>1, <2>2 DEF Awaited, Table, TableTyped, Job
  <2>5. Becomes(i, [pid |-> jobs[i].pid, jid |-> jobs[i].jid, state |-> s])
    BY <1>0, <2>2, <2>3, StateEffect
  <2>6. c.bg \in BOOLEAN
    BY <1>0, <1>3, <2>1, ChosenFits DEF NamesJobs, Frames
  <2>7. Resumes(jobs[i].pid, c.bg)
    <3>1. Step("main", "prompt", "cont") /\ pid' = [pid EXCEPT !["main"] = jobs[i].pid] /\ bg' = c.bg
      BY <1>3 DEF BgFg
    <3>2. at["main"] = "prompt" /\ at'["main"] = "cont"
      BY <1>0, <3>1, StepMoves DEF Control, Frames
    <3>3. pid'["main"] = jobs[i].pid
      BY <1>0, <3>1 DEF TypeOK, Frames
    <3> QED
      BY <3>1, <3>2, <3>3 DEF Resumes
  <2> QED
    BY <2>2, <2>3, <2>4, <2>5, <2>6, <2>7 DEF Restated
<1>4. ASSUME NEW f \in Frames, Reap(f)
      PROVE  \/ UNCHANGED jobs
             \/ \E i \in Slots : \E s \in {"FG", "BG", "ST"} :
                  /\ jobs[i].pid \in Pids /\ (s = jobs[i].state \/ Restated(jobs[i].pid, jobs[i].state, s))
                  /\ Becomes(i, [pid |-> jobs[i].pid, jid |-> jobs[i].jid, state |-> s])
             \/ \E i \in Slots :
                  /\ jobs[i].pid \in Pids /\ proc[jobs[i].pid] = "reaped"
                  /\ Becomes(i, [pid |-> NoPid, jid |-> jobs[i].jid, state |-> jobs[i].state])
  <2>1. at[f] = "reap" /\ pid[f] \in Pids
    BY <1>0, <1>4, ReapEffect
  <2>2. \/ UNCHANGED jobs
        \/ /\ status[f] = "stop"
           /\ \E i \in Slots : /\ jobs[i].pid = pid[f]
                               /\ Becomes(i, [pid |-> pid[f], jid |-> jobs[i].jid, state |-> "ST"])
        \/ /\ status[f] = "exit"
           /\ \E i \in Slots : /\ jobs[i].pid = pid[f]
                               /\ Becomes(i, [pid |-> NoPid, jid |-> jobs[i].jid, state |-> jobs[i].state])
    BY <1>0, <1>4, ReapEffect
  <2>3. \A i \in Slots : jobs[i].pid \in Pids => jobs[i].state \in {"FG", "BG", "ST"}
    BY <1>0 DEF Table, TableTyped, Job
  <2>4. status[f] = "exit" => proc[pid[f]] = "reaped"
    BY <1>0, <2>1 DEF Told
  <2>5. status[f] = "stop" => StopTold(pid[f])
    BY <2>1 DEF StopTold
  <2> QED
    BY <2>1, <2>2, <2>3, <2>4, <2>5 DEF Restated
<1>5. \/ UNCHANGED jobs
      \/ AddJob
      \/ \E f \in Frames : Clear(f) \/ Reap(f)
      \/ \E c \in {d \in Commands : d.cmd = "cont"} : \E i \in Chosen(c) \ {0} : BgFg(i, c.bg)
  BY DEF Next, vars, Frame, Fork, Restore, Cont, BadArgument, Quit, WaitFg, WaitFgNoChild, Block,
     Collect, CollectNone, Deliver, KeyHandler, Press, Exec, Exit, Stop, Quiet, table
<1> QED
  BY <1>1, <1>2, <1>3, <1>4, <1>5

(* A job lasts as long as its child and keeps its id; its state changes    *)
(* only for a stop that waitpid told of, or for the fg or bg command that  *)
(* names the job.                                                          *)
THEOREM JobsLast ==
  ASSUME NamesJobs
  PROVE  Spec => JobLife
<1> DEFINE Lasts ==
      /\ \A p \in Pids : WithPid(p) # {} /\ WithPid(p)' = {} => proc[p] = "reaped"
      /\ \A i \in Slots :
           jobs[i].pid # NoPid /\ jobs[i]' # jobs[i] =>
             \/ jobs[i]'.pid = NoPid /\ jobs[i]'.jid = jobs[i].jid
             \/ /\ jobs[i]'.pid = jobs[i].pid /\ jobs[i]'.jid = jobs[i].jid
                /\ Restated(jobs[i].pid, jobs[i].state, jobs[i]'.state)
<1>1. ASSUME IInv, [Next]_vars
      PROVE  [Lasts]_jobs
  <2>1. TableTyped /\ Table
    BY <1>1, TypedTable DEF IInv
  <2>2. ASSUME NEW i \in Slots, jobs[i].pid = NoPid, NEW j \in Job, Becomes(i, j)
        PROVE  Lasts
    BY <2>2, JobTableAssumption DEF Becomes, WithPid
  <2>3. ASSUME NEW i \in Slots, NEW s \in {"FG", "BG", "ST"},
               jobs[i].pid \in Pids, s = jobs[i].state \/ Restated(jobs[i].pid, jobs[i].state, s),
               Becomes(i, [pid |-> jobs[i].pid, jid |-> jobs[i].jid, state |-> s])
        PROVE  Lasts
    <3>1. \A k \in Slots : jobs'[k].pid = jobs[k].pid
      BY <2>3 DEF Becomes
    <3>2. jobs[i] = [pid |-> jobs[i].pid, jid |-> jobs[i].jid, state |-> jobs[i].state]
      BY <2>1 DEF TableTyped, Job
    <3>3. jobs'[i] # jobs[i] => s # jobs[i].state
      BY <2>3, <3>2 DEF Becomes
    <3> QED
      BY <2>3, <3>1, <3>3 DEF Becomes, WithPid
  <2>4. ASSUME NEW i \in Slots, jobs[i].pid \in Pids, proc[jobs[i].pid] = "reaped",
               Becomes(i, [pid |-> NoPid, jid |-> jobs[i].jid, state |-> jobs[i].state])
        PROVE  Lasts
    BY <2>1, <2>4, JobTableAssumption DEF Becomes, WithPid, Table
  <2> QED
    BY <1>1, <2>2, <2>3, <2>4, ListSteps
<1>2. Spec => [][Lasts]_jobs
  BY <1>1, Invariant, PTL DEF Spec
<1> QED
  BY <1>2 DEF JobLife
=============================================================================
