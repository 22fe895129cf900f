------------------------------- MODULE Shell --------------------------------
(***************************************************************************)
(* The shell's main program and signal handlers (labs/07-shell/tsh.c),     *)
(* with the kernel's part: children that run, stop and exit, pending       *)
(* signals, the signal mask and what waitpid reports.                      *)
(*                                                                         *)
(* The SIGCHLD handler can run wherever SIGCHLD is not blocked, and its    *)
(* steps are steps of the model; the main program resumes when it returns. *)
(* A handler for SIGINT or SIGTSTP blocks SIGCHLD, reads the job list and  *)
(* sends one signal: it is one step, which can come between any two others,*)
(* inside the SIGCHLD handler too.                                         *)
(***************************************************************************)
EXTENDS JobTable

CONSTANTS
  KeysMax,  \* bound: how often ctrl-c or ctrl-z is typed
  Commands  \* what the lines that are typed ask for (Command of CommandLine)

\* A line asks for one of these.
ASSUME ShellAssumption ==
  /\ KeysMax \in Nat
  /\ Commands \subseteq
       [cmd : {"none", "incomplete", "malformed", "quit", "jobs"}]
         \cup [cmd : {"run"}, bg : BOOLEAN]
         \cup [cmd : {"cont"}, bg : BOOLEAN, jid : BOOLEAN, zero : BOOLEAN]

Signals == {"CHLD", "INT", "TSTP"}

VARIABLES
  proc,     \* the life of each child
  unreported, \* the children whose stop no waitpid has returned yet
  chld,     \* SIGCHLD is pending
  keys,     \* which of SIGINT and SIGTSTP are pending
  keysLeft, \* how often a key can still be typed
  mask,     \* the blocked signals
  oldset,   \* the mask the main program saved
  at,       \* where the main program and the SIGCHLD handler are
  pid,      \* the child each of the two works on
  status,   \* what waitpid reported of it
  bg,       \* whether the command at hand runs in the background
  sent      \* where the last key went: "ok", or "self", the shell itself

table == <<jobs, nextjid>>
kernel == <<proc, unreported, chld, keys, keysLeft>>
main == <<oldset, bg>>
vars == <<table, kernel, mask, main, at, pid, status, sent>>

Frames == {"main", "handler"}
Ended == at["main"] \in {"exited", "crashed"}

\* After a signal to its own process group the shell finds the same signal
\* pending whenever its handler returns, and never gets further.
Running(f) ==
  /\ ~Ended /\ sent # "self"
  /\ f = "main" => at["handler"] = "off"

Step(f, from, to) ==
  /\ Running(f)
  /\ at[f] = from
  /\ at' = [at EXCEPT ![f] = to]

Init ==
  /\ initjobs
  /\ proc = [p \in Pids |-> "unused"]
  /\ unreported = {}
  /\ chld = FALSE /\ keys = {} /\ keysLeft = KeysMax
  /\ mask = {} /\ oldset = {}
  /\ at = [main |-> "prompt", handler |-> "off"]
  /\ pid = [f \in Frames |-> NoPid]
  /\ status = [f \in Frames |-> "none"]
  /\ bg = FALSE
  /\ sent = "ok"

-----------------------------------------------------------------------------
(* eval                                                                    *)

block_sigchld == oldset' = mask /\ mask' = mask \cup {"CHLD"}
restore_signal == mask' = oldset /\ oldset' = {}

\* A bug: fork without blocking SIGCHLD first.
ForkUnblocked(p, b) ==
  /\ [cmd |-> "run", bg |-> b] \in Commands
  /\ Step("main", "prompt", "addjob")
  /\ proc[p] = "unused"
  /\ proc' = [proc EXCEPT ![p] = "starting"]
  /\ oldset' = mask
  /\ pid' = [pid EXCEPT !["main"] = p]
  /\ bg' = b
  /\ UNCHANGED <<table, mask, unreported, chld, keys, keysLeft, status, sent>>

\* block_sigchld and fork.
Fork(p, b) ==
  /\ [cmd |-> "run", bg |-> b] \in Commands
  /\ Step("main", "prompt", "addjob")
  /\ proc[p] = "unused"
  /\ proc' = [proc EXCEPT ![p] = "starting"]
  /\ block_sigchld
  /\ pid' = [pid EXCEPT !["main"] = p]
  /\ bg' = b
  /\ UNCHANGED <<table, unreported, chld, keys, keysLeft, status, sent>>

\* infobg reads through the null pointer that addjob returns for a full list.
AddJob ==
  /\ Step("main", "addjob", IF Full /\ bg THEN "crashed" ELSE "restore")
  /\ addjob(pid["main"], IF bg THEN "BG" ELSE "FG")
  /\ UNCHANGED <<kernel, mask, main, pid, status, sent>>

\* restore_signal, at the end of eval and of do_bgfg.
Restore ==
  /\ Step("main", "restore", IF bg THEN "prompt" ELSE "waitfg")
  /\ restore_signal
  /\ bg' = FALSE
  /\ pid' = [pid EXCEPT !["main"] = IF bg THEN NoPid ELSE @]
  /\ UNCHANGED <<table, kernel, status, sent>>

-----------------------------------------------------------------------------
(* do_bgfg                                                                 *)

\* The job is found by pid or by job id.  A pid of 0 finds a cleared slot, a job
\* id of 0 none.
Chosen(c) ==
  CASE c.jid /\ ~c.zero -> {getjobjid(jobs[i].jid) : i \in {j \in Slots : jobs[j].jid # 0}}
    [] c.jid /\ c.zero -> {getjobjid(0)}
    [] ~c.jid /\ ~c.zero -> {getjobpid(p) : p \in Pids}
    [] ~c.jid /\ c.zero -> {getjobpid(NoPid)}

BgFg(i, b) ==
  /\ Step("main", "prompt", "cont")
  /\ block_sigchld
  /\ pid' = [pid EXCEPT !["main"] = jobs[i].pid]
  /\ setstate(i, IF b THEN "BG" ELSE "FG")
  /\ bg' = b
  /\ UNCHANGED <<kernel, status, sent>>

\* killpg(job->pid, SIGCONT): an unreported stop is not reported any more,
\* and the kernel sends SIGCHLD for the continued child.
Cont ==
  /\ Step("main", "cont", "restore")
  /\ IF pid["main"] \in Pids /\ proc[pid["main"]] = "stopped"
     THEN /\ proc' = [proc EXCEPT ![pid["main"]] = "running"]
          /\ unreported' = unreported \ {pid["main"]}
          /\ chld' = TRUE
     ELSE UNCHANGED <<proc, unreported, chld>>
  /\ UNCHANGED <<table, keys, keysLeft, mask, main, pid, status, sent>>

\* An argument that is no number restores a mask that was never saved: any.
BadArgument ==
  /\ [cmd |-> "malformed"] \in Commands
  /\ Step("main", "prompt", "prompt")
  /\ mask' \in SUBSET Signals
  /\ UNCHANGED <<table, kernel, main, pid, status, sent>>

\* quit, or the end of the input.  do_quit: SIGHUP to the group of every job.  A
\* child that has not yet made its own process group does not get it; what others
\* do with it later is theirs.
Quit ==
  /\ Step("main", "prompt", "exited")
  /\ proc' = [p \in Pids |->
       IF WithPid(p) # {} /\ proc[p] = "running" THEN "zombie" ELSE proc[p]]
  /\ UNCHANGED <<table, unreported, chld, keys, keysLeft, mask, main, pid,
                 status, sent>>

-----------------------------------------------------------------------------
(* waitfg, wait_childs and reap_child                                      *)

\* waitpid reports the end or the stop of p to the frame f.
Report(f, p) ==
  \/ /\ proc[p] = "zombie"
     /\ proc' = [proc EXCEPT ![p] = "reaped"]
     /\ status' = [status EXCEPT ![f] = "exit"]
     /\ UNCHANGED unreported
  \/ /\ p \in unreported
     /\ unreported' = unreported \ {p}
     /\ status' = [status EXCEPT ![f] = "stop"]
     /\ UNCHANGED proc

\* A bug: waitfg leaves the job to the handler, which does not see its end.
WaitFgForgets ==
  /\ Step("main", "waitfg", "prompt")
  /\ pid["main"] \in Pids
  /\ \E st \in {"exit", "stop"} :
       Report("main", pid["main"]) /\ status'["main"] = st
  /\ pid' = [pid EXCEPT !["main"] = NoPid]
  /\ UNCHANGED <<table, chld, keys, keysLeft, mask, main, sent>>

WaitFg ==
  /\ Step("main", "waitfg", "block")
  /\ pid["main"] \in Pids
  /\ Report("main", pid["main"])
  /\ UNCHANGED <<table, chld, keys, keysLeft, mask, main, pid, sent>>

\* ECHILD: the handler was first.  waitpid(0) waits for children in the
\* shell's own process group: those that have not left it yet.
WaitFgNoChild ==
  /\ Step("main", "waitfg", "prompt")
  /\ IF pid["main"] \in Pids THEN proc[pid["main"]] = "reaped"
     ELSE \A p \in Pids : proc[p] # "starting"
  /\ pid' = [pid EXCEPT !["main"] = NoPid]
  /\ UNCHANGED <<table, kernel, mask, main, status, sent>>

Block ==
  /\ Step("main", "block", "reap")
  /\ block_sigchld
  /\ UNCHANGED <<table, kernel, bg, pid, status, sent>>

\* Two bugs: the state of a stopped job is not stored; the handler reaps one
\* child for each SIGCHLD.
ReapIgnoresStop(f) ==
  LET i == getjobpid(pid[f])
      ended == i # 0 /\ status[f] = "exit" IN
  /\ Step(f, "reap", IF ended THEN "clear" ELSE "collect")
  /\ IF ended THEN clearpid(i) ELSE UNCHANGED table
  /\ UNCHANGED <<kernel, mask, main, pid, status, sent>>

CollectAtMostOne(f) ==
  /\ IF f = "handler" /\ pid[f] # NoPid
     THEN /\ Step(f, "collect", "off")
          /\ mask' = mask \ {"CHLD"}
          /\ pid' = [pid EXCEPT ![f] = NoPid]
          /\ status' = [status EXCEPT ![f] = "none"]
          /\ UNCHANGED <<proc, unreported>>
     ELSE /\ Step(f, "collect", "reap")
          /\ \E p \in Pids : Report(f, p) /\ pid' = [pid EXCEPT ![f] = p]
          /\ UNCHANGED mask
  /\ UNCHANGED <<table, chld, keys, keysLeft, main, sent>>

\* reap_child, up to the first store of clearjob.
Reap(f) ==
  LET i == getjobpid(pid[f]) IN
  /\ Step(f, "reap", IF i # 0 /\ status[f] = "exit" THEN "clear" ELSE "collect")
  /\ CASE i = 0 -> UNCHANGED table
       [] i # 0 /\ status[f] = "stop" -> setstate(i, "ST")
       [] OTHER -> clearpid(i)
  /\ UNCHANGED <<kernel, mask, main, pid, status, sent>>

\* The rest of deletejob, for the slot whose pid this frame just cleared.
Clear(f) ==
  /\ Step(f, "clear", "collect")
  /\ \E i \in Slots :
       /\ jobs[i].pid = NoPid /\ jobs[i].jid # 0
       /\ deletejob(i)
  /\ UNCHANGED <<kernel, mask, main, pid, status, sent>>

\* waitpid(WAIT_ANY, WNOHANG | WUNTRACED) finds a child that changed.
Collect(f) ==
  /\ Step(f, "collect", "reap")
  /\ \E p \in Pids :
       /\ Report(f, p)
       /\ pid' = [pid EXCEPT ![f] = p]
  /\ UNCHANGED <<table, chld, keys, keysLeft, mask, main, sent>>

\* It finds none: the handler returns, or waitfg restores the mask.
CollectNone(f) ==
  /\ Step(f, "collect", IF f = "main" THEN "prompt" ELSE "off")
  /\ unreported = {} /\ \A p \in Pids : proc[p] # "zombie"
  /\ mask' = IF f = "main" THEN oldset ELSE mask \ {"CHLD"}
  /\ oldset' = IF f = "main" THEN {} ELSE oldset
  /\ pid' = [pid EXCEPT ![f] = NoPid]
  /\ status' = [status EXCEPT ![f] = "none"]
  /\ UNCHANGED <<table, kernel, bg, sent>>

-----------------------------------------------------------------------------
(* Signal handlers                                                         *)

Deliver ==
  /\ chld /\ "CHLD" \notin mask
  /\ Step("handler", "off", "collect")
  /\ chld' = FALSE
  /\ mask' = mask \cup {"CHLD"}
  /\ UNCHANGED <<table, proc, unreported, keys, keysLeft, main, pid, status, sent>>

\* What killpg does to the group of the child p; a child may catch SIGINT.
Signalled(p, sig) ==
  \/ /\ proc[p] = "running"
     /\ \/ sig = "INT" /\ proc' = [proc EXCEPT ![p] = "zombie"]
                       /\ UNCHANGED unreported
        \/ sig = "TSTP" /\ proc' = [proc EXCEPT ![p] = "stopped"]
                        /\ unreported' = unreported \cup {p}
     /\ chld' = TRUE
  \/ UNCHANGED <<proc, unreported, chld>>

\* sigint_tstp_handler.  A child that has not made its own process group yet,
\* or still runs the shell's handlers, does not get the signal.
KeyHandler(sig) ==
  /\ sig \in keys \ mask
  /\ Running("handler")
  /\ keys' = keys \ {sig}
  /\ LET i == getjobfg IN
     \/ /\ i = 0
        /\ sent' = "ok"
        /\ UNCHANGED <<proc, unreported, chld>>
     \/ /\ i # 0 /\ jobs[i].pid = NoPid
        /\ sent' = "self"
        /\ UNCHANGED <<proc, unreported, chld>>
     \/ /\ i # 0 /\ jobs[i].pid # NoPid
        /\ sent' = "ok"
        /\ Signalled(jobs[i].pid, sig)
  /\ UNCHANGED <<table, keysLeft, mask, main, at, pid, status>>

-----------------------------------------------------------------------------
(* The children and the keyboard                                           *)

Quiet == UNCHANGED <<table, mask, main, at, pid, status, sent>>

\* setpgid; nothing ends a child before that.
Exec(p) ==
  /\ proc[p] = "starting"
  /\ proc' = [proc EXCEPT ![p] = "running"]
  /\ Quiet /\ UNCHANGED <<unreported, chld, keys, keysLeft>>

Exit(p) ==
  /\ proc[p] \in {"running", "stopped"}
  /\ proc' = [proc EXCEPT ![p] = "zombie"]
  /\ unreported' = unreported \ {p}
  /\ chld' = TRUE
  /\ Quiet /\ UNCHANGED <<keys, keysLeft>>

Stop(p) ==
  /\ proc[p] = "running"
  /\ proc' = [proc EXCEPT ![p] = "stopped"]
  /\ unreported' = unreported \cup {p}
  /\ chld' = TRUE
  /\ Quiet /\ UNCHANGED <<keys, keysLeft>>

Press(sig) ==
  /\ keysLeft > 0
  /\ keys' = keys \cup {sig}
  /\ keysLeft' = keysLeft - 1
  /\ Quiet /\ UNCHANGED <<proc, unreported, chld>>

-----------------------------------------------------------------------------
Frame(f) == Reap(f) \/ Clear(f) \/ Collect(f) \/ CollectNone(f)

Next ==
  \/ \E p \in Pids, b \in BOOLEAN : Fork(p, b)
  \/ AddJob \/ Restore
  \/ \E c \in {d \in Commands : d.cmd = "cont"} : \E i \in Chosen(c) \ {0} : BgFg(i, c.bg)
  \/ Cont \/ BadArgument \/ Quit
  \/ WaitFg \/ WaitFgNoChild \/ Block
  \/ \E f \in Frames : Frame(f)
  \/ Deliver
  \/ \E sig \in {"INT", "TSTP"} : KeyHandler(sig) \/ Press(sig)
  \/ \E p \in Pids : Exec(p) \/ Exit(p) \/ Stop(p)

Spec == Init /\ [][Next]_vars

\* The shell runs on once it has read a command, and so do its handlers; the
\* return of sigprocmask delivers what became deliverable, so a SIGCHLD that is
\* unblocked again and again is delivered.  Nobody types, and no child ends,
\* because it has to.
Fairness ==
  /\ WF_vars(AddJob \/ Restore \/ Cont \/ WaitFg \/ WaitFgNoChild \/ Block)
  /\ \A f \in Frames : WF_vars(Frame(f))
  /\ SF_vars(Deliver)
  /\ \A sig \in {"INT", "TSTP"} : WF_vars(KeyHandler(sig))
  /\ \A p \in Pids : WF_vars(Exec(p))

FairSpec == Spec /\ Fairness

-----------------------------------------------------------------------------
(* Properties                                                              *)

(* Every variable has its type.                                            *)
TypeOK ==
  /\ jobs \in [Slots -> [pid : Pids \cup {NoPid}, jid : Nat,
                        state : {"UNDEF", "FG", "BG", "ST"}]]
  /\ nextjid \in Nat \ {0}
  /\ proc \in [Pids -> {"unused", "starting", "running", "stopped", "zombie", "reaped"}]
  /\ unreported \in SUBSET Pids
  /\ chld \in BOOLEAN /\ keys \in SUBSET {"INT", "TSTP"} /\ keysLeft \in 0..KeysMax
  /\ mask \in SUBSET Signals /\ oldset \in SUBSET Signals
  /\ at["main"] \in {"prompt", "addjob", "restore", "cont", "waitfg", "block",
                     "reap", "clear", "collect", "exited", "crashed"}
  /\ at["handler"] \in {"off", "reap", "clear", "collect"}
  /\ pid \in [Frames -> Pids \cup {NoPid}]
  /\ status \in [Frames -> {"none", "exit", "stop"}]
  /\ bg \in BOOLEAN /\ sent \in {"ok", "self"}

(* Once waitpid has returned the end of a child, its job is in the list    *)
(* only until whoever called waitpid deletes it: a child that ends between *)
(* fork and addjob does not leave a job behind for ever (eval blocks       *)
(* SIGCHLD for this).                                                      *)
NoStaleJob ==
  \A i \in Slots :
    jobs[i].pid \in Pids /\ proc[jobs[i].pid] = "reaped" =>
      \E f \in Frames : pid[f] = jobs[i].pid /\ at[f] \in {"block", "reap"}

(* A foreground job is the one the main program waits for, or is about to: *)
(* no path back to the prompt leaves a job marked FG, whichever of waitfg  *)
(* and the handler was told of its end or its stop.                        *)
ForegroundAwaited ==
  \A i \in Slots : jobs[i].state = "FG" =>
    /\ at["main"] \notin {"prompt", "addjob"}
    /\ jobs[i].pid \in {pid["main"], NoPid}

(* At a prompt with no report outstanding, the list says ST of the stopped *)
(* children and BG of the others.                                          *)
StatesTruthful ==
  at["main"] = "prompt" /\ at["handler"] = "off" /\ ~chld /\ unreported = {} =>
    \A i \in Slots : jobs[i].pid \in Pids =>
      jobs[i].state = IF proc[jobs[i].pid] = "stopped" THEN "ST" ELSE "BG"

\* waitpid told someone of a stop of p; the main program takes fg or bg for p.
StopTold(p) == \E f \in Frames : at[f] = "reap" /\ pid[f] = p /\ status[f] = "stop"
Resumes(p, b) ==
  /\ at["main"] = "prompt" /\ at'["main"] = "cont"
  /\ pid'["main"] = p /\ bg' = b

Restated(p, from, to) ==
  \/ to = "ST" /\ StopTold(p)
  \/ to = "FG" /\ from \in {"ST", "BG"} /\ Resumes(p, FALSE)
  \/ to = "BG" /\ from = "ST" /\ Resumes(p, TRUE)

(* A job lasts as long as its child: it leaves the list only after waitpid *)
(* has returned the child's end, never for a stop, and never because a new *)
(* job takes its slot.  Until then it keeps its child and its job id, and  *)
(* its state changes for three reasons only: to ST when waitpid has told   *)
(* of a stop of this child, from ST or BG to FG when fg names its job, and *)
(* from ST to BG when bg does.  The list of transitions at tsh.c:28-34 has *)
(* no BG to ST; a background job whose child is stopped goes that way.     *)
JobLife ==
  [][/\ \A p \in Pids : WithPid(p) # {} /\ WithPid(p)' = {} => proc[p] = "reaped"
     /\ \A i \in Slots :
          jobs[i].pid # NoPid /\ jobs[i]' # jobs[i] =>
            \/ jobs[i]'.pid = NoPid /\ jobs[i]'.jid = jobs[i].jid
            \/ /\ jobs[i]'.pid = jobs[i].pid /\ jobs[i]'.jid = jobs[i].jid
               /\ Restated(jobs[i].pid, jobs[i].state, jobs[i]'.state)
    ]_jobs

(* waitfg returns once its child is no longer the foreground process       *)
(* (tsh.c:336).                                                            *)
InForeground(p) == \E i \in Slots : jobs[i].pid = p /\ jobs[i].state = "FG"
WaitEnds ==
  (at["main"] = "waitfg" /\ ~InForeground(pid["main"])) ~> (at["main"] # "waitfg")

(* No end and no stop of a child is forgotten, although one SIGCHLD stands *)
(* for any number of them (tsh.c:413-419): while waitpid has one to tell,  *)
(* SIGCHLD is pending, or its handler runs and will ask until there is     *)
(* none.                                                                   *)
ReportsKept ==
  ~Ended /\ (unreported # {} \/ \E p \in Pids : proc[p] = "zombie") =>
    chld \/ at["handler"] # "off"
=============================================================================
