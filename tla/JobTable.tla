------------------------------ MODULE JobTable ------------------------------
(***************************************************************************)
(* The job list of the shell (labs/07-shell/tsh.c): a fixed array of       *)
(* slots, searched from its start, and the next job id to allocate.  The   *)
(* shell works on it from its main program and from its SIGCHLD handler;   *)
(* this module has the operations.                                         *)
(***************************************************************************)
EXTENDS Integers, FiniteSets

CONSTANTS
  Pids,    \* the process ids of the children
  NoPid,   \* the pid 0 of a cleared slot
  MaxJobs  \* MAXJOBS, the slots of the array

ASSUME JobTableAssumption == NoPid \notin Pids /\ MaxJobs \in Nat \ {0}

VARIABLES
  jobs,    \* the array: pid, jid and state of every slot
  nextjid  \* the next job id

Slots == 1..MaxJobs
Cleared == [pid |-> NoPid, jid |-> 0, state |-> "UNDEF"]

\* The searches return the first slot that fits; 0 stands for NULL.
FirstOf(S) == IF S = {} THEN 0 ELSE CHOOSE i \in S : \A j \in S : i <= j
WithPid(p) == {i \in Slots : jobs[i].pid = p}
WithJid(j) == {i \in Slots : jobs[i].jid = j}
getjobpid(p) == FirstOf(WithPid(p))
getjobjid(j) == IF j < 1 THEN 0 ELSE FirstOf(WithJid(j))
getjobfg == FirstOf({i \in Slots : jobs[i].state = "FG"})

initjobs ==
  /\ jobs = [i \in Slots |-> Cleared]
  /\ nextjid = 1

\* The largest job id in use; 0 when there is no job.
MaxJid(js) ==
  CHOOSE m \in {js[i].jid : i \in Slots} \cup {0} : \A i \in Slots : js[i].jid <= m

Full == getjobpid(NoPid) = 0

\* A bug: the slot is not checked to be free.
addjobAnywhere(p, state) ==
  /\ jobs' = [jobs EXCEPT ![1] = [pid |-> p, jid |-> nextjid, state |-> state]]
  /\ nextjid' = IF nextjid + 1 > MaxJobs THEN 1 ELSE nextjid + 1

addjob(p, state) ==
  IF Full
  THEN UNCHANGED <<jobs, nextjid>>
  ELSE /\ jobs' = [jobs EXCEPT ![getjobpid(NoPid)] =
                     [pid |-> p, jid |-> nextjid, state |-> state]]
       /\ nextjid' = IF nextjid + 1 > MaxJobs THEN 1 ELSE nextjid + 1

\* clearjob stores pid, jid and state one after the other, and a handler for
\* SIGINT or SIGTSTP can run in between: first the pid is gone, then the rest.
clearpid(i) ==
  /\ jobs' = [jobs EXCEPT ![i].pid = NoPid]
  /\ UNCHANGED nextjid

\* A bug: the largest job id in use is allocated again.
deletejobNoIncrement(i) ==
  /\ jobs' = [jobs EXCEPT ![i] = Cleared]
  /\ nextjid' = MaxJid(jobs')

\* The rest of clearjob, and of deletejob.
deletejob(i) ==
  /\ jobs' = [jobs EXCEPT ![i] = Cleared]
  /\ nextjid' = MaxJid(jobs') + 1

setstate(i, state) ==
  /\ jobs' = [jobs EXCEPT ![i].state = state]
  /\ UNCHANGED nextjid
=============================================================================
