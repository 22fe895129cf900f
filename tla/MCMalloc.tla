------------------------------ MODULE MCMalloc ------------------------------
(* Model-checking instance of Malloc and Mdriver: three blocks in a heap   *)
(* that can grow by one or two chunks.  A behaviour is one of the client   *)
(* that makes any calls or one of the driver on its traces; the other      *)
(* stays as it begins.                                                     *)
EXTENDS Malloc, Mdriver, TLC

Steps ==
  {[type |-> "a", index |-> i, size |-> n] : i \in Ids, n \in Requests}
    \cup {[type |-> "r", index |-> i, size |-> n] : i \in Ids, n \in Requests \cup {0}}
    \cup {[type |-> "f", index |-> i, size |-> 0] : i \in Ids}

TracesOf(n) == {t \in [1..n -> Steps] : Orderly(t, Requests \cup {0})}

A(i, n) == [type |-> "a", index |-> i, size |-> n]
R(i, n) == [type |-> "r", index |-> i, size |-> n]
F(i) == [type |-> "f", index |-> i, size |-> 0]

\* A trace that uses up the memory in a realloc which cannot be undone.
Exhausting(i, j) == <<A(i, 20), A(j, 10), R(j, 20), F(i)>>

File(t) == [num_ops |-> Len(t), num_ids_fits |-> TRUE, requests |-> t]

\* Files that cannot be read: an unknown type, and a header that is wrong.
Spoiled(i) ==
  {File(<<[A(i, 5) EXCEPT !.type = "x"]>>),
   [File(<<A(i, 5)>>) EXCEPT !.num_ops = 2], [File(<<A(i, 5)>>) EXCEPT !.num_ids_fits = FALSE]}

\* All traces of three requests, a pair of which the first is longer and fails,
\* one behind which the next file cannot be read, and no trace, for the client.
MCSuites ==
  {<<File(t)>> : t \in TracesOf(3)} \cup {<< >>}
    \cup {<<File(Exhausting(i, j)), File(<<A(i, 5), F(NoId), R(i, 10), F(i)>>)>> :
            <<i, j>> \in {p \in Ids \X Ids : p[1] # p[2]}}
    \cup {<<File(<<A(i, 5)>>), f>> : f \in UNION {Spoiled(j) : j \in Ids}, i \in Ids}

ASSUME MCAssumption == Index \subseteq Ids /\ TracesOrderly(Requests \cup {0})

MCInit == Init /\ DriverInit

MCNext ==
  \/ suite = << >> /\ Next /\ UNCHANGED dvars
  \/ DriverNext /\ UNCHANGED vars

MCSpec == MCInit /\ [][MCNext]_<<vars, dvars>>

MCSymmetry == Permutations(Ids)
=============================================================================
