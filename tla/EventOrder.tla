----------------------------- MODULE EventOrder -----------------------------
(***************************************************************************)
(* The order in which every device folds the shared history: the Lamport   *)
(* clock, then the event's ID, which begins with its author's tag          *)
(* (eventSortKey of src/src/distributed/replica.ts).                       *)
(*                                                                         *)
(* An event is its place in `log`, a sequence of records that have at      *)
(* least a clock and an author.  Events of one author and clock are told   *)
(* apart by what is random in their IDs; their place stands for it.        *)
(***************************************************************************)
EXTENDS Integers

Before(log, m, n) ==
  \/ log[m].clock < log[n].clock
  \/ log[m].clock = log[n].clock /\ log[m].author < log[n].author
  \/ log[m].clock = log[n].clock /\ log[m].author = log[n].author /\ m < n

LastOf(log, S) == CHOOSE n \in S : \A m \in S \ {n} : Before(log, m, n)
FirstOf(log, S) == CHOOSE n \in S : \A m \in S \ {n} : Before(log, n, m)
=============================================================================
