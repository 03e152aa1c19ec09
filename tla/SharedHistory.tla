---------------------------- MODULE SharedHistory ----------------------------
(***************************************************************************)
(* What the devices of a unit promise about their shared history, without  *)
(* outboxes, syncs, credentials, failures or restarts: an event is never   *)
(* changed after it was signed, it enters the history through its author's *)
(* ledger, it spreads only from ledgers that hold it, no ledger loses one, *)
(* and a command reports success only when its event is held, or when it   *)
(* reported an error before and was given again.                           *)
(*                                                                         *)
(* The events are numbered as they were signed; a ledger is a set of       *)
(* numbers.  UnitReplica implements this.                                  *)
(***************************************************************************)
EXTENDS Naturals, Sequences

CONSTANT Device

VARIABLES
  log,       \* every event ever signed
  held,      \* [Device -> the events in its durable ledger]
  answered,  \* events whose command returned without an error
  refused    \* events whose command returned with an error

history == <<log, held, answered, refused>>

Init ==
  /\ held \in [Device -> SUBSET DOMAIN log]
  /\ answered = {} /\ refused = {}

\* d signs one more event, of its own.
Sign(d) ==
  /\ Len(log') = Len(log) + 1
  /\ \A n \in 1..Len(log) : log'[n] = log[n]
  /\ log'[Len(log) + 1].author = d
  /\ UNCHANGED <<held, answered, refused>>

Hold(d, n) ==
  /\ held' = [held EXCEPT ![d] = @ \cup {n}]
  /\ UNCHANGED <<log, answered, refused>>

\* Its author's ledger is the first to hold an event,
Keep(d, n) ==
  /\ log[n].author = d
  /\ Hold(d, n)

\* and the others take it from one that does.
Learn(d, n) ==
  /\ \E sender \in Device \ {d} : n \in held[sender]
  /\ Hold(d, n)

\* The command that signed it reports success,
Answer(d, n) ==
  /\ log[n].author = d
  /\ n \in held[d] \cup refused
  /\ answered' = answered \cup {n}
  /\ UNCHANGED <<log, held, refused>>

\* or an error.
Refuse(d, n) ==
  /\ log[n].author = d
  /\ refused' = refused \cup {n}
  /\ UNCHANGED <<log, held, answered>>

Next ==
  \E d \in Device :
    \/ Sign(d)
    \/ \E n \in 1..Len(log) : Keep(d, n) \/ Learn(d, n) \/ Answer(d, n) \/ Refuse(d, n)

Spec == Init /\ [][Next]_history
=============================================================================
