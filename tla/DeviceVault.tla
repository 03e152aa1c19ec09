---------------------------- MODULE DeviceVault ----------------------------
(***************************************************************************)
(* The record of an unlocked device (src/src/unit/vault.ts) and those of   *)
(* its writers that can run at the same time (src/src/unit/runtime.ts).    *)
(*                                                                         *)
(* The record is one object, in memory and in the browser's storage, and   *)
(* is replaced as a whole.  A call that adds a secret copies the record,   *)
(* awaits the sealing of the secret, and saves the copy with it; nothing   *)
(* keeps two such calls apart.  Issuing a ticket and making a recovery     *)
(* file are started by the person, a rotation by the person or after a     *)
(* removal, a reconcile by whatever the transport finds.                   *)
(*                                                                         *)
(* What the unit's history decides (which generation of the key is         *)
(* announced) is in UnitKeys, what becomes of a ticket in TicketProtocol:  *)
(* there each call of the vault is one step.                               *)
(***************************************************************************)
EXTENDS Integers, FiniteSets, FiniteSetsExt

CONSTANTS
  Ticket,         \* tickets this device issues
  MaxEpoch,       \* generations of the unit's key after the first
  MaxRestarts

First == 0
Writer == Ticket \cup {"reconcile", "rotate", "export"}

VARIABLES
  record,     \* [codes, recovery, sealed: generations sealed in it, epochs, current]
  unitKeys,   \* the generations that are in memory
  call,       \* [writer -> what it has read and is to write]
  announced,  \* the generations the history announces, with a copy for this device
  funded,     \* tickets whose funding is in the wallet's queue or on the chain, and not taken back
  restarts

vars == <<record, unitKeys, call, announced, funded, restarts>>

Idle == [at |-> "idle"]

Init ==
  /\ record = [codes |-> {}, recovery |-> FALSE, sealed |-> {First}, epochs |-> {First}, current |-> First]
  /\ unitKeys = {First} /\ announced = {First}
  /\ call = [w \in Writer |-> Idle]
  /\ funded = {} /\ restarts = 0

Moves(w, next) == call' = [call EXCEPT ![w] = next]

-----------------------------------------------------------------------------
(* Issuing and cancelling a ticket. *)

\* issueTicket up to sealTicketSecret, which copies the record and awaits the sealing of the code.
StartSealing(t) ==
  /\ call[t] = Idle /\ t \notin funded \cup record.codes
  /\ record.epochs \subseteq record.sealed /\ record.current \in record.epochs
  /\ Moves(t, [at |-> "sealing", copy |-> record])
  /\ UNCHANGED <<record, unitKeys, announced, funded, restarts>>

SaveCode(t) ==
  /\ call[t].at = "sealing"
  /\ record' = [call[t].copy EXCEPT !.codes = @ \cup {t}]
  /\ Moves(t, [at |-> "sealed"])
  /\ UNCHANGED <<unitKeys, announced, funded, restarts>>

\* The wallet queues the transfer to the ticket's address, or refuses it: then the code is forgotten.
Fund(t) ==
  /\ call[t].at = "sealed" /\ Moves(t, Idle)
  /\ \/ funded' = funded \cup {t} /\ UNCHANGED record
     \/ record' = [record EXCEPT !.codes = @ \ {t}] /\ UNCHANGED funded
  /\ UNCHANGED <<unitKeys, announced, restarts>>

\* cancelTicket needs the code; the network decides, and the code is forgotten.
Cancel(t) ==
  /\ t \in funded /\ t \in record.codes
  /\ funded' = funded \ {t}
  /\ record' = [record EXCEPT !.codes = @ \ {t}]
  /\ UNCHANGED <<unitKeys, call, announced, restarts>>

-----------------------------------------------------------------------------
(* Generations of the unit's key. *)

\* Another Master's rotation is read.
LearnRotation ==
  /\ Cardinality(announced) <= MaxEpoch
  /\ announced' = announced \cup {Cardinality(announced)}
  /\ UNCHANGED <<record, unitKeys, call, funded, restarts>>

\* rotateUnitKey: announced, then installUnitKey, which has the key's text at hand.
Rotate ==
  /\ call["rotate"] = Idle /\ Cardinality(announced) <= MaxEpoch
  /\ announced' = announced \cup {Cardinality(announced)}
  /\ Moves("rotate", [at |-> "installing", epoch |-> Cardinality(announced), unit |-> record, copy |-> record])
  /\ UNCHANGED <<record, unitKeys, funded, restarts>>

\* installGrantedKeys, one key after the other: installUnitKey reads the unit and awaits the key's text ...
StartInstall ==
  /\ call["reconcile"] = Idle
  /\ \E e \in announced \ unitKeys : Moves("reconcile", [at |-> "exporting", epoch |-> e, unit |-> record])
  /\ UNCHANGED <<record, unitKeys, announced, funded, restarts>>

\* ... then copies the record and awaits the sealing ...
CopyForInstall ==
  /\ call["reconcile"].at = "exporting"
  /\ Moves("reconcile", [at |-> "installing", epoch |-> call["reconcile"].epoch,
                         unit |-> call["reconcile"].unit, copy |-> record])
  /\ UNCHANGED <<record, unitKeys, announced, funded, restarts>>

\* ... and saves the copy, with the unit as it was read before. A rotation makes its key the current one.
SaveKey(w) ==
  LET c == call[w] IN
  /\ c.at = "installing" /\ Moves(w, Idle)
  /\ record' = [c.copy EXCEPT !.sealed = @ \cup {c.epoch}, !.epochs = c.unit.epochs \cup {c.epoch},
                              !.current = IF w = "rotate" THEN c.epoch ELSE c.unit.current]
  /\ unitKeys' = unitKeys \cup {c.epoch}
  /\ UNCHANGED <<announced, funded, restarts>>

\* adoptCurrentEpoch, between the installations: it saves what it copies without waiting for anything.
Adopt ==
  /\ call["reconcile"] = Idle
  /\ record' = [record EXCEPT !.current = Max(announced \cap unitKeys)]
  /\ record' # record
  /\ UNCHANGED <<unitKeys, call, announced, funded, restarts>>

-----------------------------------------------------------------------------
(* The recovery file, and the device itself. *)

\* exportRecoveryFile copies the record before it makes the recovery key.
StartExport ==
  /\ call["export"] = Idle /\ ~record.recovery
  /\ Moves("export", [at |-> "sealing", copy |-> record])
  /\ UNCHANGED <<record, unitKeys, announced, funded, restarts>>

SaveRecovery ==
  /\ call["export"].at = "sealing" /\ Moves("export", Idle)
  /\ record' = [call["export"].copy EXCEPT !.recovery = TRUE]
  /\ UNCHANGED <<unitKeys, announced, funded, restarts>>

\* The page ends; when the device is unlocked its keys are read from the record.
Restart ==
  /\ restarts < MaxRestarts /\ restarts' = restarts + 1
  /\ call' = [w \in Writer |-> Idle]
  /\ unitKeys' = record.epochs \cap record.sealed
  /\ UNCHANGED <<record, announced, funded>>

Next ==
  \/ \E t \in Ticket : StartSealing(t) \/ SaveCode(t) \/ Fund(t) \/ Cancel(t)
  \/ LearnRotation \/ Rotate \/ StartInstall \/ CopyForInstall \/ Adopt
  \/ \E w \in {"reconcile", "rotate"} : SaveKey(w)
  \/ StartExport \/ SaveRecovery \/ Restart

Spec == Init /\ [][Next]_vars

-----------------------------------------------------------------------------
(* Properties. *)

\* "Sealed before any money moves: whatever happens next, the funding can be recovered by
\* cancelling" (issueTicket): the code of a funded ticket is in the record. It is not when another
\* write that had copied the record before the code was saved is saved after it.
FundingCanBeRecovered == funded \subseteq record.codes
=============================================================================
