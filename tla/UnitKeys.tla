------------------------------ MODULE UnitKeys ------------------------------
(***************************************************************************)
(* The generations of the unit's key (src/src/unit/runtime.ts, vault.ts,   *)
(* syncProvider.ts and the fold of src/src/distributed/replica.ts).        *)
(*                                                                         *)
(* A Master announces a new generation in a record sealed under the old    *)
(* one, with a copy wrapped for every active member, for the recovery key  *)
(* and for every ticket that is out.  A device that joins by a ticket or   *)
(* from a recovery file brings the keys that were put in it and opens the  *)
(* later ones through the copies made for the ticket or the file.          *)
(*                                                                         *)
(* Records reach the other devices at any later time and in any order; a   *)
(* device may stop between any two steps of a call.  How records are kept  *)
(* and sent is in UnitReplica and ChainTransport; how a ticket is decided  *)
(* is in TicketProtocol.  Whoever's device is not in Device takes no step  *)
(* here and is judged by what the history lets that person open.           *)
(*                                                                         *)
(* Whether a person had been removed when a record was made is decided by  *)
(* the times the devices write in it.  The clocks of the devices are taken *)
(* to agree: a record's place in the log is its time.                      *)
(***************************************************************************)
EXTENDS EventOrder, Sequences

CONSTANTS
  Founder,      \* who founded the unit and holds its authority
  Delegated,    \* Masters made by the authority
  Staff,        \* the other first members
  Newcomer,     \* people whose device joins by a ticket or from a recovery file
  Device,       \* those whose devices take steps
  Setups        \* what is looked at: [rotations: key generations made, byHand: Masters who make one
                \* without a removal, removals: pairs of who removes whom, one of which happens,
                \* packs: [device -> what it makes for a newcomer], crashes: pages that end in a call]

Members == {Founder} \cup Delegated \cup Staff
Person == Members \cup Newcomer

ASSUME KeysAssumption ==
  /\ Person \subseteq Nat \ {0} /\ Newcomer \cap Members = {} /\ Device \subseteq Person
  /\ Setups \subseteq [rotations : Nat, byHand : SUBSET Device, removals : SUBSET (Device \X Person),
                       packs : [Device -> SUBSET {"ticket", "recoveryKey"}], crashes : Nat]

First == 0                          \* the generation the unit was founded with
\* Copies are wrapped for people, for the recovery key and for tickets (ticketGranteeIdentity).
RecoveryKey == 0
TicketOf(p) == -p

VARIABLES
  setup,
  log,        \* the records, in the order they were committed: their place is also their time
  arrived,    \* [device -> the places its ledger has]
  keys,       \* [device -> the generations its vault holds]
  current,    \* [device -> the generation it writes with]
  unsettled,  \* devices that installed a key after they last looked which one is the newest
  call,       \* [device -> the call that is going]
  package,    \* [newcomer -> the ticket or file made for it, with the keys put in]
  joined,     \* newcomers whose device has joined
  basis,      \* [generation -> the places its maker had read when it chose who gets a copy]
  finished,   \* the calls of revoke that ended: who removed whom, with which generation
  crashes

vars == <<setup, log, arrived, keys, current, unsettled, call, package, joined, basis, finished, crashes>>

Epoch == First .. setup.rotations

-----------------------------------------------------------------------------
(* What a device makes of the records it can read. *)

RecordsOf(R, kind) == {n \in R : log[n].type = kind}

\* Signed with the authority, which the founder and whoever was restored from the file hold.
HoldsAuthority(p) == p = Founder \/ (p \in Newcomer /\ package[p].kind = "recoveryKey")
IsMaster(p) == HoldsAuthority(p) \/ p \in Delegated
Joined(p) == p \in Members \cup joined

\* A redemption proves its member while the issuer of the ticket could still admit one.
Proven(R, n) ==
  \E t \in RecordsOf(R, "ticket") :
    /\ log[t].who = log[n].author
    /\ \/ HoldsAuthority(log[t].author)
       \/ \A m \in RecordsOf(R, "remove") : log[m].who = log[t].author => n < m
JoinedIn(R) ==
  {log[n].author : n \in RecordsOf(R, "introduced") \cup {k \in RecordsOf(R, "redeemed") : Proven(R, k)}}

\* A removal takes effect once its subject is known; no Master acts after its own removal.
Removals(R) ==
  LET known == Members \cup JoinedIn(R)
      all == RecordsOf(R, "remove")
  IN {n \in all : log[n].who \in known /\ \A m \in all : log[m].who = log[n].author => n < m}
Accepted(R) ==
  LET known == Members \cup JoinedIn(R)
      removals == Removals(R)
  IN {n \in R : /\ log[n].author \in known \/ HoldsAuthority(log[n].author)
                /\ \A m \in removals : log[m].who = log[n].author => n < m}

RemovedIn(R) == {log[n].who : n \in Removals(R)}
ActiveIn(R) == (Members \cup JoinedIn(R)) \ RemovedIn(R)
OpenTickets(R) == {log[n].who : n \in RecordsOf(Accepted(R), "ticket")} \ JoinedIn(R)
EpochsIn(R) == RecordsOf(Accepted(R), "rotate")
RecoveryCopy(R) == {k \in {RecoveryKey} : RecordsOf(Accepted(R), "recoveryKey") # {}}
TicketCopies(R) == {TicketOf(p) : p \in OpenTickets(R)}
\* Mutants: whoever once was a member gets a copy; the tickets that are out are not looked at.
RecipientsEver(d, R) == {d} \cup Members \cup JoinedIn(R) \cup TicketCopies(R) \cup RecoveryCopy(R)
RecipientsWithoutTickets(d, R) == {d} \cup ActiveIn(R) \cup RecoveryCopy(R)
Recipients(d, R) == {d} \cup ActiveIn(R) \cup TicketCopies(R) \cup RecoveryCopy(R)

Readable(places, held) == {n \in places : log[n].under \in held}
Read(d) == Readable(arrived[d], keys[d])

\* The identities a person's device opens copies for; the founder's has the recovery key as well.
OpensFor(p) ==
  {p} \cup {k \in {TicketOf(p)} : p \in Newcomer /\ package[p].kind = "ticket"}
      \cup {k \in {RecoveryKey} : HoldsAuthority(p) /\ RecordsOf(1 .. Len(log), "recoveryKey") # {}}

\* installGrantedKeys: the generations of R with a copy the person's device opens.
GrantedTo(p, R) == {log[n].epoch : n \in {k \in R : log[k].grants \cap OpensFor(p) # {}}}

\* A round of reconcileOnce: install what the readable history grants.
Installed(p, places, held) == held \cup GrantedTo(p, EpochsIn(Readable(places, held)))
\* reconcileOnce: four rounds at most, each reads what the last has made readable.
KeysAfter(p, places, held) ==
  LET Round(h) == Installed(p, places, h)
  IN Round(Round(Round(Round(held))))

\* adoptCurrentEpoch: the last generation, in the order of the history, that the device holds.
Adopted(R, held, now) ==
  LET S == {n \in EpochsIn(R) : log[n].epoch \in held}
  IN IF S = {} THEN now ELSE log[LastOf(log, S)].epoch

\* Mutant: a clock that does not follow what was received.
ClockInOfNothing(R) == 0
\* The logical clock a device has reached with the records R (nextClock gives the next).
ClockIn(R) == IF R = {} THEN 0 ELSE log[LastOf(log, R)].clock

Record(kind, d, who, under, R) ==
  [type |-> kind, author |-> d, who |-> who, under |-> under, clock |-> ClockIn(R) + 1,
   epoch |-> First, grants |-> {}]

Idle == [at |-> "idle"]
NoPackage == [kind |-> "none", keys |-> {}, current |-> First]

Init ==
  /\ setup \in Setups
  /\ log = <<>> /\ finished = {} /\ crashes = 0 /\ unsettled = {}
  /\ arrived = [d \in Device |-> {}]
  /\ keys = [d \in Device |-> IF d \in Members THEN {First} ELSE {}]
  /\ current = [d \in Device |-> First]
  /\ call = [d \in Device |-> Idle]
  /\ package = [p \in Newcomer |-> NoPackage]
  /\ joined = {}
  /\ basis = [e \in Epoch |-> {}]

-----------------------------------------------------------------------------
(* Steps that several calls share. *)

Commit(d, record) ==
  /\ log' = Append(log, record)
  /\ arrived' = [arrived EXCEPT ![d] = @ \cup {Len(log) + 1}]

\* settle: what the device can read by now decides its keys and the one it writes with.
Settle(d, places, held, now) ==
  LET after == KeysAfter(d, places, held)
  IN /\ keys' = [keys EXCEPT ![d] = after]
     /\ current' = [current EXCEPT ![d] = Adopted(Readable(places, after), after, now)]
     /\ unsettled' = unsettled \ {d}

Allowed(d) == Joined(d) /\ d \notin RemovedIn(Read(d))
Begins(d) == Allowed(d) /\ call[d].at = "idle"

-----------------------------------------------------------------------------
(* Removing a person and replacing the key. *)

\* revoke, up to the commit of the revocation.
Remove(d, p) ==
  /\ Begins(d) /\ IsMaster(d) /\ p # d
  /\ p \in ActiveIn(Read(d)) /\ (IsMaster(p) => HoldsAuthority(d))
  /\ RecordsOf(1 .. Len(log), "remove") = {} /\ <<d, p>> \in setup.removals
  /\ Commit(d, Record("remove", d, p, current[d], Read(d)))
  /\ call' = [call EXCEPT ![d] = [at |-> "removed", who |-> p]]
  /\ UNCHANGED <<setup, keys, current, unsettled, package, joined, basis, finished, crashes>>

\* rotateUnitKey, up to the wrapping of the copies: who gets one is decided here.
Wrap(d) ==
  /\ Allowed(d) /\ IsMaster(d)
  /\ call[d].at = "removed" \/ (call[d].at = "idle" /\ d \in setup.byHand)
  /\ \E e \in Epoch \ {First} :
       /\ basis[e] = {} /\ \A f \in First + 1 .. e - 1 : basis[f] # {}
       /\ basis' = [basis EXCEPT ![e] = Read(d) \cup {0}]
       /\ call' = [call EXCEPT ![d] =
            [at |-> "wrapped", epoch |-> e, under |-> current[d], grants |-> Recipients(d, Read(d)),
             who |-> IF call[d].at = "removed" THEN call[d].who ELSE d]]
  /\ UNCHANGED <<setup, log, arrived, keys, current, unsettled, package, joined, finished, crashes>>

\* ... its commit: the announcement is sealed under the generation that was current at the start.
Announce(d) ==
  /\ call[d].at = "wrapped" /\ Allowed(d)
  /\ Commit(d, [Record("rotate", d, d, call[d].under, Read(d))
                  EXCEPT !.epoch = call[d].epoch, !.grants = call[d].grants])
  /\ call' = [call EXCEPT ![d].at = "announced"]
  /\ UNCHANGED <<setup, keys, current, unsettled, package, joined, basis, finished, crashes>>

\* ... installUnitKey, after which revoke settles and a rotation by hand does not.
Install(d) ==
  /\ call[d].at = "announced"
  /\ call' = [call EXCEPT ![d] = Idle]
  /\ LET e == call[d].epoch
         held == keys[d] \cup {e}
     IN \/ /\ call[d].who # d
           /\ Settle(d, arrived[d], held, e)
           /\ finished' = finished \cup {[by |-> d, who |-> call[d].who, epoch |-> e]}
        \/ /\ call[d].who = d
           /\ keys' = [keys EXCEPT ![d] = held]
           /\ current' = [current EXCEPT ![d] = e]
           /\ unsettled' = unsettled \cup {d}
           /\ UNCHANGED finished
  /\ UNCHANGED <<setup, log, arrived, package, joined, basis, crashes>>

-----------------------------------------------------------------------------
(* Tickets and the recovery file: the keys are put in before the unit is told. *)

\* issueTicket and exportRecovery read the keys of the vault.
Pack(d, p, kind) ==
  /\ Begins(d) /\ package[p] = NoPackage
  /\ kind \in setup.packs[d] /\ (kind = "ticket" \/ HoldsAuthority(d))
  /\ package' = [package EXCEPT ![p] = [kind |-> kind, keys |-> keys[d], current |-> current[d]]]
  /\ call' = [call EXCEPT ![d] = [at |-> kind, who |-> p]]
  /\ UNCHANGED <<setup, log, arrived, keys, current, unsettled, joined, basis, finished, crashes>>

\* ... and the unit is told of the ticket, or of the recovery key; only now it is handed over.
Register(d) ==
  /\ call[d].at \in {"ticket", "recoveryKey"} /\ Allowed(d)
  /\ Commit(d, Record(call[d].at, d, call[d].who, current[d], Read(d)))
  /\ call' = [call EXCEPT ![d] = Idle]
  /\ UNCHANGED <<setup, keys, current, unsettled, package, joined, basis, finished, crashes>>

\* The newcomer's device reads what the chain has with the keys it was given, joins by a record
\* sealed under the one that was current, and settles.
Join(p) ==
  \E n \in 1 .. Len(log), S \in SUBSET (1 .. Len(log)) :
    /\ p \notin joined
    /\ n \in S /\ log[n].who = p /\ log[n].type = package[p].kind
    /\ joined' = joined \cup {p}
    /\ log' = Append(log, Record(IF package[p].kind = "ticket" THEN "redeemed" ELSE "introduced", p, p,
                                 package[p].current, Readable(S, package[p].keys)))
    /\ arrived' = [arrived EXCEPT ![p] = S \cup {Len(log) + 1}]
    /\ Settle(p, S, package[p].keys, package[p].current)
    /\ UNCHANGED <<setup, call, package, basis, finished, crashes>>

-----------------------------------------------------------------------------
(* The chain, and the device itself. *)

\* The transport found records of others (onRemoteEnvelopes) or sent the device's own (onPublished).
Sync(d) ==
  \E S \in SUBSET (1 .. Len(log) \ arrived[d]) :
    /\ Joined(d) /\ (S # {} \/ d \in unsettled)
    /\ arrived' = [arrived EXCEPT ![d] = @ \cup S]
    /\ Settle(d, arrived[d] \cup S, keys[d], current[d])
    /\ UNCHANGED <<setup, log, call, package, joined, basis, finished, crashes>>

\* What a call leaves when it ends before its record is committed.
Abandon(d) ==
  /\ call' = [call EXCEPT ![d] = Idle]
  /\ package' = [p \in Newcomer |->
       IF call[d].at \in {"ticket", "recoveryKey"} /\ call[d].who = p THEN NoPackage ELSE package[p]]
  /\ basis' = [e \in Epoch |-> IF call[d].at = "wrapped" /\ call[d].epoch = e THEN {} ELSE basis[e]]

\* The device has learned meanwhile that it was removed: its next commit is refused.
Refused(d) ==
  /\ call[d].at \notin {"idle", "announced"} /\ ~Allowed(d)
  /\ Abandon(d)
  /\ UNCHANGED <<setup, log, arrived, keys, current, unsettled, joined, finished, crashes>>

\* The page ends in the middle of a call; when it opens again the device settles (open).
Crash(d) ==
  /\ call[d].at # "idle" /\ crashes < setup.crashes
  /\ crashes' = crashes + 1
  /\ Abandon(d)
  /\ Settle(d, arrived[d], keys[d], current[d])
  /\ UNCHANGED <<setup, log, arrived, joined, finished>>

Next ==
  \/ \E d \in Device : \/ Wrap(d) \/ Announce(d) \/ Install(d) \/ Register(d)
                       \/ Sync(d) \/ Refused(d) \/ Crash(d)
  \/ \E d \in Device, p \in Person : Remove(d, p)
  \/ \E d \in Device, p \in Newcomer, kind \in {"ticket", "recoveryKey"} : Pack(d, p, kind)
  \/ \E p \in Newcomer \cap Device : Join(p)

Spec == Init /\ [][Next]_vars

-----------------------------------------------------------------------------
(* Properties. *)

Calls ==
  {Idle} \cup [at : {"removed", "ticket", "recoveryKey"}, who : Person]
    \cup [at : {"wrapped", "announced"}, epoch : Epoch \ {First}, under : Epoch,
          grants : SUBSET (Person \cup {TicketOf(p) : p \in Newcomer} \cup {RecoveryKey}), who : Person]

\* The device's vault has the key it writes with, its ledger its own records, and the places
\* that are named exist (types of the variables).
TypeOK ==
  /\ \A n \in 1 .. Len(log) : log[n].author \in Device /\ log[n].under \in keys[log[n].author]
  /\ \A d \in Device :
       /\ arrived[d] \in SUBSET (1 .. Len(log)) /\ keys[d] \in SUBSET Epoch /\ call[d] \in Calls
       /\ Joined(d) => current[d] \in keys[d]
       /\ {n \in 1 .. Len(log) : log[n].author = d} \subseteq arrived[d]

\* The generations a person's device starts with, and those it gets at by means of the keys
\* held, from whatever record, accepted or not.
Given(p) == IF p \in Newcomer THEN package[p].keys ELSE {First}
GetsAt(p, held) == GrantedTo(p, RecordsOf(Readable(1 .. Len(log), held), "rotate"))

\* What a person's device could ever open of the whole history: the least set of generations
\* that holds what it starts with and what it gets at by means of the set.
CouldOpen(p) ==
  {e \in Epoch : \A S \in SUBSET Epoch : Given(p) \cup GetsAt(p, S) \subseteq S => e \in S}

Knew(e) == basis[e] \ {0}

\* Nobody opens a generation whose maker had read of that person's removal, by whatever ticket,
\* copy or chain of generations; only holders of the recovery key, which is made to open them all.
RemovedKeptOut ==
  \A n \in RecordsOf(1 .. Len(log), "rotate") :
    \A p \in RemovedIn(Knew(log[n].epoch)) :
      ~HoldsAuthority(p) => log[n].epoch \notin CouldOpen(p)

\* Once a removal is through, the device that made it writes with a key the removed person has
\* only if another Master made it who had not read of the removal, and it crossed the removal:
\* never with one that was there before.
WritesAwayFromRemoved ==
  \A r \in finished :
    Allowed(r.by) /\ ~HoldsAuthority(r.who) /\ current[r.by] \in CouldOpen(r.who) =>
      /\ current[r.by] \notin {First, r.epoch}
      /\ r.who \notin RemovedIn(Knew(current[r.by]))
      /\ current[r.by] \notin {log[n].epoch : n \in Knew(r.epoch)}

\* A generation crossed a ticket or a recovery file: its maker did not know of it and the package
\* was made before it; or its maker had been removed, and it does not count.
Crossed ==
  \E n \in RecordsOf(1 .. Len(log), "rotate") :
    \/ n \notin Accepted(1 .. Len(log))
    \/ \E k \in 1 .. Len(log) :
         /\ log[k].type \in {"ticket", "recoveryKey"}
         /\ k \notin Knew(log[n].epoch) /\ log[n].epoch \notin package[log[k].who].keys

CaughtUp(d) == arrived[d] = 1 .. Len(log) /\ call[d].at = "idle"

\* When rotations and tickets did not cross, every member that has received everything holds
\* every generation and all of them write with the same one, whatever the order the records came
\* in, whichever Masters rotated at the same time and wherever a rotation was cut off.
UnitSharesOneKey ==
  ~Crossed =>
    \A d \in Device :
      (CaughtUp(d) /\ d \in ActiveIn(1 .. Len(log))) =>
        /\ keys[d] = {First} \cup {log[n].epoch : n \in RecordsOf(1 .. Len(log), "rotate")}
        /\ d \notin unsettled => current[d] = Adopted(1 .. Len(log), keys[d], First)
=============================================================================
