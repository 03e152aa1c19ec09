---------------------------- MODULE UnitReplica ----------------------------
(***************************************************************************)
(* The devices of a unit, each with a replica of the shared history        *)
(* (src/src/distributed/replica.ts) fed by a sync provider                 *)
(* (src/src/unit/syncProvider.ts).                                         *)
(*                                                                         *)
(* A command drafts an event from the projection it read, and commits it   *)
(* later; a sync hands what is queued to the ledger and then pulls what    *)
(* arrived, in two steps: the credentials and revocations of the pulled    *)
(* events take effect before the events are folded.  All of this is        *)
(* memory.  A restart begins with the ledger alone.                        *)
(*                                                                         *)
(* Between the ledgers records travel in any order, each of them once;     *)
(* ChainTransport says how.                                                *)
(***************************************************************************)
EXTENDS ReplicaFold

CONSTANTS
  Holders,     \* devices that hold the authority's signing key
  Founding,    \* the events by which the members joined, as a sequence
  Heard,       \* [Device -> the founding events it starts with]
  Commands,    \* [Device -> types of events its user makes]
  Quantities,  \* bound: quantities they enter
  MaxFaults    \* bound: restarts and failed calls

ASSUME UnitAssumption ==
  /\ Holders \subseteq Device
  /\ Founding \in Seq([author : Device, type : EventTypes, clock : Nat, subject : Device \cup {NoEvent},
                      role : Roles \cup {"NONE"}, old : {NoEvent}, issuer : Device \cup {Authority},
                      quantity : Nat, base : {-1}])
  /\ Len(Founding) <= MaxEvents
  /\ Heard \in [Device -> SUBSET DOMAIN Founding]
  /\ \A d \in Device : \E n \in DOMAIN Founding : Founding[n].author = d
  /\ \A n \in DOMAIN Founding : n \in Heard[Founding[n].author]
  /\ Commands \in [Device -> SUBSET (StockTypes \cup {"AUTHORITY_REVOKED", "ROLE_CHANGED"})]
  /\ Quantities \subseteq Nat \ {0}
  /\ MaxFaults \in Nat

VARIABLES
  log,         \* every event ever signed
  ledger,      \* durable: the records a device holds
  sealed,      \* the credential sealed in with each record
  \* memory of the replica
  known,       \* the events it stored
  projection,  \* what the screens show
  lastKey,     \* lastAppliedKey, as the event it belongs to
  outbox,      \* own events that the ledger does not have yet
  failed,      \* those of them whose hand-over failed
  draft,       \* the event a command is about to commit, or NoEvent
  command,     \* [event, waits]: the command that waits for its sync, or opening
  acknowledged, \* events whose command returned without an error
  unsaved,     \* events whose command returned with an error: not handed over
  \* memory of the sync and its provider
  phase,       \* of runSync: idle, publish, pull or receive
  batch,       \* publish: what is left of the outbox as the sync read it
  backlog,     \* records to pull, oldest first
  pulled,      \* receive: the events of this pull
  auth,        \* [creds, revs, waitingCreds, waitingRevs]
  own,         \* the credential this device seals in, durable
  removed,     \* devices that saw their own removal
  faults

replicaVars == <<known, projection, lastKey>>
syncVars == <<phase, batch, backlog, pulled>>
commandVars == <<draft, command, acknowledged, unsaved>>
vars == <<log, ledger, sealed, replicaVars, outbox, failed, commandVars, syncVars,
          auth, own, removed, faults>>

-----------------------------------------------------------------------------
(* The sync provider's view of authority.                                  *)

Without(seq, n) == RemoveFirst(seq, n)

MayAccept(a, c) == CanAcceptCredential(log, a.creds, a.revs, c)
MayRevoke(a, r) == CanAcceptRevocation(log, a.creds, a.revs, r)
Accept(a, c) == [a EXCEPT !.creds = @ \cup {c}]
Revoke(a, r) == [a EXCEPT !.revs = SetRevocation(log, @, r), !.accepted = @ \cup {r}]

\* What is refused now waits for its issuer, or for the credential it revokes.
AcceptCredential(a, c) ==
  CASE c \in a.creds -> a
    [] c \notin a.creds /\ MayAccept(a, c) -> Accept(a, c)
    [] OTHER -> [a EXCEPT !.waitingCreds = IF c \in ToSet(@) THEN @ ELSE Append(@, c)]
AcceptRevocation(a, r) ==
  CASE r \in a.accepted -> a
    [] r \notin a.accepted /\ MayRevoke(a, r) -> Revoke(a, r)
    [] OTHER -> [a EXCEPT !.waitingRevs = IF r \in ToSet(@) THEN @ ELSE Append(@, r)]

\* One event of a pull: what its envelope carries, then what it says itself.
AcceptEvent(a, n) ==
  LET e == log[n]
      carried == IF IsDirect(log[sealed[n]]) THEN AcceptCredential(a, sealed[n]) ELSE a
      brought == IF BringsCredential(e) THEN AcceptCredential(carried, n) ELSE carried
  IN  IF BringsRevocation(e) THEN AcceptRevocation(brought, n) ELSE brought

\* retryPendingCredentials: passes over both lists, as long as one helps.
RetryCredential(a, c) ==
  IF MayAccept(a, c) THEN [Accept(a, c) EXCEPT !.waitingCreds = Without(@, c)] ELSE a
RetryRevocation(a, r) ==
  IF MayRevoke(a, r) THEN [Revoke(a, r) EXCEPT !.waitingRevs = Without(@, r)] ELSE a
RetryPass(a) ==
  FoldLeft(RetryRevocation, FoldLeft(RetryCredential, a, a.waitingCreds), a.waitingRevs)
RetryPending(a) ==
  FoldLeft(LAMBDA b, i : RetryPass(b), a,
           [i \in 1..(Len(a.waitingCreds) + Len(a.waitingRevs)) |-> i])

NoAuthority == [creds |-> {}, revs |-> [c \in Event |-> NoEvent], accepted |-> {},
                waitingCreds |-> <<>>, waitingRevs |-> <<>>]

AcceptAll(a, events) == RetryPending(FoldLeft(AcceptEvent, a, events))

-----------------------------------------------------------------------------
\* IndexedDB returns records by event ID: the author's tag, then the rest.
ById(S) ==
  LET Earlier(m, n) == \/ log[m].author < log[n].author
                       \/ log[m].author = log[n].author /\ m < n
  IN  [i \in 1..Cardinality(S) |->
        CHOOSE n \in S : Cardinality({m \in S : Earlier(m, n)}) = i - 1]

Folded(d, S) == Rebuild(log, auth[d].creds, auth[d].revs, S)

\* The founding event by which a device joined.
Joining(d) == Min({n \in DOMAIN Founding : Founding[n].author = d})

Init ==
  /\ log = Founding
  /\ ledger = Heard
  /\ sealed = [n \in Event |-> IF n \in DOMAIN Founding THEN Joining(Founding[n].author) ELSE NoEvent]
  /\ known = Heard
  /\ auth = [d \in Device |-> AcceptAll(NoAuthority, ById(Heard[d]))]
  /\ projection = [d \in Device |-> Folded(d, Heard[d])]
  /\ lastKey = [d \in Device |-> LastOf(log, Heard[d])]
  /\ outbox = [d \in Device |-> {}]
  /\ failed = [d \in Device |-> {}]
  /\ draft = [d \in Device |-> NoEvent]
  /\ command = [d \in Device |-> [event |-> NoEvent, waits |-> "none"]]
  /\ acknowledged = {} /\ unsaved = {}
  /\ phase = [d \in Device |-> "idle"]
  /\ batch = [d \in Device |-> {}]
  /\ backlog = [d \in Device |-> <<>>]
  /\ pulled = [d \in Device |-> {}]
  /\ own = [d \in Device |-> Joining(d)]
  /\ removed = {}
  /\ faults = 0

Now == Len(log) + 1

-----------------------------------------------------------------------------
(* The fold, on arrival.                                                   *)

\* integrate: on top of what is there when the events only extend it and no
\* earlier judgement can change, from the beginning otherwise.
ExtendsUnlessEarlier(d, fresh) ==
  /\ \A n \in fresh : log[n].type \notin {"AUTHORITY_REVOKED", "ROLE_CHANGED"}
  /\ lastKey[d] # NoEvent => Before(log, lastKey[d], FirstOf(log, fresh))
ExtendsUnlessRejected(d, fresh) ==
  /\ projection[d].rejected = {}
  /\ \A n \in fresh : log[n].type \notin {"AUTHORITY_REVOKED", "ROLE_CHANGED"}
ExtendsHistory(d, fresh) ==
  /\ projection[d].rejected = {}
  /\ \A n \in fresh : log[n].type \notin {"AUTHORITY_REVOKED", "ROLE_CHANGED"}
  /\ lastKey[d] # NoEvent => Before(log, lastKey[d], FirstOf(log, fresh))

Integrated(d, fresh) ==
  LET all == known[d] \cup fresh IN
  IF ExtendsHistory(d, fresh)
  THEN FoldFrom(log, auth[d].creds, auth[d].revs, all, projection[d], fresh)
  ELSE Folded(d, all)

Store(d, fresh) ==
  /\ known' = [known EXCEPT ![d] = @ \cup fresh]
  /\ projection' = [projection EXCEPT ![d] = Integrated(d, fresh)]
  /\ lastKey' = [lastKey EXCEPT ![d] =
       IF fresh = {} THEN @ ELSE LastOf(log, IF ExtendsHistory(d, fresh) THEN fresh ELSE known[d] \cup fresh)]

-----------------------------------------------------------------------------
(* Commands of the user of device d.                                       *)

\* signed: the clock and the version are read now, the commit comes later.
Drafted(d, type, subject, role, old, issuer, quantity) ==
  [type |-> type, author |-> d, clock |-> projection[d].clock + 1, subject |-> subject,
   role |-> role, old |-> old, issuer |-> issuer, quantity |-> quantity,
   base |-> IF type \in {"ITEM_ISSUED", "INVENTORY_COUNT_SUBMITTED"} THEN projection[d].version ELSE -1]

MayDraft(d, type) ==
  /\ type \in Commands[d]
  /\ Len(log) < MaxEvents
  /\ draft[d] = NoEvent /\ command[d].waits = "none"

DraftStock(d, type, quantity) ==
  /\ MayDraft(d, type)
  /\ type \in StockTypes
  /\ type = "ITEM_ISSUED" => quantity <= projection[d].onHand
  /\ Allowed(log, auth[d].creds, auth[d].revs, d, type, Now)
  /\ log' = Append(log, Drafted(d, type, NoEvent, "NONE", NoEvent, d, quantity))
  /\ draft' = [draft EXCEPT ![d] = Now]
  /\ UNCHANGED <<ledger, sealed, replicaVars, outbox, failed, command, acknowledged, unsaved,
                 syncVars, auth, own, removed, faults>>

\* The administration screens of a Master: the revocation is signed by the
\* authority where the device holds it, and takes effect in memory at once,
\* before the command is authorized and its event committed.
Signer(d) == IF d \in Holders THEN Authority ELSE d
MayManage(d, subject) ==
  /\ log[own[d]].role = "MASTER" /\ d \notin removed
  /\ subject # d /\ projection[d].members[subject].status = "ACTIVE"

Administer(d, event, accepted) ==
  /\ log' = Append(log, event)
  /\ auth' = [auth EXCEPT ![d] = accepted]
  /\ draft' = [draft EXCEPT ![d] =
       IF Allowed(log', accepted.creds, accepted.revs, d, event.type, Now) THEN Now ELSE NoEvent]
  /\ UNCHANGED <<ledger, sealed, replicaVars, outbox, failed, command, acknowledged, unsaved,
                 syncVars, own, removed, faults>>

DraftRevocation(d, subject) ==
  LET member == projection[d].members[subject]
      event == Drafted(d, "AUTHORITY_REVOKED", subject, "NONE", member.credential, Signer(d), 0)
      extended == Append(log, event)
  IN
  /\ MayDraft(d, "AUTHORITY_REVOKED")
  /\ MayManage(d, subject)
  /\ member.role = "MASTER" => d \in Holders
  /\ CanAcceptRevocation(extended, auth[d].creds, auth[d].revs, Now)
  /\ Administer(d, event, [auth[d] EXCEPT !.revs = SetRevocation(extended, @, Now)])

DraftRoleChange(d, subject, role) ==
  LET member == projection[d].members[subject]
      event == Drafted(d, "ROLE_CHANGED", subject, role, member.credential, Signer(d), 0)
      extended == Append(log, event)
      creds == auth[d].creds \cup {Now}
  IN
  /\ MayDraft(d, "ROLE_CHANGED")
  /\ MayManage(d, subject)
  /\ role # member.role
  /\ "MASTER" \in {role, member.role} => d \in Holders
  /\ CanAcceptCredential(extended, auth[d].creds, auth[d].revs, Now)
  /\ CanAcceptRevocation(extended, creds, auth[d].revs, Now)
  /\ Administer(d, event, [auth[d] EXCEPT !.creds = creds, !.revs = SetRevocation(extended, @, Now)])

\* The moment from which the sync that a command waits for has read its event:
\* one in flight has read the outbox before.
JoinAnySync(d) == IF phase[d] = "idle" THEN "due" ELSE "joined"
NextSync(d) == IF phase[d] = "idle" THEN "due" ELSE "behind"

\* persistLocal: an event that the fold rejects is refused, the rest is stored
\* and queued; then the command waits for a sync.
Commit(d) ==
  LET n == draft[d] IN
  /\ n # NoEvent
  /\ draft' = [draft EXCEPT ![d] = NoEvent]
  /\ IF n \in Integrated(d, {n}).rejected
     THEN UNCHANGED <<replicaVars, outbox, command>>
     ELSE /\ Store(d, {n})
          /\ outbox' = [outbox EXCEPT ![d] = @ \cup {n}]
          /\ command' = [command EXCEPT ![d] = [event |-> n, waits |-> NextSync(d)]]
  /\ UNCHANGED <<log, ledger, sealed, failed, acknowledged, unsaved, syncVars, auth, own, removed, faults>>

\* The same command given again, as after an error: the event is found among
\* those that the device knows, and is the answer; there is no sync to wait for.
Again(d, n) ==
  /\ draft[d] = NoEvent /\ command[d].waits = "none"
  /\ Allowed(log, auth[d].creds, auth[d].revs, d, "ITEM_ISSUED", Now)
  /\ n \in known[d] /\ log[n].author = d /\ log[n].type = "ITEM_ISSUED"
  /\ acknowledged' = acknowledged \cup {n}
  /\ UNCHANGED <<log, ledger, sealed, replicaVars, outbox, failed, draft, command, unsaved,
                 syncVars, auth, own, removed, faults>>

-----------------------------------------------------------------------------
(* runSync.                                                                *)

StartSync(d) ==
  /\ phase[d] = "idle"
  /\ outbox[d] # {} \/ backlog[d] # <<>>
  /\ phase' = [phase EXCEPT ![d] = "publish"]
  /\ batch' = [batch EXCEPT ![d] = outbox[d]]
  /\ command' = [command EXCEPT ![d].waits = IF @ = "due" THEN "joined" ELSE @]
  /\ UNCHANGED <<log, ledger, sealed, replicaVars, outbox, failed, draft, acknowledged, unsaved,
                 backlog, pulled, auth, own, removed, faults>>

Oldest(S, n) == \A m \in S : n <= m

\* publish: sealed with the credential of this moment, then in the ledger.
Publish(d) ==
  /\ phase[d] = "publish"
  /\ \E n \in batch[d] :
       /\ Oldest(batch[d], n)
       /\ batch' = [batch EXCEPT ![d] = @ \ {n}]
       /\ sealed' = [sealed EXCEPT ![n] = own[d]]
       /\ ledger' = [ledger EXCEPT ![d] = @ \cup {n}]
       /\ outbox' = [outbox EXCEPT ![d] = @ \ {n}]
       /\ failed' = [failed EXCEPT ![d] = @ \ {n}]
  /\ UNCHANGED <<log, replicaVars, commandVars, phase, backlog, pulled, auth, own, removed, faults>>

PublishFailsForGood(d) ==
  /\ faults < MaxFaults
  /\ phase[d] = "publish"
  /\ \E n \in batch[d] :
       /\ Oldest(batch[d], n)
       /\ batch' = [batch EXCEPT ![d] = @ \ {n}]
       /\ outbox' = [outbox EXCEPT ![d] = @ \ {n}]
  /\ faults' = faults + 1
  /\ UNCHANGED <<log, ledger, sealed, replicaVars, failed, commandVars, phase, backlog,
                 pulled, auth, own, removed>>
PublishFails(d) ==
  /\ faults < MaxFaults
  /\ phase[d] = "publish"
  /\ \E n \in batch[d] :
       /\ Oldest(batch[d], n)
       /\ batch' = [batch EXCEPT ![d] = @ \ {n}]
       /\ failed' = [failed EXCEPT ![d] = @ \cup {n}]
  /\ faults' = faults + 1
  /\ UNCHANGED <<log, ledger, sealed, replicaVars, outbox, commandVars, phase, backlog,
                 pulled, auth, own, removed>>

\* The end of a sync: a command that waited for it returns, without an error
\* unless its own record failed; one that waited for it to get out of the way
\* is due.  The first sync after a restart opens the screens.
EndSync(d) ==
  LET c == command[d] IN
  /\ phase' = [phase EXCEPT ![d] = "idle"]
  /\ command' = [command EXCEPT ![d] =
       CASE c.waits \in {"joined", "opening"} -> [event |-> NoEvent, waits |-> "none"]
         [] c.waits = "behind" -> [c EXCEPT !.waits = "due"]
         [] OTHER -> c]
  /\ acknowledged' = IF c.waits = "joined" /\ c.event \notin failed[d]
                     THEN acknowledged \cup {c.event}
                     ELSE acknowledged
  /\ unsaved' = IF c.waits = "joined" /\ c.event \in failed[d]
                THEN unsaved \cup {c.event}
                ELSE unsaved

\* pull: credentials and revocations of everything that arrived take effect.  A
\* record that the ledger does not have is passed over.
Pull(d) ==
  /\ phase[d] = "publish" /\ batch[d] = {}
  /\ auth' = [auth EXCEPT ![d] = AcceptAll(@, backlog[d])]
  /\ pulled' = [pulled EXCEPT ![d] = ToSet(backlog[d]) \cap ledger[d]]
  /\ backlog' = [backlog EXCEPT ![d] = <<>>]
  /\ IF backlog[d] = <<>>
     THEN EndSync(d)
     ELSE phase' = [phase EXCEPT ![d] = "receive"] /\ UNCHANGED <<command, acknowledged, unsaved>>
  /\ UNCHANGED <<log, ledger, sealed, replicaVars, outbox, failed, draft, batch, own, removed, faults>>

\* receiveMany: what is not known yet is folded.
Receive(d) ==
  /\ phase[d] = "receive"
  /\ IF pulled[d] \subseteq known[d] THEN UNCHANGED replicaVars ELSE Store(d, pulled[d] \ known[d])
  /\ pulled' = [pulled EXCEPT ![d] = {}]
  /\ EndSync(d)
  /\ UNCHANGED <<log, ledger, sealed, outbox, failed, draft, batch, backlog, auth, own, removed, faults>>

\* A failed fold hands the records back; their credentials stay accepted.
ReceiveFailsForgotten(d) ==
  /\ faults < MaxFaults
  /\ phase[d] = "receive"
  /\ pulled' = [pulled EXCEPT ![d] = {}]
  /\ EndSync(d)
  /\ faults' = faults + 1
  /\ UNCHANGED <<log, ledger, sealed, replicaVars, outbox, failed, draft, batch, backlog, auth, own, removed>>
ReceiveFails(d) ==
  /\ faults < MaxFaults
  /\ phase[d] = "receive"
  /\ backlog' = [backlog EXCEPT ![d] = @ \o ById(pulled[d])]
  /\ pulled' = [pulled EXCEPT ![d] = {}]
  /\ EndSync(d)
  /\ faults' = faults + 1
  /\ UNCHANGED <<log, ledger, sealed, replicaVars, outbox, failed, draft, batch, auth, own, removed>>

-----------------------------------------------------------------------------
(* Around the sync.                                                        *)

\* adoptOwnCredential: after a projection, the device seals in the credential
\* it was given last, or learns that it was removed.
AdoptOwnCredential(d) ==
  LET me == projection[d].members[d]
      adopts == me.status = "ACTIVE" /\ me.credential \in auth[d].creds
  IN
  /\ own' = [own EXCEPT ![d] = IF adopts THEN me.credential ELSE @]
  /\ removed' = IF me.status = "REVOKED" THEN removed \cup {d}
                ELSE IF me.status = "ACTIVE" THEN removed \ {d} ELSE removed
  /\ <<own', removed'>> # <<own, removed>>
  /\ UNCHANGED <<log, ledger, sealed, replicaVars, outbox, failed, commandVars, syncVars, auth, faults>>

\* A scan stores a record of another device and enqueues it.
Arrive(d, n) ==
  /\ \E sender \in Device \ {d} : n \in ledger[sender]
  /\ n \notin ledger[d]
  /\ ledger' = [ledger EXCEPT ![d] = @ \cup {n}]
  /\ backlog' = [backlog EXCEPT ![d] = Append(@, n)]
  /\ UNCHANGED <<log, sealed, replicaVars, outbox, failed, commandVars, phase, batch, pulled,
                 auth, own, removed, faults>>

\* The page ends and opens again: prime, and the device's own credential, which
\* a ticket credential has to wait for.  There are no commands before the first
\* sync has ended.
Restart(d) ==
  /\ faults < MaxFaults
  /\ faults' = faults + 1
  /\ known' = [known EXCEPT ![d] = {}]
  /\ projection' = [projection EXCEPT ![d] = Genesis]
  /\ lastKey' = [lastKey EXCEPT ![d] = NoEvent]
  /\ outbox' = [outbox EXCEPT ![d] = {}]
  /\ failed' = [failed EXCEPT ![d] = {}]
  /\ draft' = [draft EXCEPT ![d] = NoEvent]
  /\ command' = [command EXCEPT ![d] = [event |-> NoEvent, waits |-> "opening"]]
  /\ phase' = [phase EXCEPT ![d] = "idle"]
  /\ batch' = [batch EXCEPT ![d] = {}]
  /\ backlog' = [backlog EXCEPT ![d] = ById(ledger[d])]
  /\ pulled' = [pulled EXCEPT ![d] = {}]
  /\ auth' = [auth EXCEPT ![d] =
       IF IsDirect(log[own[d]]) THEN AcceptCredential(NoAuthority, own[d]) ELSE NoAuthority]
  /\ removed' = removed \ {d}
  /\ UNCHANGED <<log, ledger, sealed, acknowledged, unsaved, own>>

Next ==
  \E d \in Device :
    \/ \E type \in StockTypes, quantity \in Quantities : DraftStock(d, type, quantity)
    \/ \E subject \in Device : DraftRevocation(d, subject)
    \/ \E subject \in Device, role \in Roles : DraftRoleChange(d, subject, role)
    \/ Commit(d)
    \/ \E n \in DOMAIN log : Again(d, n)
    \/ StartSync(d) \/ Publish(d) \/ Pull(d) \/ Receive(d)
    \/ PublishFails(d) \/ ReceiveFails(d)
    \/ AdoptOwnCredential(d)
    \/ \E n \in DOMAIN log : Arrive(d, n)
    \/ Restart(d)

Spec == Init /\ [][Next]_vars

\* A command goes on to its commit, the five-second poll and the transport's
\* scans go on, and the calls of a sync return.  Nothing is assumed of the users
\* and of the faults.
SyncStep(d) == StartSync(d) \/ Publish(d) \/ Pull(d) \/ Receive(d)
Arrival(d) == \E n \in DOMAIN log : Arrive(d, n)
Fairness ==
  \A d \in Device : WF_vars(Commit(d)) /\ WF_vars(SyncStep(d)) /\ WF_vars(Arrival(d))

FairSpec == Spec /\ Fairness

-----------------------------------------------------------------------------
(* Properties.                                                             *)

TypeOK ==
  /\ Len(log) <= MaxEvents
  /\ \A d \in Device :
       /\ ledger[d] \cup known[d] \cup outbox[d] \cup batch[d] \subseteq DOMAIN log
       /\ failed[d] \subseteq outbox[d] /\ batch[d] \subseteq outbox[d]
       /\ pulled[d] \cup ToSet(backlog[d]) \subseteq ledger[d]
       /\ draft[d] \in DOMAIN log \cup {NoEvent}
       /\ phase[d] \in {"idle", "publish", "receive"}
       /\ command[d].waits \in {"none", "due", "behind", "joined", "opening"}
       /\ command[d].event = NoEvent <=> command[d].waits \in {"none", "opening"}
       /\ projection[d].onHand \in Nat
  /\ acknowledged \cup unsaved \subseteq DOMAIN log
  /\ faults \in 0..MaxFaults

\* Nothing is on the way inside this device.
Settled(d) ==
  /\ phase[d] = "idle" /\ draft[d] = NoEvent /\ backlog[d] = <<>>

\* What the screens show is the fold of everything the device knows, under the
\* authorizations it holds now: no order of arrivals, credentials, failures or
\* restarts leaves a judgement in it that a fold from the beginning would not
\* make (the convergence rule above class ArgusReplica).
ProjectionIsFold ==
  \A d \in Device : Settled(d) => projection[d] = Folded(d, known[d])

\* The convergence rule (replica.ts:93-94): "two devices holding the same events
\* always show the same numbers".  Of two revocations of one credential the one
\* that a device accepted last counts there (authorization.ts:164), so that two
\* Masters who remove the same person break it.
DevicesConverge ==
  \A d, e \in Device :
    Settled(d) /\ Settled(e) /\ known[d] = known[e] => projection[d] = projection[e]

\* The removals and changes of role are all the work of one Master.
OneAdministers ==
  \A m, n \in DOMAIN log :
    BringsRevocation(log[m]) /\ BringsRevocation(log[n]) => log[m].author = log[n].author

\* What there is of the rule: while one Master administers the unit, two devices
\* with the same events show the same, in whatever order they heard of them.
SameEventsSameProjection == OneAdministers => DevicesConverge

\* A command that was answered without an error has its event in the durable
\* ledger, so that a restart loses nothing that was acknowledged
\* (syncAfterCommit), unless it had been answered with an error before: given
\* again, it is answered from memory (replica.ts:217).
AcknowledgedIsDurable ==
  \A n \in acknowledged \ unsaved : n \in ledger[log[n].author]

\* What a device may not lose either: an event it shows is in its ledger or
\* waits in its outbox.
ShownIsKept ==
  \A d \in Device : known[d] \subseteq ledger[d] \cup outbox[d]

\* In the end every device knows every event that any ledger holds, nothing of
\* its own is left unpublished, and all show the same: through failed hand-overs,
\* failed folds and restarts (requeue, prime, the retry of the outbox).
UnitAgrees ==
  LET published == UNION {ledger[d] : d \in Device} IN
  \A d \in Device :
    /\ known[d] = published /\ outbox[d] = {}
    /\ \A e \in Device : projection[d] = projection[e]
UnitConverges == <>[]UnitAgrees

\* Outboxes, syncs, failures and restarts implement the promise of SharedHistory:
\* every step signs an event, moves one into a ledger from its author or from a
\* ledger that holds it, answers a command with an error, answers one as done
\* whose event is held or that had an error before, or changes nothing of this
\* (persistLocal, runSync, syncAfterCommit, a command given again, the
\* transport's scans).
History == INSTANCE SharedHistory
  WITH held <- ledger, answered <- acknowledged, refused <- unsaved
HistoryRefined == History!Spec

-----------------------------------------------------------------------------
(* Why no acknowledged event and no event shown can be lost: the inductive *)
(* invariant behind AcknowledgedIsDurable and ShownIsKept.                 *)

\* log is a sequence, and nothing refers beyond it.
LogShape == Len(log) \in Nat /\ log = [n \in 1..Len(log) |-> log[n]]

MemoryShape ==
  LET Events == 1..Len(log) IN
  /\ ledger \in [Device -> SUBSET Events] /\ known \in [Device -> SUBSET Events]
  /\ outbox \in [Device -> SUBSET Events] /\ failed \in [Device -> SUBSET Events]
  /\ batch \in [Device -> SUBSET Events] /\ pulled \in [Device -> SUBSET Events]
  /\ draft \in [Device -> Events \cup {NoEvent}]
  /\ command \in [Device -> [event : Events \cup {NoEvent},
                             waits : {"none", "due", "behind", "joined", "opening"}]]
  /\ phase \in [Device -> {"idle", "publish", "receive"}]
  /\ acknowledged \subseteq Events /\ unsaved \subseteq Events

\* A sync works on part of the outbox, and folds what the ledger holds.
SyncHolds ==
  \A d \in Device :
    /\ batch[d] \subseteq outbox[d]
    /\ phase[d] # "publish" => batch[d] = {}
    /\ pulled[d] \subseteq ledger[d]

\* A command that waits for the next sync is in no batch, and one that waits for
\* this one is still in it, in the ledger or among the failed.
CommandHolds ==
  \A d \in Device :
    LET c == command[d] IN
    /\ draft[d] # NoEvent => log[draft[d]].author = d /\ draft[d] \notin outbox[d]
    /\ c.waits \in {"due", "behind", "joined"} => c.event # NoEvent /\ log[c.event].author = d
    /\ c.waits = "due" => phase[d] = "idle" /\ c.event \in outbox[d]
    /\ c.waits = "behind" => phase[d] # "idle" /\ c.event \in outbox[d] \ batch[d]
    /\ c.waits = "joined" => c.event \in batch[d] \cup ledger[d] \cup failed[d]

AcknowledgedByMember == \A n \in acknowledged : log[n].author \in Device

\* An own event that a device knows is in its ledger, or its command still waits,
\* or has returned with an error.
OwnHolds ==
  \A d \in Device :
    /\ draft[d] # NoEvent => command[d].event = NoEvent
    /\ command[d].waits \in {"none", "opening"} => command[d].event = NoEvent
    /\ \A n \in known[d] :
         log[n].author = d => n \in ledger[d] \cup unsaved \cup {command[d].event}

IInv ==
  /\ LogShape /\ MemoryShape /\ SyncHolds /\ CommandHolds /\ OwnHolds
  /\ AcknowledgedByMember /\ AcknowledgedIsDurable /\ ShownIsKept
=============================================================================
