# A.R.G.U.S. supply counter: the formal model

A.R.G.U.S. keeps the supply records of a cadet unit on the devices of its
staff, with no server. Every change is a signed event. A device seals the event
in an encrypted envelope, keeps it in its ledger, and publishes it in a
transaction on the BSV testnet that pays the unit's anchor address. Every other
device walks the history of that address, stores the envelopes it finds, opens
them and folds the events into one projection of stock, holdings, counts,
calendar and members.

This directory holds TLA+ modules of the parts that are hard to test, the TLC
configurations that check them on small instances, and proofs for every
instance. Paths below are relative to `src/src/` unless they begin with `docs/`
(in `src/docs/`). `PROJECT.json` maps every definition to the lines it
translates and lists the hazards, each with the properties that watch it.

## Inventory

| Part | Source | State | Operations | Talks to |
|---|---|---|---|---|
| Device wallet | `chain/wallet.ts`, `chain/utxo.ts` | coins with their spender, pending and recent transactions, raised fee rate; suspects in memory | prepare, prepareSpendOfOutpoint, refresh, flush | network, wallet store |
| Chain transport | `unit/transport.ts` | scans that missed a broadcast; everything else is local to a tick | tick = publishOnce + scanOnce | ledger, wallet, network, runtime |
| Ledger store | `unit/ledgerStore.ts` | envelopes with status, transactions seen, cursor | add, update, mark seen, alternates | transport, sync provider |
| Sync provider | `unit/syncProvider.ts` | backlog, delivered, credentials and revocations that wait for their issuer | publish, pull, prime, offerCredential | ledger, authorization, replica |
| Replica | `distributed/replica.ts` | the events known, the projection, conflicts, rejected events | commands, integrate, refold | repository, provider |
| Repository | `storage/repository.ts` | events, outbox, projection; one commit for all | commit, integrity check | replica |
| Authorization | `auth/authorization.ts` | credentials, revocations | accept, authorize | replica, provider |
| Cadet publisher | `unit/cadetPublisher.ts` | queue of cadets, notices and where they went in storage; generations and the running drain in memory | note, drain, publishMany | wallet, replica |
| Tickets | `unit/ticketRedemption.ts`, `unit/cadetTicket.ts`, `unit/runtime.ts` | the ticket's funding output, its spend, the pending admission | issue, cancel, redeem, resume | wallet, network, ledger |
| Runtime and vault | `unit/runtime.ts`, `unit/vault.ts` | role, credential, unit keys by generation, one encrypted record | open, reconcile, rotate, remove, admit | all of them |
| Supply rules | `stage3/*` | none: functions of the projection | requirements, readiness, inventory status | screens |
| Notifications | `notifications/*`, `src/public/sw.js` | what was shown and looked at; the worker's summary and reminders | evaluate, markOpened, check | screens, browser |
| Screens, cadet app | `features/*`, `cadet/*` | forms and views | | replica |

What is hard: one wallet is shared by the transport, the cadet publisher and
the ticket commands, whose flushes interleave; wallet and ledger are two stores
with no common commit, and the page may end between them; the network answers
late, ambiguously or not at all, its index lags, and it may lose what it
accepted; events reach each device in an order of their own, before their
causes or before the credential that makes them valid; calls that await a store
or the network go on with what they read before.

What makes each part correct:

- wallet: no coin is spent twice by waiting transactions; a withdrawal undoes
  exactly what depended on it; what the network holds is never withdrawn;
  nothing waits for ever;
- transport and ledger: a record waits in one transaction, the scan skips
  nothing, and every record arrives;
- replica: the projection is a function of the set of events, nothing
  acknowledged or shown is lost;
- supply: units are conserved, needs and issues never count one unit twice, a
  finalized count stands, an edit never replaces what its user had not seen;
- cadet publisher: what was noted is published to the cadet's channel, a notice
  reaches each channel and none twice, a phone shows the newest record;
- tickets: the network's first spend decides, one redemption per ticket, the
  same transaction after every restart, true refusals;
- keys: a removed person opens nothing that was made in knowledge of the
  removal, and the unit ends up with one key;
- notifications: limits hold across restarts, what is over is withdrawn.

## Modules

| Module | Models |
|---|---|
| `DeviceWallet` | the coin book of one device, against a network that may refuse, lag, lose and stay silent |
| `DeviceWalletProofs` | its inductive invariant and its safety properties, the one pass of a rollback included, proved |
| `ChainTransport` | one device's ledger, transport and wallet queue, another device, and the network |
| `ChainTransportProofs` | that nothing is skipped and a record waits once, proved |
| `EventOrder` | the one order in which every device folds |
| `ReplicaFold` | what a device computes from the events it knows: who was authorized, and the projection of stock and members |
| `UnitReplica` | the devices of a unit, each with a replica, a sync provider and a ledger, and the records between them |
| `UnitReplicaProofs` | that nothing acknowledged or shown is lost, that `UnitReplica` implements `SharedHistory`, its types, and, while nobody is removed and no role changes, that projections are the fold of what is known and agree, proved |
| `SharedHistory` | what the devices promise about their history, abstractly |
| `SupplyFold`, `RecordFold`, `CountFold`, `CalendarFold` | the fold of supply transactions, amendments, shared counts and the calendar |
| `SupplyRules` | what the screens work out from a projection |
| `UnitRecords` | officers who give those commands apart from each other |
| `UnitRecordsProofs` | that what they sign is never set aside, overwrites nothing unseen, warns of what moved and counts no unit for two needs, proved |
| `CadetPublisher` | the channels of the cadets: queues, drains, notices, phones |
| `CadetPublisherProofs` | that nothing is forgotten and phones are current, but for a channel replaced under a waiting record, and that notices go everywhere, with one copy among those a run has heard of, proved |
| `TicketProtocol` | tickets: the issuer, the phones, the funding output |
| `TicketProtocolProofs` | its safety properties, proved |
| `UnitKeys` | the generations of the unit's key, tickets and recovery files that carry them, removals |
| `UnitKeysProofs` | what replacing the key achieves, proved |
| `DeviceNotices` | the notifications of a device: policy, notifier, service worker |
| `DeviceNoticesProofs` | its properties, proved |
| `DeviceVault` | the vault's record and its overlapping writers |
| `MC...` | the instances TLC checks |

How they compose. `UnitReplica` extends `ReplicaFold`, `UnitRecords` extends
`SupplyRules`, which stands on `RecordFold`, `CountFold` and `CalendarFold`, and
those on `SupplyFold`; both use `EventOrder`. `SharedHistory` is instantiated by
`UnitReplica`. The others meet at their interfaces: what `DeviceWallet`
guarantees of a flush is what `ChainTransport`, `CadetPublisher` and
`TicketProtocol` assume of it (`Settles`, `Offer`); what `ChainTransport` shows of
scans is `Arrive` of `UnitReplica`; what `UnitReplica` shows of projections lets
`UnitRecords`, `UnitKeys` and `CadetPublisher` take a device as a set of events.

### DeviceWallet

`coin[o]` is the book: `Absent`, `Free`, or the transaction that spends the coin
(`spentBy`). A transaction has at most one output to its own wallet, the change,
so the number of a transaction also names that coin. `pending`, `recent` and
`feeRate` are the fields of `WalletState`; `built`, `inputs`, `ticketOf`, `feeOf`
and `withChange` describe the signed bytes. All of these are durable: `commit`
saves before memory changes, and operations run one at a time (`exclusive`), so
between steps store and memory agree. `suspects` and the variables of the
running flush are memory and vanish in `Crash`.

A flush is a sequence of steps, because the answer of the network and the commit
that records it are two moments: `StartFlush` takes the snapshot, `Broadcast`
hands over the oldest transaction and gets the answer, one of `SettleAccepted`,
`SettleAmbiguous` and `SettleRefused` commits it, `WalkDone` and `EndFlush` end
the walk, with the one refresh that follows a conflict. `SaveFails` is the failed
commit. `Refresh` and `DropMismatched` are the reconciliation with the index and
the removal of coins whose source does not match. `ForwardPass` is the loop of
`rollBack` as it is written; `Doomed` is the least closed set it is meant to
compute, and `OnePassIsTransitive` compares them.

Left out: amounts. A prepare may select any set of free coins and may or may not
make change. This allows more selections than the code makes, and no property
is about sums.

### ChainTransport

`status` and `txid` are the fields of a `StoredEnvelope` of our own, `stored` the
envelopes of others, `seen` and `cursor` the other two stores of the ledger.
`waiting`, `accepted` and `carries` are the wallet as the transport sees it:
`pending()`, `ownTxHex()` and `correlationIds`. `chain` says where the network has
a transaction. `pc` is the next store, wallet or network call of the tick, and
the variables `pendingTxs`, `todo`, `queue`, `flushed`, `items`, `current`,
`highest` and `discovered` are its local variables: they survive the steps of other
actors, which is where stale reads come from, and are gone after `TickFails` or
`Crash`. A loop of updates is one step per transaction. `RecordMined` joins two
writes, the second of which only makes the next scan repeat the first.

`Settles` is what `DeviceWallet` guarantees of a flush, seen from outside: accepted
transactions are settled in the order they were built, a waiting one later than
a silent one is withdrawn only with one it depends on, and what the network holds
is never withdrawn (`WalletNeverWithdrawsLanded`). `OtherFlush` is the same step
taken by another caller, whose result the transport never sees.

`handed` is what the runtime was told of; a restart hands over all that is stored.
`dropped` is read by properties only: what a tick that failed had stored and not yet
handed over. The next scan takes it for known, so `EveryRecordArrives` asks of a
foreign record that it be stored, and handed over or dropped; without `dropped` the code
does not keep it.

Assumed of the network: blocks are indexed in order (the client asks for
ascending order, `chain/woc.ts:210`), and what a scan was shown stays. The code has no
step back from a sighting in the mempool, so a transaction evicted after it was
listed is outside the model. Reorganisations are outside it too.

### EventOrder, ReplicaFold

An event is its place in `log`, which is also the time on its timestamp: the
devices' clocks are taken to agree, and no two events share a moment. A
credential is named by the event that brings it. `Allowed` is
`AuthorizationService.require`, `AuthorMay` the checks in front of the switch of
`applyEvent`, `Applicable` what the cases throw for, `Effect` what they do, and
`TryApply`, `FoldFrom` and `Rebuild` are `tryApply` and the two ways to fold.
`onHand`, `issued` and `version` belong to one item; a count of another version and an
issue that the stock does not cover become conflicts, with the related events
each of them lists. `clock` is the unit's logical clock, which rejected events do
not move.

This fold is small on purpose: it is there for authorization and for the sync,
whose hazards do not depend on how rich a record is. The other record types are in
`UnitRecords`. Left out: Masters who introduce themselves, expiry of credentials,
tickets redeemed twice, re-issued credentials. `unsafeEvents` is in `UnitRecords`
(`NothingSetAside`); the limit on clock jumps guards against events that no device
of this model makes.

### UnitReplica, SharedHistory

`ledger` is durable, and so is `own`, the credential a device seals its records in
with. The replica's repository is memory (`MemoryRepository` in `unit/runtime.ts:135`):
`known`, `projection`, `lastKey` and `outbox` are gone after `Restart`, which primes the
backlog from the ledger. `auth` is the state of `AuthorizationService` and the waiting
lists of the provider; `AcceptEvent` and `RetryPending` take credentials and
revocations in the order the code does, and the result depends on that order.

A command is two steps. `DraftStock`, `DraftRevocation` and `DraftRoleChange` read the
projection, the clock and the version and sign; `Commit` is the transaction that
folds the event or refuses it. In between, syncs and arrivals happen. A command
of a Master puts its revocation in force before it drafts (`Administer`). Then the
command waits: `command[d].waits` is `behind` while a sync is in flight that read the
outbox before, `due` until one starts, `joined` until it ends. Only one command of a
device is under way at a time.

How a command ends is in two sets: `acknowledged` (without an error) and `unsaved` (with
one: its event was not handed over). `Again` is a command that is given again with its
event ID, as a screen does after an error: the event is found among those in memory
and returned, with no sync to wait for. So an event can be in both sets, and
`AcknowledgedIsDurable` speaks of those that had no error before; of all of them the code
does not keep it.

A sync is `StartSync`, one `Publish` or `PublishFails` per record, `Pull`, and `Receive` or
`ReceiveFails`. `Pull` is where credentials take effect and `Receive` where events are
folded. Records travel from ledger to ledger in any order (`Arrive`), each once,
which is what `ChainTransport` checks of its scans.

`SharedHistory` is the promise: a history that only grows, ledgers that only learn
from ledgers, and commands answered with an error, or as done once their event is held or
had an error before. The refinement maps a ledger to itself, `acknowledged` and
`unsaved` to the answers; drafts, outboxes, syncs, credentials and restarts are stutters.

### SupplyFold, RecordFold, CountFold, CalendarFold, SupplyRules, UnitRecords

These are `applyEvent` for the records officers make, one operator per case of its
switch, with the helper of the code each case calls. A projection is a record of
`items` (two sizes of one catalog item), `held`, `needs`, `transactions`,
`conflicts`, `sessions`, `calendar`, `catalog`, `cadets`, `bundle`, `years`,
`rejected` and `unsafe`. A thing is named by the event that brought it and a line
of that event, as IDs are in the code. `Throws` is what makes `tryApply` reject,
`projectionViolation` what makes it set an event aside for good.

`UnitRecords` has one action per command: its guard is what the command's method
and its screen check of the projection the device shows, its event is what they
sign. `CommitSeeing` remembers what the author knew (`seen`), because the
properties are about what an officer had or had not seen. `Learn` gives a device
any one event that it lacks; with `UnitReplica` this stands for any sync. The forms
are state too: `OpenDrawer` and `OpenForm` fill them, a later save sends what was
changed against what the form or the projection holds, as each form does.
`SupplyRules` says who an event is for, what they lack, whether the shelf covers it,
and why a size asks to be reconciled.

`work` picks a *job*: a history that two officers share, the commands each may give,
the quantities and the number of commands. Without jobs the product of 30 commands
would be out of reach; a job puts those together whose effects meet.

Left out: records of older versions (events without `baseRevisions`, single-line
`ITEM_ISSUED` and `ITEM_RETURNED`, `INVENTORY_COUNT_SUBMITTED`, observations without
corrections), bundles by gender, unsized items, conflicts as a reason to reconcile,
percentages and alerts.

### CadetPublisher

`queue`, `noticeQueue` and `delivered` are what the publisher keeps in storage,
`generation`, `timer`, `due` and `drain` its memory: `drain` is the run that is
going, with `started` (the generations at its start), the cadets still `todo`, the
`items` read, what is left `toFinish` and `toBuild`, and the group it waits for.
`changes` is the unit's history as far as it matters to a channel, `known` what each
device has folded, `noting` the own events between their commit and `noteEvent`.

A drain is `StartDrain`, `Read` per cadet (each awaits the view, so changes arrive in
between), `Seal` (too large a record is dropped; what the wallet has already built is
found by its correlation), then per transaction `Build`, `Flush` and `Finish`, with
notes, other callers' flushes and restarts between any two; then `StartNotices`,
and per notice `ReadNotice`, the same steps, `EndNotice`; at last `EndDrain`.
Queues are served oldest first in the code; the order is left open here, and
nothing depends on it. `Supersedes` and `NewestView` are the phone's choice.

A record's content is the set of changes that its device knew of the cadet. Its version
counts those of them that raise a version the view adds up, so not the `ROTATED` ones:
a replaced channel gives the record another address and leaves its version. A view's
`Correlation` is the cadet and the version, without the address, as in the code; so a
record that waits for the old channel is taken for the new channel's. `mistaken` holds
the records for which that happened in a run that then reported them. It is read by
properties only: `NothingForgotten` and `PhoneCurrentIfOrdered` say what holds with that
exception; without it the code keeps neither.

`HeardOf` are the transactions that wait in a wallet, that a run is about to look for, or
that a run reported. `NoticeEverywhereOnce` says that of these one carries a notice to an
address. Counted over all that the network has it would be false: a copy that was
accepted and that no run heard of is built again.

Left out: wording, progress counts, a record's bytes (a batch is any set of up to
`PerTx` records).

### TicketProtocol

The issuer's device: `issuing` is how far `issueTicket` has come (code sealed, funded,
package published, listed), `code` the codes its vault keeps, `pending` and `recent`
its wallet, `history` the state of each ticket as the unit knows it, `cancelling` the
calls of `cancelTicket`, of which several may run. A phone: `vault`, `redeeming` (the
redemption its vault keeps), `queue` and `sent` (its wallet), `joined`, and `joining`,
the call that is going, with its next step. `network` is the set of transactions the
network has; it takes the first spend of a funding output and refuses every other.

Every await of `redeemTicket`, `resumeRedemption` and `cancelTicket` is a step:
`ReadTicket`, `StartRedemption`, `PrepareRedemption`, `BuildRedemption`, `SealRedemption`,
`BroadcastRedemption`, `Complete`; `CancelTicket`, `FindCancellation`, `BuildCancellation`,
`SettleCancellation`, `RecordCancelled`, `ForgetTicketSecret`. `JoinFails`, `RestartPhone`,
`RestartIssuer`, `IssueFails` and `ErasePhone` end calls at any of them; `Resume` is the
gate's choice at the next start. `Offer` is one offer of a flush. A look at the
network may come before or after a spend lands (`Sights`).

`Kept` are the redemptions a phone has in its wallet and vault, `Undecided` those of them
that its wallet does not know to be with the network. A person may hold codes of two tickets. What
waits in the wallet is found again after a restart, what was sent along with another
ticket's redemption is not: `OneRedemptionAtATime` says what holds for a person with two
codes and what for one with one.

### UnitKeys, DeviceVault

`log` is the unit's history as far as keys go: generations announced, removals,
tickets listed and redeemed, recovery keys. A record is sealed under a generation
(`under`) and a rotation carries copies (`grants`) for members, open tickets and the
recovery key. `arrived[d]` is what a device's ledger has, `keys[d]` what it can open,
`current[d]` what it writes with. `Read(d)` is what it can read of what arrived.

`Remove` is the revocation, `Wrap` and `Announce` and `Install` the rotation that
follows (or one by hand), `Pack` and `Register` the making of a ticket or of a recovery
file, `Join` a newcomer's joining, `Sync` new records with the settling that follows
(`KeysAfter`: four rounds, as in `reconcileOnce`), `Crash` a page that ends in a call.
`basis[e]` remembers what the maker of a generation had read when it wrapped it:
only the properties look at it.

`UnitKeys` and `TicketProtocol` take each write of the vault as one step. `DeviceVault`
shows what that leaves out: every writer copies the record, awaits the sealing of
its secret, and saves the copy. Its property fails, which is a finding.

### DeviceNotices

`live` is the condition each alert is in, as the dashboard computes it. `history` and
`stored` are the notifier's memory and what `commit` wrote of it, `summary`, `told` and
`reminders` the worker's side, `showing` the device's screen. `Evaluate` is one
evaluation: it remembers a look, decides, shows, withdraws and refreshes the summary.
`Click` and `Unlock` are the routing of an opened notification, `Leave` locks or
closes the page with whatever it had not stored, `Check` is the worker's
`checkPassedDeadlines`. `shown`, `looked` and `reminders` record what happened for the
properties. Left out: switching the setting on and off, what makes an alert
notifiable, wording, grouping, cadets' notices, two tabs.

## Runs

| Run | Instance | Shows |
|---|---|---|
| `wallet` | 3 transactions, 2 coins of others (one contested by another device, one whose source does not match), 1 ticket transfer the network may lose, 1 fault, `FairSpec`; 470 864 states | the safety of the coin book, the order of broadcasts, the rollback (`RollbackComplete`, `OnePassIsTransitive`), and that every transaction is settled |
| `transport` | 2 own records, 1 of another device, 2 transactions, 2 blocks, 1 trouble, batches of 2, lost after 1 scan; 2.19 million states | a record waits in one transaction; nothing is skipped |
| `transport_live` | 1 own record, 1 of another device, 3 transactions, 1 block, 1 trouble, lost after 3 scans, `FairSpec` | every own record is confirmed, every foreign one is stored and handed over unless a tick failed between |
| `replica` | 2 devices: a Master with the authority's key and an officer; 3 founding events of which the Master has heard 2, up to 2 more of any kind, 2 faults; 1.03 million states | the projection is the fold of what is known; nothing acknowledged or shown is lost; the shared history is implemented |
| `replica_live` | the same with 1 more event and 1 fault, `FairSpec` | both end with the same events and the same projection |
| `records` | 14 jobs of 2 officers, 2 sizes, up to 2 cadets, 2 to 4 commands after the founding history; 145 974 states | units, needs, counts, edits and shortages come out right in every order of hearing |
| `form_reverts` | 1 job: two officers edit a cadet, forms filled in before | a save puts another's edit back (finding) |
| `cadet` | 2 staff devices, 2 cadets, 4 plans, 2 records to a transaction, 1 trouble, `FairSpec`; 180 475 states | what was noted is shown or waits, a notice goes nowhere twice as far as the runs heard, phones show the newest (both but for records taken for others), the queues empty |
| `tickets` | 2 tickets, 2 phones, 1 call of `cancelTicket`, 2 spends each; a race for one staff code (1 trouble), one for a cadet's code (2), one phone with two codes (1 trouble and no call, or a call and none), with symmetry; 1.98 million states | who is in, who is told what, and what is kept |
| `keys` | 7 situations of a founder, a second Master, a member and a newcomer; up to 3 generations, one removal, 1 crash; 114 353 states | who is removed stays out; the unit ends up with one key |
| `notices` | 2 alerts, one with 2 conditions, 1 deadline; an hour of 3, a day of 4 and a run of 6 moments; 3 changes, or 1 while the worker may check; 1.39 million states | the limits, and what is withdrawn |
| `vault_lost_code` | 1 ticket, 2 new generations, 1 restart | a ticket's code is lost while it is being funded (finding) |

Why the bounds are enough. A *trouble* is a crash, a failed call, a refusal, a
loss, or a false verdict of loss. Most hazards listed are one such event between two
steps of one call, and the runs put it at every such place. Where a second one
matters (a restart after an erasure, a failed fold after a failed hand-over), the
run allows two. Two transactions are enough for the order of settling, and three
make a chain of dependents, which `OnePassIsTransitive` needs. Two blocks are needed for
`NothingSkipped` to say anything, because it speaks of blocks before the cursor. Two
new events on top of the late arrival of the officer's own are what the replica's
hazards need: an event that lands before the last one folded, a judgement that a
later credential or revocation overturns, a removal that crosses the work of the
person removed. In `records` two devices suffice, because every property
compares what one device shows with what the authors had seen, and a third device
adds only another set of known events. In `cadet`, two records to a transaction let
a batch hold two channels and a run need two batches; the plans let two devices change
and replace one cadet's channel, and one device do both, which is when a record that
waits can be for the channel before. (With two troubles the safety properties were
checked once: 2.5 million states, no error.) In `tickets`, a phone with two codes meets
either a cancellation or a trouble, and the other phone may have one of the codes in the
second case; both together were checked once for `OneRedemptionAtATime`,
`TakenIsNotForgotten` and `RefusalsAreTrue` (4.2 million states, no error). In `replica` one
member administers, so the condition of `SameEventsSameProjection` always holds. With two
Masters and an officer it takes three devices: up to two new events were checked once, no
error (98 363 states); with three the claim fails without the condition. In `keys`, four people take the
four roles that the rules tell apart; each situation lets two calls cross. In
`notices` the constants keep the order of the real ones (a minute below an hour
below a day below the age of a stale deadline).

Deadlock is checked in the runs of the wallet and the transport: a tick or a flush
can always go on. The others may come to rest: the history is bounded, people may
stop making changes, and then nothing is left to do.

The type invariants of `CadetPublisher`, `TicketProtocol`, `UnitRecords`, `UnitKeys` and
`DeviceNotices` document the state and are used in the proofs; no run spends time on
them.

## Fairness

`DeviceWallet`: the transport's timer starts a flush again and again, and its steps
are awaited calls that return (weak fairness of each). The network does not stay
silent for ever: strong fairness of a definite answer. Nothing is assumed of
prepares, refreshes and faults.

`ChainTransport`: the 15-second timer and the steps of a tick are weakly fair. Strong
fairness of building (the wallet is funded), of a definite flush, of a complete
listing and of the minute that must pass before a loss is declared. Crashes and
failures are bounded by `MaxTroubles`; blocks need not be mined.

`UnitReplica`: a command goes on to its commit, the five-second poll (`startAutoSync`)
starts a sync when there is something to do, the calls of a sync return, and scans go
on: weak fairness of each. Faults are bounded, and nothing is assumed of users.

`CadetPublisher`: a timer that was set fires, what a drain awaits returns, and an event
that was committed is noted: weak fairness of each. Nobody has to make a change.

## Proofs

Each `...Proofs` module proves what its component promises for every value of the
constants, under the component's named assumption on them and nothing else.
TLC checked each inductive invariant on the component's run before it was proved.

**The wallet.** `DeviceWalletProofs` proves `Spec => []Inv` for `TypeOK`, `NoDoubleSpend`,
`RollbackComplete`, `LandedNeverWithdrawn` and `ParentsFirst`. None is inductive. `IInv`
adds three facts:

- `ReservationHeld`: every input of a pending transaction is still in the book and
  marked by it. A refresh keeps marks of pending spenders, listed or not, so this
  survives a lagging index, and two pending transactions cannot share a coin.
- `BuiltInOrder`: what is listed was built, and a transaction spends change of
  earlier ones only.
- `FlushWalks` and `OnlyOldestLanded`: a flush has everything pending in its
  snapshot and offers the oldest, so only the oldest pending transaction can be
  on the network. When it is refused it is not there, and neither is anything
  withdrawn with it. This is why a withdrawal never frees a coin spent on chain.

A rollback removes a set closed under "spends an output of" (`DoomedClosed`), so no
survivor loses an input or the coin it reserved.

`OnePassIsTransitive` says that the loop of `rollBack`, which walks the later transactions
once, computes that set. It needs one fact more (`MarkedAsSigned`: a coin is marked only
by a transaction that was signed to spend it), hence marks point from older to newer
transactions (`ParentsAreOlder`). `PassIsFold` names the loop as a function of the set of
transactions walked, `OnePassSuffices` shows by `TakenOneByOne` that after the
first k of them exactly the doomed ones up to k have been found.

**The transport.** `NothingSkipped` needs to know where a scan stands: whatever is mined
below the highest listed height is scanned or still to be visited, and a block
mined meanwhile is higher than every height the index has listed (`ScanInv`).
`WaitsInOneTransaction` needs what `publishOnce` knows when it reads its queue: the
records of every waiting transaction were claimed first, so none of the queued records
is in one, and `recoverOrphans` sets back only records of other transactions
(`OwnershipInv`). Neither survives without the other parts of the tick, since the
stale local variables are part of both.

**The replica.** `UnitReplicaProofs` proves `AcknowledgedIsDurable` and `ShownIsKept`. `IInv`
follows one event from its draft to the ledger: a draft is in no outbox; a commit puts
it there; a sync that starts later takes the whole outbox, so a command that was due
finds its event in the batch; a sync already running does not have it, so the
command must wait (`behind`); a batch loses an event only to the ledger or to the
failed. So when a sync answers a command without an error its event can only be in the
ledger. A command that is given again is answered by what the device knows; `OwnHolds` says
that an own event it knows is in the ledger, has its command still waiting, or had an
error. The fold plays no part in this, and that part of the proof never opens it.
`UnitImplementsHistory` is the refinement: a publish moves an
event of the device's own, because an outbox holds no other, and a sync that ends
answers a command whose event is held, or one given again after an error, by the
invariant above.

The fold is opened by the second half of the module. A fold over a list, a set or an
order is the function that takes the elements one by one (`TakenOneByOne`), and what each
step keeps is kept by the whole. This gives, without any condition:

- `ReplicaTypes`, whose interesting part is that no stock level is ever negative: an
  event that would make one so is rejected by `TryApply`, whatever was folded before;
- `ExtendingIsFolding`: a projection that rejected nothing, extended by later events,
  is what a fold from the beginning gives, even if credentials were accepted
  meanwhile. This is the shortcut of `integrate`.

The two properties of the projection are proved under `SteadyMembership`: the commands
given are stock commands, and no founding event brings a revocation. Founders, late grants
and tickets, credentials that wait for their issuer, events that wait for their credential,
late and refused hand-overs, failed folds and restarts are all still there. `SteadyInv` has
five parts: no event revokes (`QuietLog`), each is sealed with a credential some event
brought (`SealHolds`), what an authority accepted is closed, so that a further try of what
waits accepts nothing (`AuthHolds`), what is under way can be judged (`WayHolds`), and the
projection is the fold of the ledger while no fold is owed (`FoldHolds`). Hence
`SteadyProjectionIsFold`. For `SteadyDevicesAgree`, `HeardHolds` and `ShownHolds` say that an
authority accepted just what follows from the credentials the device has heard, and
`HeldDecides` that these are determined by the ledger: a device that holds the event of a
credential has heard of it. This rests on one part of `UnitAssumption`: a device starts with
the founding events that it signed itself. `SteadyInv` and the two were checked on the run's
instance, with stock commands, before they were proved.

Without `SteadyMembership` the two properties stay with the run `replica`. They are not
simply harder: the code keeps a revocation in force after its command was refused, and the
revocations of two Masters overwrite each other (see "Findings"), so that the
closure `AuthHolds` speaks of is not what an authority with revocations has; the
invariant would have to follow in which order each device heard of them.

**The cadet publisher.** `NothingForgotten` hangs on three things that a run knows only
together. What it projects is fresh unless the generation moved on (`Fresh`), so a cadet
that leaves the queue is shown with all that was noted; `Fresh` speaks of `Grasp`, what was
noted and what was known when it was made, which is also what makes a later record the
larger one. What it finishes it finds by a transaction's number, so numbers must be one
device's (`OneOwner`), and for each record of a group the transaction of that number must
have that record or one that shows the same (`GroupsSound`), also when the transaction was
built by an earlier run. And a run must have the parts of its stage only (`RunOrder`), or a
restart could finish what it did not send. That the transaction has one that shows the
same follows from `ReadIsNewer`: what was just read shows at least what waits, so of two
with equal versions each shows what the other does, a rotation apart. Where they differ,
the record is `mistaken`; that it was some device's view, and stays so, is
`ChainTruthful`. `RecordInv` is the conjunction.

`PhoneCurrentIfOrdered` follows: when all changes were made in order the last device knew all
of them, so its record is the largest of its channel, or was taken for an older one.
`NoticeEverywhereOnce` needs `PublisherInv` besides: a copy that is left to build is
carried by nothing that waits, is looked for or was reported (`BuiltOnce`), what waits is carried once (`CarriedOnce`), and a
transaction that was reported is closed for its copies (`ReportedIsClosed`): the notice has
left the queue, the copy is marked delivered, or the cadet's channel has turned since. Each
device's part is kept by its own steps and by everybody else's (`Touches`, `Untouched`), as
for tickets. The invariant was checked on the instance of the run before it was proved.

**The records.** `RecordsInv` says of the log that every event is one that a command could
sign (`IsCommand`) and that what it overwrites was known to its signer, and of each
device that it shows `Rebuild` of what it knows. A new event enters only through
`CommitSeeing`, which refuses what its own fold rejects, and any device may learn of any
event at any time; so nothing can be said of a projection but what holds of the fold
of *every* set of such events, in the one order. That is what most of the module
proves, by taking the last event away (`FoldInduction`): a predicate holds of `Genesis`, and
`Effect` keeps it, for each of the 35 kinds of events and for events that are
rejected. The loops inside an event (the lines of an issue, its missing lines, the
lines of a return) are folds as well, with a predicate of their own on what was done
so far. The predicates are:

- `CalendarOK`, for `NothingIsOverwritten`: the writers that a field shows are the edits of its
  value that no later edit replaced, so that an edit which names a value's writers as its
  base saw that value, also when two officers wrote the same one;
- `Settled`, for `NothingIsSetAside` and `RecordsTypeOK`: every part of the projection is
  well-formed, stock and holdings are never negative, no need is served beyond what it
  asks, and `unsafe` is empty. The guards of the event's own handler (`Contested`, `NotHeld`,
  `CorrectSizeImpossible`, `CorrectionImpossible`, `ValidNeed`) must be enough whatever
  came before, since the device that signed saw another projection;
- `WatchesOK`, for `CountsWarn`: a version recorded by a count's baseline stands for the events
  applied to the size by then. This needs that a version counts those events (`Bumps`),
  which the second line of one return would break if it touched its size twice;
- `NeedsFit`, for `NeedsAreMatched`: for each cadet, what needs were served without a hand-over
  is at most what applied issues handed out. One issued line gives its candidates in
  turn no more than its quantity (`Left`), since they are ordered and each is counted
  once. For the second half, a lost issue has one resolution, whose conflict is resolved, and
  an event with a conflict is never folded as issued.

The assumptions are those of `RecordsAssumption`: devices are numbered, the founding events
are commands, and an edit of the founding names writers that were signed before it. The
run evaluates them on its founding histories. `IsCommand` asks what the code's checks of a
draft give (`validateQuantity`, `validateDraftIdentity`): positive quantities, and lines, the
missing ones included, with IDs of their own. Without that last one two missing
lines could become one need, and `NeedsFit` would speak of a set that lost a member.

**Tickets.** The issuer's part and each phone's part are kept by their own steps; all they
share is the network, which only grows, and only by what somebody built. So the proof
has layers: the issuer's steps keep `IssuerInv`, a phone's keep its `PhoneInv`, and
everybody else's keep both (`IssuerKept`, `PhoneKept`). This gives `NetworkDecides`,
`CodeKeptWhileSpendable` and `TakenIsNotForgotten`, whose heart is `TakenIsKept`: where
a redemption the network took is to be found, in the wallet of a member's device or
in the vault of a cadet's. `OneRedemptionAtATime` needs that what a call is about to
build is looked for among all that is undecided (`OneInv`): a redemption that waits is
found by its ticket, and one that the vault keeps is the only one a call goes on with.
For a person with one code that is all there is, so there is no second one at all;
with two codes the flush of one redemption may decide the other unseen. `RefusalsAreTrue` has the same exception: of two codes, the spend in the
way may be the phone's own. Each write of the vault is one step here; `DeviceVault` says what that leaves
out.

**Keys.** `KeysInv` says that what was packed for a device was packed by one that held it
and had a place in the unit in what the maker had read (`WrittenTruly`, `PackedOnce`),
that keys come from records (`KeysAreLogged`), and that each generation was made once,
from what its maker had (`MadeOnce`). What was read when a generation was wrapped stays
true, since the log only grows and the package of a device that joined stays. Then
all generations but the one in question are closed under what a removed person
gets, so none of any chain of packages leads to it: `RemovedKeptOut`. `RemovalInv` adds
that a removal remembers its revocation and that its device writes with its own
generation or a later one; its maker is never the person removed, because one removal
happens. This gives `WritesAwayFromRemoved`. Holders of the recovery key can open every
generation by design and are excepted in the property.

**Notifications.** The worker remembers a reminder for longer than its deadline can be
told (`DeadlineToldOnce`). The page stores every notification it shows, so what is on the
screen since a day is in the history it reads at its next start (`Restrained`,
`StaleIsWithdrawn`), and of a look all but the last minute (`LookedAtIsNotNews`).

What stays with TLC, and why:

- liveness: `PendingSettles`, `EveryRecordArrives`, `UnitConverges`, `QueuesEmpty` (the
  prover has no rule for fairness over these actions);
- `ProjectionIsFold` and `SameEventsSameProjection` when people are removed or change
  roles, for the reason given above;
- `UnitsConserved`, `FinalizationStands` and `ShortagesAreReal` of the records. The first needs
  a balance of every kind of event, with the receipts as they now read, under the
  lemmas of `UnitRecordsProofs`; the second needs the fold of what an officer had seen
  compared with that of what a device knows; the third is a matching of units to cadets.
  None is out of the prover's reach, and none is proved;
- `UnitSharesOneKey`: one settling goes four rounds (`reconcileOnce`), so a chain of more than
  four new generations that arrives at once is opened only by the settlings after it, and
  a theorem would have to bound the rotations; the run makes up to 3;
- `ConflictShedsPhantoms`.

## Findings

`PROJECT.json` quotes the lines.

- `vault_lost_code`: two writers of the vault overlap, and the code of a ticket that is
  funded afterwards is gone; `unit/runtime.ts:369` promises that it can always be
  recovered. A recovery key that was just made, or a generation just installed, can be
  lost in the same way.
- `form_reverts`: a cadet's form that was filled in before another officer's edit arrived
  puts that edit back when it is saved, and opens no conflict.
  `features/inventory/ItemEditorDrawer.tsx:247` does the same;
  `features/bundles/BundleForm.tsx:122` and the event drawer avoid it.

Promises of the code that the model shows it does not keep, with no run of their own: a
property says what holds instead, and excepts just the case named.

- *What a scan stored is handed over* (`unit/transport.ts:67`). What a failing scan stored
  is discovered by no later one (`:238`), so it reaches the runtime only after a restart
  (`:269`). `EveryRecordArrives` excepts what a failed tick had stored.
- *A failed hand-over surfaces* (`distributed/replica.ts:135`). A command given again after a
  failed hand-over finds its event in memory and reports success without handing it over
  (`:216`, `:230`, `:349`), and a restart loses it. `AcknowledgedIsDurable` excepts commands
  that had an error before.
- *Two devices with the same events show the same numbers* (`distributed/replica.ts:93`). When
  two Masters remove one person, each device judges that person's late work by the
  revocation it accepted last (`auth/authorization.ts:164`), until a restart.
  `SameEventsSameProjection` is about units in which one Master administers.
- *Never a second, conflicting redemption* (`unit/vault.ts:229`). A phone with two codes whose
  page ends between building and sealing a redemption (`unit/ticketRedemption.ts:180`) and
  which goes on with the other code can build a second one. `OneRedemptionAtATime` excepts
  phones with two codes, of which it says that no two are undecided together.
- *A change is paid to the cadet's channel* (`unit/cadetPublisher.ts:46`). After "Replace phone" a
  record that still waits for the old channel is taken for the new one's (`:212`, `:233`),
  since a replacement does not raise the view's version (`distributed/cadetView.ts:25`); the
  cadet leaves the queue and nothing reaches the new channel until the next change.
  `NothingForgotten` and `PhoneCurrentIfOrdered` except the records so `mistaken`.
- *What was built is finished, never built twice* (`unit/cadetPublisher.ts:51`). A notice whose
  copy was accepted just before the page ended, or settled by another flush, is built and
  paid for again (`:180`, `:231`). `NoticeEverywhereOnce` counts the copies a run has heard of
  or can find.

Also seen while modelling, where nothing in the repository promises otherwise or the case
is outside what a model adds to:

- *Wallet and transport.* A rollback forgets the spend of an own ticket
  (`chain/wallet.ts:206`). The outcome of a flush is written over a confirmation that the
  scan recorded meanwhile, and the record is PUBLISHING again (`unit/transport.ts:174`).
  After a loss was declared wrongly, a record can be in two transactions that the
  network has, though never in two that wait (`unit/transport.ts:158`).
- *Replica.* An edit made on a stale value does not contest a rival's when another edit
  of the same officer lies between (`distributed/replica.ts:699`, `:1506`). A revocation stays
  in force whose command was refused (`distributed/appIntegration.ts:111`). A delegated Master's
  revocation is judged once (`auth/authorization.ts:161`). A return that is corrected after
  the size of its issue was moves the size it named and a holding of the other
  (`distributed/replica.ts:1241`; `ResizedReturn` excludes it).
- *Counting and imports.* A retry signs a new ID, so a tally or a chunk of a roster can
  count twice (`TallyCard.tsx:72`, `RosterImportPanel.tsx:66`).
- *Readiness.* 99.5 % is shown as complete; holding one of two required counts as
  satisfied (`stage3/eventReadiness.ts:26`), and leftover units of different sizes can
  count as enough; renaming a catalog item makes its recorded cadet sizes unknown
  (`stage3/requirements.ts:71`).
- *Cadet publisher.* A record that is too large is dropped whatever was noted meanwhile
  (`unit/cadetPublisher.ts:163`). Two officers who change one cadet before they hear of each
  other publish two records of one version, neither with both changes, and nobody
  publishes the union until the next change (`unit/cadetPublisher.ts:108`); this is why
  `PhoneCurrentIfOrdered` speaks of changes made in order. A change committed just
  before the page ends is never noted.
- *Tickets.* A phone stays "joining" after a redemption that waited was lost
  (`unit/ticketRedemption.ts:174`). A ticket that is funded but was not listed cannot be
  cancelled, and cadets' tickets never can (`unit/runtime.ts:369`, `:387`). Two calls of
  `cancelTicket`, or a call again after a lost answer, can list a ticket as cancelled
  twice (`unit/runtime.ts:408` against the comment at `:397` and ADR 012:294). A phone whose
  owner types the code again on the pending screen has two redemptions of it, too.
- *Keys.* `docs/BSV_SHARED_LEDGER.md:104` says that nothing written after a removal is
  readable for the removed; a rotation by a Master who had not read of the removal
  and which crosses it is (`unit/runtime.ts:299`). `WritesAwayFromRemoved` says precisely
  when. Work sealed under a refused generation of a removed Master stays unreadable for
  those who heard of the removal first. A crash between a revocation and its rotation is
  not made good (no retry). A rotation by hand leaves the older generation current until
  the next settling. The rotation of ADR 012:307 is not implemented.
- *Notifications.* One shown a day ago or earlier is not withdrawn; the worker may not
  know of a look within its ten-minute refresh; two tabs each keep a history; the page
  never withdraws the worker's own notification.

## Not modelled

Cryptography, serialisation, address derivation, SPV, the HTTP client and its
pacing, IndexedDB, and the React screens but for the forms named above: they hold no
state that the properties are about. That is most of the repository by lines, and
why the map covers a small share of it. `chain/fakeChain.ts` is a test double; it documents
which answers of the network the code is written for, and `DeviceWallet` offers the
same. The fee amounts and the selection of coins, `MAX_BATCH_BYTES` (part of the free
choice of a batch), the status line (`emit`, `deliveryCounts`), percentages and the remaining
readiness rules are left out.

## Plan

Done: the wallet, the transport, the replica, the records of supply, the cadet
publisher, tickets, keys, notifications, the vault; proofs about all the components but
the vault and the rules of the screens; of the replica's projection while membership is
steady. Left:

1. `UnitsConserved` as a theorem: every kind of event keeps the sum of units, so a fold
   does, by `FoldInduction`. Then `FinalizationStands`.
2. `WalletQueue`: the abstract queue that `DeviceWallet` implements and
   `ChainTransport`, `CadetPublisher` and `TicketProtocol` use, with the refinement
   checked and its step proved.
3. A theorem about `SupplyRules`: a shortage is reported exactly when the shelf cannot
   serve those who lack the item, whatever the projection.
4. Coin selection over bounded amounts.
