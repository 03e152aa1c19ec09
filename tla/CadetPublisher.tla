--------------------------- MODULE CadetPublisher ---------------------------
(***************************************************************************)
(* How the staff's devices keep the cadets' channels up to date            *)
(* (src/src/unit/cadetPublisher.ts, wired in src/src/unit/runtime.ts).     *)
(*                                                                         *)
(* A change to a cadet is noted by the device that committed it; a drain   *)
(* seals the cadet's record as that device sees it and has its wallet pay  *)
(* it to the channel.  A notice goes the same way to every channel it is   *)
(* for.  The queues are in storage, the rest is memory.  A queue is served *)
(* oldest first; nothing depends on it, and here the order is left open.   *)
(*                                                                         *)
(* A record's content is the set of changes its device knew of the cadet.  *)
(* Its version counts those of them that raise a version the view adds up  *)
(* (src/src/distributed/cadetView.ts): a channel that is replaced raises   *)
(* its own version only, and gives the record another address.  How the    *)
(* unit's history reaches the devices is in UnitReplica, how a wallet      *)
(* settles its transactions in DeviceWallet.                               *)
(***************************************************************************)
EXTENDS Integers, Sequences, FiniteSets

CONSTANTS
  Staff,       \* devices of the staff
  Cadet,       \* cadets, each with a channel
  Plans,       \* what the staff may do, each once: [Staff -> set of Work]
  PerTx,       \* records that one transaction takes
  TooMuch,     \* changes that make a record too large
  MaxTrouble   \* bound: restarts, failed calls, refusals, requests to publish all

Everyone == "everyone"   \* the audience of a notice to all cadets
ToAll == [kind |-> "ALL", cadet |-> Everyone]   \* to publish for every cadet
Work == [kind : {"CHANGED", "CLEARED", "ROTATED"}, cadet : Cadet]
        \cup [kind : {"NOTICE"}, cadet : Cadet \cup {Everyone}] \cup {ToAll}

ASSUME PublisherAssumption ==
  /\ Everyone \notin Cadet
  /\ Plans \subseteq [Staff -> SUBSET Work]
  /\ PerTx \in Nat \ {0} /\ TooMuch \in Nat
  /\ MaxTrouble \in Nat

VARIABLES
  plan,
  changes,     \* what the staff committed, in order: [kind, cadet, by, sees]
  known,       \* [staff -> changes its projection has folded]
  \* in the storage of each device
  queue,       \* cadets that wait for a record
  noticeQueue, \* notices that wait
  delivered,   \* {<<notice, address>>} the queued notices went out to
  wallet,      \* transactions waiting: {[id, records]}
  accepted,    \* transactions the wallet was told the network has
  \* in the memory of each device
  generation,  \* [cadet -> notes so far]
  noting,      \* own changes committed and not noted yet
  timer,       \* a run is scheduled
  due,         \* a run waits for the one that is going
  drain,       \* the run that is going
  \* outside
  chain,       \* the transactions the network has, in the order they are listed
  built,       \* transactions ever built
  noted,       \* [staff -> changes it ever noted]
  reported,    \* transactions a run reported as gone out
  refused,     \* records refused as too large
  mistaken,    \* records for which a run took another one, that was waiting, and reported it
  trouble

storage == <<queue, noticeQueue, delivered>>
funds == <<wallet, accepted, built>>
memory == <<generation, noting, timer, due, drain>>
vars == <<plan, changes, known, storage, funds, memory, chain, noted, reported, refused, mistaken, trouble>>

NoGroup == [tx |-> 0, items |-> {}]
Idle == [stage |-> "idle", started |-> [c \in {} |-> 0], todo |-> {}, items |-> {}, toFinish |-> {}, toBuild |-> {},
         group |-> NoGroup, notice |-> 0, failing |-> FALSE]

Init ==
  /\ plan \in Plans
  /\ changes = <<>>
  /\ known = [d \in Staff |-> {}]
  /\ queue = [d \in Staff |-> {}]
  /\ noticeQueue = [d \in Staff |-> {}]
  /\ delivered = [d \in Staff |-> {}]
  /\ wallet = [d \in Staff |-> {}]
  /\ accepted = {}
  /\ generation = [d \in Staff |-> [c \in Cadet |-> 0]]
  /\ noting = [d \in Staff |-> {}]
  /\ timer = [d \in Staff |-> FALSE]
  /\ due = [d \in Staff |-> FALSE]
  /\ drain = [d \in Staff |-> Idle]
  /\ chain = <<>>
  /\ built = 0
  /\ noted = [d \in Staff |-> {}]
  /\ reported = {}
  /\ refused = {}
  /\ mistaken = {}
  /\ trouble = 0

-----------------------------------------------------------------------------
(* What a device makes of the history it has.                              *)

About(S, c) == {n \in S : changes[n].kind # "NOTICE" /\ changes[n].cadet = c}
viewFor(d, c) == About(known[d], c)

\* A channel that is replaced gets another address; the view does not change.
Rotations(view) == {n \in view : changes[n].kind = "ROTATED"}

\* The cadet's version and those of what the cadet still needs.
Version(view) == Cardinality(view \ Rotations(view))

channelFor(d, c) == <<c, Cardinality(Rotations(viewFor(d, c)))>>

\* noticeFor: one channel for each cadet the notice is for.
AudienceOf(n) == IF changes[n].cadet = Everyone THEN Cadet ELSE {changes[n].cadet}
noticeFor(d, n) == {channelFor(d, c) : c \in AudienceOf(n)}

View(d, c) == [kind |-> "view", cadet |-> c, address |-> channelFor(d, c), content |-> viewFor(d, c)]
Notice(n, address) == [kind |-> "notice", cadet |-> address[1], address |-> address, content |-> {n}]

\* Two records with one correlation are taken for the same: a notice's names the address,
\* a view's does not.
Correlation(r) ==
  IF r.kind = "view" THEN <<r.kind, r.cadet, Version(r.content)>> ELSE <<r.kind, r.content, r.address>>

\* Some changes make a record longer, others shorter.
Weight(view) == Cardinality({n \in view : changes[n].kind = "CHANGED"})
                - Cardinality({n \in view : changes[n].kind = "CLEARED"})
IsTooLarge(r) == r.kind = "view" /\ Weight(r.content) > TooMuch

-----------------------------------------------------------------------------
(* The unit.                                                               *)

Trouble == trouble < MaxTrouble /\ trouble' = trouble + 1

DoneBy(d) ==
  {[kind |-> changes[n].kind, cadet |-> changes[n].cadet] : n \in {n \in DOMAIN changes : changes[n].by = d}}

\* A command of the staff: its event is committed, and noted soon after.
Commit(d) ==
  /\ \E what \in plan[d] \ (DoneBy(d) \cup {ToAll}) :
       changes' = Append(changes, [kind |-> what.kind, cadet |-> what.cadet, by |-> d, sees |-> known[d]])
  /\ known' = [known EXCEPT ![d] = @ \cup {Len(changes')}]
  /\ noting' = [noting EXCEPT ![d] = @ \cup {Len(changes')}]
  /\ UNCHANGED <<plan, storage, funds, generation, timer, due, drain, chain, noted, reported, refused, mistaken, trouble>>

\* A change that another device committed: nobody notes it here.
Learn(d, n) ==
  /\ n \notin known[d]
  /\ known' = [known EXCEPT ![d] = @ \cup {n}]
  /\ UNCHANGED <<plan, changes, storage, funds, memory, chain, noted, reported, refused, mistaken, trouble>>

-----------------------------------------------------------------------------
(* The queues.                                                             *)

\* noteEvent: the cadet is queued, and the debounce starts.  A notice is queued by
\* sendNotice, which asks for a run at once.
NoteEvent(d, n) ==
  /\ n \in noting[d]
  /\ noting' = [noting EXCEPT ![d] = @ \ {n}]
  /\ noted' = [noted EXCEPT ![d] = @ \cup {n}]
  /\ IF changes[n].kind = "NOTICE"
     THEN /\ noticeQueue' = [noticeQueue EXCEPT ![d] = @ \cup {n}]
          /\ due' = [due EXCEPT ![d] = TRUE]
          /\ UNCHANGED <<queue, generation, timer>>
     ELSE /\ generation' = [generation EXCEPT ![d][changes[n].cadet] = @ + 1]
          /\ queue' = [queue EXCEPT ![d] = @ \cup {changes[n].cadet}]
          /\ timer' = [timer EXCEPT ![d] = TRUE]
          /\ UNCHANGED <<noticeQueue, due>>
  /\ UNCHANGED <<plan, changes, known, delivered, funds, drain, chain, reported, refused, mistaken, trouble>>

\* publishAllCadetRecords: every cadet who has a channel.
PublishAll(d) ==
  /\ ToAll \in plan[d] /\ Trouble
  /\ generation' = [generation EXCEPT ![d] = [c \in Cadet |-> @[c] + 1]]
  /\ queue' = [queue EXCEPT ![d] = Cadet]
  /\ due' = [due EXCEPT ![d] = TRUE]
  /\ UNCHANGED <<plan, changes, known, noticeQueue, delivered, funds, noting, timer, drain, chain,
                 noted, reported, refused, mistaken>>

\* run: a drain starts when none is going; otherwise the run waits for it.
Elapse(d) ==
  /\ timer[d] /\ drain[d].stage # "idle"
  /\ timer' = [timer EXCEPT ![d] = FALSE]
  /\ due' = [due EXCEPT ![d] = TRUE]
  /\ UNCHANGED <<plan, changes, known, storage, funds, generation, noting, drain, chain, noted,
                 reported, refused, mistaken, trouble>>

StartDrain(d) ==
  /\ timer[d] \/ due[d]
  /\ drain[d].stage = "idle"
  /\ due' = [due EXCEPT ![d] = FALSE]
  /\ timer' = [timer EXCEPT ![d] = FALSE]
  /\ drain' = [drain EXCEPT ![d] =
       [Idle EXCEPT !.stage = "read", !.todo = queue[d],
                    !.started = [c \in queue[d] |-> generation[d][c]]]]
  /\ UNCHANGED <<plan, changes, known, storage, funds, generation, noting, chain, noted, reported, refused, mistaken, trouble>>

-----------------------------------------------------------------------------
(* publishMany.                                                            *)

\* The transaction that waits in the wallet with a record of this correlation, the oldest.
Carriers(d, r) == {tx \in wallet[d] : Correlation(r) \in {Correlation(s) : s \in tx.records}}
TxOf(d, r) == (CHOOSE tx \in Carriers(d, r) : \A other \in Carriers(d, r) : tx.id <= other.id).id

\* The records of one run that the wallet has built already, by transaction; it builds
\* the rest, PerTx or fewer at a time.
Built(d, items) == {r \in items : Carriers(d, r) # {}}
Groups(d, items) ==
  {[tx |-> TxOf(d, r), items |-> {s \in Built(d, items) : TxOf(d, s) = TxOf(d, r)}] : r \in Built(d, items)}
Batches(items) == {batch \in SUBSET items : Cardinality(batch) \in 1 .. PerTx}

\* (what must not happen: a cadet whose record went out is done)
DoneAlways(d, sent) == {r.cadet : r \in {r \in sent : r.kind = "view"}}

\* A cadet whose record went out is done, unless another change was noted since
\* the run began.
Done(d, sent) ==
  {r.cadet : r \in {r \in sent : r.kind = "view" /\ generation[d][r.cadet] = drain[d].started[r.cadet]}}

\* One group of the run ended: each record went out, or it is tried again.
Settle(d, items, ok) ==
  LET sent == IF ok THEN items ELSE {} IN
  /\ queue' = [queue EXCEPT ![d] = @ \ Done(d, sent)]
  /\ delivered' = [delivered EXCEPT ![d] =
       @ \cup {<<drain[d].notice, r.address>> : r \in {r \in sent : r.kind = "notice"}}]

Read(d) ==
  /\ drain[d].stage = "read"
  /\ \E c \in drain[d].todo :
       drain' = [drain EXCEPT ![d].todo = @ \ {c}, ![d].items = @ \cup {View(d, c)}]
  /\ UNCHANGED <<plan, changes, known, storage, funds, generation, noting, timer, due, chain,
                 noted, reported, refused, mistaken, trouble>>

\* A record that is too large is refused and dropped, whatever was noted since.
Seal(d) ==
  LET large == {r \in drain[d].items : IsTooLarge(r)}
      sealed == drain[d].items \ large
  IN
  /\ drain[d].stage = "read" /\ drain[d].todo = {}
  /\ queue' = [queue EXCEPT ![d] = @ \ {r.cadet : r \in large}]
  /\ refused' = refused \cup large
  /\ drain' = [drain EXCEPT ![d].stage = "publish", ![d].items = {},
       ![d].toFinish = Groups(d, sealed), ![d].toBuild = sealed \ Built(d, sealed)]
  /\ UNCHANGED <<plan, changes, known, noticeQueue, delivered, funds, generation, noting, timer,
                 due, chain, noted, reported, mistaken, trouble>>

\* What the wallet has built is finished first.
IsBuilding(d) == drain[d].stage = "publish" /\ drain[d].toFinish = {}

\* prepareRecords.
Build(d) ==
  /\ IsBuilding(d)
  /\ built' = built + 1
  /\ \E batch \in Batches(drain[d].toBuild) :
       /\ wallet' = [wallet EXCEPT ![d] = @ \cup {[id |-> built', records |-> batch]}]
       /\ drain' = [drain EXCEPT ![d].toBuild = @ \ batch, ![d].toFinish = {[tx |-> built', items |-> batch]}]
  /\ UNCHANGED <<plan, changes, known, storage, accepted, generation, noting, timer, due, chain,
                 noted, reported, refused, mistaken, trouble>>
BuildFails(d) ==
  /\ IsBuilding(d) /\ Trouble
  /\ \E batch \in Batches(drain[d].toBuild) :
       /\ Settle(d, batch, FALSE)
       /\ drain' = [drain EXCEPT ![d].toBuild = @ \ batch, ![d].failing = TRUE]
  /\ UNCHANGED <<plan, changes, known, noticeQueue, funds, generation, noting, timer, due, chain,
                 noted, reported, refused, mistaken>>

\* The wallet offers a transaction to the network: it is accepted, the answer is
\* lost (and the network has it or not), or it is refused and withdrawn.
Listed == {chain[k] : k \in DOMAIN chain}
Land(tx) == chain' = IF tx \in Listed THEN chain ELSE Append(chain, tx)
Offer(d, tx) ==
  \/ /\ Land(tx)
     /\ wallet' = [wallet EXCEPT ![d] = @ \ {tx}]
     /\ accepted' = accepted \cup {tx.id}
     /\ UNCHANGED trouble
  \/ /\ Trouble
     /\ Land(tx) \/ UNCHANGED chain
     /\ UNCHANGED <<wallet, accepted>>
  \/ /\ Trouble
     /\ tx \notin Listed
     /\ wallet' = [wallet EXCEPT ![d] = @ \ {tx}]
     /\ UNCHANGED <<accepted, chain>>

\* finish: a flush of the wallet, then a look at what became of the transaction.
Flush(d) ==
  /\ drain[d].stage = "publish"
  /\ \E group \in drain[d].toFinish :
       /\ drain' = [drain EXCEPT ![d].stage = "settle", ![d].group = group, ![d].toFinish = @ \ {group}]
       /\ LET mine == {tx \in wallet[d] : tx.id = group.tx} IN
          IF mine = {} THEN UNCHANGED <<wallet, accepted, chain, trouble>> ELSE \E tx \in mine : Offer(d, tx)
  /\ UNCHANGED <<plan, changes, known, storage, built, generation, noting, timer, due, noted, reported, refused, mistaken>>

\* The records of the group that are not in its transaction: another one was taken for each.
NotCarried(group) ==
  {r \in group.items : \A tx \in Listed : tx.id = group.tx => r \notin tx.records}

Finish(d) ==
  LET ok == drain[d].group.tx \in accepted IN
  /\ drain[d].stage = "settle"
  /\ Settle(d, drain[d].group.items, ok)
  /\ drain' = [drain EXCEPT ![d].stage = "publish", ![d].group = NoGroup, ![d].failing = @ \/ ~ok]
  /\ reported' = reported \cup ({drain[d].group.tx} \cap accepted)
  /\ mistaken' = mistaken \cup (IF ok THEN NotCarried(drain[d].group) ELSE {})
  /\ UNCHANGED <<plan, changes, known, noticeQueue, funds, generation, noting, timer, due, chain,
                 noted, refused, trouble>>

\* The transport flushes the same wallet.
OtherFlush(d) ==
  /\ \E tx \in wallet[d] : Offer(d, tx)
  /\ UNCHANGED <<plan, changes, known, storage, built, memory, noted, reported, refused, mistaken>>

-----------------------------------------------------------------------------
(* The notices, and the end of a run.                                      *)

\* drainNotices: the records went out, the notices follow one by one.
Published(d) == IsBuilding(d) /\ drain[d].toBuild = {}
StartNotices(d) ==
  /\ Published(d) /\ drain[d].notice = 0
  /\ drain' = [drain EXCEPT ![d].stage = "notices", ![d].todo = noticeQueue[d]]
  /\ UNCHANGED <<plan, changes, known, storage, funds, generation, noting, timer, due, chain,
                 noted, reported, refused, mistaken, trouble>>

\* (what must not happen: it goes everywhere again)
LeftEverywhere(d, n) == noticeFor(d, n)

\* Where a notice has not been.
Left(d, n) == {a \in noticeFor(d, n) : <<n, a>> \notin delivered[d]}
ReadNotice(d) ==
  /\ drain[d].stage = "notices"
  /\ \E n \in drain[d].todo :
       LET items == {Notice(n, a) : a \in Left(d, n)} IN
       drain' = [drain EXCEPT ![d].stage = "publish", ![d].todo = @ \ {n}, ![d].notice = n, ![d].failing = FALSE,
                              ![d].toFinish = Groups(d, items), ![d].toBuild = items \ Built(d, items)]
  /\ UNCHANGED <<plan, changes, known, storage, funds, generation, noting, timer, due, chain,
                 noted, reported, refused, mistaken, trouble>>

Failed(d) == drain[d].failing

\* A notice that went out everywhere is done; otherwise it keeps where it has been.
EndNotice(d) ==
  LET n == drain[d].notice IN
  /\ Published(d) /\ n # 0
  /\ drain' = [drain EXCEPT ![d].stage = "notices", ![d].notice = 0]
  /\ IF Failed(d) THEN UNCHANGED <<noticeQueue, delivered>>
     ELSE /\ noticeQueue' = [noticeQueue EXCEPT ![d] = @ \ {n}]
          /\ delivered' = [delivered EXCEPT ![d] = {x \in @ : x[1] # n}]
  /\ UNCHANGED <<plan, changes, known, queue, funds, generation, noting, timer, due, chain,
                 noted, reported, refused, mistaken, trouble>>

\* (what must not happen: only what was noted meanwhile is looked at)
NeedsAnotherRunIfNoted(d) ==
  \E c \in queue[d] : c \notin DOMAIN drain[d].started \/ generation[d][c] # drain[d].started[c]

\* Changes noted meanwhile, or records the network did not take: again, later.
NeedsAnotherRun(d) == queue[d] # {} \/ noticeQueue[d] # {}
EndDrain(d) ==
  /\ drain[d].stage = "notices" /\ drain[d].todo = {}
  /\ drain' = [drain EXCEPT ![d] = Idle]
  /\ timer' = [timer EXCEPT ![d] = @ \/ NeedsAnotherRun(d)]
  /\ UNCHANGED <<plan, changes, known, storage, funds, generation, noting, due, chain, noted,
                 reported, refused, mistaken, trouble>>

\* The page ends and opens again: resume.
Restart(d) ==
  /\ Trouble
  /\ generation' = [generation EXCEPT ![d] = [c \in Cadet |-> 0]]
  /\ noting' = [noting EXCEPT ![d] = {}]
  /\ timer' = [timer EXCEPT ![d] = NeedsAnotherRun(d)]
  /\ due' = [due EXCEPT ![d] = FALSE]
  /\ drain' = [drain EXCEPT ![d] = Idle]
  /\ UNCHANGED <<plan, changes, known, storage, funds, chain, noted, reported, refused, mistaken>>

-----------------------------------------------------------------------------
DrainStep(d) ==
  \/ StartDrain(d) \/ Read(d) \/ Seal(d) \/ Build(d) \/ Flush(d) \/ Finish(d)
  \/ StartNotices(d) \/ ReadNotice(d) \/ EndNotice(d) \/ EndDrain(d)

Next ==
  \E d \in Staff :
    \/ Commit(d) \/ PublishAll(d)
    \/ \E n \in DOMAIN changes : Learn(d, n) \/ NoteEvent(d, n)
    \/ Elapse(d) \/ DrainStep(d) \/ BuildFails(d) \/ OtherFlush(d)
    \/ Restart(d)

Spec == Init /\ [][Next]_vars

\* The timers fire, and what a run awaits comes back; nobody has to make a change.
Fairness ==
  \A d \in Staff :
    /\ WF_vars(Elapse(d)) /\ WF_vars(DrainStep(d))
    /\ WF_vars(\E n \in DOMAIN changes : NoteEvent(d, n))
FairSpec == Spec /\ Fairness

-----------------------------------------------------------------------------
(* The cadet's phone: one scan of its own address, the highest version and of equal *)
(* versions the one listed last.                                           *)

ReadAt(address) ==
  UNION {{[place |-> k, view |-> r.content] : r \in {r \in chain[k].records : r.kind = "view" /\ r.address = address}} :
           k \in DOMAIN chain}

\* (what must not happen: whatever is listed last)
ListedLater(e, f) == e.place >= f.place

Supersedes(e, f) ==
  Version(e.view) > Version(f.view) \/ (Version(e.view) = Version(f.view) /\ e.place >= f.place)
NewestView(address) ==
  IF ReadAt(address) = {} THEN {}
  ELSE (CHOOSE e \in ReadAt(address) : \A f \in ReadAt(address) : Supersedes(e, f)).view

-----------------------------------------------------------------------------
(* Properties.                                                             *)

\* Every variable keeps its shape; what a run has in hand it is to publish.
TypeOK ==
  /\ \A d \in Staff :
       /\ known[d] \subseteq DOMAIN changes /\ noticeQueue[d] \subseteq noted[d] /\ noted[d] \subseteq known[d]
       /\ queue[d] \subseteq Cadet
       /\ noting[d] \subseteq known[d] \ noted[d]
       /\ drain[d].stage \in {"idle", "read", "publish", "settle", "notices"}
  /\ \A tx \in Listed : tx.id \in 1 .. built

OnChain == UNION {tx.records : tx \in Listed}

NotedAbout(d, c) == About(noted[d], c)

\* r is the record m, or one that shows the same and was taken for it.
Shows(r) == r.content \ Rotations(r.content)
StandsFor(r, m) ==
  /\ r.kind = "view" /\ m.cadet = r.cadet /\ Shows(m) = Shows(r)
  /\ m = r \/ m \in mistaken

\* A change that was noted while the cadet's record was on its way, or before the
\* page ended, is never lost: the cadet waits in the queue, or the network has one
\* record that shows everything this device has noted about the cadet.  It is for the
\* channel as it was after the rotations among that, unless a run took a record that
\* was waiting for an older one, which shows the same, for it.
NothingForgotten ==
  \A d \in Staff, c \in Cadet :
    NotedAbout(d, c) # {} =>
      \/ c \in queue[d]
      \/ \E r \in OnChain : \E m \in mistaken \cup {r} : StandsFor(r, m) /\ NotedAbout(d, c) \subseteq m.content
      \/ \E r \in refused : r.cadet = c

Waiting(d) == queue[d] # {} \/ noticeQueue[d] # {}

\* The transactions among txs that carry the notice to an address.
CopiesOf(txs, n, address) ==
  {tx.id : tx \in {tx \in txs : \E r \in tx.records : r.kind = "notice" /\ n \in r.content /\ r.address = address}}

\* A transaction that waits in a wallet, that a run that is going is about to look for, or
\* that a run reported.
OpenOf(d) == drain[d].toFinish \cup {drain[d].group}
HeardOf ==
  (UNION {wallet[d] : d \in Staff})
  \cup {tx \in Listed : tx.id \in reported \/ \E d \in Staff : tx.id \in {g.tx : g \in OpenOf(d)}}
Addressed(txs) == {r.address : r \in UNION {tx.records : tx \in txs}}

SentOnce ==
  \A n \in DOMAIN changes : \A address \in Addressed(HeardOf) : Cardinality(CopiesOf(HeardOf, n, address)) <= 1
SentToAll ==
  \A d \in Staff :
    \A n \in {n \in noted[d] : changes[n].kind = "NOTICE"} :
      n \in noticeQueue[d] \/
      \A c \in AudienceOf(n) : \E r \in OnChain :
        r.kind = "notice" /\ r.cadet = c /\ n \in r.content

\* A notice that could not be sent everywhere goes out again only to where it has not
\* been, as far as the runs heard: of the transactions that wait, that a run is about to
\* look for and that a run reported, one carries it to an address.  (Not counted is one
\* that went out and that no run heard of: the page ended before the run had saved it, or
\* another flush had the answer.)  It leaves the queue only when each channel it is for, as
\* the device knew them when the notice was noted or later, was paid a copy of it.
NoticeEverywhereOnce == SentOnce /\ SentToAll

Ordered == \A n \in DOMAIN changes : changes[n].sees = 1..(n - 1)
Settled ==
  /\ refused = {}
  /\ \A d \in Staff :
       /\ known[d] = DOMAIN changes
       /\ \A n \in DOMAIN changes : changes[n].by = d => n \in noted[d]
       /\ ~Waiting(d)
Shown(c) ==
  LET all == About(DOMAIN changes, c) IN
  all # {} => NewestView(<<c, Cardinality(Rotations(all))>>) = all

\* When every change was made by a device that knew the ones before it and all was
\* published, each phone shows everything that was changed about its cadet; unless a run
\* took an older record for the one that shows all of it.
PhoneCurrentIfOrdered ==
  Ordered /\ Settled =>
    \A c \in Cadet : Shown(c) \/ \E m \in mistaken : m.cadet = c /\ m.content = About(DOMAIN changes, c)

\* What was noted goes out in the end: no queue stays filled.
QueuesEmpty ==
  \A d \in Staff : Waiting(d) ~> ~Waiting(d)
=============================================================================
