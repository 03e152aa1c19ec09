--------------------------- MODULE ChainTransport ---------------------------
(***************************************************************************)
(* How the records of a unit travel between one device and the BSV testnet *)
(* (src/src/unit/transport.ts) through three things that outlive each      *)
(* other's steps: the device's ledger of encrypted records                 *)
(* (src/src/unit/ledgerStore.ts), its wallet, and the network.             *)
(*                                                                         *)
(* A tick publishes (claims what the wallet already built, settles         *)
(* orphans, builds, flushes, records the outcome) and then scans (reads    *)
(* the anchor history, stores what is new, checks its own broadcasts).     *)
(* Every store or wallet call is a step of its own, so that a new record,  *)
(* another caller's flush of the same wallet, a failing call or the end of *)
(* the page can come between any two of them.                              *)
(*                                                                         *)
(* The wallet is seen from outside: a flush settles some of the waiting    *)
(* transactions, in the order DeviceWallet settles them.  A record is a    *)
(* number, in the order of addedAt; a transaction of another device        *)
(* carries one record of its own and names it too.                         *)
(***************************************************************************)
EXTENDS Integers, FiniteSets

CONSTANTS
  MaxRecord,       \* bound: records authored on this device
  MaxTx,           \* bound: transactions its wallet builds
  MaxHeight,       \* bound: blocks
  MaxTroubles,     \* bound: crashes, failed ticks, refusals, losses
  MaxBatch,        \* MAX_RECORDS_PER_TX
  LostAfterScans,  \* LOST_AFTER_SCANS
  Remote,          \* transactions of other devices at the anchor address
  Junk             \* those that carry nothing for this unit

Record == 1..MaxRecord
Own == 1..MaxTx
Transaction == Own \cup Remote

NoTx == 0
Unseen == -1       \* of seen: not scanned; of chain: not on the network
Mempool == 0

ASSUME TransportAssumption ==
  /\ MaxRecord \in Nat /\ MaxTx \in Nat /\ MaxHeight \in Nat
  /\ MaxTroubles \in Nat
  /\ MaxBatch \in Nat \ {0} /\ LostAfterScans \in Nat \ {0}
  /\ Remote \cap (Own \cup {NoTx}) = {} /\ Junk \subseteq Remote

VARIABLES
  \* the ledger, durable
  status,      \* Record -> NONE (not authored yet) or EnvelopeStatus
  txid,        \* Record -> the transaction it is in, or NoTx
  stored,      \* records of other devices (origin chain)
  seen,        \* seenTransactions: the height, or Unseen
  cursor,      \* confirmedHeight
  \* the wallet, durable
  built,       \* how many transactions it has built
  carries,     \* correlationIds of each
  waiting,     \* pending: built, not yet accepted
  accepted,    \* recent
  \* memory of the transport and of the runtime
  pc,          \* the next step of the tick
  pendingTxs,  \* the wallet's pending transactions as the tick began
  todo,        \* transactions the current loop still has to visit
  queue,       \* queued records the tick will put into transactions
  flushed,     \* what flush() answered
  items,       \* listed transactions the scan still has to visit
  current,     \* the one stored but not yet marked as seen
  highest,     \* the highest listed height
  discovered,  \* new records this scan has stored
  missing,     \* scans that missed a broadcast transaction
  synced,      \* the last tick ended well
  handed,      \* records of other devices the runtime was given
  dropped,     \* read by properties only: stored by a tick that failed, and not
               \* handed over
  \* the world
  chain,       \* where the network has a transaction
  troubles

ledger == <<status, txid, stored, seen, cursor>>
wallet == <<built, carries, waiting, accepted>>
publish == <<pendingTxs, queue, flushed>>
scan == <<items, current, highest, discovered>>
delivery == <<handed, dropped>>
memory == <<pc, publish, todo, scan, missing, synced, delivery>>
vars == <<ledger, wallet, memory, chain, troubles>>

Statuses == {"NONE", "QUEUED", "PUBLISHING", "BROADCAST", "CONFIRMED"}
Steps == {"idle", "claim", "orphans", "batch", "mark", "flush", "reread", "broadcast",
          "rolledBack", "stillPending", "history", "items", "markSeen",
          "cursor", "check", "handOver"}
Heights == Unseen..MaxHeight
Listing == [tx : Transaction, height : Mempool..MaxHeight]
NothingFlushed == [broadcast |-> {}, rolledBack |-> {}, stillPending |-> {}]

TypeOK ==
  /\ status \in [Record -> Statuses]
  /\ txid \in [Record -> Own \cup {NoTx}]
  /\ stored \subseteq Remote
  /\ seen \in [Transaction -> Heights]
  /\ cursor \in 0..MaxHeight
  /\ built \in 0..MaxTx
  /\ carries \in [Own -> SUBSET Record]
  /\ waiting \subseteq Own /\ accepted \subseteq Own
  /\ pc \in Steps
  /\ pendingTxs \subseteq Own
  /\ todo \subseteq Own
  /\ queue \subseteq Record
  /\ flushed \in [broadcast : SUBSET Own, rolledBack : SUBSET Own,
                  stillPending : SUBSET Own]
  /\ items \subseteq Listing /\ current \subseteq Listing
  /\ highest \in 0..MaxHeight
  /\ discovered \subseteq Remote
  /\ missing \in [Own -> 0..LostAfterScans]
  /\ synced \in BOOLEAN
  /\ handed \subseteq Remote /\ dropped \subseteq Remote
  /\ chain \in [Transaction -> Heights]
  /\ troubles \in 0..MaxTroubles

Init ==
  /\ status = [e \in Record |-> "NONE"] /\ txid = [e \in Record |-> NoTx]
  /\ stored = {} /\ seen = [x \in Transaction |-> Unseen] /\ cursor = 0
  /\ built = 0 /\ carries = [t \in Own |-> {}]
  /\ waiting = {} /\ accepted = {}
  /\ pc = "idle" /\ pendingTxs = {} /\ todo = {} /\ queue = {}
  /\ flushed = NothingFlushed
  /\ items = {} /\ current = {} /\ highest = 0 /\ discovered = {}
  /\ missing = [t \in Own |-> 0]
  /\ synced = FALSE /\ handed = {} /\ dropped = {}
  /\ chain = [x \in Transaction |-> Unseen]
  /\ troubles = 0

-----------------------------------------------------------------------------
(* Helpers *)

Trouble == troubles < MaxTroubles /\ troubles' = troubles + 1

\* updateEnvelopes: the records of E get a status and keep or change their txid.
Update(E, newStatus, newTxid) ==
  /\ status' = [e \in Record |-> IF e \in E THEN newStatus ELSE status[e]]
  /\ txid' = [e \in Record |-> IF e \in E THEN newTxid ELSE txid[e]]
  /\ UNCHANGED <<stored, seen, cursor>>

\* updateEnvelopes with a change that names no txid.
SetStatus(E, newStatus) ==
  /\ status' = [e \in Record |-> IF e \in E THEN newStatus ELSE status[e]]
  /\ UNCHANGED <<txid, stored, seen, cursor>>

InState(s) == {e \in Record : status[e] = s}
InTx(t) == {e \in Record : txid[e] = t}
OnNetwork(x) == chain[x] # Unseen

-----------------------------------------------------------------------------
(* The device authors records; the wallet is flushed *)

\* provider.publish: the next record is sealed and queued.
Author(e) ==
  /\ status[e] = "NONE" /\ \A d \in Record : d < e => status[d] # "NONE"
  /\ Update({e}, "QUEUED", NoTx)
  /\ UNCHANGED <<wallet, memory, chain, troubles>>

\* What a flush may do with the waiting transactions: A accepted, R withdrawn,
\* and, when an answer stays ambiguous, the rest from that one on untouched.
\* The transaction with the ambiguous answer may have reached the network.
\* A transaction the network holds is never refused.
Settles(A, R) ==
  LET P == waiting \ (A \cup R) IN
  /\ A \cap R = {}
  /\ \A t \in A, p \in P : t < p
  /\ \A r \in R : ~OnNetwork(r)
  /\ \A r \in R, p \in P : p < r => \E q \in R : q < p
  /\ waiting' = P
  /\ accepted' = accepted \cup A
  /\ \E landed \in SUBSET P :
       /\ \A t \in landed, p \in P : t <= p
       /\ chain' = [x \in Transaction |->
            IF x \in A \cup landed /\ ~OnNetwork(x) THEN Mempool ELSE chain[x]]
  /\ IF R = {} THEN UNCHANGED troubles ELSE Trouble
  /\ UNCHANGED <<built, carries>>

\* cadetPublisher, cancelTicket and sendSatoshis flush the same wallet.
OtherFlush ==
  /\ waiting # {}
  /\ \E A \in SUBSET waiting, R \in SUBSET waiting : Settles(A, R)
  /\ UNCHANGED <<ledger, memory>>

-----------------------------------------------------------------------------
(* publishOnce *)

\* poke: a tick begins by reading what the wallet has pending.
StartTick ==
  /\ pc = "idle"
  /\ pc' = "claim" /\ pendingTxs' = waiting /\ todo' = waiting
  /\ synced' = FALSE
  /\ UNCHANGED <<ledger, wallet, queue, flushed, scan, missing, delivery, chain,
                 troubles>>

\* Mutant of Claimed: forgets the records it died before marking.
ClaimedOnceMarked(t) == carries[t] \cap InState("PUBLISHING")

\* Only records still waiting are claimed.
Claimed(t) == carries[t] \cap (InState("QUEUED") \cup InState("PUBLISHING"))

\* A transaction the wallet already built owns its records.
Claim(t) ==
  /\ pc = "claim" /\ t \in todo /\ \A u \in todo : t <= u
  /\ Update(Claimed(t), "PUBLISHING", t)
  /\ todo' = todo \ {t}
  /\ UNCHANGED <<wallet, pc, publish, scan, missing, synced, delivery, chain,
                 troubles>>

\* Mutant of Orphans: nothing is ever left behind.
NoOrphans == {}

\* Transactions of PUBLISHING records that the wallet does not hold as pending.
Orphans == {txid[e] : e \in InState("PUBLISHING")} \ (pendingTxs \cup {NoTx})

FindOrphans ==
  /\ pc = "claim" /\ todo = {}
  /\ pc' = "orphans" /\ todo' = Orphans
  /\ UNCHANGED <<ledger, wallet, publish, scan, missing, synced, delivery, chain,
                 troubles>>

\* recoverOrphans: each is settled from what is known of its transaction.
RecoverOrphan(t) ==
  /\ pc = "orphans" /\ t \in todo
  /\ LET E == InTx(t) \cap InState("PUBLISHING") IN
     IF seen[t] # Unseen THEN SetStatus(E, "CONFIRMED")
     ELSE IF t \in waiting \cup accepted THEN SetStatus(E, "BROADCAST")
     ELSE Update(E, "QUEUED", NoTx)
  /\ todo' = todo \ {t}
  /\ UNCHANGED <<wallet, pc, publish, scan, missing, synced, delivery, chain,
                 troubles>>

ReadQueue ==
  /\ pc = "orphans" /\ todo = {}
  /\ pc' = "batch" /\ queue' = InState("QUEUED")
  /\ UNCHANGED <<ledger, wallet, pendingTxs, todo, flushed, scan, missing,
                 synced, delivery, chain, troubles>>

\* The oldest queued records, up to the limit on their count (or their bytes).
Batches ==
  {B \in SUBSET queue : /\ B # {} /\ Cardinality(B) <= MaxBatch
                        /\ \A e \in B, d \in queue \ B : e < d}

\* wallet.prepareRecords: one commit of the wallet.
PrepareRecords ==
  /\ pc = "batch" /\ built < MaxTx
  /\ \E B \in Batches :
       /\ carries' = [carries EXCEPT ![built + 1] = B]
       /\ queue' = queue \ B
  /\ built' = built + 1 /\ waiting' = waiting \cup {built + 1}
  /\ pc' = "mark"
  /\ UNCHANGED <<ledger, accepted, pendingTxs, todo, flushed, scan, missing,
                 synced, delivery, chain, troubles>>

\* The commit of the ledger that follows it.
MarkPublishing ==
  /\ pc = "mark"
  /\ Update(carries[built], "PUBLISHING", built)
  /\ pc' = "batch"
  /\ UNCHANGED <<wallet, publish, todo, scan, missing, synced, delivery, chain,
                 troubles>>

\* Nothing is left to build, or the wallet has not the money for it.
StopBuilding ==
  /\ pc = "batch"
  /\ pc' = "flush" /\ queue' = {}
  /\ UNCHANGED <<ledger, wallet, pendingTxs, todo, flushed, scan, missing,
                 synced, delivery, chain, troubles>>

\* wallet.flush, and its answer.
Flush(definite) ==
  /\ pc = "flush"
  /\ \E A \in SUBSET waiting, R \in SUBSET waiting :
       /\ definite = (A \cup R = waiting)
       /\ Settles(A, R)
       /\ flushed' = [broadcast |-> A, rolledBack |-> R,
                      stillPending |-> waiting \ (A \cup R)]
  /\ pc' = "reread"
  /\ UNCHANGED <<ledger, pendingTxs, todo, queue, scan, missing, synced, delivery>>

\* The wallet's pending list is read again: a transaction another flush has
\* settled since is not still pending.
RereadPending ==
  /\ pc = "reread"
  /\ flushed' = [flushed EXCEPT !.stillPending = @ \cap waiting]
  /\ pc' = "broadcast" /\ todo' = flushed.broadcast
  /\ UNCHANGED <<ledger, wallet, pendingTxs, queue, scan, missing, synced,
                 delivery, chain, troubles>>

\* The records of an accepted transaction, unless already seen on chain.
RecordBroadcast(t) ==
  /\ pc = "broadcast" /\ t \in todo
  /\ SetStatus(InTx(t) \ InState("CONFIRMED"), "BROADCAST")
  /\ todo' = todo \ {t}
  /\ UNCHANGED <<wallet, pc, publish, scan, missing, synced, delivery, chain,
                 troubles>>

\* The records of a withdrawn transaction wait again.
RecordRolledBack(t) ==
  /\ pc = "rolledBack" /\ t \in todo
  /\ Update(carries[t], "QUEUED", NoTx)
  /\ todo' = todo \ {t}
  /\ UNCHANGED <<wallet, pc, publish, scan, missing, synced, delivery, chain,
                 troubles>>

\* The records of a transaction the network has not answered for.
RecordStillPending(t) ==
  /\ pc = "stillPending" /\ t \in todo
  /\ Update(carries[t], "PUBLISHING", t)
  /\ todo' = todo \ {t}
  /\ UNCHANGED <<wallet, pc, publish, scan, missing, synced, delivery, chain,
                 troubles>>

\* From one loop over the answer of flush() to the next, and on to the scan.
NextLoop ==
  /\ todo = {}
  /\ \/ /\ pc = "broadcast"
        /\ pc' = "rolledBack" /\ todo' = flushed.rolledBack
        /\ UNCHANGED flushed
     \/ /\ pc = "rolledBack"
        /\ pc' = "stillPending" /\ todo' = flushed.stillPending
        /\ UNCHANGED flushed
     \/ /\ pc = "stillPending"
        /\ pc' = "history" /\ todo' = {} /\ flushed' = NothingFlushed
  /\ UNCHANGED <<ledger, wallet, pendingTxs, queue, scan, missing, synced,
                 delivery, chain, troubles>>

-----------------------------------------------------------------------------
(* scanOnce *)

\* What the index lists, each block in full but perhaps not the last blocks: the
\* mined transactions from the cursor on ...
Confirmed(upTo) ==
  {i \in Listing : /\ i.height = chain[i.tx]
                   /\ i.height \in 1..upTo /\ i.height >= cursor}
\* ... and those it shows as unconfirmed.
Unconfirmed(upTo, shown) ==
  {i \in Listing : /\ i.height = Mempool /\ i.tx \in shown
                   /\ chain[i.tx] = Mempool \/ chain[i.tx] > upTo}

\* The two calls that read the anchor history.
ReadHistory(upTo, shown) ==
  /\ pc = "history"
  /\ items' = Confirmed(upTo) \cup Unconfirmed(upTo, shown)
  /\ highest' = IF Confirmed(upTo) = {} THEN cursor
                ELSE CHOOSE h \in cursor..MaxHeight :
                       /\ \E i \in Confirmed(upTo) : i.height = h
                       /\ \A i \in Confirmed(upTo) : i.height <= h
  /\ discovered' = {} /\ pc' = "items"
  /\ UNCHANGED <<ledger, wallet, publish, todo, current, missing, synced, delivery, chain,
                 troubles>>

\* The height of a listed transaction tells nothing new.
Known(i) ==
  \/ seen[i.tx] = i.height
  \/ seen[i.tx] > Mempool /\ i.height = Mempool

SkipKnown(i) ==
  /\ pc = "items" /\ i \in items /\ Known(i)
  /\ items' = items \ {i}
  /\ UNCHANGED <<ledger, wallet, pc, publish, todo, current, highest,
                 discovered,
                 missing, synced, delivery, chain, troubles>>

\* First seen in the mempool, now mined (or mined in another block).
RecordMined(i) ==
  /\ pc = "items" /\ i \in items /\ ~Known(i) /\ seen[i.tx] # Unseen
  /\ items' = items \ {i}
  /\ status' = [e \in Record |->
       IF i.tx \in Own /\ e \in carries[i.tx] THEN "CONFIRMED" ELSE status[e]]
  /\ seen' = [seen EXCEPT ![i.tx] = i.height]
  /\ UNCHANGED <<txid, stored, cursor, wallet, pc, publish, todo, current,
                 highest, discovered, missing, synced, delivery, chain, troubles>>

\* A transaction met for the first time: our own records in it are confirmed,
\* those of others are stored.  A record already stored is not discovered again.
StoreItem(i) ==
  /\ pc = "items" /\ i \in items /\ seen[i.tx] = Unseen
  /\ LET E == IF i.tx \in Own THEN carries[i.tx] ELSE {}
         N == ({i.tx} \cap Remote) \ (Junk \cup stored) IN
     /\ status' = [e \in Record |-> IF e \in E THEN "CONFIRMED" ELSE status[e]]
     /\ txid' = [e \in Record |-> IF e \in E THEN i.tx ELSE txid[e]]
     /\ stored' = stored \cup N
     /\ discovered' = discovered \cup N
  /\ pc' = "markSeen" /\ items' = items \ {i} /\ current' = {i}
  /\ UNCHANGED <<seen, cursor, wallet, publish, todo, highest, missing, synced,
                 delivery, chain, troubles>>

\* markSeen, a write of its own.
MarkSeen ==
  /\ pc = "markSeen"
  /\ \E i \in current : seen' = [seen EXCEPT ![i.tx] = i.height]
  /\ pc' = "items" /\ current' = {}
  /\ UNCHANGED <<status, txid, stored, cursor, wallet, publish, todo, items,
                 highest, discovered, missing, synced, delivery, chain, troubles>>

\* Mutant of SetCursor: moves on although listed transactions are unread.
SetCursorEarly ==
  /\ pc = "items"
  /\ cursor' = highest /\ pc' = "check" /\ items' = {}
  /\ UNCHANGED <<status, txid, stored, seen, wallet, publish, todo, current,
                 highest, discovered, missing, synced, delivery, chain, troubles>>

\* Only a scan that visited everything listed moves the cursor.
SetCursor ==
  /\ pc = "items" /\ items = {}
  /\ cursor' = highest /\ pc' = "check"
  /\ UNCHANGED <<status, txid, stored, seen, wallet, publish, todo, scan,
                 missing, synced, delivery, chain, troubles>>

\* Broadcast transactions of our own that no scan has seen, and those of them
\* missed often enough to be given up, once LOST_AFTER_MS have passed.
Awaited == {txid[e] : e \in InState("BROADCAST")} \ {NoTx}
Missed == {t \in Awaited : seen[t] = Unseen}

MissedTooOften == {t \in Missed : missing[t] + 1 >= LostAfterScans}

\* checkBroadcasts: confirms what the scan saw, gives up what is `late`.  A
\* transaction the index lists too late is given up as well: one more trouble.
CheckBroadcasts(late) ==
  /\ pc = "check"
  /\ late \subseteq MissedTooOften
  /\ IF \E t \in late : OnNetwork(t) THEN Trouble ELSE UNCHANGED troubles
  /\ LET given == {e \in InState("BROADCAST") : txid[e] \in late}
         found == {e \in InState("BROADCAST") : txid[e] \in Awaited \ Missed}
     IN
     /\ status' = [e \in Record |->
                     IF e \in given THEN "QUEUED"
                     ELSE IF e \in found THEN "CONFIRMED" ELSE status[e]]
     /\ txid' = [e \in Record |-> IF e \in given THEN NoTx ELSE txid[e]]
  /\ missing' = [t \in Own |->
       IF t \in MissedTooOften \ late THEN LostAfterScans
       ELSE IF t \in Missed \ late THEN missing[t] + 1 ELSE 0]
  /\ pc' = "handOver"
  /\ UNCHANGED <<stored, seen, cursor, wallet, publish, todo, scan, synced,
                 delivery, chain>>

\* onRemoteEnvelopes: what this scan discovered goes to the runtime.
HandOver ==
  /\ pc = "handOver"
  /\ handed' = handed \cup discovered
  /\ synced' = TRUE /\ pc' = "idle"
  /\ discovered' = {} /\ highest' = 0 /\ pendingTxs' = {}
  /\ UNCHANGED <<ledger, wallet, todo, queue, flushed, items, current, missing,
                 dropped, chain, troubles>>

-----------------------------------------------------------------------------
(* What goes wrong, and the network *)

Stops ==
  /\ pc' = "idle" /\ pendingTxs' = {} /\ todo' = {} /\ queue' = {}
  /\ flushed' = NothingFlushed
  /\ items' = {} /\ current' = {} /\ highest' = 0 /\ discovered' = {}
  /\ synced' = FALSE
  /\ Trouble
  /\ UNCHANGED <<ledger, wallet, chain>>

\* A call fails: the tick ends there and its local variables are gone, the
\* records a scan had stored and not handed over among them.
TickFails ==
  /\ pc # "idle" /\ Stops
  /\ dropped' = dropped \cup discovered
  /\ UNCHANGED <<missing, handed>>

\* The page ends at any moment; reopened, the runtime is primed with everything
\* the ledger holds.
Crash ==
  /\ Stops
  /\ missing' = [t \in Own |-> 0] /\ handed' = stored /\ dropped' = {}

\* Another device's transaction reaches the network.
RemotePublish(r) ==
  /\ chain[r] = Unseen
  /\ chain' = [chain EXCEPT ![r] = Mempool]
  /\ UNCHANGED <<ledger, wallet, memory, troubles>>

\* A block takes some of the unconfirmed transactions.
Mine(X, h) ==
  /\ X # {} /\ \A x \in X : chain[x] = Mempool
  /\ \A x \in Transaction : chain[x] < h
  /\ \A g \in 1..h - 1 : \E x \in Transaction : chain[x] = g
  /\ chain' = [x \in Transaction |-> IF x \in X THEN h ELSE chain[x]]
  /\ UNCHANGED <<ledger, wallet, memory, troubles>>

\* The network drops a transaction it took, before anybody was shown it.
NetworkLoses(t) ==
  /\ chain[t] = Mempool /\ seen[t] = Unseen
  /\ \A i \in items \cup current : i.tx # t
  /\ \A e \in carries[t] : ~(status[e] = "CONFIRMED" /\ txid[e] = t)
  /\ Trouble
  /\ chain' = [chain EXCEPT ![t] = Unseen]
  /\ UNCHANGED <<ledger, wallet, memory>>

-----------------------------------------------------------------------------
PublishStep ==
  \/ FindOrphans \/ ReadQueue \/ MarkPublishing \/ StopBuilding
  \/ RereadPending \/ NextLoop
  \/ \E t \in Own : \/ Claim(t) \/ RecoverOrphan(t) \/ RecordBroadcast(t)
                    \/ RecordRolledBack(t) \/ RecordStillPending(t)

ScanStep ==
  \/ \E i \in Listing : SkipKnown(i) \/ RecordMined(i) \/ StoreItem(i)
  \/ MarkSeen \/ SetCursor \/ HandOver

\* The index shows everything there is.
ReadWholeHistory == ReadHistory(MaxHeight, Transaction)

\* Everything the network really lost is noticed.
CheckBroadcastsInTime ==
  CheckBroadcasts({t \in MissedTooOften : ~OnNetwork(t)})

World ==
  \/ \E r \in Remote : RemotePublish(r)
  \/ \E X \in SUBSET Transaction, h \in 1..MaxHeight : Mine(X, h)
  \/ \E t \in Own : NetworkLoses(t)

Next ==
  \/ \E e \in Record : Author(e)
  \/ OtherFlush
  \/ StartTick \/ PublishStep \/ PrepareRecords
  \/ \E definite \in BOOLEAN : Flush(definite)
  \/ \E upTo \in 0..MaxHeight, shown \in SUBSET Transaction :
       ReadHistory(upTo, shown)
  \/ ScanStep
  \/ \E late \in SUBSET Own : CheckBroadcasts(late)
  \/ TickFails \/ Crash \/ World

Spec == Init /\ [][Next]_vars

\* The timer pokes every 15 seconds and a tick runs to its end.  The wallet is
\* funded, the network answers, the index shows and the minute passes again and
\* again.
Fairness ==
  /\ WF_vars(StartTick) /\ WF_vars(PublishStep) /\ WF_vars(ScanStep)
  /\ WF_vars(\E definite \in BOOLEAN : Flush(definite))
  /\ WF_vars(\E upTo \in 0..MaxHeight, shown \in SUBSET Transaction :
               ReadHistory(upTo, shown))
  /\ WF_vars(\E late \in SUBSET Own : CheckBroadcasts(late))
  /\ SF_vars(PrepareRecords) /\ SF_vars(Flush(TRUE))
  /\ SF_vars(ReadWholeHistory) /\ SF_vars(CheckBroadcastsInTime)

FairSpec == Spec /\ Fairness
-----------------------------------------------------------------------------
(* Properties *)

\* No record waits in two transactions: whatever a crash, a failed tick or
\* another flush left behind, publishOnce claims before it builds.
WaitsInOneTransaction ==
  \A t, u \in waiting : t # u => carries[t] \cap carries[u] = {}

\* The cursor never passes a transaction that was not scanned, and no scanned
\* transaction's record is missing from the ledger, so nothing another device
\* published is lost to this one.
NothingSkipped ==
  \A x \in Transaction :
    /\ chain[x] \in 1..cursor - 1 => seen[x] # Unseen
    /\ seen[x] # Unseen /\ x \in Remote \ Junk => x \in stored

\* Whatever fails, every authored record is in the end confirmed for good
\* ("would never be published again", transport.ts:180-182), and every record
\* another device published is in the end stored here and handed to the runtime,
\* unless a tick failed between the two: the next scan finds it stored and does
\* not discover it again (transport.ts:238, 269), so that it is handed over only
\* when the page is opened again.
EveryRecordArrives ==
  /\ \A e \in Record : status[e] # "NONE" ~> [](status[e] = "CONFIRMED")
  /\ \A r \in Remote \ Junk :
       OnNetwork(r) ~> r \in stored /\ r \in handed \cup dropped
=============================================================================
