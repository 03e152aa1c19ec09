------------------------ MODULE ChainTransportProofs ------------------------
(***************************************************************************)
(* What ChainTransport guarantees for every number of records,             *)
(* transactions, blocks and troubles.                                      *)
(*                                                                         *)
(* NothingSkipped: while a scan runs, whatever is mined below the highest  *)
(* listed height is scanned or still has to be visited, and a block mined  *)
(* meanwhile is higher than every height the index has listed.             *)
(*                                                                         *)
(* WaitsInOneTransaction: when publishOnce reads the queue, none of the    *)
(* queued records is in a transaction that waits, because every waiting    *)
(* transaction's records were claimed first and recoverOrphans settles     *)
(* only records of other transactions.                                     *)
(***************************************************************************)
EXTENDS ChainTransport, WellFoundedInduction, TLAPS

\* Somewhere in the chain there is a block as high as the cursor and as the
\* highest height listed.
HeightsExist ==
  \A h \in {cursor, highest} : h = 0 \/ \E x \in Transaction : chain[x] >= h

\* The scan holds one transaction stored and not yet marked, or none, and the
\* record of that one is in the ledger.
CurrentIsStored ==
  /\ pc # "markSeen" => current = {}
  /\ pc = "markSeen" => \E i \in Listing :
       current = {i} /\ (i.tx \in Remote \ Junk => i.tx \in stored)

\* Everything mined below the highest listed height is scanned or still to visit.
ScanCovers ==
  pc \in {"items", "markSeen"} =>
    \A x \in Transaction :
      chain[x] \in 1..highest - 1 =>
        seen[x] # Unseen \/ \E i \in items \cup current : i.tx = x

ScanInv == TypeOK /\ HeightsExist /\ CurrentIsStored /\ ScanCovers /\ NothingSkipped

\* A record in a transaction, or to be put into one, was authored.
OnlyAuthored ==
  /\ \A t \in Own : \A e \in carries[t] : status[e] # "NONE"
  /\ \A e \in queue : status[e] # "NONE"

\* None of the records of t is queued, and those being published are so in t.
Owns(t) ==
  \A e \in carries[t] : /\ status[e] # "QUEUED"
                        /\ status[e] = "PUBLISHING" => txid[e] = t

\* The transactions claimed so far own their records.
ClaimedOwn ==
  pc = "claim" =>
    /\ waiting \subseteq pendingTxs /\ todo \subseteq pendingTxs
    /\ \A t, u \in pendingTxs : t # u => carries[t] \cap carries[u] = {}
    /\ \A t \in waiting \ todo : Owns(t)

\* Recovery leaves them alone.
RecoveryKeepsOwned ==
  pc = "orphans" =>
    /\ waiting \subseteq pendingTxs /\ todo \cap pendingTxs = {}
    /\ \A t \in waiting : Owns(t)

\* What the tick is about to put into a transaction is in none that waits.
QueueIsFree ==
  pc \in {"batch", "mark"} => \A t \in waiting : queue \cap carries[t] = {}

OwnershipInv ==
  /\ TypeOK
  /\ waiting \subseteq 1..built /\ OnlyAuthored
  /\ ClaimedOwn /\ RecoveryKeepsOwned /\ QueueIsFree
  /\ WaitsInOneTransaction

-----------------------------------------------------------------------------
(* Numbers *)

\* A set of natural numbers that is not empty has a least member.
LEMMA NatMin == 
  ASSUME NEW T, T \subseteq Nat, T # {}
  PROVE \E x \in T : \A y \in T : x <= y
<1> DEFINE R == OpToRel(<, Nat)
<1>1. IsWellFoundedOn(R, Nat)
  BY NatLessThanWellFounded, Zenon
<1>2. \A x, y \in Nat : y < x => <<y, x>> \in R
  BY DEF OpToRel
<1> HIDE DEF R
<1>3. PICK x \in T : \A y \in T : ~ (<<y, x>> \in R)
  BY <1>1, WFMin
<1>4. ASSUME NEW y \in T PROVE x <= y
  <2>1. x \in Nat /\ y \in Nat /\ ~ (y < x)
    BY <1>2, <1>3
  <2> QED BY <2>1
<1> QED BY <1>4

\* A set of naturals with a bound that is not empty has a greatest member: the
\* highest height a listing names exists.
LEMMA NatMax == 
  ASSUME NEW n \in Nat, NEW T, T \subseteq 0..n, T # {}
  PROVE \E x \in T : \A y \in T : y <= x
<1> DEFINE D == {n - y : y \in T}
<1>1. D \subseteq Nat
  BY \A y \in T : y \in Int /\ 0 <= y /\ y <= n
<1>2. D # {}
  <2>1. PICK y \in T : TRUE
    OBVIOUS
  <2>2. n - y \in D
    BY <2>1
  <2> QED BY <2>2
<1>3. PICK d \in D : \A e \in D : d <= e
  <2> HIDE DEF D
  <2> QED BY <1>1, <1>2, NatMin
<1>4. PICK x \in T : d = n - x
  BY <1>3
<1>5. ASSUME NEW y \in T PROVE y <= x
  <2>1. d <= n - y
    BY <1>3
  <2> QED BY <2>1, <1>4
<1> QED BY <1>5

-----------------------------------------------------------------------------
(* Types *)

USE DEF NoTx, Unseen, Mempool

\* The state is well typed when the ledger and the wallet are opened.
LEMMA InitTypeOK == Init => TypeOK
<1> SUFFICES ASSUME Init PROVE TypeOK
  OBVIOUS
<1>1. /\ status \in [Record -> Statuses] /\ pc \in Steps
      /\ txid \in [Record -> Own \cup {NoTx}]
  BY DEF Init, Statuses, Steps
<1>2. seen \in [Transaction -> Heights] /\ chain \in [Transaction -> Heights]
  BY TransportAssumption DEF Init, Heights
<1>3. carries \in [Own -> SUBSET Record] /\ missing \in [Own -> 0..LostAfterScans]
  BY TransportAssumption DEF Init
<1>4. cursor \in 0..MaxHeight /\ highest \in 0..MaxHeight /\ built \in 0..MaxTx
      /\ troubles \in 0..MaxTroubles
  BY TransportAssumption DEF Init
<1>5. flushed \in [broadcast : SUBSET Own, rolledBack : SUBSET Own,
                   stillPending : SUBSET Own]
  BY DEF Init, NothingFlushed
<1> QED BY <1>1, <1>2, <1>3, <1>4, <1>5 DEF Init, TypeOK

\* The wallet keeps its types when a flush settles some of what waits.
LEMMA SettlesTypes ==
  ASSUME TypeOK, NEW A \in SUBSET waiting, NEW R \in SUBSET waiting, Settles(A, R)
  PROVE  /\ waiting' \subseteq waiting /\ accepted' \subseteq Own
         /\ UNCHANGED <<built, carries>>
         /\ chain' \in [Transaction -> Heights]
         /\ \A x \in Transaction :
              chain'[x] # chain[x] => chain[x] = Unseen /\ chain'[x] = Mempool
         /\ troubles' \in 0..MaxTroubles
<1>1. /\ waiting' \subseteq waiting /\ accepted' \subseteq Own
      /\ UNCHANGED <<built, carries>>
  BY DEF Settles, TypeOK
<1>2. troubles' \in 0..MaxTroubles
  BY TransportAssumption DEF Settles, Trouble, TypeOK
<1>3. PICK landed \in SUBSET (waiting \ (A \cup R)) :
        chain' = [x \in Transaction |->
            IF x \in A \cup landed /\ ~OnNetwork(x) THEN Mempool ELSE chain[x]]
  BY DEF Settles
<1>4. Mempool \in Heights /\ \A x \in Transaction : chain[x] \in Heights
  BY TransportAssumption DEF Heights, TypeOK
<1> QED BY <1>1, <1>2, <1>3, <1>4 DEF OnNetwork

\* The highest height a reading of the index finds is the cursor, or a height at
\* which it lists a transaction and above which it lists none.
LEMMA HighestListed ==
  ASSUME TypeOK, NEW upTo \in 0..MaxHeight, NEW shown \in SUBSET Transaction,
         ReadHistory(upTo, shown)
  PROVE  /\ highest' \in cursor..MaxHeight
         /\ highest' = cursor \/ \E i \in Confirmed(upTo) : i.height = highest'
<1>1. CASE Confirmed(upTo) = {}
  BY <1>1 DEF ReadHistory, TypeOK
<1>2. CASE Confirmed(upTo) # {}
  <2> DEFINE H == {i.height : i \in Confirmed(upTo)}
  <2>1. H \subseteq 0..upTo /\ H \subseteq cursor..MaxHeight
    <3>1. \A i \in Confirmed(upTo) :
            i.height \in Mempool..MaxHeight /\ i.height \in 1..upTo /\ i.height >= cursor
      BY DEF Confirmed, Listing
    <3> QED BY <3>1, TransportAssumption DEF TypeOK
  <2>0. H # {}
    BY <1>2
  <2>2. PICK h \in H : \A g \in H : g <= h
    <3> HIDE DEF H
    <3> QED BY <2>0, <2>1, upTo \in Nat, NatMax
  <2>3. /\ h \in cursor..MaxHeight
        /\ \E i \in Confirmed(upTo) : i.height = h
        /\ \A i \in Confirmed(upTo) : i.height <= h
    BY <2>1, <2>2
  <2>4. highest' = CHOOSE k \in cursor..MaxHeight :
                     /\ \E i \in Confirmed(upTo) : i.height = k
                     /\ \A i \in Confirmed(upTo) : i.height <= k
    BY <1>2 DEF ReadHistory
  <2> QED BY <2>3, <2>4
<1> QED BY <1>1, <1>2

\* Every step keeps the state well typed.
LEMMA TypeStep == TypeOK /\ [Next]_vars => TypeOK'
<1> SUFFICES ASSUME TypeOK, [Next]_vars PROVE TypeOK'
  OBVIOUS
<1> USE TransportAssumption DEF delivery
<1>1. ASSUME NEW e \in Record, Author(e)
      PROVE TypeOK'
  BY <1>1 DEF Author, Statuses, TypeOK, Update, wallet, publish, scan, memory
<1>2. ASSUME OtherFlush
      PROVE TypeOK'
  <2>1. PICK A \in SUBSET waiting, R \in SUBSET waiting : Settles(A, R)
    BY <1>2 DEF OtherFlush
  <2> QED BY <1>2, <2>1, SettlesTypes
        DEF OtherFlush, TypeOK, ledger, memory, publish, scan
<1>3. ASSUME StartTick
      PROVE TypeOK'
  BY <1>3 DEF StartTick, Steps, TypeOK, ledger, wallet, scan
<1>4. ASSUME FindOrphans
      PROVE TypeOK'
  BY <1>4 DEF FindOrphans, Orphans, InState, Steps, TypeOK, ledger, wallet, publish,
     scan
<1>5. ASSUME ReadQueue
      PROVE TypeOK'
  BY <1>5 DEF ReadQueue, InState, Steps, TypeOK, ledger, wallet, scan
<1>6. ASSUME MarkPublishing
      PROVE TypeOK'
  BY <1>6 DEF MarkPublishing, Own, Statuses, Steps, TypeOK, Update, wallet, publish,
     scan
<1>7. ASSUME StopBuilding
      PROVE TypeOK'
  BY <1>7 DEF StopBuilding, Steps, TypeOK, ledger, wallet, scan
<1>8. ASSUME RereadPending
      PROVE TypeOK'
  BY <1>8 DEF RereadPending, Steps, TypeOK, ledger, wallet, scan
<1>9. ASSUME NextLoop
      PROVE TypeOK'
  BY <1>9 DEF NextLoop, NothingFlushed, Steps, TypeOK, ledger, wallet, scan
<1>10. ASSUME NEW t \in Own, Claim(t)
      PROVE TypeOK'
  BY <1>10 DEF Claim, Claimed, Statuses, TypeOK, Update, wallet, publish, scan
<1>11. ASSUME NEW t \in Own, RecoverOrphan(t)
      PROVE TypeOK'
  BY <1>11 DEF RecoverOrphan, InTx, InState, Statuses, TypeOK, Update, SetStatus,
     wallet, publish, scan
<1>12. ASSUME NEW t \in Own, RecordBroadcast(t)
      PROVE TypeOK'
  BY <1>12 DEF RecordBroadcast, Statuses, TypeOK, SetStatus, wallet, publish, scan
<1>13. ASSUME NEW t \in Own, RecordRolledBack(t)
      PROVE TypeOK'
  BY <1>13 DEF RecordRolledBack, Statuses, TypeOK, Update, wallet, publish, scan
<1>14. ASSUME NEW t \in Own, RecordStillPending(t)
      PROVE TypeOK'
  BY <1>14 DEF RecordStillPending, Statuses, TypeOK, Update, wallet, publish, scan
<1>15. ASSUME PrepareRecords
      PROVE TypeOK'
  <2>1. UNCHANGED <<ledger, accepted, pendingTxs, todo, flushed, scan, missing, synced,
                    handed, dropped, chain, troubles>>
    BY <1>15 DEF PrepareRecords
  <2>2. /\ carries' \in [Own -> SUBSET Record]
        /\ queue' \subseteq Record
        /\ built' \in 0..MaxTx /\ waiting' \subseteq Own
        /\ pc' \in Steps
    BY <1>15 DEF PrepareRecords, Batches, Own, Steps, TypeOK
  <2> QED BY <2>1, <2>2 DEF TypeOK, ledger, scan
<1>16. ASSUME NEW definite \in BOOLEAN, Flush(definite)
      PROVE TypeOK'
  <2>1. PICK A \in SUBSET waiting, R \in SUBSET waiting :
          /\ Settles(A, R)
          /\ flushed' = [broadcast |-> A, rolledBack |-> R,
                         stillPending |-> waiting \ (A \cup R)]
    BY <1>16 DEF Flush
  <2> QED BY <1>16, <2>1, SettlesTypes DEF Flush, Steps, TypeOK, ledger, scan
<1>17. ASSUME NEW upTo \in 0..MaxHeight, NEW shown \in SUBSET Transaction,
             ReadHistory(upTo, shown)
      PROVE TypeOK'
  <2>1. highest' \in 0..MaxHeight
    BY <1>17, HighestListed DEF TypeOK
  <2>2. items' \subseteq Listing
    BY <1>17 DEF ReadHistory, Confirmed, Unconfirmed
  <2> QED BY <1>17, <2>1, <2>2 DEF ReadHistory, Steps, TypeOK, ledger, wallet, publish
<1>18. ASSUME NEW i \in Listing, SkipKnown(i)
      PROVE TypeOK'
  BY <1>18 DEF SkipKnown, TypeOK, ledger, wallet, publish
<1>19. ASSUME NEW i \in Listing, RecordMined(i)
      PROVE TypeOK'
  BY <1>19 DEF RecordMined, Statuses, Listing, Heights, TypeOK, wallet, publish
<1>20. ASSUME NEW i \in Listing, StoreItem(i)
      PROVE TypeOK'
  BY <1>20 DEF StoreItem, Statuses, Listing, Steps, TypeOK, wallet, publish
<1>21. ASSUME MarkSeen
      PROVE TypeOK'
  BY <1>21 DEF MarkSeen, Listing, Heights, Steps, TypeOK, wallet, publish
<1>22. ASSUME SetCursor
      PROVE TypeOK'
  BY <1>22 DEF SetCursor, Steps, TypeOK, wallet, publish, scan
<1>23. ASSUME HandOver
      PROVE TypeOK'
  BY <1>23 DEF HandOver, Steps, TypeOK, ledger, wallet
<1>24. ASSUME NEW late \in SUBSET Own, CheckBroadcasts(late)
      PROVE TypeOK'
  BY <1>24 DEF CheckBroadcasts, MissedTooOften, Missed, Awaited, InState, Statuses,
     Steps, TypeOK, Trouble, wallet, publish, scan
<1>25. ASSUME TickFails
      PROVE TypeOK'
  <2>1. flushed' \in [broadcast : SUBSET Own, rolledBack : SUBSET Own,
                    stillPending : SUBSET Own]
    BY <1>25 DEF TickFails, Stops, NothingFlushed
  <2>2. troubles' \in 0..MaxTroubles /\ highest' \in 0..MaxHeight
    BY <1>25 DEF TickFails, Stops, Trouble, TypeOK
  <2>3. missing' \in [Own -> 0..LostAfterScans] /\ handed' \subseteq Remote /\ dropped' \subseteq Remote
    BY <1>25 DEF TickFails, TypeOK
  <2> QED BY <1>25, <2>1, <2>2, <2>3 DEF TickFails, Stops, Steps, TypeOK, ledger, wallet
<1>26. ASSUME Crash
      PROVE TypeOK'
  <2>1. flushed' \in [broadcast : SUBSET Own, rolledBack : SUBSET Own,
                    stillPending : SUBSET Own]
    BY <1>26 DEF Crash, Stops, NothingFlushed
  <2>2. troubles' \in 0..MaxTroubles /\ highest' \in 0..MaxHeight
    BY <1>26 DEF Crash, Stops, Trouble, TypeOK
  <2>3. missing' \in [Own -> 0..LostAfterScans] /\ handed' \subseteq Remote /\ dropped' \subseteq Remote
    BY <1>26 DEF Crash, TypeOK
  <2> QED BY <1>26, <2>1, <2>2, <2>3 DEF Crash, Stops, Steps, TypeOK, ledger, wallet
<1>27. ASSUME NEW r \in Remote, RemotePublish(r)
      PROVE TypeOK'
  BY <1>27 DEF RemotePublish, Heights, Transaction, TypeOK, ledger, wallet, publish,
     scan, memory
<1>28. ASSUME NEW X \in SUBSET Transaction, NEW h \in 1..MaxHeight, Mine(X, h)
      PROVE TypeOK'
  BY <1>28 DEF Mine, Heights, TypeOK, ledger, wallet, publish, scan, memory
<1>29. ASSUME NEW t \in Own, NetworkLoses(t)
      PROVE TypeOK'
  BY <1>29 DEF NetworkLoses, Heights, Transaction, TypeOK, Trouble, ledger, wallet,
     publish, scan, memory
<1>30. ASSUME UNCHANGED vars
      PROVE TypeOK'
  BY <1>30 DEF vars, TypeOK, ledger, wallet, publish, scan, memory
<1> QED
  BY <1>1, <1>2, <1>3, <1>4, <1>5, <1>6, <1>7, <1>8, <1>9, <1>10, <1>11, <1>12, <1>13,
     <1>14, <1>15, <1>16, <1>17, <1>18, <1>19, <1>20, <1>21, <1>22, <1>23, <1>24, <1>25,
     <1>26, <1>27, <1>28, <1>29, <1>30
     DEF Next, PublishStep, ScanStep, World
-----------------------------------------------------------------------------
(* Nothing is skipped *)

\* A transaction another device broadcasts, or the network drops, while it is
\* not mined.
UnminedOnly ==
  \A x \in Transaction :
    chain'[x] = chain[x] \/ {chain[x], chain'[x]} \subseteq {Unseen, Mempool}

\* Steps that touch neither the scan nor what it has recorded keep ScanInv.
LEMMA ScanUntouched ==
  ASSUME ScanInv, UNCHANGED <<stored, seen, cursor, items, current, highest>>,
         UnminedOnly,
         pc' = pc \/ {pc, pc'} \cap {"items", "markSeen"} = {}
  PROVE  HeightsExist' /\ CurrentIsStored' /\ ScanCovers' /\ NothingSkipped'
<1>1. /\ cursor \in Nat /\ highest \in Nat
      /\ \A x \in Transaction : chain[x] \in Int
      /\ \A x \in Transaction : chain'[x] >= 1 \/ chain[x] >= 1 => chain'[x] = chain[x]
  BY TransportAssumption DEF ScanInv, TypeOK, UnminedOnly, Heights
<1>2. HeightsExist'
  BY <1>1 DEF ScanInv, HeightsExist
<1>3. CurrentIsStored'
  BY DEF ScanInv, CurrentIsStored
<1>4. ScanCovers'
  <2> SUFFICES ASSUME pc' \in {"items", "markSeen"}, NEW x \in Transaction,
                      chain'[x] \in 1..highest - 1
               PROVE  seen[x] # Unseen \/ \E i \in items \cup current : i.tx = x
    BY DEF ScanCovers
  <2>0. pc \in {"items", "markSeen"}
    OBVIOUS
  <2>1. chain[x] \in 1..highest - 1
    <3>1. chain'[x] >= 1
      BY <1>1
    <3> QED BY <1>1, <3>1
  <2>2. ScanCovers
    BY DEF ScanInv
  <2> QED BY <2>0, <2>1, <2>2, Zenon DEF ScanCovers
<1>5. NothingSkipped'
  BY <1>1 DEF ScanInv, NothingSkipped
<1> QED BY <1>2, <1>3, <1>4, <1>5

\* The readings of the index: what is mined below the highest height listed is
\* below the cursor, and scanned, or is listed.
LEMMA ReadHistoryCovers ==
  ASSUME ScanInv, NEW upTo \in 0..MaxHeight, NEW shown \in SUBSET Transaction,
         ReadHistory(upTo, shown)
  PROVE  HeightsExist' /\ CurrentIsStored' /\ ScanCovers' /\ NothingSkipped'
<1> USE TransportAssumption
<1>0. /\ UNCHANGED <<ledger, wallet, current, chain>>
      /\ pc = "history" /\ pc' = "items"
      /\ Confirmed(upTo) \subseteq items'
  BY DEF ReadHistory
<1>1. /\ highest' \in cursor..MaxHeight
      /\ highest' = cursor \/ \E i \in Confirmed(upTo) : i.height = highest'
  BY HighestListed DEF ScanInv
<1>2. cursor \in Nat /\ \A x \in Transaction : chain[x] \in Heights
  BY DEF ScanInv, TypeOK
<1>3. HeightsExist'
  <2>1. CASE highest' = cursor
    BY <1>0, <2>1 DEF ScanInv, HeightsExist, ledger
  <2>2. CASE \E i \in Confirmed(upTo) : i.height = highest'
    <3>1. \E x \in Transaction : chain[x] = highest'
      BY <2>2 DEF Confirmed, Listing
    <3> QED BY <1>0, <1>1, <1>2, <3>1 DEF ScanInv, HeightsExist, ledger, Heights
  <2> QED BY <1>1, <2>1, <2>2
<1>4. CurrentIsStored'
  BY <1>0 DEF ScanInv, CurrentIsStored
<1>5. ASSUME NEW x \in Transaction, chain[x] \in 1..highest' - 1, seen[x] = Unseen
      PROVE  \E i \in items' : i.tx = x
  <2>1. chain[x] >= cursor
    BY <1>2, <1>5 DEF ScanInv, NothingSkipped, Heights
  <2>2. PICK i \in Confirmed(upTo) : i.height = highest'
    BY <1>1, <1>2, <1>5, <2>1 DEF Heights
  <2>3. i.height <= upTo
    BY <2>2 DEF Confirmed
  <2>4. chain[x] \in 1..upTo
    BY <1>1, <1>2, <1>5, <2>2, <2>3 DEF Heights
  <2>5. [tx |-> x, height |-> chain[x]] \in Confirmed(upTo)
    BY <2>1, <2>4, <1>2 DEF Confirmed, Listing, Heights
  <2> QED BY <1>0, <2>5
<1>6. ScanCovers'
  BY <1>0, <1>5 DEF ScanCovers, ledger
<1>7. NothingSkipped'
  BY <1>0 DEF ScanInv, NothingSkipped, ledger
<1> QED BY <1>3, <1>4, <1>6, <1>7

\* Visiting a listed transaction marks it as scanned, or stores its record first.
LEMMA VisitCovers ==
  ASSUME ScanInv, NEW i \in Listing, SkipKnown(i) \/ RecordMined(i) \/ StoreItem(i)
  PROVE  HeightsExist' /\ CurrentIsStored' /\ ScanCovers' /\ NothingSkipped'
<1> USE TransportAssumption
<1>0. /\ i.tx \in Transaction /\ i.height \in Nat
      /\ UNCHANGED <<chain, cursor, highest>>
      /\ pc = "items" /\ i \in items /\ current = {} /\ items' = items \ {i}
      /\ seen \in [Transaction -> Heights]
  BY DEF SkipKnown, RecordMined, StoreItem, Listing, ledger, ScanInv, CurrentIsStored,
         TypeOK
<1>1. HeightsExist'
  BY <1>0 DEF ScanInv, HeightsExist
<1>2. CASE SkipKnown(i)
  <2>1. seen[i.tx] # Unseen
    BY <1>0, <1>2 DEF SkipKnown, Known
  <2>2. UNCHANGED <<pc, seen, stored, current>>
    BY <1>2 DEF SkipKnown, ledger
  <2> QED BY <1>0, <1>1, <2>1, <2>2
        DEF ScanInv, CurrentIsStored, ScanCovers, NothingSkipped
<1>3. CASE RecordMined(i)
  <2>1. seen[i.tx] # Unseen /\ seen' = [seen EXCEPT ![i.tx] = i.height]
    BY <1>3 DEF RecordMined
  <2>2. \A x \in Transaction : seen'[x] # Unseen <=> seen[x] # Unseen
    BY <1>0, <2>1
  <2>3. UNCHANGED <<pc, stored, current>>
    BY <1>3 DEF RecordMined
  <2> QED BY <1>0, <1>1, <2>1, <2>2, <2>3
        DEF ScanInv, CurrentIsStored, ScanCovers, NothingSkipped
<1>4. CASE StoreItem(i)
  <2>1. /\ UNCHANGED seen /\ current' = {i} /\ pc' = "markSeen"
        /\ stored' = stored \cup (({i.tx} \cap Remote) \ (Junk \cup stored))
    BY <1>4 DEF StoreItem
  <2> QED BY <1>0, <1>1, <2>1
        DEF ScanInv, CurrentIsStored, ScanCovers, NothingSkipped
<1> QED BY <1>2, <1>3, <1>4

\* A block mined during a scan is above everything the scan is told of.
LEMMA MineCovers ==
  ASSUME ScanInv, NEW X \in SUBSET Transaction, NEW h \in 1..MaxHeight, Mine(X, h)
  PROVE  HeightsExist' /\ CurrentIsStored' /\ ScanCovers' /\ NothingSkipped'
<1> USE TransportAssumption
<1>1. /\ UNCHANGED <<pc, stored, seen, cursor, items, current, highest>>
      /\ chain' = [x \in Transaction |-> IF x \in X THEN h ELSE chain[x]]
      /\ \A x \in X : chain[x] = Mempool
      /\ \A x \in Transaction : chain[x] < h
  BY DEF Mine, ledger, memory, delivery, scan
<1>2. /\ cursor \in Nat /\ highest \in Nat
      /\ \A x \in Transaction : chain[x] \in Int
  BY DEF ScanInv, TypeOK, Heights
<1>3. cursor = 0 \/ h > cursor
  BY <1>1, <1>2 DEF ScanInv, HeightsExist
<1>4. highest = 0 \/ h > highest
  BY <1>1, <1>2 DEF ScanInv, HeightsExist
<1>5. \A x \in Transaction : chain'[x] >= chain[x]
  BY <1>1, <1>2
<1>6. HeightsExist'
  BY <1>1, <1>2, <1>5 DEF ScanInv, HeightsExist
<1>7. \A x \in Transaction : chain'[x] \in 1..cursor - 1 => chain[x] \in 1..cursor - 1
  BY <1>1, <1>2, <1>3
<1>8. \A x \in Transaction : chain'[x] \in 1..highest - 1 => chain[x] \in 1..highest - 1
  BY <1>1, <1>2, <1>4
<1> QED BY <1>1, <1>6, <1>7, <1>8
      DEF ScanInv, CurrentIsStored, ScanCovers, NothingSkipped

\* A tick that ends leaves no scan behind.
LEMMA StopCovers ==
  ASSUME ScanInv, pc' = "idle", current' = {}, highest' = 0,
         UNCHANGED <<stored, seen, cursor, chain>>
  PROVE  HeightsExist' /\ CurrentIsStored' /\ ScanCovers' /\ NothingSkipped'
<1>1. HeightsExist'
  BY DEF ScanInv, HeightsExist
<1> QED BY <1>1 DEF ScanInv, CurrentIsStored, ScanCovers, NothingSkipped

\* Every step keeps what the scan knows.
LEMMA ScanStepInv == ScanInv /\ [Next]_vars => ScanInv'
<1> SUFFICES ASSUME ScanInv, [Next]_vars PROVE ScanInv'
  OBVIOUS
<1> DEFINE Kept == HeightsExist' /\ CurrentIsStored' /\ ScanCovers' /\ NothingSkipped'
           Aside == /\ UNCHANGED <<stored, seen, cursor, items, current, highest>>
                    /\ UnminedOnly
                    /\ pc' = pc \/ {pc, pc'} \cap {"items", "markSeen"} = {}
<1>0. TypeOK /\ TypeOK'
  BY TypeStep DEF ScanInv
<1>1. Aside => Kept
  BY ScanUntouched
<1> HIDE DEF Kept
<1>2. ASSUME \E e \in Record : Author(e) PROVE Kept
  BY <1>1, <1>2 DEF Author, Update, memory, delivery, scan, UnminedOnly
<1>3. ASSUME OtherFlush PROVE Kept
  <2>1. PICK A \in SUBSET waiting, R \in SUBSET waiting : Settles(A, R)
    BY <1>3 DEF OtherFlush
  <2>2. UnminedOnly
    BY <1>0, <2>1, SettlesTypes DEF UnminedOnly
  <2> QED BY <1>1, <1>3, <2>2 DEF OtherFlush, ledger, memory, delivery, scan
<1>4. ASSUME StartTick \/ FindOrphans \/ ReadQueue \/ MarkPublishing \/ StopBuilding
             \/ RereadPending \/ NextLoop \/ PrepareRecords
      PROVE Kept
  BY <1>1, <1>4
     DEF StartTick, FindOrphans, ReadQueue, MarkPublishing, StopBuilding, RereadPending,
         NextLoop, PrepareRecords, Update, ledger, scan, UnminedOnly
<1>5. ASSUME \E t \in Own : \/ Claim(t) \/ RecoverOrphan(t) \/ RecordBroadcast(t)
                            \/ RecordRolledBack(t) \/ RecordStillPending(t)
      PROVE Kept
  <2>1. UNCHANGED <<stored, seen, cursor, pc, scan, chain>>
    BY <1>5 DEF Claim, RecoverOrphan, RecordBroadcast, RecordRolledBack,
                RecordStillPending, Update, SetStatus
  <2> QED BY <1>1, <2>1 DEF scan, UnminedOnly
<1>6. ASSUME \E definite \in BOOLEAN : Flush(definite) PROVE Kept
  <2>1. PICK A \in SUBSET waiting, R \in SUBSET waiting : Settles(A, R)
    BY <1>6 DEF Flush
  <2>2. UnminedOnly
    BY <1>0, <2>1, SettlesTypes DEF UnminedOnly
  <2> QED BY <1>1, <1>6, <2>2 DEF Flush, ledger, scan
<1>7. ASSUME NEW upTo \in 0..MaxHeight, NEW shown \in SUBSET Transaction,
             ReadHistory(upTo, shown)
      PROVE Kept
  BY <1>7, ReadHistoryCovers DEF Kept
<1>8. ASSUME NEW i \in Listing, SkipKnown(i) \/ RecordMined(i) \/ StoreItem(i)
      PROVE Kept
  BY <1>8, VisitCovers DEF Kept
<1>9. ASSUME MarkSeen PROVE Kept
  <2>1. PICK i \in current : seen' = [seen EXCEPT ![i.tx] = i.height]
    BY <1>9 DEF MarkSeen
  <2>2. /\ pc = "markSeen" /\ pc' = "items" /\ current' = {}
        /\ UNCHANGED <<stored, cursor, items, highest, chain>>
    BY <1>9 DEF MarkSeen
  <2>3. /\ current = {i} /\ i.tx \in Transaction /\ i.height \in Nat
        /\ i.tx \in Remote \ Junk => i.tx \in stored
    BY <2>1, <2>2, TransportAssumption DEF ScanInv, CurrentIsStored, Listing
  <2>4. \A x \in Transaction : seen'[x] # Unseen <=> seen[x] # Unseen \/ x = i.tx
    BY <1>0, <2>1, <2>3 DEF TypeOK
  <2>5. HeightsExist'
    BY <2>2 DEF ScanInv, HeightsExist
  <2> QED BY <2>2, <2>3, <2>4, <2>5
        DEF Kept, ScanInv, CurrentIsStored, ScanCovers, NothingSkipped
<1>10. ASSUME SetCursor PROVE Kept
  <2>1. /\ pc = "items" /\ pc' = "check" /\ items = {} /\ cursor' = highest
        /\ UNCHANGED <<stored, seen, current, highest, chain>>
    BY <1>10 DEF SetCursor, scan
  <2>2. \A x \in Transaction : chain[x] \in 1..highest - 1 => seen[x] # Unseen
    BY <2>1 DEF ScanInv, ScanCovers, CurrentIsStored
  <2>3. HeightsExist'
    BY <2>1 DEF ScanInv, HeightsExist
  <2> QED BY <2>1, <2>2, <2>3
        DEF Kept, ScanInv, CurrentIsStored, ScanCovers, NothingSkipped
<1>11. ASSUME \E late \in SUBSET Own : CheckBroadcasts(late) PROVE Kept
  BY <1>1, <1>11 DEF CheckBroadcasts, scan, UnminedOnly
<1>12. ASSUME HandOver PROVE Kept
  <2>1. current = {}
    BY <1>12 DEF HandOver, ScanInv, CurrentIsStored
  <2> QED BY <1>12, <2>1, StopCovers DEF HandOver, ledger, Kept
<1>13. ASSUME TickFails \/ Crash PROVE Kept
  BY <1>13, StopCovers DEF TickFails, Crash, Stops, ledger, Kept
<1>14. ASSUME NEW r \in Remote, RemotePublish(r) PROVE Kept
  <2>1. UnminedOnly
    BY <1>0, <1>14 DEF RemotePublish, TypeOK, UnminedOnly
  <2> QED BY <1>1, <1>14, <2>1 DEF RemotePublish, ledger, memory, delivery, scan
<1>15. ASSUME NEW X \in SUBSET Transaction, NEW h \in 1..MaxHeight, Mine(X, h)
       PROVE Kept
  BY <1>15, MineCovers DEF Kept
<1>16. ASSUME NEW t \in Own, NetworkLoses(t) PROVE Kept
  <2>1. UnminedOnly
    BY <1>0, <1>16 DEF NetworkLoses, TypeOK, UnminedOnly
  <2> QED BY <1>1, <1>16, <2>1 DEF NetworkLoses, ledger, memory, delivery, scan
<1>17. ASSUME UNCHANGED vars PROVE Kept
  BY <1>1, <1>17 DEF vars, ledger, memory, delivery, scan, UnminedOnly
<1>18. Kept
  BY <1>2, <1>3, <1>4, <1>5, <1>6, <1>7, <1>8, <1>9, <1>10, <1>11, <1>12, <1>13, <1>14,
     <1>15, <1>16, <1>17 DEF Next, PublishStep, ScanStep, World
<1> QED BY <1>0, <1>18 DEF Kept, ScanInv

\* TypeOK of the transport: src/src/unit/transport.ts.
THEOREM TransportTypes == Spec => []TypeOK
  BY InitTypeOK, TypeStep, PTL DEF Spec

\* Whatever tick, flush or page ends, in whatever order, and whatever the index
\* leaves out of its answers, no other device's record is lost to this one:
\* scanOnce never moves its cursor past a transaction it has not scanned, and what
\* it has scanned is in the ledger.
THEOREM TransportSkipsNothing == Spec => []NothingSkipped
<1>1. Init => ScanInv
  BY InitTypeOK
     DEF Init, ScanInv, HeightsExist, CurrentIsStored, ScanCovers, NothingSkipped
<1>2. ScanInv => NothingSkipped
  BY DEF ScanInv
<1> QED BY <1>1, <1>2, ScanStepInv, PTL DEF Spec
-----------------------------------------------------------------------------
(* Every record waits in one transaction *)

\* Steps that build no transaction, queue nothing more for the tick, and leave the
\* records alone while the tick claims them, keep OwnershipInv.
LEMMA OwnershipUntouched ==
  ASSUME OwnershipInv,
         UNCHANGED <<built, carries>>, waiting' \subseteq waiting, queue' \subseteq queue,
         \A e \in Record : status[e] # "NONE" => status'[e] # "NONE",
         pc' \in {"claim", "orphans"} =>
           /\ UNCHANGED <<pc, pendingTxs, todo>>
           /\ \A e \in Record : status[e] # "NONE" =>
                status'[e] = status[e] /\ txid'[e] = txid[e],
         pc' \in {"batch", "mark"} => pc \in {"batch", "mark"}
  PROVE  /\ waiting' \subseteq 1..built' /\ OnlyAuthored'
         /\ ClaimedOwn' /\ RecoveryKeepsOwned' /\ QueueIsFree' /\ WaitsInOneTransaction'
<1>1. /\ waiting \subseteq Own /\ queue \subseteq Record
      /\ \A t \in Own : carries[t] \subseteq Record
  BY DEF OwnershipInv, TypeOK
<1>2. waiting' \subseteq 1..built' /\ WaitsInOneTransaction'
  BY DEF OwnershipInv, WaitsInOneTransaction
<1>3. OnlyAuthored'
  BY <1>1 DEF OwnershipInv, OnlyAuthored
<1>4. ASSUME pc' \in {"claim", "orphans"}, NEW t \in waiting, Owns(t)
      PROVE  Owns(t)'
  BY <1>1, <1>4 DEF OwnershipInv, OnlyAuthored, Owns
<1>5. ClaimedOwn'
  <2>1. CASE pc' = "claim"
    <3>1. pc = "claim" /\ ClaimedOwn /\ UNCHANGED <<pendingTxs, todo>>
      BY <2>1 DEF OwnershipInv
    <3> QED BY <1>4, <2>1, <3>1 DEF ClaimedOwn
  <2> QED BY <2>1 DEF ClaimedOwn
<1>6. RecoveryKeepsOwned'
  <2>1. CASE pc' = "orphans"
    <3>1. pc = "orphans" /\ RecoveryKeepsOwned /\ UNCHANGED <<pendingTxs, todo>>
      BY <2>1 DEF OwnershipInv
    <3> QED BY <1>4, <2>1, <3>1 DEF RecoveryKeepsOwned
  <2> QED BY <2>1 DEF RecoveryKeepsOwned
<1>7. QueueIsFree'
  BY DEF OwnershipInv, QueueIsFree
<1> QED BY <1>2, <1>3, <1>5, <1>6, <1>7

\* Claiming one transaction's records takes none from another that is pending.
LEMMA ClaimOwns ==
  ASSUME OwnershipInv, NEW t \in Own, Claim(t), TypeOK'
  PROVE  OwnershipInv'
<1>1. /\ pc = "claim" /\ pc' = "claim" /\ t \in todo /\ todo' = todo \ {t}
      /\ UNCHANGED <<built, carries, waiting, pendingTxs, queue>>
      /\ status' = [e \in Record |-> IF e \in Claimed(t) THEN "PUBLISHING" ELSE status[e]]
      /\ txid' = [e \in Record |-> IF e \in Claimed(t) THEN t ELSE txid[e]]
  BY DEF Claim, Update, wallet, publish
<1>2. /\ waiting \subseteq Own /\ queue \subseteq Record /\ pendingTxs \subseteq Own
      /\ \A u \in Own : carries[u] \subseteq Record
  BY DEF OwnershipInv, TypeOK
<1>3. OnlyAuthored'
  BY <1>1, <1>2 DEF OwnershipInv, OnlyAuthored
<1>4. ASSUME NEW u \in waiting \ todo'
      PROVE  Owns(u)'
  <2>1. CASE u = t
    BY <1>1, <1>2, <2>1 DEF Owns, Claimed, InState
  <2>2. CASE u # t
    <3>1. Owns(u) /\ {t, u} \subseteq pendingTxs /\ carries[u] \cap carries[t] = {}
      BY <1>1, <2>2 DEF OwnershipInv, ClaimedOwn
    <3> QED BY <1>1, <1>2, <3>1 DEF Owns, Claimed
  <2> QED BY <2>1, <2>2
<1>5. ClaimedOwn'
  BY <1>1, <1>4 DEF OwnershipInv, ClaimedOwn
<1> QED BY <1>1, <1>3, <1>5
      DEF OwnershipInv, RecoveryKeepsOwned, QueueIsFree, WaitsInOneTransaction

\* Recovery settles records of other transactions than those that wait.
LEMMA RecoverOwns ==
  ASSUME OwnershipInv, NEW t \in Own, RecoverOrphan(t), TypeOK'
  PROVE  OwnershipInv'
<1> DEFINE E == InTx(t) \cap InState("PUBLISHING")
<1>1. /\ pc = "orphans" /\ pc' = "orphans" /\ t \in todo /\ todo' = todo \ {t}
      /\ UNCHANGED <<built, carries, waiting, pendingTxs, queue>>
      /\ \A e \in Record \ E : status'[e] = status[e] /\ txid'[e] = txid[e]
      /\ \A e \in Record : status[e] # "NONE" => status'[e] # "NONE"
  BY DEF RecoverOrphan, Update, SetStatus, wallet, publish, OwnershipInv, TypeOK
<1>2. /\ waiting \subseteq Own /\ queue \subseteq Record
      /\ \A u \in Own : carries[u] \subseteq Record
  BY DEF OwnershipInv, TypeOK
<1>3. OnlyAuthored'
  BY <1>1, <1>2 DEF OwnershipInv, OnlyAuthored
<1>4. t \notin waiting
  BY <1>1 DEF OwnershipInv, RecoveryKeepsOwned
<1>5. ASSUME NEW u \in waiting
      PROVE  Owns(u)'
  <2>1. Owns(u)
    BY <1>1 DEF OwnershipInv, RecoveryKeepsOwned
  <2>2. carries[u] \cap E = {}
    BY <1>4, <2>1 DEF Owns, InTx, InState
  <2> QED BY <1>1, <1>2, <2>1, <2>2 DEF Owns
<1>6. RecoveryKeepsOwned'
  BY <1>1, <1>5 DEF OwnershipInv, RecoveryKeepsOwned
<1> QED BY <1>1, <1>3, <1>6
      DEF OwnershipInv, ClaimedOwn, QueueIsFree, WaitsInOneTransaction

\* A transaction is built from queued records, and no waiting transaction has one.
LEMMA PrepareOwns ==
  ASSUME OwnershipInv, PrepareRecords, TypeOK'
  PROVE  OwnershipInv'
<1>1. PICK B \in Batches : /\ carries' = [carries EXCEPT ![built + 1] = B]
                           /\ queue' = queue \ B
  BY DEF PrepareRecords
<1>2. /\ pc = "batch" /\ pc' = "mark" /\ B \subseteq queue
      /\ built' = built + 1 /\ waiting' = waiting \cup {built + 1}
      /\ UNCHANGED status
  BY DEF PrepareRecords, Batches, ledger
<1>3. /\ built \in Nat /\ built + 1 \in Own /\ waiting \subseteq 1..built
      /\ waiting \subseteq Own /\ built + 1 \notin waiting
      /\ carries \in [Own -> SUBSET Record]
  BY TransportAssumption DEF PrepareRecords, OwnershipInv, TypeOK, Own
<1>4. /\ carries'[built + 1] = B
      /\ \A t \in Own : t # built + 1 => carries'[t] = carries[t]
  BY <1>1, <1>3
<1>5. \A t \in waiting : queue \cap carries[t] = {}
  BY <1>2 DEF OwnershipInv, QueueIsFree
<1>6. waiting' \subseteq 1..built'
  BY <1>2, <1>3
<1>7. OnlyAuthored'
  BY <1>1, <1>2, <1>4 DEF OwnershipInv, OnlyAuthored
<1>8. QueueIsFree'
  BY <1>1, <1>2, <1>3, <1>4, <1>5 DEF QueueIsFree
<1>9. WaitsInOneTransaction'
  BY <1>2, <1>3, <1>4, <1>5 DEF OwnershipInv, WaitsInOneTransaction
<1> QED BY <1>2, <1>6, <1>7, <1>8, <1>9
      DEF OwnershipInv, ClaimedOwn, RecoveryKeepsOwned

\* Every step keeps each record in one waiting transaction.
LEMMA OwnershipStep == OwnershipInv /\ [Next]_vars => OwnershipInv'
<1> SUFFICES ASSUME OwnershipInv, [Next]_vars PROVE OwnershipInv'
  OBVIOUS
<1>0. TypeOK /\ TypeOK'
  BY TypeStep DEF OwnershipInv
<1> DEFINE Aside ==
      /\ UNCHANGED <<built, carries>> /\ waiting' \subseteq waiting
      /\ queue' \subseteq queue
      /\ \A e \in Record : status[e] # "NONE" => status'[e] # "NONE"
      /\ pc' \in {"claim", "orphans"} =>
           /\ UNCHANGED <<pc, pendingTxs, todo>>
           /\ \A e \in Record : status[e] # "NONE" =>
                status'[e] = status[e] /\ txid'[e] = txid[e]
      /\ pc' \in {"batch", "mark"} => pc \in {"batch", "mark"}
<1>1. Aside => OwnershipInv'
  BY <1>0, OwnershipUntouched DEF OwnershipInv
<1>2. ASSUME NEW e \in Record, Author(e) PROVE OwnershipInv'
  <2>1. Aside
    BY <1>0, <1>2 DEF Author, Update, wallet, memory, delivery, publish, TypeOK
  <2> QED BY <1>1, <2>1
<1>3. ASSUME OtherFlush PROVE OwnershipInv'
  <2>1. PICK A \in SUBSET waiting, R \in SUBSET waiting : Settles(A, R)
    BY <1>3 DEF OtherFlush
  <2>2. Aside
    BY <1>0, <1>3, <2>1, SettlesTypes DEF OtherFlush, ledger, memory, delivery, publish
  <2> QED BY <1>1, <2>2
<1>4. ASSUME StartTick PROVE OwnershipInv'
  <2>1. /\ pc' = "claim" /\ pendingTxs' = waiting /\ todo' = waiting
        /\ UNCHANGED <<status, txid, built, carries, waiting, queue>>
    BY <1>4 DEF StartTick, ledger, wallet
  <2>2. OnlyAuthored' /\ WaitsInOneTransaction'
    BY <2>1 DEF OwnershipInv, OnlyAuthored, WaitsInOneTransaction
  <2>3. ClaimedOwn'
    BY <2>1 DEF OwnershipInv, WaitsInOneTransaction, ClaimedOwn
  <2> QED BY <1>0, <2>1, <2>2, <2>3 DEF OwnershipInv, RecoveryKeepsOwned, QueueIsFree
<1>5. ASSUME NEW t \in Own, Claim(t) PROVE OwnershipInv'
  BY <1>0, <1>5, ClaimOwns
<1>6. ASSUME FindOrphans PROVE OwnershipInv'
  <2>1. /\ pc = "claim" /\ todo = {} /\ pc' = "orphans" /\ todo' \cap pendingTxs = {}
        /\ UNCHANGED <<status, txid, built, carries, waiting, pendingTxs, queue>>
    BY <1>6 DEF FindOrphans, Orphans, ledger, wallet, publish
  <2>2. OnlyAuthored' /\ WaitsInOneTransaction'
    BY <2>1 DEF OwnershipInv, OnlyAuthored, WaitsInOneTransaction
  <2>3. RecoveryKeepsOwned'
    BY <2>1 DEF OwnershipInv, ClaimedOwn, RecoveryKeepsOwned, Owns
  <2> QED BY <1>0, <2>1, <2>2, <2>3 DEF OwnershipInv, ClaimedOwn, QueueIsFree
<1>7. ASSUME NEW t \in Own, RecoverOrphan(t) PROVE OwnershipInv'
  BY <1>0, <1>7, RecoverOwns
<1>8. ASSUME ReadQueue PROVE OwnershipInv'
  <2>1. /\ pc = "orphans" /\ pc' = "batch" /\ queue' = InState("QUEUED")
        /\ UNCHANGED <<status, txid, built, carries, waiting>>
    BY <1>8 DEF ReadQueue, ledger, wallet
  <2>2. OnlyAuthored' /\ WaitsInOneTransaction'
    BY <2>1 DEF OwnershipInv, OnlyAuthored, WaitsInOneTransaction, InState
  <2>3. QueueIsFree'
    BY <2>1 DEF OwnershipInv, RecoveryKeepsOwned, Owns, QueueIsFree, InState
  <2> QED BY <1>0, <2>1, <2>2, <2>3 DEF OwnershipInv, ClaimedOwn, RecoveryKeepsOwned
<1>9. ASSUME PrepareRecords PROVE OwnershipInv'
  BY <1>0, <1>9, PrepareOwns
<1>10. ASSUME MarkPublishing \/ StopBuilding \/ RereadPending \/ NextLoop
       PROVE OwnershipInv'
  <2>1. Aside
    BY <1>0, <1>10 DEF MarkPublishing, StopBuilding, RereadPending, NextLoop, Update,
       ledger, wallet, publish, TypeOK
  <2> QED BY <1>1, <2>1
<1>11. ASSUME NEW t \in Own,
              RecordBroadcast(t) \/ RecordRolledBack(t) \/ RecordStillPending(t)
       PROVE OwnershipInv'
  <2>1. Aside
    BY <1>0, <1>11 DEF RecordBroadcast, RecordRolledBack, RecordStillPending, Update,
       SetStatus, wallet, publish, TypeOK
  <2> QED BY <1>1, <2>1
<1>12. ASSUME NEW definite \in BOOLEAN, Flush(definite) PROVE OwnershipInv'
  <2>1. PICK A \in SUBSET waiting, R \in SUBSET waiting : Settles(A, R)
    BY <1>12 DEF Flush
  <2>2. Aside
    BY <1>0, <1>12, <2>1, SettlesTypes DEF Flush, ledger
  <2> QED BY <1>1, <2>2
<1>13. ASSUME \/ \E upTo \in 0..MaxHeight, shown \in SUBSET Transaction :
                   ReadHistory(upTo, shown)
              \/ \E i \in Listing : SkipKnown(i) \/ RecordMined(i) \/ StoreItem(i)
              \/ MarkSeen \/ SetCursor \/ HandOver
              \/ \E late \in SUBSET Own : CheckBroadcasts(late)
       PROVE OwnershipInv'
  <2>1. /\ UNCHANGED <<wallet, queue>>
        /\ pc' \in {"items", "markSeen", "check", "handOver", "idle"}
    BY <1>13 DEF ReadHistory, SkipKnown, RecordMined, StoreItem, MarkSeen, SetCursor,
       HandOver, CheckBroadcasts, publish
  <2>2. \A e \in Record : status[e] # "NONE" => status'[e] # "NONE"
    BY <1>0, <1>13 DEF ReadHistory, SkipKnown, RecordMined, StoreItem, MarkSeen,
       SetCursor, HandOver, CheckBroadcasts, ledger, TypeOK
  <2>3. Aside
    BY <2>1, <2>2 DEF wallet
  <2> QED BY <1>1, <2>3
<1>14. ASSUME TickFails \/ Crash PROVE OwnershipInv'
  <2>1. Aside
    BY <1>0, <1>14 DEF TickFails, Crash, Stops, ledger, wallet
  <2> QED BY <1>1, <2>1
<1>15. ASSUME World PROVE OwnershipInv'
  <2>1. UNCHANGED <<ledger, wallet, memory>>
    BY <1>15 DEF World, RemotePublish, Mine, NetworkLoses
  <2>2. Aside
    BY <2>1 DEF ledger, wallet, memory, delivery, publish
  <2> QED BY <1>1, <2>2
<1>16. ASSUME UNCHANGED vars PROVE OwnershipInv'
  <2>1. Aside
    BY <1>16 DEF vars, ledger, wallet, memory, delivery, publish
  <2> QED BY <1>1, <2>1
<1> QED
  BY <1>2, <1>3, <1>4, <1>5, <1>6, <1>7, <1>8, <1>9, <1>10, <1>11, <1>12, <1>13, <1>14,
     <1>15, <1>16 DEF Next, PublishStep, ScanStep

\* However ticks fail, pages end and other flushes settle the wallet's
\* transactions, publishOnce never builds a second waiting transaction from a record
\* that waits in one already.
THEOREM RecordsWaitOnce == Spec => []WaitsInOneTransaction
<1>1. Init => OwnershipInv
  BY InitTypeOK
     DEF Init, OwnershipInv, OnlyAuthored, ClaimedOwn, RecoveryKeepsOwned, QueueIsFree,
         WaitsInOneTransaction
<1>2. OwnershipInv => WaitsInOneTransaction
  BY DEF OwnershipInv
<1> QED BY <1>1, <1>2, OwnershipStep, PTL DEF Spec
=============================================================================
