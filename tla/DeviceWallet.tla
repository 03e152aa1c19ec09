---------------------------- MODULE DeviceWallet ----------------------------
(***************************************************************************)
(* The coin book of one device (src/src/chain/wallet.ts): which coins the  *)
(* device holds, which of them a transaction it built already spends, the  *)
(* transactions built and not yet broadcast, and how the answers of the    *)
(* BSV testnet (accepted, ambiguous, conflict, fee too low, rejected) and  *)
(* the network's lagging list of unspent outputs change that book.         *)
(*                                                                         *)
(* Every wallet operation runs alone (`exclusive`), and each commit saves  *)
(* the new state before memory takes it, so the durable state and the      *)
(* memory agree between steps: one set of variables stands for both.  A    *)
(* flush is several steps, because the answer of the network and the       *)
(* commit that records it are two moments, and the device may stop or the  *)
(* save may fail between them.                                             *)
(*                                                                         *)
(* Amounts are abstracted: a prepare selects some non-empty set of unspent *)
(* coins (module CoinSelection models which one).  Every transaction has   *)
(* at most one output to this wallet, its change, so transaction t also    *)
(* names that coin.  Transactions are numbered in the order they are       *)
(* built, which is the order of the pending list.                          *)
(***************************************************************************)
EXTENDS Integers, FiniteSets, SequencesExt

CONSTANTS
  MaxTx,       \* bound: transactions the wallet builds in a behaviour
  Funding,     \* outputs paid to this wallet by others
  Bogus,       \* those the index lists but whose source does not match
  Contested,   \* those the same key may spend from another device
  Droppable,   \* transactions the network may take and then lose
  Transfers,   \* transactions made by prepareTransfer (others carry records)
  BaseFee,     \* DeviceWalletOptions.feeSatPerKb
  RelayFee,    \* the highest rate a node may ask for (sat/kB)
  MaxFaults    \* bound: crashes and failed saves in a behaviour

Tx == 1..MaxTx
Outpoint == Funding \cup Tx

\* What coin[o] holds: no such coin, an unspent coin, or the spender (spentBy).
Absent == -1
Free == 0

\* What ticketOf[t] holds: an own transfer whose payment output t spends,
\* NoTicket, or ForeignTicket (funded by another device's transaction).
NoTicket == 0
ForeignTicket == -1

MaxFeeSatPerKb == 50

Refusals == {"conflict", "fee-too-low", "rejected"}
Answers == Refusals \cup {"none", "accepted", "ambiguous"}

ASSUME WalletAssumption ==
  /\ MaxTx \in Nat /\ MaxFaults \in Nat
  /\ BaseFee \in Nat \ {0} /\ RelayFee \in Nat
  /\ Funding \cap Tx = {}
  /\ Bogus \subseteq Funding /\ Contested \subseteq Funding
  /\ Droppable \subseteq Tx /\ Transfers \subseteq Tx

VARIABLES
  \* the signed bytes of the transactions built so far
  built,        \* how many
  inputs,       \* the wallet coins each spends
  ticketOf,     \* the ticket output it spends, if any
  feeOf,        \* the fee rate it pays
  withChange,   \* those with a change output
  \* WalletState, durable
  coin,         \* Outpoint -> Absent, Free or the spender
  change,       \* coins of origin 'change' (the others: 'chain')
  pending,      \* built, not yet broadcast
  recent,       \* broadcast and accepted
  feeRate,      \* the raised rate, 0 when never raised
  \* memory of the running flush
  suspects,     \* suspectOutpoints
  phase,        \* idle, flush, answered, refresh
  todo,         \* the snapshot of pending the flush still has to walk
  sending,      \* the transaction last handed to the network
  answer,       \* what the network said of it
  conflictSeen, \* this flush saw a conflict
  conflicted,   \* history: the coins this flush saw refused as a conflict
  \* the network and the faults
  landed,       \* transactions the network holds
  foreign,      \* contested outputs spent by another device
  faults        \* crashes and failed saves so far

bytes  == <<built, inputs, ticketOf, feeOf, withChange>>
wallet == <<coin, change, pending, recent, feeRate>>
flush  == <<phase, todo, sending, answer, conflictSeen, conflicted>>
world  == <<landed, foreign>>
vars   == <<bytes, wallet, suspects, flush, world, faults>>

TypeOK ==
  /\ built \in 0..MaxTx
  /\ inputs \in [Tx -> SUBSET Outpoint]
  /\ ticketOf \in [Tx -> Tx \cup {NoTicket, ForeignTicket}]
  /\ feeOf \in [Tx -> Nat]
  /\ withChange \subseteq Tx
  /\ coin \in [Outpoint -> Tx \cup {Absent, Free}]
  /\ change \subseteq Outpoint
  /\ pending \subseteq Tx
  /\ recent \subseteq Tx
  /\ feeRate \in Nat
  /\ suspects \subseteq Outpoint
  /\ phase \in {"idle", "flush", "answered", "refresh"}
  /\ todo \subseteq Tx
  /\ sending \in Tx \cup {0}
  /\ answer \in Answers
  /\ conflictSeen \in BOOLEAN
  /\ conflicted \subseteq Outpoint
  /\ landed \subseteq Tx
  /\ foreign \subseteq Funding
  /\ faults \in 0..MaxFaults

Init ==
  /\ built = 0
  /\ inputs = [t \in Tx |-> {}]
  /\ ticketOf = [t \in Tx |-> NoTicket]
  /\ feeOf = [t \in Tx |-> 0]
  /\ withChange = {}
  /\ coin = [o \in Outpoint |-> Absent]
  /\ change = {}
  /\ pending = {} /\ recent = {}
  /\ feeRate = 0
  /\ suspects = {}
  /\ phase = "idle" /\ todo = {} /\ sending = 0 /\ answer = "none"
  /\ conflictSeen = FALSE /\ conflicted = {}
  /\ landed = {} /\ foreign = {}
  /\ faults = 0

-----------------------------------------------------------------------------
(* Fees *)

MaxOf(a, b) == IF a > b THEN a ELSE b

\* The persisted raise counts when it is higher than the base rate.
FeeRate == MaxOf(BaseFee, feeRate)

\* The next rung of the 1 -> 10 -> 50 ladder.
RaisedFeeRate(current) ==
  IF current < 10 THEN 10 ELSE MaxOf(current, MaxFeeSatPerKb)

-----------------------------------------------------------------------------
(* Building transactions: prepare and prepareSpendOfOutpoint *)

Unspent == {o \in Outpoint : coin[o] = Free}

\* One commit marks the inputs spent, records the change and queues the
\* transaction as pending.  A coin whose source does not match is never used.
Prepare(S, withOwnChange) ==
  LET t == built + 1 IN
  /\ phase = "idle"
  /\ built < MaxTx
  /\ S # {} /\ S \subseteq Unspent \ Bogus
  /\ built' = t
  /\ inputs' = [inputs EXCEPT ![t] = S]
  /\ feeOf' = [feeOf EXCEPT ![t] = FeeRate]
  /\ withChange' = IF withOwnChange THEN withChange \cup {t} ELSE withChange
  /\ coin' = [o \in Outpoint |->
                IF o \in S THEN t
                ELSE IF o = t /\ withOwnChange THEN Free ELSE coin[o]]
  /\ change' = IF withOwnChange THEN change \cup {t} ELSE change
  /\ pending' = pending \cup {t}
  /\ UNCHANGED <<ticketOf, recent, feeRate, suspects, flush, world, faults>>

\* A ticket's funding output is spent with the ticket's own key: it is no
\* coin of this wallet, so nothing is reserved.  The source is looked up in
\* the wallet's own pending and recent transactions first, then on the chain.
PrepareSpendOfOutpoint(p, withOwnChange) ==
  LET t == built + 1 IN
  /\ phase = "idle"
  /\ built < MaxTx
  /\ t \notin Transfers
  /\ p = ForeignTicket \/ p \in Transfers \cap (pending \cup recent \cup landed)
  /\ built' = t
  /\ ticketOf' = [ticketOf EXCEPT ![t] = p]
  /\ feeOf' = [feeOf EXCEPT ![t] = FeeRate]
  /\ withChange' = IF withOwnChange THEN withChange \cup {t} ELSE withChange
  /\ coin' = [coin EXCEPT ![t] = IF withOwnChange THEN Free ELSE @]
  /\ change' = IF withOwnChange THEN change \cup {t} ELSE change
  /\ pending' = pending \cup {t}
  /\ UNCHANGED <<inputs, recent, feeRate, suspects, flush, world, faults>>

\* prepare drops selected coins whose source is not an output of ours with the
\* listed value, commits, and selects again.
DropMismatched(S) ==
  /\ phase = "idle"
  /\ S # {} /\ S \subseteq Unspent \cap Bogus
  /\ coin' = [o \in Outpoint |-> IF o \in S THEN Absent ELSE coin[o]]
  /\ change' = change \ S
  /\ UNCHANGED <<bytes, pending, recent, feeRate, suspects, flush, world,
                 faults>>

-----------------------------------------------------------------------------
(* refreshState: reconciling with the outputs the index reports.  `lost` are *)
(* the transactions the network calls unknown (404).                         *)

\* The index lags: it may list an output already spent and omit a fresh one.
Reports == SUBSET (Funding \cup (landed \cap withChange))

\* Mutant of Listed: releases a coin although its spender is still pending.
ListedIgnoringPending(o, lost) ==
  IF coin[o] \in {Absent} \cup lost THEN Free ELSE coin[o]

\* A listed coin is unspent when it is new to the book, or when its spender is
\* neither pending nor known to the network any more.
Listed(o, lost) ==
  IF coin[o] \in {Absent} \cup (lost \ pending) THEN Free ELSE coin[o]

\* A coin no longer listed: kept while our spend is pending, forgotten when
\* our spend is settled; unspent, only fresh change no conflict named survives.
Unlisted(o) ==
  IF coin[o] \in pending \/ (coin[o] = Free /\ o \in change \ suspects)
  THEN coin[o] ELSE Absent

Refreshed(reported, lost) ==
  [o \in Outpoint |->
     IF o \in reported THEN Listed(o, lost) ELSE Unlisted(o)]

\* The commit of a refresh.  A coin met for the first time has origin 'chain'.
CommitRefresh ==
  \E reported \in Reports, lost \in SUBSET (pending \cup recent) :
    /\ coin' = Refreshed(reported, lost)
    /\ change' = {o \in change : coin'[o] # Absent}
    /\ suspects' = {}
    /\ UNCHANGED <<pending, recent, feeRate>>

\* refresh() and the one refresh of a prepare that found too little money.
Refresh ==
  /\ phase = "idle"
  /\ CommitRefresh
  /\ UNCHANGED <<bytes, flush, world, faults>>

-----------------------------------------------------------------------------
(* flushPending *)

StartFlush ==
  /\ phase = "idle" /\ pending # {}
  /\ phase' = "flush" /\ todo' = pending
  /\ conflictSeen' = FALSE /\ conflicted' = {}
  /\ UNCHANGED <<bytes, wallet, suspects, sending, answer, world, faults>>

\* The oldest transaction of the snapshot that is still pending.
NextToSend(t) ==
  t \in todo \cap pending /\ \A u \in todo \cap pending : t <= u

\* A node takes a transaction whose inputs exist and are spent by no other.
Spendable(t) ==
  /\ \A o \in inputs[t] :
       /\ o \in (Funding \ (Bogus \cup foreign)) \cup (landed \cap withChange)
       /\ \A u \in landed : o \notin inputs[u]
  /\ ticketOf[t] \in Tx => ticketOf[t] \in landed
  /\ ticketOf[t] # NoTicket => \A u \in landed : ticketOf[u] # ticketOf[t]

\* What a node may answer for t, and whether it holds t afterwards.  A ticket
\* may have been spent by the person it was made for: a conflict at any time.
Verdict(t, said, holds) ==
  \/ t \in landed /\ said \in {"accepted", "ambiguous"} /\ holds
  \/ t \notin landed /\ said = "ambiguous" /\ ~holds
  \/ /\ t \notin landed /\ Spendable(t)
     /\ \/ said \in {"accepted", "ambiguous"} /\ holds
        \/ said = "rejected" /\ ~holds
        \/ said = "conflict" /\ ticketOf[t] # NoTicket /\ ~holds
  \/ /\ t \notin landed /\ Spendable(t) /\ feeOf[t] < RelayFee
     /\ said = "fee-too-low" /\ ~holds
  \/ /\ t \notin landed /\ ~Spendable(t)
     /\ said = "conflict" /\ ~holds

\* The call to ChainApi.broadcast and the network's answer to it.
Broadcast(definite) ==
  /\ phase = "flush"
  /\ \E t \in Tx, said \in Answers, holds \in BOOLEAN :
       /\ NextToSend(t)
       /\ Verdict(t, said, holds)
       /\ (said # "ambiguous") = definite
       /\ sending' = t /\ answer' = said
       /\ landed' = IF holds THEN landed \cup {t} ELSE landed
  /\ phase' = "answered"
  /\ UNCHANGED <<bytes, wallet, suspects, todo, conflictSeen, conflicted,
                 foreign, faults>>

\* The commit of markBroadcast.
SettleAccepted ==
  /\ phase = "answered" /\ answer = "accepted"
  /\ pending' = pending \ {sending}
  /\ recent' = recent \cup {sending}
  /\ phase' = "flush" /\ todo' = todo \ {sending}
  /\ sending' = 0 /\ answer' = "none"
  /\ UNCHANGED <<bytes, coin, change, feeRate, suspects, conflictSeen,
                 conflicted, world, faults>>

\* Mutant of SettleAmbiguous: goes on with the later transactions.
SettleAmbiguousAndGoOn ==
  /\ phase = "answered" /\ answer = "ambiguous"
  /\ phase' = "flush" /\ todo' = todo \ {sending}
  /\ sending' = 0 /\ answer' = "none"
  /\ UNCHANGED <<bytes, wallet, suspects, conflictSeen, conflicted, world,
                 faults>>

\* Mutant of SettleAmbiguous: takes an unclear answer for a refusal.
SettleAmbiguousWithdrawing ==
  /\ phase = "answered" /\ answer = "ambiguous"
  /\ pending' = pending \ {sending}
  /\ coin' = [o \in Outpoint |->
                IF o = sending THEN Absent
                ELSE IF coin[o] = sending THEN Free ELSE coin[o]]
  /\ change' = change \ {sending}
  /\ phase' = "refresh" /\ todo' = {}
  /\ sending' = 0 /\ answer' = "none"
  /\ UNCHANGED <<bytes, recent, feeRate, suspects, conflictSeen, conflicted,
                 world, faults>>

\* The same bytes are kept for the next round and the walk stops: a later
\* transaction may spend this one's outputs.
SettleAmbiguous ==
  /\ phase = "answered" /\ answer = "ambiguous"
  /\ phase' = "refresh" /\ todo' = {}
  /\ sending' = 0 /\ answer' = "none"
  /\ UNCHANGED <<bytes, wallet, suspects, conflictSeen, conflicted, world,
                 faults>>

\* Every pending transaction that spends an output of root, directly or
\* through another removed one: the least set of pending transactions with
\* root that is closed under "a coin of it is spent by".
Closed(D) ==
  \A u \in pending : (\E o \in D : coin[o] = u) => u \in D
Doomed(root) ==
  {u \in pending :
     \A D \in SUBSET pending : root \in D /\ Closed(D) => u \in D}

\* Mutant of ForwardPass: walks the later transactions newest first.
BackwardPass(root) ==
  FoldRight(LAMBDA u, doomed :
              IF u > root /\ u \in pending /\ \E o \in doomed : coin[o] = u
              THEN doomed \cup {u} ELSE doomed,
            [i \in 1..built |-> i], {root})

\* rollBack's loop: one pass over the later pending transactions.
ForwardPass(root) ==
  FoldLeft(LAMBDA doomed, u :
             IF u > root /\ u \in pending /\ \E o \in doomed : coin[o] = u
             THEN doomed \cup {u} ELSE doomed,
           {root}, [i \in 1..built |-> i])

\* Mutant of RollBack: releases only the coins the refused one spent.
RollBackReleasingRoot(doomed) ==
  /\ pending' = pending \ doomed
  /\ coin' = [o \in Outpoint |->
                IF o \in doomed THEN Absent
                ELSE IF coin[o] = sending THEN Free ELSE coin[o]]
  /\ change' = change \ doomed

\* rollBack: the doomed leave the queue, their change never existed, and the
\* coins they spent are unspent again.
RollBack(doomed) ==
  /\ pending' = pending \ doomed
  /\ coin' = [o \in Outpoint |->
                IF o \in doomed THEN Absent
                ELSE IF coin[o] \in doomed THEN Free ELSE coin[o]]
  /\ change' = change \ doomed

\* Mutant of SuspectsAfter: a conflict names nothing.
NoSuspects == suspects

\* The inputs of a transaction the network calls a conflict become suspects.
SuspectsAfter ==
  IF answer = "conflict"
  THEN suspects \cup {o \in Outpoint : coin[o] = sending} ELSE suspects

SettleRefused ==
  /\ phase = "answered" /\ answer \in Refusals
  /\ RollBack(Doomed(sending))
  /\ feeRate' = IF answer = "fee-too-low"
                THEN RaisedFeeRate(MaxOf(FeeRate, feeOf[sending]))
                ELSE feeRate
  /\ suspects' = SuspectsAfter
  /\ conflictSeen' = (conflictSeen \/ answer = "conflict")
  /\ conflicted' = IF answer = "conflict"
                   THEN conflicted \cup inputs[sending] ELSE conflicted
  /\ phase' = "flush" /\ todo' = todo \ {sending}
  /\ sending' = 0 /\ answer' = "none"
  /\ UNCHANGED <<bytes, recent, world, faults>>

\* The snapshot is walked: every later entry was sent or removed.
WalkDone ==
  /\ phase = "flush" /\ todo \cap pending = {}
  /\ phase' = "refresh" /\ todo' = {}
  /\ UNCHANGED <<bytes, wallet, suspects, sending, answer, conflictSeen,
                 conflicted, world, faults>>

\* After a conflict the chain's view is read once; an error is swallowed.
EndFlush(refreshed) ==
  /\ phase = "refresh"
  /\ \/ refreshed /\ conflictSeen /\ CommitRefresh
     \/ ~refreshed /\ UNCHANGED <<wallet, suspects>>
  /\ phase' = "idle" /\ todo' = {}
  /\ conflictSeen' = FALSE /\ conflicted' = {}
  /\ UNCHANGED <<bytes, sending, answer, world, faults>>

-----------------------------------------------------------------------------
(* Faults and the rest of the world *)

\* The page is closed, or the device stops: the stored state is all there is.
Crash ==
  /\ faults < MaxFaults
  /\ faults' = faults + 1
  /\ suspects' = {} /\ phase' = "idle" /\ todo' = {} /\ sending' = 0
  /\ answer' = "none" /\ conflictSeen' = FALSE /\ conflicted' = {}
  /\ UNCHANGED <<bytes, wallet, world>>

\* Mutant of SaveFails: the failed operation is never taken off the queue.
SaveFailsHoldingQueue ==
  /\ phase = "answered" /\ faults < MaxFaults
  /\ faults' = faults + 1
  /\ answer' = "none"
  /\ UNCHANGED <<bytes, wallet, suspects, phase, todo, sending, conflictSeen,
                 conflicted, world>>

\* The save of a commit fails: flush rejects and memory keeps the old state,
\* except for the suspects, which were noted before the commit.
SaveFails ==
  /\ phase = "answered" /\ faults < MaxFaults
  /\ faults' = faults + 1
  /\ suspects' = SuspectsAfter
  /\ phase' = "idle" /\ todo' = {} /\ sending' = 0 /\ answer' = "none"
  /\ conflictSeen' = FALSE /\ conflicted' = {}
  /\ UNCHANGED <<bytes, wallet, world>>

\* The same key restored on another device spends an output of this wallet.
ForeignSpend(o) ==
  /\ o \in Contested \ (foreign \cup Bogus)
  /\ \A u \in landed : o \notin inputs[u]
  /\ foreign' = foreign \cup {o}
  /\ UNCHANGED <<bytes, wallet, suspects, flush, landed, faults>>

\* The network accepted the broadcast but never kept the transaction.
NetworkLoses(t) ==
  /\ t \in landed \cap Droppable
  /\ \A u \in landed : t \notin inputs[u] /\ ticketOf[u] # t
  /\ landed' = landed \ {t}
  /\ UNCHANGED <<bytes, wallet, suspects, flush, foreign, faults>>

-----------------------------------------------------------------------------
Next ==
  \/ \E S \in SUBSET Outpoint, c \in BOOLEAN : Prepare(S, c)
  \/ \E p \in Transfers \cup {ForeignTicket}, c \in BOOLEAN :
       PrepareSpendOfOutpoint(p, c)
  \/ \E S \in SUBSET Outpoint : DropMismatched(S)
  \/ Refresh
  \/ StartFlush
  \/ \E definite \in BOOLEAN : Broadcast(definite)
  \/ SettleAccepted \/ SettleAmbiguous \/ SettleRefused
  \/ WalkDone
  \/ \E refreshed \in BOOLEAN : EndFlush(refreshed)
  \/ Crash \/ SaveFails
  \/ \E o \in Contested : ForeignSpend(o)
  \/ \E t \in Droppable : NetworkLoses(t)

Spec == Init /\ [][Next]_vars

\* The transport flushes on a timer, so a flush starts again and again and
\* runs to its end; the network does not stay ambiguous for ever.
Fairness ==
  /\ WF_vars(StartFlush)
  /\ WF_vars(SettleAccepted) /\ WF_vars(SettleAmbiguous)
  /\ WF_vars(SettleRefused) /\ WF_vars(WalkDone)
  /\ WF_vars(EndFlush(TRUE) \/ EndFlush(FALSE))
  /\ WF_vars(Broadcast(TRUE) \/ Broadcast(FALSE))
  /\ SF_vars(Broadcast(TRUE))

FairSpec == Spec /\ Fairness
-----------------------------------------------------------------------------
(* Properties *)

\* "never reselect an outpoint our own unconfirmed transaction already spends"
\* (wallet.ts:5): no two transactions waiting to be broadcast spend one coin,
\* whatever refreshes, rollbacks, lagging lists and restarts came between.
NoDoubleSpend ==
  \A t, u \in pending : t # u => inputs[t] \cap inputs[u] = {}

\* The reservation a rollback relies on: a pending transaction's inputs are
\* all still in the book, and all marked as spent by it.
ReservationHeld ==
  \A t \in pending : \A o \in inputs[t] : coin[o] = t

\* A coin is never locked by a transaction that was withdrawn: its spender is
\* still waiting to be broadcast or was accepted.
NoLeakedReservation ==
  \A o \in Outpoint : coin[o] \in Tx => coin[o] \in pending \cup recent

\* The change of a withdrawn transaction never existed: the book holds change
\* only of transactions waiting or accepted, so no later transaction is built
\* on an output nobody will ever see.
NoPhantomChange ==
  \A t \in Tx : coin[t] # Absent => t \in pending \cup recent

\* What rollBack leaves of a withdrawn transaction: nothing (wallet.ts:209-215).
RollbackComplete == NoLeakedReservation /\ NoPhantomChange

\* A transaction the network holds is never withdrawn, however many times its
\* broadcast was ambiguous, repeated, or interrupted between answer and save.
LandedNeverWithdrawn == landed \subseteq pending \cup recent

\* "Later transactions may spend this one's outputs; retry the same bytes next
\* round first" (wallet.ts:596): the network is never offered a transaction
\* while one whose change it spends is still waiting.
ParentsFirst ==
  phase = "answered" => inputs[sending] \cap pending = {}

\* "Children are always created after their parents, so one forward pass is
\* transitive" (wallet.ts:204): the pass finds every dependent transaction.
OnePassIsTransitive ==
  \A root \in pending : ForwardPass(root) = Doomed(root)

\* "so a phantom coin is not reselected forever" (wallet.ts:252): after the
\* refresh that follows a conflict, no coin the refused transaction spent is
\* selectable unless the network holds the transaction that made it.
ConflictShedsPhantoms ==
  [][EndFlush(TRUE) =>
       \A t \in conflicted \cap Tx : coin'[t] = Free => t \in landed]_vars

\* Every transaction built is in the end either accepted or withdrawn: nothing
\* waits for ever, neither behind an earlier one nor behind a failed save (the same
\* as (t \in pending) ~> (t \notin pending), in a form that is cheaper to check).
PendingSettles == \A t \in Tx : []<>(t \notin pending)

\* The inductive invariant behind the safety properties above.  The oldest
\* pending transaction is the only one the network can hold: later ones are
\* built after it and never offered before it is settled.
BuiltInOrder ==
  /\ pending \cup recent \subseteq 1..built
  /\ pending \cap recent = {}
  /\ \A t \in Tx : t > built => inputs[t] = {}
  /\ \A t \in pending : \A p \in inputs[t] \cap Tx : p < t

FlushWalks ==
  /\ phase \in {"flush", "answered"} => pending \subseteq todo
  /\ phase = "answered" =>
       sending \in pending /\ \A u \in pending : sending <= u
  /\ phase = "answered" /\ answer \in Refusals => sending \notin landed

OnlyOldestLanded ==
  \A t \in landed \cap pending : \A u \in pending : t <= u

IInv ==
  /\ TypeOK /\ BuiltInOrder /\ FlushWalks /\ OnlyOldestLanded
  /\ ReservationHeld /\ NoLeakedReservation /\ NoPhantomChange
  /\ LandedNeverWithdrawn

=============================================================================
