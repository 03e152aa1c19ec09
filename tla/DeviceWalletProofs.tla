------------------------- MODULE DeviceWalletProofs -------------------------
(***************************************************************************)
(* What DeviceWallet guarantees for every number of transactions, every    *)
(* set of coins and every bound on faults.  The argument: a pending        *)
(* transaction's inputs stay marked by it through every refresh, so two    *)
(* pending transactions never share one; a rollback removes a set closed   *)
(* under "spends an output of", so no survivor loses an input; and only    *)
(* the oldest pending transaction is ever offered to the network, so a     *)
(* withdrawn one was never taken.                                          *)
(***************************************************************************)
EXTENDS DeviceWallet, FiniteSets, FiniteSetTheorems, WellFoundedInduction, TLAPS

USE DEF Absent, Free, NoTicket, ForeignTicket

\* The invariant holds when the wallet is first opened: nothing is built.
LEMMA InitIInv == Init => IInv
<1> SUFFICES ASSUME Init PROVE IInv
  OBVIOUS
<1>1. TypeOK
  <2>1. /\ inputs \in [Tx -> SUBSET Outpoint]
        /\ ticketOf \in [Tx -> Tx \cup {NoTicket, ForeignTicket}]
        /\ feeOf \in [Tx -> Nat]
        /\ coin \in [Outpoint -> Tx \cup {Absent, Free}]
    BY DEF Init
  <2>2. built \in 0..MaxTx /\ faults \in 0..MaxFaults /\ feeRate \in Nat
    BY WalletAssumption DEF Init
  <2> QED BY <2>1, <2>2 DEF Init, TypeOK, Answers
<1>2. \A o \in Outpoint : coin[o] = Absent
  BY DEF Init
<1>3. BuiltInOrder
  BY DEF Init, BuiltInOrder
<1>4. NoLeakedReservation /\ NoPhantomChange
  BY <1>2 DEF NoLeakedReservation, NoPhantomChange, Tx, Outpoint
<1>5. /\ FlushWalks /\ OnlyOldestLanded /\ ReservationHeld
      /\ LandedNeverWithdrawn
  BY DEF Init, FlushWalks, OnlyOldestLanded, ReservationHeld,
         LandedNeverWithdrawn
<1> QED BY <1>1, <1>3, <1>4, <1>5 DEF IInv

\* What rollBack removes: a set of pending transactions that holds the refused
\* one and every pending transaction spending an output of a member.
LEMMA DoomedClosed ==
  ASSUME NEW root \in pending
  PROVE  /\ root \in Doomed(root)
         /\ Doomed(root) \subseteq pending
         /\ \A o \in Doomed(root) : coin[o] \in pending => coin[o] \in Doomed(root)
  BY DEF Doomed, Closed

\* The commit of a refresh keeps every reservation of a pending transaction,
\* and adds only coins of transactions the network holds.
LEMMA RefreshKeepsBook ==
  ASSUME IInv, CommitRefresh
  PROVE  /\ coin' \in [Outpoint -> Tx \cup {Absent, Free}]
         /\ change' \subseteq Outpoint
         /\ \A o \in Outpoint : coin[o] \in pending => coin'[o] = coin[o]
         /\ \A o \in Outpoint : coin'[o] \in Tx => coin'[o] = coin[o]
         /\ \A t \in Tx : coin'[t] # Absent =>
              coin[t] # Absent \/ t \in landed
<1>1. PICK reported \in Reports, lost \in SUBSET (pending \cup recent) :
        /\ coin' = Refreshed(reported, lost)
        /\ change' = {o \in change : coin'[o] # Absent}
  BY DEF CommitRefresh
<1>2. /\ reported \subseteq Funding \cup landed
      /\ TypeOK
  BY DEF Reports, IInv
<1>3. \A o \in Outpoint :
        coin'[o] = IF o \in reported THEN Listed(o, lost) ELSE Unlisted(o)
  BY <1>1 DEF Refreshed
<1>4. \A t \in Tx : t \notin Funding
  BY WalletAssumption
<1>5. \A o \in Outpoint :
        coin[o] \in Tx \cup {Absent, Free} /\ coin'[o] \in {coin[o], Absent, Free}
  BY <1>2, <1>3 DEF TypeOK, Listed, Unlisted
<1>6. coin' \in [Outpoint -> Tx \cup {Absent, Free}]
  BY <1>1, <1>5 DEF Refreshed
<1>7. change' \subseteq Outpoint
  BY <1>1, <1>2 DEF TypeOK
<1>8. \A o \in Outpoint : coin[o] \in pending => coin'[o] = coin[o]
  BY <1>2, <1>3 DEF Listed, Unlisted, TypeOK, Tx
<1>9. \A o \in Outpoint : coin'[o] \in Tx => coin'[o] = coin[o]
  BY <1>5 DEF Tx
<1>10. \A t \in Tx : coin'[t] # Absent => coin[t] # Absent \/ t \in landed
  BY <1>2, <1>3, <1>4 DEF Unlisted, Outpoint
<1> QED BY <1>6, <1>7, <1>8, <1>9, <1>10

-----------------------------------------------------------------------------
(* Every action keeps the invariant *)

\* A transaction number is an outpoint of the wallet and no marker.
LEMMA TxFacts ==
  /\ \A t \in Tx : t \in Nat /\ t # 0 /\ t \in Outpoint /\ t \notin Funding
  /\ Absent \notin Tx /\ Free \notin Tx
  BY WalletAssumption DEF Tx, Outpoint

\* A transaction not built yet is in no list, has no coin and spends nothing.
LEMMA NextIsFresh ==
  ASSUME IInv, built < MaxTx
  PROVE  LET t == built + 1 IN
         /\ t \in Tx
         /\ t \notin pending \cup recent \cup landed
         /\ \A u \in pending \cup recent : u \in Tx /\ u < t
         /\ coin[t] = Absent
         /\ \A o \in Outpoint : coin[o] # t
  BY WalletAssumption, TxFacts
  DEF IInv, TypeOK, BuiltInOrder, NoPhantomChange, LandedNeverWithdrawn,
      NoLeakedReservation, Tx

\* prepare: the coins selected were free, so no reservation is broken.
LEMMA PrepareKeeps ==
  ASSUME IInv, NEW S, NEW c \in BOOLEAN, Prepare(S, c)
  PROVE  IInv'
<1> DEFINE t == built + 1
<1>1. /\ TypeOK /\ BuiltInOrder /\ FlushWalks /\ OnlyOldestLanded
      /\ ReservationHeld /\ NoLeakedReservation /\ NoPhantomChange
      /\ LandedNeverWithdrawn
  BY DEF IInv
<1>2. /\ phase = "idle" /\ built' = t
      /\ S \subseteq Outpoint /\ \A o \in S : coin[o] = Free
      /\ inputs' = [inputs EXCEPT ![t] = S]
      /\ feeOf' = [feeOf EXCEPT ![t] = FeeRate]
      /\ withChange' = IF c THEN withChange \cup {t} ELSE withChange
      /\ coin' = [o \in Outpoint |->
                    IF o \in S THEN t
                    ELSE IF o = t /\ c THEN Free ELSE coin[o]]
      /\ change' = IF c THEN change \cup {t} ELSE change
      /\ pending' = pending \cup {t}
      /\ UNCHANGED <<ticketOf, recent, feeRate, suspects, phase, todo, sending,
                     answer, conflictSeen, conflicted, landed, foreign, faults>>
  BY DEF Prepare, Unspent, flush, world
<1>3. /\ t \in Tx
      /\ t \notin pending \cup recent \cup landed
      /\ \A u \in pending \cup recent : u \in Tx /\ u < t
      /\ coin[t] = Absent
      /\ \A o \in Outpoint : coin[o] # t
  BY NextIsFresh DEF Prepare
<1>4. t \notin S
  BY <1>2, <1>3
<1>5. TypeOK'
  <2>1. built' \in 0..MaxTx
    BY <1>2, <1>3, WalletAssumption DEF Tx
  <2>2. inputs' \in [Tx -> SUBSET Outpoint] /\ feeOf' \in [Tx -> Nat]
    BY <1>1, <1>2, <1>3, WalletAssumption DEF TypeOK, FeeRate, MaxOf
  <2>3. coin' \in [Outpoint -> Tx \cup {Absent, Free}]
    BY <1>1, <1>2, <1>3 DEF TypeOK
  <2>4. change' \subseteq Outpoint /\ pending' \subseteq Tx /\ withChange' \subseteq Tx
    BY <1>1, <1>2, <1>3, TxFacts DEF TypeOK
  <2> QED BY <1>1, <1>2, <2>1, <2>2, <2>3, <2>4 DEF TypeOK
<1>6. BuiltInOrder'
  <2>1. pending' \cup recent' \subseteq 1..built' /\ pending' \cap recent' = {}
    BY <1>1, <1>2, <1>3 DEF BuiltInOrder, TypeOK, Tx
  <2>2. \A u \in Tx : u > built' => inputs'[u] = {}
    BY <1>1, <1>2, <1>3 DEF BuiltInOrder, TypeOK, Tx
  <2>3. \A p \in S \cap Tx : p < t
    BY <1>1, <1>2, <1>3 DEF NoPhantomChange
  <2>4. \A u \in pending' : \A p \in inputs'[u] \cap Tx : p < u
    BY <1>1, <1>2, <1>3, <2>3 DEF BuiltInOrder, TypeOK
  <2> QED BY <2>1, <2>2, <2>4 DEF BuiltInOrder
<1>7. FlushWalks'
  BY <1>2 DEF FlushWalks
<1>8. OnlyOldestLanded'
  BY <1>1, <1>2, <1>3 DEF OnlyOldestLanded, Tx
<1>9. ReservationHeld'
  <2>1. \A u \in pending : u # t /\ inputs'[u] = inputs[u] /\ inputs[u] \subseteq Outpoint
    BY <1>1, <1>2, <1>3 DEF TypeOK
  <2>2. \A u \in pending : \A o \in inputs[u] : coin'[o] = u
    BY <1>1, <1>2, <1>3, <2>1, TxFacts DEF ReservationHeld
  <2>3. inputs'[t] = S /\ \A o \in S : coin'[o] = t
    BY <1>1, <1>2, <1>3 DEF TypeOK
  <2> QED BY <1>2, <2>1, <2>2, <2>3 DEF ReservationHeld
<1>10. NoLeakedReservation' /\ NoPhantomChange' /\ LandedNeverWithdrawn'
  <2>1. NoLeakedReservation'
    BY <1>1, <1>2, TxFacts DEF NoLeakedReservation
  <2>2. NoPhantomChange'
    BY <1>1, <1>2, TxFacts DEF NoPhantomChange
  <2>3. LandedNeverWithdrawn'
    BY <1>1, <1>2 DEF LandedNeverWithdrawn
  <2> QED BY <2>1, <2>2, <2>3
<1> QED BY <1>5, <1>6, <1>7, <1>8, <1>9, <1>10 DEF IInv

\* prepareSpendOfOutpoint: reserves no coin, and its change is a new one.
LEMMA PrepareSpendKeeps ==
  ASSUME IInv, NEW p, NEW c \in BOOLEAN, PrepareSpendOfOutpoint(p, c)
  PROVE  IInv'
<1> DEFINE t == built + 1
<1>1. /\ TypeOK /\ BuiltInOrder /\ FlushWalks /\ OnlyOldestLanded
      /\ ReservationHeld /\ NoLeakedReservation /\ NoPhantomChange
      /\ LandedNeverWithdrawn
  BY DEF IInv
<1>2. /\ phase = "idle" /\ built' = t
      /\ p \in Tx \cup {ForeignTicket}
      /\ ticketOf' = [ticketOf EXCEPT ![t] = p]
      /\ feeOf' = [feeOf EXCEPT ![t] = FeeRate]
      /\ withChange' = IF c THEN withChange \cup {t} ELSE withChange
      /\ coin' = [coin EXCEPT ![t] = IF c THEN Free ELSE @]
      /\ change' = IF c THEN change \cup {t} ELSE change
      /\ pending' = pending \cup {t}
      /\ UNCHANGED <<inputs, recent, feeRate, suspects, phase, todo, sending,
                     answer, conflictSeen, conflicted, landed, foreign, faults>>
  BY WalletAssumption DEF PrepareSpendOfOutpoint, flush, world
<1>3. /\ t \in Tx
      /\ t \notin pending \cup recent \cup landed
      /\ \A u \in pending \cup recent : u \in Tx /\ u < t
      /\ coin[t] = Absent
      /\ \A o \in Outpoint : coin[o] # t
  BY NextIsFresh DEF PrepareSpendOfOutpoint
<1>4. inputs[t] = {}
  BY <1>1, <1>3 DEF BuiltInOrder, TypeOK
<1>5. TypeOK'
  <2>1. built' \in 0..MaxTx
    BY <1>2, <1>3, WalletAssumption DEF Tx
  <2>2. feeOf' \in [Tx -> Nat]
    BY <1>1, <1>2, <1>3, WalletAssumption DEF TypeOK, FeeRate, MaxOf
  <2>3. /\ ticketOf' \in [Tx -> Tx \cup {NoTicket, ForeignTicket}]
        /\ coin' \in [Outpoint -> Tx \cup {Absent, Free}]
    BY <1>1, <1>2, <1>3, TxFacts DEF TypeOK
  <2>4. change' \subseteq Outpoint /\ pending' \subseteq Tx /\ withChange' \subseteq Tx
    BY <1>1, <1>2, <1>3, TxFacts DEF TypeOK
  <2> QED BY <1>1, <1>2, <2>1, <2>2, <2>3, <2>4 DEF TypeOK
<1>6. BuiltInOrder'
  <2>1. pending' \cup recent' \subseteq 1..built' /\ pending' \cap recent' = {}
    BY <1>1, <1>2, <1>3 DEF BuiltInOrder, TypeOK, Tx
  <2>2. \A u \in Tx : u > built' => inputs'[u] = {}
    BY <1>1, <1>2, <1>3 DEF BuiltInOrder, TypeOK, Tx
  <2>3. \A u \in pending' : \A q \in inputs'[u] \cap Tx : q < u
    BY <1>1, <1>2, <1>3, <1>4 DEF BuiltInOrder
  <2> QED BY <2>1, <2>2, <2>3 DEF BuiltInOrder
<1>7. FlushWalks'
  BY <1>2 DEF FlushWalks
<1>8. OnlyOldestLanded'
  BY <1>1, <1>2, <1>3 DEF OnlyOldestLanded, Tx
<1>9. \A o \in Outpoint : o # t => coin'[o] = coin[o]
  BY <1>1, <1>2, TxFacts DEF TypeOK
<1>10. coin'[t] \in {Absent, Free}
  BY <1>1, <1>2, <1>3, TxFacts DEF TypeOK
<1>11. ReservationHeld'
  <2>1. \A u \in pending : \A o \in inputs[u] : o \in Outpoint /\ o # t
    BY <1>1, <1>3, TxFacts DEF ReservationHeld, TypeOK
  <2> QED BY <1>1, <1>2, <1>4, <1>9, <2>1 DEF ReservationHeld
<1>12. NoLeakedReservation' /\ NoPhantomChange' /\ LandedNeverWithdrawn'
  BY <1>1, <1>2, <1>9, <1>10, TxFacts
  DEF NoLeakedReservation, NoPhantomChange, LandedNeverWithdrawn
<1> QED BY <1>5, <1>6, <1>7, <1>8, <1>11, <1>12 DEF IInv

\* A step that leaves the book and the lists alone keeps what is said of them.
LEMMA SameBook ==
  ASSUME IInv, UNCHANGED <<built, inputs, coin, pending, recent>>
  PROVE  /\ BuiltInOrder' /\ ReservationHeld'
         /\ NoLeakedReservation' /\ NoPhantomChange'
  BY DEF IInv, BuiltInOrder, ReservationHeld, NoLeakedReservation,
         NoPhantomChange

\* A refresh keeps every reservation, so two waiting transactions still share
\* no coin, and adds no coin of a transaction that is neither waiting nor
\* accepted.
LEMMA RefreshKeeps ==
  ASSUME IInv, CommitRefresh, UNCHANGED <<built, inputs>>
  PROVE  /\ BuiltInOrder' /\ ReservationHeld'
         /\ NoLeakedReservation' /\ NoPhantomChange'
         /\ coin' \in [Outpoint -> Tx \cup {Absent, Free}]
         /\ change' \subseteq Outpoint
<1>1. /\ \A o \in Outpoint : coin[o] \in pending => coin'[o] = coin[o]
      /\ \A o \in Outpoint : coin'[o] \in Tx => coin'[o] = coin[o]
      /\ \A t \in Tx : coin'[t] # Absent => coin[t] # Absent \/ t \in landed
      /\ coin' \in [Outpoint -> Tx \cup {Absent, Free}]
      /\ change' \subseteq Outpoint
  BY RefreshKeepsBook
<1>2. /\ TypeOK /\ BuiltInOrder /\ ReservationHeld /\ NoLeakedReservation
      /\ NoPhantomChange /\ LandedNeverWithdrawn
  BY DEF IInv
<1>3. pending' = pending /\ recent' = recent
  BY DEF CommitRefresh
<1>4. BuiltInOrder'
  BY <1>2, <1>3 DEF BuiltInOrder
<1>5. ReservationHeld'
  <2>1. \A t \in pending : \A o \in inputs[t] : o \in Outpoint /\ coin[o] = t
    BY <1>2 DEF ReservationHeld, TypeOK
  <2> QED BY <1>1, <1>3, <2>1 DEF ReservationHeld
<1>6. NoLeakedReservation'
  BY <1>1, <1>2, <1>3 DEF NoLeakedReservation
<1>7. NoPhantomChange'
  BY <1>1, <1>2, <1>3 DEF NoPhantomChange, LandedNeverWithdrawn
<1> QED BY <1>1, <1>4, <1>5, <1>6, <1>7

\* The refresh of an idle wallet.
LEMMA IdleRefreshKeeps == ASSUME IInv, Refresh PROVE IInv'
<1>1. CommitRefresh /\ UNCHANGED <<bytes, flush, world, faults>>
  BY DEF Refresh
<1>2. /\ BuiltInOrder' /\ ReservationHeld' /\ NoLeakedReservation'
      /\ NoPhantomChange'
      /\ coin' \in [Outpoint -> Tx \cup {Absent, Free}]
      /\ change' \subseteq Outpoint
  BY <1>1, RefreshKeeps DEF bytes
<1>3. suspects' = {} /\ pending' = pending /\ recent' = recent /\ feeRate' = feeRate
  BY <1>1 DEF CommitRefresh
<1>4. TypeOK'
  BY <1>1, <1>2, <1>3 DEF IInv, TypeOK, bytes, flush, world
<1>5. FlushWalks' /\ OnlyOldestLanded' /\ LandedNeverWithdrawn'
  BY <1>1, <1>3
  DEF IInv, FlushWalks, OnlyOldestLanded, LandedNeverWithdrawn, flush, world
<1> QED BY <1>2, <1>4, <1>5 DEF IInv

\* prepare forgets coins whose source does not match: they were free.
LEMMA DropKeeps == ASSUME IInv, NEW S, DropMismatched(S) PROVE IInv'
<1>1. /\ S \subseteq Outpoint /\ \A o \in S : coin[o] = Free
      /\ coin' = [o \in Outpoint |-> IF o \in S THEN Absent ELSE coin[o]]
      /\ change' = change \ S
      /\ UNCHANGED <<built, inputs, ticketOf, feeOf, withChange, pending,
                     recent, feeRate, suspects, phase, todo, sending, answer,
                     conflictSeen, conflicted, landed, foreign, faults>>
  BY DEF DropMismatched, Unspent, bytes, flush, world
<1>2. TypeOK'
  <2>1. coin' \in [Outpoint -> Tx \cup {Absent, Free}]
    BY <1>1 DEF IInv, TypeOK
  <2> QED BY <1>1, <2>1 DEF IInv, TypeOK
<1>3. BuiltInOrder' /\ FlushWalks' /\ OnlyOldestLanded' /\ LandedNeverWithdrawn'
  BY <1>1
  DEF IInv, BuiltInOrder, FlushWalks, OnlyOldestLanded, LandedNeverWithdrawn
<1>4. ReservationHeld'
  <2>1. \A t \in pending : \A o \in inputs[t] : o \in Outpoint /\ coin[o] \in Tx
    BY DEF IInv, ReservationHeld, TypeOK
  <2> QED BY <1>1, <2>1, TxFacts DEF IInv, ReservationHeld
<1>5. NoLeakedReservation' /\ NoPhantomChange'
  BY <1>1, TxFacts DEF IInv, NoLeakedReservation, NoPhantomChange
<1> QED BY <1>2, <1>3, <1>4, <1>5 DEF IInv

-----------------------------------------------------------------------------
(* The steps of a flush *)

\* Starting a flush keeps the invariant.
LEMMA StartFlushKeeps == ASSUME IInv, StartFlush PROVE IInv'
<1>1. /\ phase' = "flush" /\ todo' = pending
      /\ UNCHANGED <<built, inputs, ticketOf, feeOf, withChange, coin, change,
                     pending, recent, feeRate, suspects, sending, answer,
                     landed, foreign, faults>>
      /\ conflictSeen' = FALSE /\ conflicted' = {}
  BY DEF StartFlush, bytes, wallet, world
<1>2. TypeOK'
  BY <1>1 DEF IInv, TypeOK
<1>3. FlushWalks' /\ OnlyOldestLanded' /\ LandedNeverWithdrawn'
  BY <1>1 DEF IInv, FlushWalks, OnlyOldestLanded, LandedNeverWithdrawn
<1> QED BY <1>1, <1>2, <1>3, SameBook DEF IInv

\* The network is offered the oldest waiting transaction only, and holds no
\* transaction it refuses.
LEMMA BroadcastKeeps ==
  ASSUME IInv, NEW definite \in BOOLEAN, Broadcast(definite)
  PROVE  IInv'
<1>1. PICK t \in Tx, said \in Answers, holds \in BOOLEAN :
        /\ NextToSend(t) /\ Verdict(t, said, holds)
        /\ sending' = t /\ answer' = said
        /\ landed' = IF holds THEN landed \cup {t} ELSE landed
  BY DEF Broadcast
<1>2. /\ phase = "flush" /\ phase' = "answered"
      /\ UNCHANGED <<built, inputs, ticketOf, feeOf, withChange, coin, change,
                     pending, recent, feeRate, suspects, todo, conflictSeen,
                     conflicted, foreign, faults>>
  BY DEF Broadcast, bytes, wallet
<1>3. pending \subseteq todo
  BY <1>2 DEF IInv, FlushWalks
<1>4. t \in pending /\ \A u \in pending : t <= u
  BY <1>1, <1>3 DEF NextToSend
<1>5. said \in Refusals => t \notin landed /\ ~holds
  BY <1>1 DEF Verdict, Refusals
<1>6. TypeOK'
  BY <1>1, <1>2 DEF IInv, TypeOK
<1>7. FlushWalks'
  BY <1>1, <1>2, <1>3, <1>4, <1>5 DEF FlushWalks
<1>8. OnlyOldestLanded' /\ LandedNeverWithdrawn'
  BY <1>1, <1>2, <1>4 DEF IInv, OnlyOldestLanded, LandedNeverWithdrawn
<1> QED BY <1>2, <1>6, <1>7, <1>8, SameBook DEF IInv

\* Settling what the network accepted keeps the invariant.
LEMMA SettleAcceptedKeeps == ASSUME IInv, SettleAccepted PROVE IInv'
<1>1. /\ phase = "answered" /\ phase' = "flush"
      /\ pending' = pending \ {sending} /\ recent' = recent \cup {sending}
      /\ todo' = todo \ {sending} /\ sending' = 0 /\ answer' = "none"
      /\ UNCHANGED <<built, inputs, ticketOf, feeOf, withChange, coin, change,
                     feeRate, suspects, conflictSeen, conflicted, landed,
                     foreign, faults>>
  BY DEF SettleAccepted, bytes, world
<1>2. sending \in pending /\ pending \subseteq todo
  BY <1>1 DEF IInv, FlushWalks
<1>3. TypeOK'
  BY <1>1, <1>2 DEF IInv, TypeOK, Answers
<1>4. BuiltInOrder' /\ FlushWalks' /\ OnlyOldestLanded'
  BY <1>1, <1>2 DEF IInv, BuiltInOrder, FlushWalks, OnlyOldestLanded
<1>5. /\ ReservationHeld' /\ NoLeakedReservation' /\ NoPhantomChange'
      /\ LandedNeverWithdrawn'
  BY <1>1, <1>2
  DEF IInv, ReservationHeld, NoLeakedReservation, NoPhantomChange,
      LandedNeverWithdrawn
<1> QED BY <1>3, <1>4, <1>5 DEF IInv

\* Steps that only move the flush: an ambiguous answer, and the end of a walk.
LEMMA FlushMovesKeep ==
  ASSUME IInv, SettleAmbiguous \/ WalkDone
  PROVE  IInv'
<1>1. /\ phase' = "refresh" /\ todo' = {}
      /\ sending' \in {sending, 0} /\ answer' \in {answer, "none"}
      /\ UNCHANGED <<built, inputs, ticketOf, feeOf, withChange, coin, change,
                     pending, recent, feeRate, suspects, conflictSeen,
                     conflicted, landed, foreign, faults>>
  BY DEF SettleAmbiguous, WalkDone, bytes, wallet, world
<1>2. TypeOK'
  BY <1>1 DEF IInv, TypeOK, Answers
<1>3. FlushWalks' /\ OnlyOldestLanded' /\ LandedNeverWithdrawn'
  BY <1>1 DEF IInv, FlushWalks, OnlyOldestLanded, LandedNeverWithdrawn
<1> QED BY <1>1, <1>2, <1>3, SameBook DEF IInv

\* A refusal withdraws the refused transaction with all that spend its
\* outputs.  None of them is on the network: the refused one was the oldest.
LEMMA SettleRefusedKeeps == ASSUME IInv, SettleRefused PROVE IInv'
<1> DEFINE D == Doomed(sending)
<1>1. /\ TypeOK /\ BuiltInOrder /\ FlushWalks /\ OnlyOldestLanded
      /\ ReservationHeld /\ NoLeakedReservation /\ NoPhantomChange
      /\ LandedNeverWithdrawn
  BY DEF IInv
<1>2. /\ phase = "answered" /\ answer \in Refusals
      /\ pending' = pending \ D
      /\ coin' = [o \in Outpoint |->
                    IF o \in D THEN Absent
                    ELSE IF coin[o] \in D THEN Free ELSE coin[o]]
      /\ change' = change \ D
      /\ phase' = "flush" /\ todo' = todo \ {sending}
      /\ sending' = 0 /\ answer' = "none"
      /\ UNCHANGED <<built, inputs, ticketOf, feeOf, withChange, recent,
                     landed, foreign, faults>>
  BY DEF SettleRefused, RollBack, bytes, world
<1>3. /\ sending \in pending /\ sending \notin landed
      /\ pending \subseteq todo
      /\ \A u \in pending : sending <= u
  BY <1>1, <1>2 DEF FlushWalks
<1>4. /\ sending \in D /\ D \subseteq pending
      /\ \A o \in D : coin[o] \in pending => coin[o] \in D
  BY <1>3, DoomedClosed
<1>5. TypeOK'
  <2>1. coin' \in [Outpoint -> Tx \cup {Absent, Free}]
    BY <1>1, <1>2 DEF TypeOK
  <2>2. feeRate' \in Nat
    BY <1>1, <1>3, WalletAssumption
    DEF SettleRefused, RaisedFeeRate, MaxOf, FeeRate, MaxFeeSatPerKb, TypeOK
  <2>3. suspects' \subseteq Outpoint
    BY <1>1 DEF SettleRefused, SuspectsAfter, TypeOK
  <2>4. conflictSeen' \in BOOLEAN /\ conflicted' \subseteq Outpoint
    BY <1>1, <1>3 DEF SettleRefused, TypeOK
  <2>5. change' \subseteq Outpoint /\ pending' \subseteq Tx /\ todo' \subseteq Tx
    BY <1>1, <1>2 DEF TypeOK
  <2> QED BY <1>1, <1>2, <2>1, <2>2, <2>3, <2>4, <2>5 DEF TypeOK, Answers
<1>6. BuiltInOrder'
  BY <1>1, <1>2 DEF BuiltInOrder
<1>7. FlushWalks'
  BY <1>2, <1>3, <1>4 DEF FlushWalks
<1>8. OnlyOldestLanded'
  BY <1>1, <1>2 DEF OnlyOldestLanded
<1>9. ReservationHeld'
  <2> SUFFICES ASSUME NEW t \in pending \ D, NEW o \in inputs[t]
               PROVE  coin'[o] = t
    BY <1>2 DEF ReservationHeld
  <2>1. coin[o] = t /\ o \in Outpoint
    BY <1>1 DEF ReservationHeld, TypeOK
  <2>2. o \notin D
    BY <1>4, <2>1
  <2> QED BY <1>2, <2>1, <2>2
<1>10. NoLeakedReservation'
  BY <1>1, <1>2, TxFacts DEF NoLeakedReservation
<1>11. NoPhantomChange'
  <2>1. Absent \notin D
    BY <1>1, <1>4, TxFacts DEF TypeOK
  <2> QED BY <1>1, <1>2, <2>1, TxFacts DEF NoPhantomChange
<1>12. LandedNeverWithdrawn'
  <2> SUFFICES ASSUME NEW u \in landed, u \in D PROVE FALSE
    BY <1>1, <1>2 DEF LandedNeverWithdrawn
  <2>1. u \in pending /\ u <= sending /\ sending <= u
    BY <1>1, <1>3, <1>4 DEF OnlyOldestLanded
  <2>2. u \in Nat /\ sending \in Nat
    BY <1>1, <1>3, <2>1, TxFacts DEF TypeOK
  <2> QED BY <1>3, <2>1, <2>2
<1> QED BY <1>5, <1>6, <1>7, <1>8, <1>9, <1>10, <1>11, <1>12 DEF IInv

\* Ending a flush keeps the invariant.
LEMMA EndFlushKeeps ==
  ASSUME IInv, NEW refreshed \in BOOLEAN, EndFlush(refreshed)
  PROVE  IInv'
<1>1. /\ phase' = "idle" /\ todo' = {}
      /\ conflictSeen' = FALSE /\ conflicted' = {}
      /\ UNCHANGED <<built, inputs, ticketOf, feeOf, withChange, sending,
                     answer, landed, foreign, faults>>
      /\ CommitRefresh \/ UNCHANGED <<coin, change, pending, recent, feeRate,
                                      suspects>>
  BY DEF EndFlush, bytes, world, wallet
<1>2. /\ BuiltInOrder' /\ ReservationHeld' /\ NoLeakedReservation'
      /\ NoPhantomChange'
      /\ coin' \in [Outpoint -> Tx \cup {Absent, Free}]
      /\ change' \subseteq Outpoint
  <2>1. CASE CommitRefresh
    BY <1>1, <2>1, RefreshKeeps
  <2>2. CASE UNCHANGED <<coin, change, pending, recent, feeRate, suspects>>
    BY <1>1, <2>2, SameBook DEF IInv, TypeOK
  <2> QED BY <1>1, <2>1, <2>2
<1>3. /\ pending' = pending /\ recent' = recent /\ feeRate' = feeRate
      /\ suspects' \in {suspects, {}}
  BY <1>1 DEF CommitRefresh
<1>4. TypeOK'
  BY <1>1, <1>2, <1>3 DEF IInv, TypeOK
<1>5. FlushWalks' /\ OnlyOldestLanded' /\ LandedNeverWithdrawn'
  BY <1>1, <1>3
  DEF IInv, FlushWalks, OnlyOldestLanded, LandedNeverWithdrawn
<1> QED BY <1>2, <1>4, <1>5 DEF IInv

-----------------------------------------------------------------------------
(* Faults, the world, and the theorems *)

\* A crash or a failed save stops the flush and changes nothing durable.
LEMMA FaultsKeep == ASSUME IInv, Crash \/ SaveFails PROVE IInv'
<1>1. /\ phase' = "idle" /\ todo' = {} /\ sending' = 0 /\ answer' = "none"
      /\ conflictSeen' = FALSE /\ conflicted' = {}
      /\ faults < MaxFaults /\ faults' = faults + 1
      /\ UNCHANGED <<built, inputs, ticketOf, feeOf, withChange, coin, change,
                     pending, recent, feeRate, landed, foreign>>
  BY DEF Crash, SaveFails, bytes, wallet, world
<1>2. suspects' \subseteq Outpoint
  BY DEF Crash, SaveFails, SuspectsAfter, IInv, TypeOK
<1>3. TypeOK'
  <2>1. faults' \in 0..MaxFaults
    BY <1>1, WalletAssumption DEF IInv, TypeOK
  <2> QED BY <1>1, <1>2, <2>1 DEF IInv, TypeOK, Answers
<1>4. FlushWalks' /\ OnlyOldestLanded' /\ LandedNeverWithdrawn'
  BY <1>1 DEF IInv, FlushWalks, OnlyOldestLanded, LandedNeverWithdrawn
<1> QED BY <1>1, <1>3, <1>4, SameBook DEF IInv

\* What others do with the chain takes no transaction of ours onto it.
LEMMA WorldKeeps ==
  ASSUME IInv,
         \/ \E o \in Contested : ForeignSpend(o)
         \/ \E t \in Droppable : NetworkLoses(t)
  PROVE  IInv'
<1>1. /\ UNCHANGED <<built, inputs, ticketOf, feeOf, withChange, coin, change,
                     pending, recent, feeRate, suspects, phase, todo, sending,
                     answer, conflictSeen, conflicted, faults>>
      /\ landed' \subseteq landed /\ foreign' \subseteq foreign \cup Contested
  BY DEF ForeignSpend, NetworkLoses, bytes, wallet, flush
<1>2. TypeOK'
  BY <1>1, WalletAssumption DEF IInv, TypeOK
<1>3. FlushWalks' /\ OnlyOldestLanded' /\ LandedNeverWithdrawn'
  BY <1>1 DEF IInv, FlushWalks, OnlyOldestLanded, LandedNeverWithdrawn
<1> QED BY <1>1, <1>2, <1>3, SameBook DEF IInv

\* Every step keeps the invariant.
LEMMA StepIInv == IInv /\ [Next]_vars => IInv'
<1> SUFFICES ASSUME IInv, [Next]_vars PROVE IInv'
  OBVIOUS
<1>1. ASSUME NEW S \in SUBSET Outpoint, NEW c \in BOOLEAN, Prepare(S, c)
      PROVE  IInv'
  BY <1>1, PrepareKeeps
<1>2. ASSUME NEW p \in Transfers \cup {ForeignTicket}, NEW c \in BOOLEAN,
             PrepareSpendOfOutpoint(p, c)
      PROVE  IInv'
  BY <1>2, PrepareSpendKeeps
<1>3. ASSUME NEW S \in SUBSET Outpoint, DropMismatched(S) PROVE IInv'
  BY <1>3, DropKeeps
<1>4. CASE Refresh
  BY <1>4, IdleRefreshKeeps
<1>5. CASE StartFlush
  BY <1>5, StartFlushKeeps
<1>6. ASSUME NEW definite \in BOOLEAN, Broadcast(definite) PROVE IInv'
  BY <1>6, BroadcastKeeps
<1>7. CASE SettleAccepted
  BY <1>7, SettleAcceptedKeeps
<1>8. CASE SettleAmbiguous \/ WalkDone
  BY <1>8, FlushMovesKeep
<1>9. CASE SettleRefused
  BY <1>9, SettleRefusedKeeps
<1>10. ASSUME NEW refreshed \in BOOLEAN, EndFlush(refreshed) PROVE IInv'
  BY <1>10, EndFlushKeeps
<1>11. CASE Crash \/ SaveFails
  BY <1>11, FaultsKeep
<1>12. CASE \/ \E o \in Contested : ForeignSpend(o)
            \/ \E t \in Droppable : NetworkLoses(t)
  BY <1>12, WorldKeeps
<1>13. CASE UNCHANGED vars
  BY <1>13
  DEF vars, bytes, wallet, flush, world, IInv, TypeOK, BuiltInOrder,
      FlushWalks, OnlyOldestLanded, ReservationHeld, NoLeakedReservation,
      NoPhantomChange, LandedNeverWithdrawn
<1> QED
  BY <1>1, <1>2, <1>3, <1>4, <1>5, <1>6, <1>7, <1>8, <1>9, <1>10, <1>11,
     <1>12, <1>13 DEF Next

\* The strengthened invariant holds in every reachable state of the wallet.
THEOREM WalletInvariant == Spec => []IInv
<1>1. Init => IInv
  BY InitIInv
<1>2. IInv /\ [Next]_vars => IInv'
  BY StepIInv
<1> QED BY <1>1, <1>2, PTL DEF Spec

\* The coin book, the lists and the flush keep their shape (WalletState).
THEOREM WalletTypeCorrect == Spec => []TypeOK
<1>1. IInv => TypeOK
  BY DEF IInv
<1> QED BY <1>1, WalletInvariant, PTL

\* No two transactions waiting to be broadcast spend one coin (wallet.ts:5).
THEOREM WalletNoDoubleSpend == Spec => []NoDoubleSpend
<1>1. IInv => NoDoubleSpend
  BY DEF IInv, ReservationHeld, NoDoubleSpend
<1> QED BY <1>1, WalletInvariant, PTL

\* No coin stays locked by a withdrawn transaction, and no change of one stays
\* in the book (rollBack, wallet.ts:207).
THEOREM WalletRollbackComplete == Spec => []RollbackComplete
<1>1. IInv => RollbackComplete
  BY DEF IInv, RollbackComplete
<1> QED BY <1>1, WalletInvariant, PTL

\* A transaction the network holds is never withdrawn by flushPending.
THEOREM WalletNeverWithdrawsLanded == Spec => []LandedNeverWithdrawn
<1>1. IInv => LandedNeverWithdrawn
  BY DEF IInv
<1> QED BY <1>1, WalletInvariant, PTL

\* The network is offered no transaction whose parent still waits.
THEOREM WalletParentsFirst == Spec => []ParentsFirst
<1>1. IInv => ParentsFirst
  <2> SUFFICES ASSUME IInv, phase = "answered",
                      NEW p \in inputs[sending] \cap pending
               PROVE  FALSE
    BY DEF ParentsFirst
  <2>1. sending \in pending /\ sending <= p
    BY DEF IInv, FlushWalks
  <2>2. p \in Tx /\ p < sending
    BY <2>1 DEF IInv, BuiltInOrder, TypeOK
  <2> QED BY <2>1, <2>2, TxFacts DEF IInv, TypeOK
<1> QED BY <1>1, WalletInvariant, PTL

-----------------------------------------------------------------------------
(* The pass of rollBack: one walk over the later transactions finds all    *)
(* that fall with the refused one, because a coin is made before the       *)
(* transaction that spends it.                                             *)

\* A coin is marked by nobody but a transaction that was signed to spend it.
MarkedAsSigned == \A o \in Outpoint : coin[o] \in Tx => o \in inputs[coin[o]]

\* Only prepare marks a coin, and no refresh invents a mark.
LEMMA MarksAreSigned == IInv /\ MarkedAsSigned /\ [Next]_vars => MarkedAsSigned'
<1> SUFFICES ASSUME IInv, MarkedAsSigned, [Next]_vars PROVE MarkedAsSigned'
  OBVIOUS
<1>1. ASSUME inputs' = inputs, \A o \in Outpoint : coin'[o] \in Tx => coin'[o] = coin[o]
      PROVE  MarkedAsSigned'
  BY <1>1 DEF MarkedAsSigned
<1>2. ASSUME NEW S \in SUBSET Outpoint, NEW c \in BOOLEAN, Prepare(S, c) PROVE MarkedAsSigned'
  <2> DEFINE t == built + 1
  <2>1. /\ built < MaxTx /\ inputs' = [inputs EXCEPT ![t] = S]
        /\ coin' = [o \in Outpoint |-> IF o \in S THEN t ELSE IF o = t /\ c THEN Free ELSE coin[o]]
    BY <1>2 DEF Prepare
  <2>2. t \in Tx /\ \A o \in Outpoint : coin[o] # t
    BY <2>1, NextIsFresh
  <2>3. inputs'[t] = S /\ \A u \in Tx \ {t} : inputs'[u] = inputs[u]
    BY <2>1, <2>2 DEF IInv, TypeOK
  <2> HIDE DEF t
  <2>4. ASSUME NEW o \in Outpoint, coin'[o] \in Tx PROVE o \in inputs'[coin'[o]]
    <3>1. CASE o \in S
      BY <2>1, <2>3, <3>1
    <3>2. CASE o \notin S
      <4>1. coin'[o] = coin[o]
        BY <2>1, <2>4, <3>2, TxFacts
      <4> QED BY <2>2, <2>3, <2>4, <4>1 DEF MarkedAsSigned
    <3> QED BY <3>1, <3>2
  <2> QED BY <2>4 DEF MarkedAsSigned
<1>3. ASSUME NEW p, NEW c \in BOOLEAN, PrepareSpendOfOutpoint(p, c) PROVE MarkedAsSigned'
  <2>1. inputs' = inputs /\ coin' = [coin EXCEPT ![built + 1] = IF c THEN Free ELSE @]
    BY <1>3 DEF PrepareSpendOfOutpoint
  <2>2. \A o \in Outpoint : coin'[o] \in Tx => coin'[o] = coin[o]
    BY <2>1, TxFacts DEF IInv, TypeOK
  <2> QED BY <1>1, <2>1, <2>2
<1>4. ASSUME NEW S, DropMismatched(S) PROVE MarkedAsSigned'
  BY <1>1, <1>4, TxFacts DEF DropMismatched, bytes
<1>5. ASSUME CommitRefresh, inputs' = inputs PROVE MarkedAsSigned'
  BY <1>1, <1>5, RefreshKeepsBook
<1>6. ASSUME inputs' = inputs, coin' = coin PROVE MarkedAsSigned'
  BY <1>1, <1>6
<1>7. CASE SettleRefused
  <2>1. inputs' = inputs
    BY <1>7 DEF SettleRefused, bytes
  <2>2. coin' = [o \in Outpoint |-> IF o \in Doomed(sending) THEN Absent
                                    ELSE IF coin[o] \in Doomed(sending) THEN Free ELSE coin[o]]
    BY <1>7 DEF SettleRefused, RollBack
  <2> QED BY <1>1, <2>1, <2>2, TxFacts
<1>8. CASE Refresh
  BY <1>5, <1>8 DEF Refresh, bytes
<1>9. ASSUME NEW refreshed \in BOOLEAN, EndFlush(refreshed) PROVE MarkedAsSigned'
  BY <1>5, <1>6, <1>9 DEF EndFlush, bytes, wallet
<1>10. CASE StartFlush \/ SettleAccepted \/ SettleAmbiguous \/ WalkDone \/ Crash \/ SaveFails
  BY <1>6, <1>10 DEF StartFlush, SettleAccepted, SettleAmbiguous, WalkDone, Crash, SaveFails, bytes, wallet
<1>11. ASSUME NEW definite \in BOOLEAN, Broadcast(definite) PROVE MarkedAsSigned'
  BY <1>6, <1>11 DEF Broadcast, bytes, wallet
<1>12. CASE \/ \E o \in Contested : ForeignSpend(o)
            \/ \E t \in Droppable : NetworkLoses(t)
  BY <1>6, <1>12 DEF ForeignSpend, NetworkLoses, bytes, wallet
<1>13. CASE UNCHANGED vars
  BY <1>6, <1>13 DEF vars, bytes, wallet
<1> QED
  BY <1>2, <1>3, <1>4, <1>7, <1>8, <1>9, <1>10, <1>11, <1>12, <1>13 DEF Next

\* A coin that a pending transaction spends was made before it.
LEMMA ParentsAreOlder ==
  ASSUME IInv, MarkedAsSigned, NEW o \in pending, NEW u \in pending, coin[o] = u
  PROVE  o \in Nat /\ u \in Nat /\ o < u
<1>1. o \in Tx /\ u \in Tx /\ o \in Outpoint
  BY DEF IInv, TypeOK, Tx, Outpoint
<1>2. o \in inputs[u]
  BY <1>1 DEF MarkedAsSigned
<1> QED BY <1>1, <1>2, WalletAssumption DEF IInv, BuiltInOrder, Tx

\* The transactions that fall with the refused one are later, and each spends one of them.
LEMMA DoomedIsLeast ==
  ASSUME IInv, MarkedAsSigned, NEW root \in pending
  PROVE  /\ \A u \in Doomed(root) : u \in Nat /\ (u = root \/ u > root)
         /\ \A u \in Doomed(root) \ {root} : \E o \in Doomed(root) : coin[o] = u
<1>1. \A u \in pending : u \in Nat
  BY WalletAssumption DEF IInv, TypeOK, Tx
<1>2. ASSUME NEW u \in Doomed(root) PROVE u = root \/ u > root
  <2> DEFINE D == {v \in pending : v = root \/ v > root}
  <2>1. Closed(D)
    <3>1. ASSUME NEW v \in pending, NEW o \in D, coin[o] = v PROVE v \in D
      <4>1. o \in pending /\ o < v /\ o \in Nat /\ v \in Nat /\ root \in Nat
        BY <1>1, <3>1, ParentsAreOlder
      <4> QED BY <3>1, <4>1
    <3> QED BY <3>1 DEF Closed
  <2>2. D \in SUBSET pending /\ root \in D
    OBVIOUS
  <2>3. u \in D
    BY <2>1, <2>2 DEF Doomed
  <2> QED BY <2>3
<1>3. ASSUME NEW u \in Doomed(root) \ {root}, \A o \in Doomed(root) : coin[o] # u PROVE FALSE
  <2> DEFINE D == Doomed(root) \ {u}
  <2>1. Closed(D)
    <3>1. ASSUME NEW v \in pending, NEW o \in D, coin[o] = v PROVE v \in D
      BY <1>3, <3>1, DoomedClosed
    <3> QED BY <3>1 DEF Closed
  <2>2. D \in SUBSET pending /\ root \in D
    BY <1>3, DoomedClosed
  <2>3. u \in D
    BY <1>3, <2>1, <2>2 DEF Doomed
  <2> QED BY <2>3
<1> QED BY <1>1, <1>2, <1>3, DoomedClosed

\* A nonempty set of numbers has a least one.
LEMMA LeastNumber ==
  ASSUME NEW S, S \subseteq Nat, S # {}
  PROVE  \E m \in S : \A k \in S : m <= k
<1> DEFINE R == OpToRel(<, Nat)
<1>1. IsWellFoundedOn(R, Nat)
  BY NatLessThanWellFounded, Zenon
<1>2. \A x, y \in Nat : y < x => <<y, x>> \in R
  BY DEF OpToRel
<1> HIDE DEF R
<1>3. PICK m \in S : \A k \in S : ~ (<<k, m>> \in R)
  BY <1>1, WFMin
<1>4. \A k \in S : k \in Nat /\ m \in Nat /\ ~ (k < m)
  BY <1>2, <1>3
<1> QED BY <1>4

\* A nonempty set of numbers with a bound has a greatest one.
LEMMA GreatestNumber ==
  ASSUME NEW N \in Nat, NEW S, S \subseteq 1 .. N, S # {}
  PROVE  \E m \in S : \A k \in S : m >= k
<1> DEFINE T == {N - k : k \in S}
<1>1. T \subseteq Nat
  <2>1. ASSUME NEW k \in S PROVE N - k \in Nat
    BY <2>1
  <2> QED BY <2>1
<1> T # {}
  OBVIOUS
<1>2. PICK m \in T : \A k \in T : m <= k
  BY <1>1, LeastNumber
<1>3. PICK k \in S : m = N - k
  BY <1>2
<1>4. \A j \in S : j \in Nat /\ N - j \in T
  OBVIOUS
<1>5. \A j \in S : k \in Nat /\ N - k <= N - j
  BY <1>2, <1>3, <1>4
<1>6. \A j \in S : k >= j
  BY <1>4, <1>5
<1> QED BY <1>6

\* The ways to choose the element of a set that is taken last.
Picks(S) == {p \in [(SUBSET S) \ {{}} -> S] : \A T \in (SUBSET S) \ {{}} : p[T] \in T}

\* What holds of the empty set, and of a set whenever it holds of the set without the
\* element that is taken last, holds of every finite set.
LEMMA TakenOneByOne ==
  ASSUME NEW S, IsFiniteSet(S), NEW pick \in Picks(S),
         NEW P, {} \in P, \A T \in SUBSET S : T # {} /\ T \ {pick[T]} \in P => T \in P
  PROVE  \A T \in SUBSET S : T \in P
<1>0. \A T \in SUBSET S : T # {} => pick[T] \in T
  BY DEF Picks
<1> DEFINE Bad == {Cardinality(T) : T \in (SUBSET S) \ P}
<1>1. \A T \in SUBSET S : IsFiniteSet(T) /\ Cardinality(T) \in Nat
  BY FS_Subset, FS_CardinalityType
<1>2. Bad \subseteq Nat
  BY <1>1
<1>3. ASSUME NEW k \in Bad, \A j \in Bad : k <= j PROVE FALSE
  <2>1. PICK T \in (SUBSET S) \ P : k = Cardinality(T)
    BY <1>3
  <2>2. T # {}
    BY <2>1
  <2>3. pick[T] \in T /\ T \ {pick[T]} \in SUBSET S
    BY <1>0, <2>1, <2>2
  <2>4. Cardinality(T \ {pick[T]}) = Cardinality(T) - 1
    BY <1>1, <2>1, <2>3, FS_RemoveElement
  <2>5. T \ {pick[T]} \in P
    <3>1. ASSUME T \ {pick[T]} \notin P PROVE FALSE
      <4>1. Cardinality(T) - 1 \in Bad
        BY <2>3, <2>4, <3>1
      <4>2. k <= k - 1 /\ k \in Nat
        BY <1>2, <1>3, <2>1, <4>1
      <4> QED BY <4>2
    <3> QED BY <3>1
  <2> QED BY <2>1, <2>2, <2>5
<1> HIDE DEF Bad
<1>4. Bad = {}
  BY <1>2, <1>3, LeastNumber
<1> QED BY <1>4 DEF Bad

\* f takes the elements of S one by one, from base.
IsFold(f, S, pick, base, step) ==
  \A T \in SUBSET S : f[T] = IF T = {} THEN base ELSE step[<<f[T \ {pick[T]}], pick[T]>>]

\* f and g start alike, and stay alike when one more element is taken.
StayAlike(f, g, S, pick) ==
  /\ f[{}] = g[{}]
  /\ \A T \in SUBSET S : T # {} /\ f[T \ {pick[T]}] = g[T \ {pick[T]}] => f[T] = g[T]

\* A function may be defined by taking the elements of a finite set one by one: there
\* is one for each base and each step from states to states.
LEMMA FoldExists ==
  ASSUME NEW S, IsFiniteSet(S), NEW pick \in Picks(S),
         NEW D, NEW base \in D, NEW step \in [D \X S -> D]
  PROVE  \E f \in [SUBSET S -> D] : IsFold(f, S, pick, base, step)
<1>0. \A T \in SUBSET S : T # {} => pick[T] \in T
  BY DEF Picks
<1> DEFINE Sized(k) == {T \in SUBSET S : Cardinality(T) <= k}
<1> DEFINE Has(k) == \E f \in [Sized(k) -> D] :
             \A T \in Sized(k) : f[T] = IF T = {} THEN base ELSE step[<<f[T \ {pick[T]}], pick[T]>>]
<1> DEFINE Bad == {k \in Nat : ~ Has(k)}
<1>1. \A T \in SUBSET S : IsFiniteSet(T) /\ Cardinality(T) \in Nat
  BY FS_Subset, FS_CardinalityType
<1>2. ASSUME NEW T \in SUBSET S, T # {}
      PROVE  /\ pick[T] \in T /\ pick[T] \in S /\ T \ {pick[T]} \in SUBSET S
             /\ Cardinality(T \ {pick[T]}) = Cardinality(T) - 1
  <2>1. pick[T] \in T
    BY <1>0, <1>2
  <2> QED BY <1>1, <1>2, <2>1, FS_RemoveElement
<1>3. Has(0)
  <2>1. Sized(0) = {{}}
    <3>1. ASSUME NEW T \in SUBSET S, Cardinality(T) <= 0 PROVE T = {}
      <4>1. IsFiniteSet(T) /\ Cardinality(T) = 0
        BY <1>1, <3>1
      <4> QED BY <4>1, FS_EmptySet
    <3>2. {} \in SUBSET S /\ Cardinality({}) = 0
      BY FS_EmptySet
    <3>3. {} \in Sized(0)
      BY <3>2
    <3> QED BY <3>1, <3>3
  <2> DEFINE f == [T \in Sized(0) |-> base]
  <2>2. f \in [Sized(0) -> D]
    OBVIOUS
  <2>3. \A T \in Sized(0) : f[T] = base /\ T = {}
    BY <2>1
  <2> HIDE DEF f, Sized
  <2> QED BY <2>2, <2>3
<1>4. ASSUME NEW k \in Nat, Has(k) PROVE Has(k + 1)
  <2>1. PICK f \in [Sized(k) -> D] :
          \A T \in Sized(k) : f[T] = IF T = {} THEN base ELSE step[<<f[T \ {pick[T]}], pick[T]>>]
    BY <1>4
  <2>2. ASSUME NEW T \in Sized(k + 1), T # {} PROVE T \ {pick[T]} \in Sized(k) /\ pick[T] \in S
    <3>1. T \in SUBSET S /\ Cardinality(T) <= k + 1
      OBVIOUS
    <3> QED BY <1>1, <1>2, <2>2, <3>1
  <2>3. Sized(k) \subseteq Sized(k + 1)
    BY <1>1
  <2> DEFINE g == [T \in Sized(k + 1) |-> IF T = {} THEN base ELSE step[<<f[T \ {pick[T]}], pick[T]>>]]
  <2> HIDE DEF Sized
  <2>4. g \in [Sized(k + 1) -> D]
    BY <2>1, <2>2
  <2>5. \A T \in Sized(k) : g[T] = f[T]
    BY <2>1, <2>3
  <2>6. \A T \in Sized(k + 1) : T # {} => g[T \ {pick[T]}] = f[T \ {pick[T]}]
    BY <2>2, <2>5
  <2>7. \A T \in Sized(k + 1) : g[T] = IF T = {} THEN base ELSE step[<<g[T \ {pick[T]}], pick[T]>>]
    BY <2>6
  <2> QED BY <2>4, <2>7
<1>5. ASSUME NEW k \in Bad, \A j \in Bad : k <= j PROVE FALSE
  <2>1. k \in Nat /\ ~ Has(k)
    BY <1>5
  <2> HIDE DEF Has
  <2>2. k # 0
    BY <1>3, <2>1
  <2>3. k - 1 \in Nat
    BY <2>1, <2>2
  <2>4. Has(k - 1)
    <3>1. ASSUME ~ Has(k - 1) PROVE FALSE
      <4>1. k - 1 \in Bad
        BY <2>3, <3>1
      <4> QED BY <1>5, <2>1, <4>1
    <3> QED BY <3>1
  <2>5. (k - 1) + 1 = k
    BY <2>1
  <2>6. Has((k - 1) + 1)
    BY <1>4, <2>3, <2>4
  <2> QED BY <2>1, <2>5, <2>6
<1> HIDE DEF Has
<1>6. Bad \subseteq Nat
  OBVIOUS
<1>7. Bad = {}
  <2> HIDE DEF Bad
  <2> QED BY <1>5, <1>6, LeastNumber
<1>8. Has(Cardinality(S))
  <2>1. Cardinality(S) \in Nat
    BY FS_CardinalityType
  <2> QED BY <1>7, <2>1
<1>9. Sized(Cardinality(S)) = SUBSET S
  BY <1>1, FS_Subset
<1> HIDE DEF Sized
<1> QED BY <1>8, <1>9 DEF Has, IsFold

\* There is only one.
LEMMA FoldUnique ==
  ASSUME NEW S, IsFiniteSet(S), NEW pick \in Picks(S),
         NEW f, NEW g, StayAlike(f, g, S, pick)
  PROVE  f[S] = g[S]
<1> DEFINE P == {T \in SUBSET S : f[T] = g[T]}
<1>1. {} \in P
  BY DEF StayAlike
<1>2. \A T \in SUBSET S : T # {} /\ T \ {pick[T]} \in P => T \in P
  BY DEF StayAlike
<1> HIDE DEF P
<1>3. S \in P
  BY <1>1, <1>2, TakenOneByOne
<1> QED BY <1>3 DEF P

\* One step of the pass.
Walked(root, doomed, u) ==
  IF u > root /\ u \in pending /\ \E o \in doomed : coin[o] = u THEN doomed \cup {u} ELSE doomed

\* The walk of the pass over every set of the transactions built.
Walks(pass, root) ==
  /\ pass[1 .. built] = ForwardPass(root)
  /\ pass[{}] = {root}
  /\ \A T \in SUBSET (1 .. built) : T # {} => pass[T] = Walked(root, pass[T \ {Max(T)}], Max(T))

\* The pass is a function of the transactions walked, which takes the last one last.
LEMMA PassIsFold ==
  ASSUME NEW root \in Nat, built \in Nat
  PROVE  \E pass \in [SUBSET (1 .. built) -> SUBSET Nat] : Walks(pass, root)
<1> DEFINE D == SUBSET Nat
<1> DEFINE S == 1 .. built
<1> DEFINE seq == [i \in S |-> i]
<1> DEFINE Raw(f) ==
      f = [T \in SUBSET DOMAIN seq |->
             IF T = {} THEN {root}
             ELSE LET x == Max(T) IN
                  IF seq[x] > root /\ seq[x] \in pending /\ \E o \in f[T \ {x}] : coin[o] = seq[x]
                  THEN f[T \ {x}] \cup {seq[x]} ELSE f[T \ {x}]]
<1>1. ForwardPass(root) = (CHOOSE f : Raw(f))[DOMAIN seq]
  BY Zenon DEF ForwardPass, FoldLeft, MapThenFoldSet
<1>2. IsFiniteSet(S)
  BY FS_Interval
<1>3. ASSUME NEW T \in SUBSET S, T # {} PROVE Max(T) \in T
  BY <1>3, GreatestNumber DEF Max
<1> DEFINE pick == [T \in (SUBSET S) \ {{}} |-> Max(T)]
<1> DEFINE step == [x \in D \X S |-> Walked(root, x[1], x[2])]
<1>4. \A T \in SUBSET S : T # {} => pick[T] \in T /\ pick[T] = Max(T)
  BY <1>3
<1>5. \A x \in D, u \in S : step[<<x, u>>] \in D /\ step[<<x, u>>] = Walked(root, x, u)
  <2>1. ASSUME NEW x \in D, NEW u \in S PROVE Walked(root, x, u) \in D
    BY DEF Walked
  <2>2. ASSUME NEW x \in D, NEW u \in S PROVE step[<<x, u>>] = Walked(root, x, u)
    OBVIOUS
  <2> QED BY <2>1, <2>2
<1>6. pick \in Picks(S)
  BY <1>3 DEF Picks
<1>7. step \in [D \X S -> D]
  BY DEF Walked
<1> HIDE DEF pick, step, seq, S
<1> DEFINE base == {root}
<1>8. base \in D
  OBVIOUS
<1> HIDE DEF base, D
<1>9. PICK f \in [SUBSET S -> D] : IsFold(f, S, pick, base, step)
  BY <1>2, <1>6, <1>7, <1>8, FoldExists
<1>10. f[{}] = {root} /\ \A T \in SUBSET S : T # {} => f[T] = Walked(root, f[T \ {Max(T)}], Max(T))
  <2>1. f[{}] = {root}
    BY <1>9 DEF IsFold, base
  <2>2. ASSUME NEW T \in SUBSET S, T # {} PROVE f[T] = Walked(root, f[T \ {Max(T)}], Max(T))
    <3>1. f[T] = step[<<f[T \ {pick[T]}], pick[T]>>]
      BY <1>9, <2>2 DEF IsFold
    <3>2. T \ {pick[T]} \in SUBSET S /\ pick[T] \in S /\ pick[T] = Max(T)
      BY <1>4, <2>2
    <3> QED BY <1>5, <3>1, <3>2
  <2> QED BY <2>1, <2>2
<1>11. Raw(f)
  BY <1>3, <1>9, <1>10 DEF Walked, seq
<1> DEFINE g == CHOOSE h : Raw(h)
<1>12. Raw(g)
  BY <1>11
<1> HIDE DEF g
<1>13. g[{}] = {root} /\ \A T \in SUBSET S : T # {} => g[T] = Walked(root, g[T \ {Max(T)}], Max(T))
  BY <1>3, <1>12 DEF Walked, seq
<1>14. \A T \in SUBSET S : T # {} /\ f[T \ {pick[T]}] = g[T \ {pick[T]}] => f[T] = g[T]
  BY <1>4, <1>10, <1>13
<1>15. f[S] = g[S]
  <2>1. StayAlike(f, g, S, pick)
    BY <1>10, <1>13, <1>14 DEF StayAlike
  <2> QED BY <1>2, <1>6, <2>1, FoldUnique
<1>16. DOMAIN seq = S
  BY DEF seq
<1> QED BY <1>1, <1>9, <1>10, <1>15, <1>16 DEF g, S, D, Walks

\* The forward pass of a refused transaction finds what falls with it.
LEMMA OnePassSuffices ==
  ASSUME IInv, MarkedAsSigned, NEW root \in pending
  PROVE  ForwardPass(root) = Doomed(root)
<1> DEFINE S == 1 .. built
<1>1. built \in Nat /\ root \in S /\ pending \subseteq S /\ S \subseteq Nat
  BY DEF IInv, TypeOK, BuiltInOrder
<1>2. PICK pass \in [SUBSET (1 .. built) -> SUBSET Nat] : Walks(pass, root)
  BY <1>1, PassIsFold
<1>3. /\ pass[S] = ForwardPass(root) /\ pass[{}] = {root}
      /\ \A T \in SUBSET S : T # {} => pass[T] = Walked(root, pass[T \ {Max(T)}], Max(T))
  BY <1>2 DEF Walks
<1> DEFINE Found(k) == {u \in Doomed(root) : u = root \/ u <= k}
<1> DEFINE Bad == {k \in 0 .. built : pass[1 .. k] # Found(k)}
<1>4. \A u \in Doomed(root) : u \in pending /\ u \in Nat /\ (u = root \/ u > root)
  BY DoomedIsLeast, DoomedClosed
<1>5. pass[1 .. 0] = Found(0)
  <2>1. Found(0) = {root}
    BY <1>1, <1>4, DoomedClosed
  <2>2. 1 .. 0 = {}
    OBVIOUS
  <2> QED BY <1>3, <2>1, <2>2
<1>6. ASSUME NEW k \in 1 .. built, pass[1 .. (k - 1)] = Found(k - 1) PROVE pass[1 .. k] = Found(k)
  <2>1. 1 .. k \in SUBSET S /\ 1 .. k # {} /\ k \in Nat
    <3>1. k \in Nat /\ k >= 1 /\ k <= built
      BY <1>1
    <3>2. \A j \in 1 .. k : j \in 1 .. built
      BY <1>1, <3>1
    <3>3. k \in 1 .. k
      BY <3>1
    <3> QED BY <3>1, <3>2, <3>3
  <2>2. Max(1 .. k) = k
    <3>1. Max(1 .. k) \in 1 .. k /\ \A j \in 1 .. k : Max(1 .. k) >= j
      BY <2>1, GreatestNumber DEF Max
    <3> QED BY <2>1, <3>1
  <2>3. (1 .. k) \ {k} = 1 .. (k - 1)
    BY <2>1
  <2>4. pass[1 .. k] = Walked(root, Found(k - 1), k)
    BY <1>3, <1>6, <2>1, <2>2, <2>3
  <2>5. CASE k \in Doomed(root) /\ k # root
    <3>1. PICK o \in Doomed(root) : coin[o] = k
      BY <2>5, DoomedIsLeast
    <3>2. o < k /\ o \in Nat /\ k > root /\ k \in pending
      BY <1>4, <2>5, <3>1, ParentsAreOlder
    <3>3. o \in Found(k - 1)
      BY <2>1, <3>2
    <3>4. pass[1 .. k] = Found(k - 1) \cup {k}
      BY <2>4, <3>1, <3>2, <3>3 DEF Walked
    <3>5. Found(k) = Found(k - 1) \cup {k}
      <4>1. \A u \in Doomed(root) : (u = root \/ u <= k) <=> (u = root \/ u <= k - 1 \/ u = k)
        BY <1>4, <2>1
      <4>2. k \in Doomed(root)
        BY <2>5
      <4> QED BY <4>1, <4>2
    <3> QED BY <3>4, <3>5
  <2>6. CASE k = root
    <3>1. pass[1 .. k] = Found(k - 1)
      BY <2>1, <2>4, <2>6 DEF Walked
    <3>2. Found(k) = Found(k - 1)
      BY <1>4, <2>1, <2>6
    <3> QED BY <3>1, <3>2
  <2>7. CASE k \notin Doomed(root)
    <3>1. ~ (k \in pending /\ \E o \in Found(k - 1) : coin[o] = k)
      BY <2>7, DoomedClosed
    <3>2. pass[1 .. k] = Found(k - 1)
      BY <2>4, <3>1 DEF Walked
    <3>3. Found(k) = Found(k - 1)
      BY <1>4, <2>1, <2>7
    <3> QED BY <3>2, <3>3
  <2> QED BY <2>5, <2>6, <2>7
<1>7. Bad = {}
  <2> SUFFICES ASSUME Bad # {} PROVE FALSE
    OBVIOUS
  <2>1. Bad \subseteq Nat
    BY <1>1
  <2>2. PICK k \in Bad : \A j \in Bad : k <= j
    BY <2>1, LeastNumber
  <2>3. k \in 0 .. built /\ pass[1 .. k] # Found(k)
    BY <2>2
  <2>4. k # 0
    BY <1>5, <2>3
  <2>5. k - 1 \in 0 .. built /\ k \in 1 .. built /\ ~ (k <= k - 1)
    BY <1>1, <2>3, <2>4
  <2>6. k - 1 \notin Bad
    BY <2>2, <2>5
  <2>7. pass[1 .. (k - 1)] = Found(k - 1)
    BY <2>5, <2>6
  <2> QED BY <1>6, <2>3, <2>5, <2>7
<1>8. pass[1 .. built] = Found(built)
  BY <1>1, <1>7
<1>9. Found(built) = Doomed(root)
  BY <1>1, <1>4
<1> QED BY <1>3, <1>8, <1>9

\* One forward pass is transitive (wallet.ts:204), for every wallet.
THEOREM WalletOnePassIsTransitive == Spec => []OnePassIsTransitive
<1>1. Init => IInv /\ MarkedAsSigned
  BY InitIInv, TxFacts DEF Init, MarkedAsSigned
<1>2. IInv /\ MarkedAsSigned /\ [Next]_vars => (IInv /\ MarkedAsSigned)'
  BY StepIInv, MarksAreSigned
<1>3. IInv /\ MarkedAsSigned => OnePassIsTransitive
  BY OnePassSuffices DEF OnePassIsTransitive
<1> QED BY <1>1, <1>2, <1>3, PTL DEF Spec
=============================================================================
