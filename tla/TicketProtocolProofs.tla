------------------------ MODULE TicketProtocolProofs ------------------------
(***************************************************************************)
(* What TicketProtocol promises of money and of codes, for every number of *)
(* tickets, phones, calls and troubles.                                    *)
(*                                                                         *)
(* The issuer's part and each phone's part are kept by their own steps;    *)
(* all they share is the network, which only grows, by transactions of     *)
(* whoever takes the step.  So the proof has three layers: the issuer's    *)
(* steps keep IssuerInv, a phone's steps keep its PhoneInv, and every step *)
(* of somebody else keeps both (IssuerKept, PhoneKept).                    *)
(*                                                                         *)
(* A second invariant, OneInv, is about the redemptions of one phone: no   *)
(* two of a ticket are undecided together, and a phone that was given one  *)
(* code has only one, so that a spend in the way of it is somebody else's. *)
(* It rests on the first: what the network took of a phone's is what the   *)
(* phone has (TakenIsOwned).                                               *)
(***************************************************************************)
EXTENDS TicketProtocol, SequenceTheorems, FiniteSetTheorems, TLAPS

Tx == [kind : {"fund", "package", "listing", "cancel", "redeem"}, ticket : Ticket,
       by : Phone \cup {Issuer}, n : Nat]
Stage == {"none", "coded", "funded", "packed", "listed", "failed"}
CallState == [at : {"idle", "find", "build", "settle", "taken", "forget"},
              ticket : Ticket \cup {None}, tx : Tx \cup {None}]
JoinState == [at : {"idle", "read", "build", "vault", "seal", "send", "taken", "refused"},
              ticket : Ticket \cup {None}, tx : Spend \cup {None}, fresh : BOOLEAN, conflict : BOOLEAN]

IssuerShape ==
  /\ issuing \in [Ticket -> Stage]
  /\ pending \in Seq(Tx)
  /\ history \in [Ticket -> {"NONE", "OPEN", "REDEEMED", "CANCELLED"}]
  /\ cancelling \in [Call -> CallState]

PhoneShape ==
  /\ setup.given \in [Phone -> SUBSET Ticket]
  /\ vault \in [Phone -> {"none", "staff", "cadet"}]
  /\ redeeming \in [Phone -> Spend \cup {None}]
  /\ queue \in [Phone -> SUBSET Spend]
  /\ sent \in [Phone -> SUBSET Spend]
  /\ joined \in [Phone -> Ticket \cup {None}]
  /\ joining \in [Phone -> JoinState]
  /\ built \subseteq Spend /\ IsFiniteSet(built)

\* What waits in the issuer's wallet is its own, and what its wallet takes for sent is.
WalletIsTrue ==
  /\ \A x \in ToSet(pending) : x.by = Issuer
  /\ recent \subseteq network

\* The code is sealed before the funding is built, and a ticket is listed once all of it is.
InOrder ==
  \A t \in Ticket :
    /\ issuing[t] = "coded" => t \in code
    /\ issuing[t] \in {"none", "coded"} => Funding(t) \notin ToSet(pending) \cup network
    /\ history[t] # "NONE" => issuing[t] = "listed"

\* A call of cancelTicket is about a listed ticket, and records or forgets only after its
\* cancellation was taken.
CallsAreTrue ==
  \A c \in Call :
    LET call == cancelling[c] IN
    /\ call.at # "idle" => call.ticket \in Ticket /\ history[call.ticket] # "NONE"
    /\ call.at \in {"settle", "taken", "forget"} => IsCancellation(call.tx, call.ticket)
    /\ call.at \in {"taken", "forget"} => call.tx \in network

CancelledByNetwork ==
  \A t \in Ticket : history[t] = "CANCELLED" => \E x \in Spenders(t) : x.kind = "cancel"

IssuerInv ==
  /\ IssuerShape /\ WalletIsTrue /\ InOrder /\ CallsAreTrue /\ CancelledByNetwork /\ CodeKeptWhileSpendable

IsRedemption(x, p) == x.kind = "redeem" /\ x.by = p
InQueueOrSent(p) == queue[p] \cup sent[p]
\* The phone's transactions the network has, but for those of devices its owner gave up.
TakenOf(p) == {x \in network \ abandoned : x.by = p}

\* What a phone's wallet and vault keep are redemptions of its own, built before.
KeepsItsOwn(p) ==
  /\ \A x \in InQueueOrSent(p) : IsRedemption(x, p) /\ x \in built
  /\ sent[p] \subseteq network
  /\ redeeming[p] # None => IsRedemption(redeeming[p], p) /\ redeeming[p] \in built
  /\ vault[p] # "staff" => InQueueOrSent(p) = {}
  /\ vault[p] = "none" => redeeming[p] = None
  /\ \A x \in network : x.by = p => x \in built

\* How far a call that joins has come, and what it can rely on there.
JoinInOrder(p) ==
  LET j == joining[p] IN
  /\ j.at = "idle" => ~j.fresh
  /\ j.at # "idle" => j.ticket \in Ticket /\ joined[p] = None
  /\ j.at = "read" => (Kind(j.ticket) = "staff" => vault[p] # "cadet")
  /\ j.at = "build" => vault[p] = "staff"
  /\ j.at = "vault" => vault[p] = "none"
  /\ j.at \in {"seal", "send", "taken"} => vault[p] # "none"
  /\ j.at \in {"build", "vault", "seal"} => redeeming[p] = None
  /\ j.at \in {"vault", "seal", "send", "taken"} =>
       IsRedemption(j.tx, p) /\ j.tx.ticket = j.ticket /\ j.tx \in built
  /\ j.at \in {"send", "taken"} => redeeming[p] = j.tx
  /\ j.at = "taken" => j.tx \in network

\* A device made for this ticket has sent nothing before the redemption is sealed, and
\* then only that redemption.
FreshSendsOne(p) ==
  LET j == joining[p] IN
  j.fresh =>
    /\ j.at \in {"read", "build", "vault", "seal", "refused"} => TakenOf(p) = {}
    /\ j.at \in {"read", "build", "vault", "seal"} => redeeming[p] = None
    /\ j.at \in {"read", "build", "vault"} => InQueueOrSent(p) = {}
    /\ InQueueOrSent(p) \subseteq {j.tx}

\* Where a phone that has not joined finds a redemption of its own the network has: in
\* the wallet of a member's device, in the vault of a cadet's.
TakenIsKept(p) ==
  joined[p] = None =>
    /\ vault[p] = "none" => TakenOf(p) = {}
    /\ vault[p] = "staff" => TakenOf(p) \subseteq InQueueOrSent(p)
    /\ vault[p] = "cadet" => TakenOf(p) \subseteq {redeeming[p]}

JoinedByNetwork(p) ==
  joined[p] # None => \E x \in Spenders(joined[p]) : IsRedemption(x, p)

PhoneInv(p) ==
  KeepsItsOwn(p) /\ JoinInOrder(p) /\ FreshSendsOne(p) /\ TakenIsKept(p) /\ JoinedByNetwork(p)

IInv == IssuerInv /\ PhoneShape /\ \A p \in Phone : PhoneInv(p)

\* What a sequence holds once something is appended.
LEMMA Queued ==
  ASSUME NEW S, NEW q \in Seq(S), NEW x \in S
  PROVE  /\ Append(q, x) \in Seq(S)
         /\ ToSet(Append(q, x)) = ToSet(q) \cup {x}
<1>1. Append(q, x) \in Seq(S) /\ DOMAIN Append(q, x) = 1 .. Len(q) + 1 /\ DOMAIN q = 1 .. Len(q)
  OBVIOUS
<1>2. Append(q, x)[Len(q) + 1] = x /\ \A i \in 1 .. Len(q) : Append(q, x)[i] = q[i]
  OBVIOUS
<1> QED BY <1>1, <1>2 DEF ToSet

\* What a sequence held before its first element was taken.
LEMMA Sent ==
  ASSUME NEW S, NEW q \in Seq(S), q # <<>>
  PROVE  /\ Tail(q) \in Seq(S) /\ Head(q) \in S
         /\ ToSet(q) = ToSet(Tail(q)) \cup {Head(q)}
<1>1. Len(q) > 0 /\ Tail(q) \in Seq(S) /\ Head(q) = q[1] /\ Head(q) \in S
  OBVIOUS
<1>2. DOMAIN q = 1 .. Len(q) /\ DOMAIN Tail(q) = 1 .. Len(q) - 1
  BY <1>1
<1>3. \A i \in 1 .. Len(q) - 1 : Tail(q)[i] = q[i + 1]
  BY <1>1
<1>4. ASSUME NEW i \in 1 .. Len(q), i # 1 PROVE q[i] = Tail(q)[i - 1] /\ i - 1 \in 1 .. Len(q) - 1
  BY <1>3, <1>4, <1>1
<1>5. \A y : y \in ToSet(q) => y \in ToSet(Tail(q)) \cup {Head(q)}
  BY <1>1, <1>2, <1>4 DEF ToSet
<1>6. \A y : y \in ToSet(Tail(q)) \cup {Head(q)} => y \in ToSet(q)
  BY <1>1, <1>2, <1>3 DEF ToSet
<1> QED BY <1>1, <1>5, <1>6

\* A spend that is built has the shape of one: what was built before can be counted.
LEMMA SpendShape ==
  ASSUME IsFiniteSet(built), NEW t \in Ticket, NEW who \in Phone \cup {Issuer}, NEW kind \in {"cancel", "redeem"}
  PROVE  NewSpend(kind, t, who) \in Spend
<1>1. IsFiniteSet(BuiltBy(t, who))
  BY FS_Subset DEF BuiltBy
<1>2. Cardinality(BuiltBy(t, who)) \in Nat
  BY <1>1, FS_CardinalityType
<1> QED BY <1>2 DEF NewSpend, Spend

-----------------------------------------------------------------------------
(* The issuer's part. *)

\* Whoever else spends: the network only grows, by redemptions of phones.
LEMMA IssuerKept ==
  ASSUME IssuerInv, UNCHANGED issuerVars, network \subseteq network',
         \A x \in network' \ network : x.kind = "redeem"
  PROVE  IssuerInv'
<1> USE DEF issuerVars
<1>1. IssuerShape'
  BY DEF IssuerInv, IssuerShape, CallState, Stage
<1>2. WalletIsTrue'
  BY DEF IssuerInv, WalletIsTrue
<1>3. InOrder'
  BY DEF IssuerInv, InOrder, Funding
<1>4. CallsAreTrue'
  BY DEF IssuerInv, CallsAreTrue, IsCancellation
<1>5. CancelledByNetwork'
  BY DEF IssuerInv, CancelledByNetwork, Spenders, IsSpend
<1>6. CodeKeptWhileSpendable'
  BY DEF IssuerInv, CodeKeptWhileSpendable, Spenders, IsSpend, Funding
<1> QED BY <1>1, <1>2, <1>3, <1>4, <1>5, <1>6 DEF IssuerInv

\* The steps of issueTicket.
LEMMA IssuerMakes ==
  ASSUME IssuerInv, NEW t \in Ticket,
         SealCode(t) \/ Fund(t) \/ Pack(t) \/ List(t) \/ IssueFails(t) \/ PublishListing(t)
  PROVE  IssuerInv'
<1> USE DEF Advance, world, phoneVars, Trouble
<1>1. network' = network /\ cancelling' = cancelling /\ recent' = recent
  BY DEF SealCode, Fund, Pack, List, IssueFails, PublishListing
<1>2. \/ pending' = pending
      \/ pending' = Append(pending, Funding(t)) /\ issuing[t] = "coded" /\ issuing' = [issuing EXCEPT ![t] = "funded"] /\ code' = code
      \/ pending' = Append(pending, Package(t)) /\ code' = code
      \/ pending' = Append(pending, Listing(t)) /\ code' = code
  BY DEF SealCode, Fund, Pack, List, IssueFails, PublishListing
<1>3. Funding(t) \in Tx /\ Package(t) \in Tx /\ Listing(t) \in Tx
  BY DEF Funding, Package, Listing, Tx
<1>4. /\ pending' \in Seq(Tx)
      /\ \A x \in ToSet(pending)' : x \in ToSet(pending) \/ x = Funding(t) \/ x = Package(t) \/ x = Listing(t)
      /\ \A u \in Ticket : Funding(u) \in ToSet(pending)' =>
           \/ Funding(u) \in ToSet(pending)
           \/ u = t /\ issuing[t] = "coded" /\ issuing' = [issuing EXCEPT ![t] = "funded"] /\ code' = code
  <2>0. pending \in Seq(Tx)
    BY DEF IssuerInv, IssuerShape
  <2>1. \A u \in Ticket : Funding(u) # Package(t) /\ Funding(u) # Listing(t) /\ (Funding(u) = Funding(t) => u = t)
    BY DEF Funding, Package, Listing
  <2>2. ASSUME NEW x \in Tx PROVE Append(pending, x) \in Seq(Tx) /\ ToSet(Append(pending, x)) = ToSet(pending) \cup {x}
    BY <2>0, Queued
  <2>3. CASE pending' = pending
    BY <2>0, <2>3
  <2>4. CASE pending' = Append(pending, Funding(t)) /\ issuing[t] = "coded" /\ issuing' = [issuing EXCEPT ![t] = "funded"] /\ code' = code
    BY <1>3, <2>1, <2>2, <2>4
  <2>5. CASE pending' = Append(pending, Package(t))
    BY <1>3, <2>1, <2>2, <2>5
  <2>6. CASE pending' = Append(pending, Listing(t))
    BY <1>3, <2>1, <2>2, <2>6
  <2> QED BY <1>2, <2>3, <2>4, <2>5, <2>6
<1>5. IssuerShape'
  BY <1>1, <1>4 DEF IssuerInv, IssuerShape, CallState, Stage, SealCode, Fund, Pack, List, IssueFails, PublishListing
<1>6. WalletIsTrue'
  BY <1>1, <1>4 DEF IssuerInv, WalletIsTrue, Funding, Package, Listing
<1>7. \A u \in Ticket : (u \in code /\ u \notin code') => u = t /\ issuing[t] = "coded" /\ issuing'[t] = "failed" /\ pending' = pending
  BY DEF IssuerInv, IssuerShape, Stage, SealCode, Fund, Pack, List, IssueFails, PublishListing, CodeAfterFailure
<1>8. InOrder'
  <2> SUFFICES ASSUME NEW u \in Ticket
               PROVE  /\ issuing'[u] = "coded" => u \in code'
                      /\ issuing'[u] \in {"none", "coded"} => Funding(u) \notin ToSet(pending)' \cup network'
                      /\ history'[u] # "NONE" => issuing'[u] = "listed"
    BY DEF InOrder
  <2>1. issuing'[u] = "coded" => u \in code'
    BY <1>7 DEF IssuerInv, InOrder, IssuerShape, Stage, SealCode, Fund, Pack, List, IssueFails, PublishListing
  <2>2. issuing'[u] \in {"none", "coded"} => issuing[u] \in {"none", "coded"}
    BY DEF IssuerInv, IssuerShape, Stage, SealCode, Fund, Pack, List, IssueFails, PublishListing
  <2>3. issuing'[u] \in {"none", "coded"} => Funding(u) \notin ToSet(pending)' \cup network'
    BY <1>1, <1>4, <2>2 DEF IssuerInv, InOrder, IssuerShape, Stage
  <2>4. history'[u] # "NONE" => issuing'[u] = "listed"
    BY DEF IssuerInv, InOrder, IssuerShape, Stage, SealCode, Fund, Pack, List, IssueFails, PublishListing, Making
  <2> QED BY <2>1, <2>3, <2>4
<1>9. CallsAreTrue'
  BY <1>1 DEF IssuerInv, IssuerShape, CallsAreTrue, SealCode, Fund, Pack, List, IssueFails, PublishListing
<1>10. CancelledByNetwork'
  BY <1>1 DEF IssuerInv, IssuerShape, CancelledByNetwork, Spenders, SealCode, Fund, Pack, List, IssueFails, PublishListing
<1>11. CodeKeptWhileSpendable'
  <2> SUFFICES ASSUME NEW u \in Ticket, Funding(u) \in ToSet(pending)' \cup network', Spenders(u)' = {}
               PROVE  u \in code'
    BY DEF CodeKeptWhileSpendable
  <2>1. Spenders(u) = {}
    BY <1>1 DEF Spenders
  <2>2. CASE Funding(u) \in ToSet(pending) \cup network
    <3>1. u \in code
      BY <2>1, <2>2 DEF IssuerInv, CodeKeptWhileSpendable
    <3> QED BY <1>7, <2>2, <3>1 DEF IssuerInv, InOrder
  <2>3. CASE Funding(u) \notin ToSet(pending) \cup network
    BY <1>1, <1>4, <2>3 DEF IssuerInv, InOrder
  <2> QED BY <2>2, <2>3
<1> QED BY <1>5, <1>6, <1>8, <1>9, <1>10, <1>11 DEF IssuerInv

\* A flush takes the oldest out of the queue, into the network or nowhere.
LEMMA IssuerOffers ==
  ASSUME IssuerInv, Offer
  PROVE  /\ IssuerInv'
         /\ network \subseteq network'
         /\ \A x \in network' \ network : x.by = Issuer
<1> DEFINE h == Head(pending)
<1>1. pending # <<>> /\ UNCHANGED <<issuing, code, history, cancelling>>
  BY DEF Offer
<1>2. h \in ToSet(pending) /\ h \in Tx /\ Tail(pending) \in Seq(Tx) /\ ToSet(pending) = ToSet(Tail(pending)) \cup {h}
  BY <1>1, Sent DEF IssuerInv, IssuerShape
<1>3. /\ pending' = pending \/ pending' = Tail(pending)
      /\ network' = network \/ network' = network \cup {h}
      /\ recent' = recent \/ (recent' = recent \cup {h} /\ network' = network \cup {h})
  BY DEF Offer
<1>4. ToSet(pending)' \subseteq ToSet(pending) /\ pending' \in Seq(Tx) /\ network' \subseteq network \cup ToSet(pending)
  BY <1>2, <1>3 DEF IssuerInv, IssuerShape
<1>5. \A x \in network' \ network : x.by = Issuer
  BY <1>2, <1>3 DEF IssuerInv, WalletIsTrue
<1>6. IssuerShape' /\ WalletIsTrue'
  BY <1>1, <1>3, <1>4 DEF IssuerInv, IssuerShape, WalletIsTrue
<1>7. InOrder'
  BY <1>1, <1>4 DEF IssuerInv, InOrder
<1>8. CallsAreTrue'
  BY <1>1, <1>3 DEF IssuerInv, CallsAreTrue
<1>9. CancelledByNetwork'
  BY <1>1, <1>3 DEF IssuerInv, CancelledByNetwork, Spenders
<1>10. CodeKeptWhileSpendable'
  BY <1>1, <1>3, <1>4 DEF IssuerInv, CodeKeptWhileSpendable, Spenders
<1> QED BY <1>3, <1>5, <1>6, <1>7, <1>8, <1>9, <1>10 DEF IssuerInv

\* The steps of cancelTicket.
LEMMA IssuerCancels ==
  ASSUME IssuerInv, PhoneShape, NEW c \in Call,
         \/ \E t \in Ticket : CancelTicket(c, t)
         \/ FindCancellation(c) \/ BuildCancellation(c) \/ SettleCancellation(c)
         \/ RecordCancelled(c) \/ ForgetTicketSecret(c)
  PROVE  IssuerInv'
<1> DEFINE call == cancelling[c]
           t == cancelling[c].ticket
<1> USE DEF phoneVars, world, SetCall, Cancelling
<1>0. /\ cancelling \in [Call -> CallState] /\ pending \in Seq(Tx)
      /\ call.at # "idle" => t \in Ticket /\ history[t] # "NONE" /\ issuing[t] = "listed"
  BY DEF IssuerInv, IssuerShape, CallsAreTrue, InOrder
<1>1. network' = network /\ issuing' = issuing /\ recent' = recent
  BY DEF CancelTicket, FindCancellation, BuildCancellation, SettleCancellation, RecordCancelled, ForgetTicketSecret
\* A step that changes only the call, and leaves it with the truth.
<1>2. ASSUME NEW k \in CallState, cancelling' = [cancelling EXCEPT ![c] = k],
             k.at # "idle" => k.ticket \in Ticket /\ history'[k.ticket] # "NONE",
             k.at \in {"settle", "taken", "forget"} => IsCancellation(k.tx, k.ticket),
             k.at \in {"taken", "forget"} => k.tx \in network,
             \A u \in Ticket : history[u] # "NONE" => history'[u] # "NONE"
      PROVE  CallsAreTrue' /\ cancelling' \in [Call -> CallState]
  <2>1. cancelling' \in [Call -> CallState]
    BY <1>0, <1>2
  <2>2. ASSUME NEW d \in Call PROVE cancelling'[d] = cancelling[d] \/ (d = c /\ cancelling'[d] = k)
    BY <1>0, <1>2
  <2> QED BY <1>1, <1>2, <2>1, <2>2 DEF IssuerInv, CallsAreTrue
<1>3. ASSUME CallsAreTrue', cancelling' \in [Call -> CallState], UNCHANGED <<pending, history, code>>
      PROVE  IssuerInv'
  BY <1>1, <1>3 DEF IssuerInv, IssuerShape, WalletIsTrue, InOrder, CancelledByNetwork, Spenders, CodeKeptWhileSpendable
<1>4. NoCall \in CallState /\ NoCall.at = "idle"
  BY DEF NoCall, CallState
<1>5. CASE \E u \in Ticket : CancelTicket(c, u)
  <2>1. PICK u \in Ticket : CancelTicket(c, u)
    BY <1>5
  <2> DEFINE k == [at |-> "find", ticket |-> u, tx |-> None]
  <2>2. k \in CallState /\ cancelling' = [cancelling EXCEPT ![c] = k] /\ history[u] = "OPEN"
    BY <2>1 DEF CancelTicket, CallState
  <2>3. UNCHANGED <<pending, history, code>>
    BY <2>1 DEF CancelTicket
  <2> HIDE DEF k
  <2>4. k.at = "find" /\ k.ticket = u
    BY DEF k
  <2> QED BY <1>2, <1>3, <2>2, <2>3, <2>4
<1>6. CASE FindCancellation(c)
  <2>1. UNCHANGED <<pending, history, code>> /\ call.at = "find"
    BY <1>6 DEF FindCancellation
  <2>2. CASE cancelling' = [cancelling EXCEPT ![c] = [call EXCEPT !.at = "build"]]
    <3> DEFINE k == [call EXCEPT !.at = "build"]
    <3>1. k \in CallState /\ k.at = "build" /\ k.ticket = t
      BY <1>0 DEF CallState
    <3> HIDE DEF k
    <3>2. cancelling' = [cancelling EXCEPT ![c] = k]
      BY <2>2 DEF k
    <3> QED BY <1>0, <1>2, <1>3, <2>1, <3>1, <3>2
  <2>3. CASE \E i \in DOMAIN pending : IsCancellation(pending[i], t) /\ cancelling' = [cancelling EXCEPT ![c] = [call EXCEPT !.at = "settle", !.tx = pending[i]]]
    <3>1. PICK i \in DOMAIN pending : IsCancellation(pending[i], t) /\ cancelling' = [cancelling EXCEPT ![c] = [call EXCEPT !.at = "settle", !.tx = pending[i]]]
      BY <2>3
    <3> DEFINE k == [call EXCEPT !.at = "settle", !.tx = pending[i]]
    <3>2. pending[i] \in Tx
      BY <1>0
    <3>3. k \in CallState /\ k.at = "settle" /\ k.ticket = t /\ k.tx = pending[i]
      BY <1>0, <3>2 DEF CallState
    <3> HIDE DEF k
    <3>4. cancelling' = [cancelling EXCEPT ![c] = k] /\ IsCancellation(k.tx, k.ticket)
      BY <3>1, <3>3 DEF k
    <3> QED BY <1>0, <1>2, <1>3, <2>1, <3>3, <3>4
  <2> QED BY <1>6, <2>2, <2>3 DEF FindCancellation
<1>7. CASE BuildCancellation(c)
  <2> DEFINE x == NewSpend("cancel", t, Issuer)
             k == [call EXCEPT !.at = "settle", !.tx = x]
  <2>1. call.at = "build" /\ pending' = Append(pending, x) /\ cancelling' = [cancelling EXCEPT ![c] = k]
        /\ UNCHANGED <<history, code>>
    BY <1>7 DEF BuildCancellation
  <2>2. x \in Spend /\ x.kind = "cancel" /\ x.ticket = t /\ x.by = Issuer
    BY <1>0, <2>1, SpendShape DEF PhoneShape, NewSpend
  <2> HIDE DEF x
  <2>3. x \in Tx
    BY <2>2 DEF Spend, Tx
  <2>4. k \in CallState /\ k.at = "settle" /\ k.ticket = t /\ k.tx = x /\ IsCancellation(k.tx, k.ticket)
    BY <1>0, <2>2, <2>3 DEF CallState, IsCancellation
  <2> HIDE DEF k
  <2>5. CallsAreTrue' /\ cancelling' \in [Call -> CallState]
    BY <1>0, <1>2, <2>1, <2>4
  <2>6. pending' \in Seq(Tx) /\ ToSet(pending)' = ToSet(pending) \cup {x}
    BY <1>0, <2>1, <2>3, Queued
  <2>7. \A u \in Ticket : Funding(u) # x
    BY <2>2 DEF Funding
  <2> QED BY <1>1, <2>1, <2>2, <2>5, <2>6, <2>7
       DEF IssuerInv, IssuerShape, WalletIsTrue, InOrder, CancelledByNetwork, Spenders, CodeKeptWhileSpendable
<1>8. CASE SettleCancellation(c)
  <2>1. UNCHANGED <<pending, history, code>> /\ call.at = "settle"
    BY <1>8 DEF SettleCancellation
  <2>2. CASE cancelling' = [cancelling EXCEPT ![c] = NoCall]
    BY <1>2, <1>3, <1>4, <2>1, <2>2
  <2>3. CASE call.tx \in recent /\ cancelling' = [cancelling EXCEPT ![c] = [call EXCEPT !.at = "taken"]]
    <3> DEFINE k == [call EXCEPT !.at = "taken"]
    <3>1. k \in CallState /\ k.at = "taken" /\ k.ticket = t /\ k.tx = call.tx
      BY <1>0 DEF CallState
    <3> HIDE DEF k
    <3>2. cancelling' = [cancelling EXCEPT ![c] = k]
      BY <2>3 DEF k
    <3>3. IsCancellation(k.tx, k.ticket) /\ k.tx \in network
      BY <2>1, <2>3, <3>1 DEF IssuerInv, CallsAreTrue, WalletIsTrue
    <3> QED BY <1>0, <1>2, <1>3, <2>1, <3>1, <3>2, <3>3
  <2> QED BY <1>8, <2>2, <2>3 DEF SettleCancellation, Taken
<1>9. CASE RecordCancelled(c)
  <2>1. UNCHANGED <<pending, code>> /\ call.at = "taken" /\ call.tx \in network /\ IsCancellation(call.tx, t)
    BY <1>9 DEF RecordCancelled, IssuerInv, CallsAreTrue
  <2>2. CASE UNCHANGED history /\ cancelling' = [cancelling EXCEPT ![c] = NoCall]
    BY <1>2, <1>3, <1>4, <2>1, <2>2
  <2>3. CASE history' = [history EXCEPT ![t] = "CANCELLED"] /\ cancelling' = [cancelling EXCEPT ![c] = [call EXCEPT !.at = "forget"]]
    <3> DEFINE k == [call EXCEPT !.at = "forget"]
    <3>1. k \in CallState /\ k.at = "forget" /\ k.ticket = t /\ k.tx = call.tx
      BY <1>0 DEF CallState
    <3> HIDE DEF k
    <3>2. cancelling' = [cancelling EXCEPT ![c] = k]
      BY <2>3 DEF k
    <3>3. history' \in [Ticket -> {"NONE", "OPEN", "REDEEMED", "CANCELLED"}]
          /\ \A u \in Ticket : history'[u] = IF u = t THEN "CANCELLED" ELSE history[u]
      BY <1>0, <2>1, <2>3 DEF IssuerInv, IssuerShape
    <3>4. t \in Ticket /\ issuing[t] = "listed"
      BY <1>0, <2>1
    <3>5. CallsAreTrue' /\ cancelling' \in [Call -> CallState]
      BY <1>2, <2>1, <3>1, <3>2, <3>3, <3>4
    <3>6. call.tx \in Spenders(t) /\ call.tx.kind = "cancel"
      BY <2>1 DEF Spenders, IsSpend, IsCancellation
    <3>7. CancelledByNetwork'
      BY <1>1, <3>3, <3>6 DEF IssuerInv, CancelledByNetwork, Spenders
    <3> QED BY <1>1, <2>1, <3>3, <3>4, <3>5, <3>7
         DEF IssuerInv, IssuerShape, WalletIsTrue, InOrder, Spenders, CodeKeptWhileSpendable
  <2> QED BY <1>9, <2>2, <2>3 DEF RecordCancelled
<1>10. CASE ForgetTicketSecret(c)
  <2>1. /\ UNCHANGED <<pending, history>> /\ call.at = "forget" /\ code' = code \ {t}
        /\ cancelling' = [cancelling EXCEPT ![c] = NoCall]
    BY <1>10 DEF ForgetTicketSecret
  <2>2. call.tx \in Spenders(t)
    BY <2>1 DEF IssuerInv, CallsAreTrue, Spenders, IsSpend, IsCancellation
  <2>3. CallsAreTrue' /\ cancelling' \in [Call -> CallState]
    BY <1>2, <1>4, <2>1
  <2>4. CodeKeptWhileSpendable'
    BY <1>1, <2>1, <2>2 DEF IssuerInv, CodeKeptWhileSpendable, Spenders
  <2>5. InOrder'
    BY <1>0, <1>1, <2>1 DEF IssuerInv, InOrder
  <2> QED BY <1>1, <2>1, <2>3, <2>4, <2>5
       DEF IssuerInv, IssuerShape, WalletIsTrue, CancelledByNetwork, Spenders
<1> QED BY <1>5, <1>6, <1>7, <1>8, <1>9, <1>10

\* The rest of the issuer: a week passes, a redemption is learnt, the page ends.
LEMMA IssuerElse ==
  ASSUME IssuerInv,
         RestartIssuer \/ \E t \in Ticket : Expire(t) \/ LearnRedeemed(t)
  PROVE  IssuerInv'
<1> USE DEF phoneVars, world, issuerVars, Trouble
<1>1. CASE RestartIssuer
  <2>1. /\ UNCHANGED <<code, pending, recent, history, network>>
        /\ issuing' = [t \in Ticket |-> IF Making(t) THEN "failed" ELSE issuing[t]]
        /\ cancelling' = [c \in Call |-> NoCall]
    BY <1>1 DEF RestartIssuer
  <2>2. NoCall \in CallState /\ NoCall.at = "idle"
    BY DEF NoCall, CallState
  <2>3. CallsAreTrue' /\ IssuerShape'
    BY <2>1, <2>2 DEF CallsAreTrue, IssuerInv, IssuerShape, Stage, Making
  <2>4. InOrder'
    BY <2>1 DEF IssuerInv, InOrder, IssuerShape, Stage, Making
  <2> QED BY <2>1, <2>3, <2>4 DEF IssuerInv, WalletIsTrue, CancelledByNetwork, Spenders, CodeKeptWhileSpendable
<1>2. CASE \E t \in Ticket : Expire(t)
  BY <1>2, IssuerKept DEF Expire
<1>3. CASE \E t \in Ticket : LearnRedeemed(t)
  <2>1. PICK t \in Ticket : LearnRedeemed(t)
    BY <1>3
  <2>2. history[t] = "OPEN" /\ history' = [history EXCEPT ![t] = "REDEEMED"]
        /\ UNCHANGED <<issuing, code, pending, recent, cancelling, network>>
    BY <2>1 DEF LearnRedeemed
  <2>3. \A u \in Ticket : history'[u] = IF u = t THEN "REDEEMED" ELSE history[u]
    BY <2>2 DEF IssuerInv, IssuerShape
  <2>4. CallsAreTrue'
    BY <2>2, <2>3 DEF IssuerInv, CallsAreTrue
  <2> QED BY <2>2, <2>3, <2>4
       DEF IssuerInv, IssuerShape, WalletIsTrue, InOrder, CancelledByNetwork, Spenders, CodeKeptWhileSpendable
<1> QED BY <1>1, <1>2, <1>3

-----------------------------------------------------------------------------
(* The phones' part. *)

\* What others do leaves a phone's part alone: nobody else adds a redemption of its own.
LEMMA PhoneKept ==
  ASSUME NEW p \in Phone, PhoneInv(p),
         vault'[p] = vault[p], redeeming'[p] = redeeming[p], queue'[p] = queue[p],
         sent'[p] = sent[p], joined'[p] = joined[p], joining'[p] = joining[p], UNCHANGED setup,
         built \subseteq built', abandoned \subseteq abandoned', network \subseteq network',
         \A x \in network' \ network : x.by # p
  PROVE  PhoneInv(p)'
<1>1. TakenOf(p)' \subseteq TakenOf(p) /\ InQueueOrSent(p)' = InQueueOrSent(p)
  BY DEF TakenOf, InQueueOrSent
<1>2. KeepsItsOwn(p)'
  BY <1>1 DEF PhoneInv, KeepsItsOwn, IsRedemption
<1>3. JoinInOrder(p)'
  BY <1>1 DEF PhoneInv, JoinInOrder, IsRedemption, Kind
<1>4. FreshSendsOne(p)' /\ TakenIsKept(p)'
  BY <1>1 DEF PhoneInv, FreshSendsOne, TakenIsKept
<1>5. JoinedByNetwork(p)'
  BY DEF PhoneInv, JoinedByNetwork, Spenders, IsSpend, IsRedemption
<1> QED BY <1>2, <1>3, <1>4, <1>5 DEF PhoneInv

\* What becomes of a call that joins: a later stage, another transaction, a conflict noticed.
LEMMA Moves ==
  ASSUME NEW j \in JoinState, NEW at \in {"idle", "read", "build", "vault", "seal", "send", "taken", "refused"},
         NEW x \in Spend \cup {None}, NEW b \in BOOLEAN
  PROVE  /\ [j EXCEPT !.at = at] \in JoinState
         /\ [j EXCEPT !.at = at, !.tx = x] \in JoinState
         /\ [j EXCEPT !.conflict = b] \in JoinState
         /\ [j EXCEPT !.at = at, !.conflict = b] \in JoinState
BY DEF JoinState

\* Only the part of one phone changes.
OnlyOf(p) ==
  \A q \in Phone \ {p} :
    /\ vault'[q] = vault[q] /\ redeeming'[q] = redeeming[q] /\ queue'[q] = queue[q]
    /\ sent'[q] = sent[q] /\ joined'[q] = joined[q] /\ joining'[q] = joining[q]
Outside(p) ==
  /\ UNCHANGED <<issuerVars, setup>>
  /\ built \subseteq built' /\ abandoned \subseteq abandoned' /\ network \subseteq network'
  /\ \A x \in network' \ network : IsRedemption(x, p)

\* A phone's step changes its own part only, and hands the network redemptions of its own.
LEMMA PhoneFrame ==
  ASSUME PhoneShape, NEW p \in Phone, PhoneInv(p), PhoneStep(p)
  PROVE  PhoneShape' /\ OnlyOf(p) /\ Outside(p)
<1> USE DEF Step, Go, At, Trouble, Tell, Erased, GiveUp
<1>idle. Idle \in JoinState
  BY DEF JoinState, Idle
<1>call. joining[p] \in JoinState /\ joining = [joining EXCEPT ![p] = joining[p]]
  BY DEF PhoneShape
<1>resumed. Resume(p) => [at |-> "send", ticket |-> redeeming[p].ticket, tx |-> redeeming[p], fresh |-> FALSE, conflict |-> FALSE] \in JoinState
  BY DEF Resume, PhoneInv, KeepsItsOwn, PhoneShape, JoinState, Spend
<1>read. \A t \in Ticket, b \in BOOLEAN : [at |-> "read", ticket |-> t, tx |-> None, fresh |-> b, conflict |-> FALSE] \in JoinState
  BY DEF JoinState
<1>clash. Conflicts(joining[p].tx) \in BOOLEAN
  BY DEF Conflicts
<1>parts. joining[p].tx \in Spend \cup {None} /\ joining[p].conflict \in BOOLEAN /\ joining[p].ticket \in Ticket \cup {None}
  BY <1>call DEF JoinState
<1>1. CASE \E t \in Ticket : ReadTicket(p, t)
  <2>1. \E j \in JoinState : joining' = [joining EXCEPT ![p] = j]
    BY <1>1, <1>call, <1>read, Moves DEF ReadTicket, PhoneShape, world
  <2>2. PhoneShape'
    <3>1. UNCHANGED <<vault, redeeming, queue, sent, joined, setup, built>>
      BY <1>1 DEF ReadTicket
    <3> QED BY <2>1, <3>1 DEF PhoneShape
  <2>3. OnlyOf(p)
    BY <1>1, <2>1 DEF ReadTicket, PhoneShape, OnlyOf, world
  <2>4. Outside(p)
    BY <1>1 DEF ReadTicket, Outside, PhoneInv, KeepsItsOwn, JoinInOrder, InQueueOrSent, issuerVars, world
  <2> QED BY <2>2, <2>3, <2>4
<1>2. CASE StartRedemption(p)
  <2>1. \E j \in JoinState : joining' = [joining EXCEPT ![p] = j]
    BY <1>2, <1>call, <1>idle, Moves DEF StartRedemption, BuiltBefore, PhoneShape, world
  <2>2. PhoneShape'
    BY <1>2, <2>1 DEF StartRedemption, BuiltBefore, PhoneShape, world
  <2>3. OnlyOf(p)
    BY <1>2, <2>1 DEF StartRedemption, BuiltBefore, PhoneShape, OnlyOf, world
  <2>4. Outside(p)
    BY <1>2 DEF StartRedemption, BuiltBefore, Outside, PhoneInv, KeepsItsOwn, JoinInOrder, InQueueOrSent, issuerVars, world
  <2> QED BY <2>2, <2>3, <2>4
<1>3. CASE PrepareRedemption(p)
  <2>ticket. joining[p].ticket \in Ticket
    BY <1>3 DEF PrepareRedemption, PhoneInv, JoinInOrder
  <2>spend. NewSpend("redeem", joining[p].ticket, p) \in Spend
    BY <2>ticket, SpendShape DEF PhoneShape
  <2>finite. IsFiniteSet(built \cup {NewSpend("redeem", joining[p].ticket, p)})
    BY FS_AddElement DEF PhoneShape
  <2>1. \E j \in JoinState : joining' = [joining EXCEPT ![p] = j]
    BY <1>3, <1>call, <2>spend, Moves DEF PrepareRedemption, PhoneShape, world
  <2>2. PhoneShape'
    BY <1>3, <2>ticket, <2>finite, <2>spend, <2>1 DEF PrepareRedemption, PhoneShape, world
  <2>3. OnlyOf(p)
    BY <1>3, <2>ticket, <2>finite, <2>spend, <2>1 DEF PrepareRedemption, PhoneShape, OnlyOf, world
  <2>4. Outside(p)
    BY <1>3, <2>ticket, <2>finite, <2>spend DEF PrepareRedemption, Outside, PhoneInv, KeepsItsOwn, JoinInOrder, InQueueOrSent, issuerVars, world
  <2> QED BY <2>2, <2>3, <2>4
<1>4. CASE BuildRedemption(p)
  <2>ticket. joining[p].ticket \in Ticket
    BY <1>4 DEF BuildRedemption, PhoneInv, JoinInOrder
  <2>spend. NewSpend("redeem", joining[p].ticket, p) \in Spend
    BY <2>ticket, SpendShape DEF PhoneShape
  <2>finite. IsFiniteSet(built \cup {NewSpend("redeem", joining[p].ticket, p)})
    BY FS_AddElement DEF PhoneShape
  <2>1. \E j \in JoinState : joining' = [joining EXCEPT ![p] = j]
    BY <1>4, <1>call, <2>spend, Moves DEF BuildRedemption, PhoneShape, world
  <2>2. PhoneShape'
    BY <1>4, <2>ticket, <2>finite, <2>spend, <2>1 DEF BuildRedemption, PhoneShape, world
  <2>3. OnlyOf(p)
    BY <1>4, <2>ticket, <2>finite, <2>spend, <2>1 DEF BuildRedemption, PhoneShape, OnlyOf, world
  <2>4. Outside(p)
    BY <1>4, <2>ticket, <2>finite, <2>spend DEF BuildRedemption, Outside, PhoneInv, KeepsItsOwn, JoinInOrder, InQueueOrSent, issuerVars, world
  <2> QED BY <2>2, <2>3, <2>4
<1>5. CASE CreateCadetVault(p)
  <2>1. \E j \in JoinState : joining' = [joining EXCEPT ![p] = j]
    BY <1>5, <1>call, Moves DEF CreateCadetVault, PhoneShape, world
  <2>2. PhoneShape'
    BY <1>5, <2>1 DEF CreateCadetVault, PhoneShape, world
  <2>3. OnlyOf(p)
    BY <1>5, <2>1 DEF CreateCadetVault, PhoneShape, OnlyOf, world
  <2>4. Outside(p)
    BY <1>5 DEF CreateCadetVault, Outside, PhoneInv, KeepsItsOwn, JoinInOrder, InQueueOrSent, issuerVars, world
  <2> QED BY <2>2, <2>3, <2>4
<1>6. CASE SealRedemption(p)
  <2>1. \E j \in JoinState : joining' = [joining EXCEPT ![p] = j]
    BY <1>6, <1>call, Moves DEF SealRedemption, PhoneShape, world
  <2>2. PhoneShape'
    BY <1>6, <2>1, <1>parts DEF SealRedemption, PhoneShape, world
  <2>3. OnlyOf(p)
    BY <1>6, <2>1 DEF SealRedemption, PhoneShape, OnlyOf, world
  <2>4. Outside(p)
    BY <1>6 DEF SealRedemption, Outside, PhoneInv, KeepsItsOwn, JoinInOrder, InQueueOrSent, issuerVars, world
  <2> QED BY <2>2, <2>3, <2>4
<1>7. CASE OfferRedemption(p)
  <2>1. \E j \in JoinState : joining' = [joining EXCEPT ![p] = j]
    BY <1>7, <1>call, <1>parts, Moves DEF OfferRedemption, PhoneShape, world
  <2>2. PhoneShape'
    BY <1>7, <2>1 DEF OfferRedemption, PhoneShape, world
  <2>3. OnlyOf(p)
    BY <1>7, <2>1 DEF OfferRedemption, PhoneShape, OnlyOf, world
  <2>4. Outside(p)
    BY <1>7 DEF OfferRedemption, Outside, PhoneInv, KeepsItsOwn, JoinInOrder, InQueueOrSent, issuerVars, world
  <2> QED BY <2>2, <2>3, <2>4
<1>8. CASE SettleRedemption(p)
  <2>1. \E j \in JoinState : joining' = [joining EXCEPT ![p] = j]
    BY <1>8, <1>call, <1>idle, Moves DEF SettleRedemption, PhoneShape, world
  <2>2. PhoneShape'
    BY <1>8, <2>1 DEF SettleRedemption, PhoneShape, world
  <2>3. OnlyOf(p)
    BY <1>8, <2>1 DEF SettleRedemption, PhoneShape, OnlyOf, world
  <2>4. Outside(p)
    BY <1>8 DEF SettleRedemption, Outside, PhoneInv, KeepsItsOwn, JoinInOrder, InQueueOrSent, issuerVars, world
  <2> QED BY <2>2, <2>3, <2>4
<1>9. CASE BroadcastRedemption(p)
  <2>1. \E j \in JoinState : joining' = [joining EXCEPT ![p] = j]
    BY <1>9, <1>call, <1>idle, <1>clash, Moves DEF BroadcastRedemption, PhoneShape, world
  <2>2. PhoneShape'
    BY <1>9, <2>1 DEF BroadcastRedemption, PhoneShape, world
  <2>3. OnlyOf(p)
    BY <1>9, <2>1 DEF BroadcastRedemption, PhoneShape, OnlyOf, world
  <2>4. Outside(p)
    BY <1>9 DEF BroadcastRedemption, Outside, PhoneInv, KeepsItsOwn, JoinInOrder, InQueueOrSent, issuerVars, world
  <2> QED BY <2>2, <2>3, <2>4
<1>10. CASE TellRefused(p)
  <2>1. \E j \in JoinState : joining' = [joining EXCEPT ![p] = j]
    BY <1>10, <1>call, <1>idle, Moves DEF TellRefused, PhoneShape, world
  <2>2. PhoneShape'
    BY <1>10, <2>1 DEF TellRefused, PhoneShape, world
  <2>3. OnlyOf(p)
    BY <1>10, <2>1 DEF TellRefused, PhoneShape, OnlyOf, world
  <2>4. Outside(p)
    BY <1>10 DEF TellRefused, Outside, PhoneInv, KeepsItsOwn, JoinInOrder, InQueueOrSent, issuerVars, world
  <2> QED BY <2>2, <2>3, <2>4
<1>11. CASE Complete(p)
  <2>1. \E j \in JoinState : joining' = [joining EXCEPT ![p] = j]
    BY <1>11, <1>call, <1>idle, Moves DEF Complete, PhoneShape, world
  <2>2. PhoneShape'
    BY <1>11, <2>1, <1>parts DEF Complete, PhoneShape, world
  <2>3. OnlyOf(p)
    BY <1>11, <2>1 DEF Complete, PhoneShape, OnlyOf, world
  <2>4. Outside(p)
    BY <1>11 DEF Complete, Outside, PhoneInv, KeepsItsOwn, JoinInOrder, InQueueOrSent, issuerVars, world
  <2> QED BY <2>2, <2>3, <2>4
<1>12. CASE Resume(p)
  <2>1. \E j \in JoinState : joining' = [joining EXCEPT ![p] = j]
    BY <1>12, <1>call, <1>resumed, Moves DEF Resume, PhoneShape, world
  <2>2. PhoneShape'
    BY <1>12, <2>1 DEF Resume, PhoneShape, world
  <2>3. OnlyOf(p)
    BY <1>12, <2>1 DEF Resume, PhoneShape, OnlyOf, world
  <2>4. Outside(p)
    BY <1>12 DEF Resume, Outside, PhoneInv, KeepsItsOwn, JoinInOrder, InQueueOrSent, issuerVars, world
  <2> QED BY <2>2, <2>3, <2>4
<1>13. CASE JoinFails(p)
  <2>1. \E j \in JoinState : joining' = [joining EXCEPT ![p] = j]
    BY <1>13, <1>call, <1>idle, Moves DEF JoinFails, PhoneShape, world
  <2>2. PhoneShape'
    BY <1>13, <2>1 DEF JoinFails, PhoneShape, world
  <2>3. OnlyOf(p)
    BY <1>13, <2>1 DEF JoinFails, PhoneShape, OnlyOf, world
  <2>4. Outside(p)
    BY <1>13 DEF JoinFails, Outside, PhoneInv, KeepsItsOwn, JoinInOrder, InQueueOrSent, issuerVars, world
  <2> QED BY <2>2, <2>3, <2>4
<1>14. CASE NothingBuilt(p)
  <2>1. \E j \in JoinState : joining' = [joining EXCEPT ![p] = j]
    BY <1>14, <1>call, <1>idle, Moves DEF NothingBuilt, PhoneShape, world
  <2>2. PhoneShape'
    BY <1>14, <2>1 DEF NothingBuilt, PhoneShape, world
  <2>3. OnlyOf(p)
    BY <1>14, <2>1 DEF NothingBuilt, PhoneShape, OnlyOf, world
  <2>4. Outside(p)
    BY <1>14 DEF NothingBuilt, Outside, PhoneInv, KeepsItsOwn, JoinInOrder, InQueueOrSent, issuerVars, world
  <2> QED BY <2>2, <2>3, <2>4
<1>15. CASE DropEmptyVault(p)
  <2>1. \E j \in JoinState : joining' = [joining EXCEPT ![p] = j]
    BY <1>15, <1>call, Moves DEF DropEmptyVault, PhoneShape, world
  <2>2. PhoneShape'
    BY <1>15, <2>1 DEF DropEmptyVault, PhoneShape, world
  <2>3. OnlyOf(p)
    BY <1>15, <2>1 DEF DropEmptyVault, PhoneShape, OnlyOf, world
  <2>4. Outside(p)
    BY <1>15 DEF DropEmptyVault, Outside, PhoneInv, KeepsItsOwn, JoinInOrder, InQueueOrSent, issuerVars, world
  <2> QED BY <2>2, <2>3, <2>4
<1>16. CASE RestartPhone(p)
  <2>1. \E j \in JoinState : joining' = [joining EXCEPT ![p] = j]
    BY <1>16, <1>call, <1>idle, Moves DEF RestartPhone, PhoneShape, world
  <2>2. PhoneShape'
    BY <1>16, <2>1 DEF RestartPhone, PhoneShape, world
  <2>3. OnlyOf(p)
    BY <1>16, <2>1 DEF RestartPhone, PhoneShape, OnlyOf, world
  <2>4. Outside(p)
    BY <1>16 DEF RestartPhone, Outside, PhoneInv, KeepsItsOwn, JoinInOrder, InQueueOrSent, issuerVars, world
  <2> QED BY <2>2, <2>3, <2>4
<1>17. CASE ErasePhone(p)
  <2>1. \E j \in JoinState : joining' = [joining EXCEPT ![p] = j]
    BY <1>17, <1>call, Moves DEF ErasePhone, PhoneShape, world
  <2>2. PhoneShape'
    BY <1>17, <2>1 DEF ErasePhone, PhoneShape, world
  <2>3. OnlyOf(p)
    BY <1>17, <2>1 DEF ErasePhone, PhoneShape, OnlyOf, world
  <2>4. Outside(p)
    BY <1>17 DEF ErasePhone, Outside, PhoneInv, KeepsItsOwn, JoinInOrder, InQueueOrSent, issuerVars, world
  <2> QED BY <2>2, <2>3, <2>4
<1> QED BY <1>1, <1>2, <1>3, <1>4, <1>5, <1>6, <1>7, <1>8, <1>9, <1>10, <1>11, <1>12, <1>13, <1>14, <1>15, <1>16, <1>17 DEF PhoneStep

\* Every step of a phone keeps what it relies on.
LEMMA PhoneSteps ==
  ASSUME PhoneShape, NEW p \in Phone, PhoneInv(p), PhoneStep(p)
  PROVE  PhoneInv(p)'
<1> USE DEF Step, Go, At, Trouble, Tell, Erased, GiveUp, world, issuerVars
<1>frame. PhoneShape' /\ Outside(p)
  BY PhoneFrame
<1>none. None \notin Spend /\ None \notin Ticket
  BY TicketAssumption DEF TicketAssumption, Spend
<1>taken. TakenOf(p) \subseteq Spend /\ TakenOf(p) \subseteq built
  BY DEF TakenOf, PhoneInv, KeepsItsOwn, PhoneShape
<1>sealed. joining[p].at \in {"seal", "send", "taken"} => joining[p].tx \in Spend /\ IsRedemption(joining[p].tx, p)
  BY DEF PhoneInv, JoinInOrder, PhoneShape
<1>1. CASE \E t \in Ticket : ReadTicket(p, t)
  <2>1. KeepsItsOwn(p)'
    BY <1>1 DEF ReadTicket, PhoneShape, PhoneInv, KeepsItsOwn, IsRedemption, InQueueOrSent
  <2>2. JoinInOrder(p)'
    BY <1>1 DEF ReadTicket, PhoneShape, PhoneInv, JoinInOrder, IsRedemption, JoinState, Idle
  <2>3. FreshSendsOne(p)'
    BY <1>1 DEF ReadTicket, PhoneShape, PhoneInv, KeepsItsOwn, JoinInOrder, FreshSendsOne, TakenIsKept, TakenOf, InQueueOrSent, IsRedemption, Idle, JoinState, Kind
  <2>4. TakenIsKept(p)'
    BY <1>1 DEF ReadTicket, PhoneShape, PhoneInv, TakenIsKept, TakenOf, InQueueOrSent
  <2>5. JoinedByNetwork(p)'
    BY <1>1 DEF ReadTicket, PhoneShape, PhoneInv, JoinedByNetwork, Spenders, IsSpend, IsRedemption
  <2> QED BY <2>1, <2>2, <2>3, <2>4, <2>5 DEF PhoneInv
<1>2. CASE StartRedemption(p)
  <2>1. KeepsItsOwn(p)'
    BY <1>2 DEF StartRedemption, PhoneShape, PhoneInv, KeepsItsOwn, IsRedemption, InQueueOrSent
  <2>2. JoinInOrder(p)'
    <3>1. /\ vault'[p] = "staff" /\ UNCHANGED <<redeeming, queue, sent, joined, network, abandoned, built, setup>>
          /\ joining[p].at = "read" /\ joining[p] \in JoinState /\ Kind(joining[p].ticket) = "staff"
      BY <1>2 DEF StartRedemption, PhoneShape
    <3>4. \/ joining' = [joining EXCEPT ![p] = Idle]
          \/ /\ redeeming[p] # None /\ redeeming[p].ticket = joining[p].ticket
             /\ joining' = [joining EXCEPT ![p] = [joining[p] EXCEPT !.at = "send", !.tx = redeeming[p]]]
          \/ redeeming[p] = None /\ joining' = [joining EXCEPT ![p] = [joining[p] EXCEPT !.at = "build"]]
          \/ /\ redeeming[p] = None
             /\ \E x \in queue[p] : x.ticket = joining[p].ticket /\ joining' = [joining EXCEPT ![p] = [joining[p] EXCEPT !.at = "seal", !.tx = x]]
      BY <1>2 DEF StartRedemption, BuiltBefore
    <3>2. \/ joining'[p].at = "idle" /\ ~joining'[p].fresh
          \/ /\ joining'[p].ticket = joining[p].ticket /\ joining'[p].fresh = joining[p].fresh
             /\ \/ joining'[p].at = "send" /\ joining'[p].tx = redeeming[p] /\ redeeming[p] # None /\ redeeming[p].ticket = joining[p].ticket
                \/ joining'[p].at = "build" /\ redeeming[p] = None
                \/ joining'[p].at = "seal" /\ joining'[p].tx \in queue[p] /\ joining'[p].tx.ticket = joining[p].ticket /\ redeeming[p] = None
      <4>0. joining \in [Phone -> JoinState]
        BY DEF PhoneShape
      <4>1. CASE joining' = [joining EXCEPT ![p] = Idle]
        BY <4>0, <4>1 DEF Idle
      <4>2. CASE redeeming[p] # None /\ redeeming[p].ticket = joining[p].ticket
                 /\ joining' = [joining EXCEPT ![p] = [joining[p] EXCEPT !.at = "send", !.tx = redeeming[p]]]
        BY <3>1, <4>0, <4>2 DEF JoinState
      <4>3. CASE redeeming[p] = None /\ joining' = [joining EXCEPT ![p] = [joining[p] EXCEPT !.at = "build"]]
        BY <3>1, <4>0, <4>3 DEF JoinState
      <4>4. CASE redeeming[p] = None
                 /\ \E x \in queue[p] : x.ticket = joining[p].ticket /\ joining' = [joining EXCEPT ![p] = [joining[p] EXCEPT !.at = "seal", !.tx = x]]
        BY <3>1, <4>0, <4>4 DEF JoinState
      <4> QED BY <3>4, <4>1, <4>2, <4>3, <4>4
    <3> QED BY <3>1, <3>2 DEF PhoneInv, KeepsItsOwn, JoinInOrder, IsRedemption, InQueueOrSent
  <2>3. FreshSendsOne(p)'
    <3>1. /\ vault'[p] = "staff" /\ UNCHANGED <<redeeming, queue, sent, joined, network, abandoned, built, setup>>
          /\ joining[p].at = "read" /\ joining[p] \in JoinState /\ Kind(joining[p].ticket) = "staff"
      BY <1>2 DEF StartRedemption, PhoneShape
    <3>4. \/ joining' = [joining EXCEPT ![p] = Idle]
          \/ /\ redeeming[p] # None /\ redeeming[p].ticket = joining[p].ticket
             /\ joining' = [joining EXCEPT ![p] = [joining[p] EXCEPT !.at = "send", !.tx = redeeming[p]]]
          \/ redeeming[p] = None /\ joining' = [joining EXCEPT ![p] = [joining[p] EXCEPT !.at = "build"]]
          \/ /\ redeeming[p] = None
             /\ \E x \in queue[p] : x.ticket = joining[p].ticket /\ joining' = [joining EXCEPT ![p] = [joining[p] EXCEPT !.at = "seal", !.tx = x]]
      BY <1>2 DEF StartRedemption, BuiltBefore
    <3>2. \/ joining'[p].at = "idle" /\ ~joining'[p].fresh
          \/ /\ joining'[p].ticket = joining[p].ticket /\ joining'[p].fresh = joining[p].fresh
             /\ \/ joining'[p].at = "send" /\ joining'[p].tx = redeeming[p] /\ redeeming[p] # None /\ redeeming[p].ticket = joining[p].ticket
                \/ joining'[p].at = "build" /\ redeeming[p] = None
                \/ joining'[p].at = "seal" /\ joining'[p].tx \in queue[p] /\ joining'[p].tx.ticket = joining[p].ticket /\ redeeming[p] = None
      <4>0. joining \in [Phone -> JoinState]
        BY DEF PhoneShape
      <4>1. CASE joining' = [joining EXCEPT ![p] = Idle]
        BY <4>0, <4>1 DEF Idle
      <4>2. CASE redeeming[p] # None /\ redeeming[p].ticket = joining[p].ticket
                 /\ joining' = [joining EXCEPT ![p] = [joining[p] EXCEPT !.at = "send", !.tx = redeeming[p]]]
        BY <3>1, <4>0, <4>2 DEF JoinState
      <4>3. CASE redeeming[p] = None /\ joining' = [joining EXCEPT ![p] = [joining[p] EXCEPT !.at = "build"]]
        BY <3>1, <4>0, <4>3 DEF JoinState
      <4>4. CASE redeeming[p] = None
                 /\ \E x \in queue[p] : x.ticket = joining[p].ticket /\ joining' = [joining EXCEPT ![p] = [joining[p] EXCEPT !.at = "seal", !.tx = x]]
        BY <3>1, <4>0, <4>4 DEF JoinState
      <4> QED BY <3>4, <4>1, <4>2, <4>3, <4>4
    <3>3. TakenOf(p)' = TakenOf(p) /\ InQueueOrSent(p)' = InQueueOrSent(p)
      BY <3>1 DEF TakenOf, InQueueOrSent
    <3> QED BY <3>1, <3>2, <3>3 DEF PhoneInv, FreshSendsOne, InQueueOrSent
  <2>4. TakenIsKept(p)'
    BY <1>2 DEF StartRedemption, PhoneShape, PhoneInv, KeepsItsOwn, JoinInOrder, FreshSendsOne, TakenIsKept, TakenOf, InQueueOrSent, IsRedemption, Idle, JoinState, Kind
  <2>5. JoinedByNetwork(p)'
    BY <1>2 DEF StartRedemption, PhoneShape, PhoneInv, JoinedByNetwork, Spenders, IsSpend, IsRedemption
  <2> QED BY <2>1, <2>2, <2>3, <2>4, <2>5 DEF PhoneInv
<1>3. CASE PrepareRedemption(p)
  <2>1. KeepsItsOwn(p)'
    BY <1>3 DEF PrepareRedemption, PhoneShape, PhoneInv, KeepsItsOwn, JoinInOrder, FreshSendsOne, TakenIsKept, TakenOf, InQueueOrSent, IsRedemption, Idle, JoinState, NewSpend
  <2>2. JoinInOrder(p)'
    BY <1>3 DEF PrepareRedemption, PhoneShape, PhoneInv, KeepsItsOwn, JoinInOrder, FreshSendsOne, TakenIsKept, TakenOf, InQueueOrSent, IsRedemption, Idle, JoinState, NewSpend
  <2>3. FreshSendsOne(p)'
    BY <1>3 DEF PrepareRedemption, PhoneShape, PhoneInv, FreshSendsOne, TakenOf, InQueueOrSent, JoinState
  <2>4. TakenIsKept(p)'
    BY <1>3 DEF PrepareRedemption, PhoneShape, PhoneInv, TakenIsKept, TakenOf, InQueueOrSent
  <2>5. JoinedByNetwork(p)'
    BY <1>3 DEF PrepareRedemption, PhoneShape, PhoneInv, JoinedByNetwork, Spenders, IsSpend, IsRedemption
  <2> QED BY <2>1, <2>2, <2>3, <2>4, <2>5 DEF PhoneInv
<1>4. CASE BuildRedemption(p)
  <2>1. KeepsItsOwn(p)'
    BY <1>4 DEF BuildRedemption, PhoneShape, PhoneInv, KeepsItsOwn, IsRedemption, InQueueOrSent
  <2>2. JoinInOrder(p)'
    BY <1>4 DEF BuildRedemption, PhoneShape, PhoneInv, KeepsItsOwn, JoinInOrder, FreshSendsOne, TakenIsKept, TakenOf, InQueueOrSent, IsRedemption, Idle, JoinState, NewSpend
  <2>3. FreshSendsOne(p)'
    BY <1>4 DEF BuildRedemption, PhoneShape, PhoneInv, FreshSendsOne, TakenOf, InQueueOrSent, JoinState
  <2>4. TakenIsKept(p)'
    BY <1>4 DEF BuildRedemption, PhoneShape, PhoneInv, TakenIsKept, TakenOf, InQueueOrSent
  <2>5. JoinedByNetwork(p)'
    BY <1>4 DEF BuildRedemption, PhoneShape, PhoneInv, JoinedByNetwork, Spenders, IsSpend, IsRedemption
  <2> QED BY <2>1, <2>2, <2>3, <2>4, <2>5 DEF PhoneInv
<1>5. CASE CreateCadetVault(p)
  <2>1. KeepsItsOwn(p)'
    BY <1>5 DEF CreateCadetVault, PhoneShape, PhoneInv, KeepsItsOwn, JoinInOrder, FreshSendsOne, TakenIsKept, TakenOf, InQueueOrSent, IsRedemption, Idle, JoinState
  <2>2. JoinInOrder(p)'
    BY <1>5 DEF CreateCadetVault, PhoneShape, PhoneInv, JoinInOrder, IsRedemption, JoinState
  <2>3. FreshSendsOne(p)'
    BY <1>5 DEF CreateCadetVault, PhoneShape, PhoneInv, FreshSendsOne, TakenOf, InQueueOrSent, JoinState
  <2>4. TakenIsKept(p)'
    BY <1>5 DEF CreateCadetVault, PhoneShape, PhoneInv, KeepsItsOwn, JoinInOrder, FreshSendsOne, TakenIsKept, TakenOf, InQueueOrSent, IsRedemption, Idle, JoinState
  <2>5. JoinedByNetwork(p)'
    BY <1>5 DEF CreateCadetVault, PhoneShape, PhoneInv, JoinedByNetwork, Spenders, IsSpend, IsRedemption
  <2> QED BY <2>1, <2>2, <2>3, <2>4, <2>5 DEF PhoneInv
<1>6. CASE SealRedemption(p)
  <2>1. KeepsItsOwn(p)'
    <3>1. /\ joining[p].at = "seal" /\ redeeming'[p] = joining[p].tx
          /\ UNCHANGED <<vault, queue, sent, joined, network, abandoned, built>>
      BY <1>6 DEF SealRedemption, PhoneShape
    <3> QED BY <3>1 DEF PhoneInv, KeepsItsOwn, JoinInOrder, InQueueOrSent
  <2>2. JoinInOrder(p)'
    BY <1>6 DEF SealRedemption, PhoneShape, PhoneInv, JoinInOrder, IsRedemption, JoinState
  <2>3. FreshSendsOne(p)'
    BY <1>6 DEF SealRedemption, PhoneShape, PhoneInv, FreshSendsOne, TakenOf, InQueueOrSent, JoinState
  <2>4. TakenIsKept(p)'
    <3>1. /\ joining[p].at = "seal" /\ redeeming[p] = None
          /\ UNCHANGED <<vault, queue, sent, joined, network, abandoned>>
      BY <1>6 DEF SealRedemption, PhoneInv, JoinInOrder
    <3>2. TakenOf(p)' = TakenOf(p) /\ InQueueOrSent(p)' = InQueueOrSent(p)
      BY <3>1 DEF TakenOf, InQueueOrSent
    <3>3. vault[p] = "cadet" /\ joined[p] = None => TakenOf(p) = {}
      BY <1>taken, <1>none, <3>1 DEF PhoneInv, TakenIsKept
    <3> QED BY <3>1, <3>2, <3>3 DEF PhoneInv, TakenIsKept
  <2>5. JoinedByNetwork(p)'
    BY <1>6 DEF SealRedemption, PhoneShape, PhoneInv, JoinedByNetwork, Spenders, IsSpend, IsRedemption
  <2> QED BY <2>1, <2>2, <2>3, <2>4, <2>5 DEF PhoneInv
<1>7. CASE OfferRedemption(p)
  <2>1. KeepsItsOwn(p)'
    BY <1>7 DEF OfferRedemption, PhoneShape, PhoneInv, KeepsItsOwn, IsRedemption, InQueueOrSent
  <2>2. JoinInOrder(p)'
    <3>1. /\ joining[p].at = "send" /\ joining'[p].at = "send" /\ joining[p] \in JoinState
          /\ joining'[p].tx = joining[p].tx /\ joining'[p].ticket = joining[p].ticket
          /\ UNCHANGED <<vault, redeeming, joined, built>>
      BY <1>7 DEF OfferRedemption, PhoneShape, JoinState
    <3> QED BY <3>1 DEF PhoneInv, JoinInOrder, IsRedemption
  <2>3. FreshSendsOne(p)'
    BY <1>7 DEF OfferRedemption, PhoneShape, PhoneInv, FreshSendsOne, TakenOf, InQueueOrSent, JoinState
  <2>4. TakenIsKept(p)'
    BY <1>7 DEF OfferRedemption, PhoneShape, PhoneInv, TakenIsKept, TakenOf, InQueueOrSent
  <2>5. JoinedByNetwork(p)'
    BY <1>7 DEF OfferRedemption, PhoneShape, PhoneInv, JoinedByNetwork, Spenders, IsSpend, IsRedemption
  <2> QED BY <2>1, <2>2, <2>3, <2>4, <2>5 DEF PhoneInv
<1>8. CASE SettleRedemption(p)
  <2>1. KeepsItsOwn(p)'
    BY <1>8 DEF SettleRedemption, PhoneShape, PhoneInv, KeepsItsOwn, IsRedemption, InQueueOrSent
  <2>2. JoinInOrder(p)'
    BY <1>8 DEF SettleRedemption, PhoneShape, PhoneInv, KeepsItsOwn, JoinInOrder, FreshSendsOne, TakenIsKept, TakenOf, InQueueOrSent, IsRedemption, Idle, JoinState
  <2>3. FreshSendsOne(p)'
    BY <1>frame, <1>8 DEF SettleRedemption, PhoneShape, PhoneInv, KeepsItsOwn, JoinInOrder, FreshSendsOne, TakenIsKept, TakenOf, InQueueOrSent, IsRedemption, Idle, JoinState
  <2>4. TakenIsKept(p)'
    BY <1>8 DEF SettleRedemption, PhoneShape, PhoneInv, TakenIsKept, TakenOf, InQueueOrSent
  <2>5. JoinedByNetwork(p)'
    BY <1>8 DEF SettleRedemption, PhoneShape, PhoneInv, JoinedByNetwork, Spenders, IsSpend, IsRedemption
  <2> QED BY <2>1, <2>2, <2>3, <2>4, <2>5 DEF PhoneInv
<1>9. CASE BroadcastRedemption(p)
  <2>1. KeepsItsOwn(p)'
    BY <1>9 DEF BroadcastRedemption, PhoneShape, PhoneInv, KeepsItsOwn, JoinInOrder, FreshSendsOne, TakenIsKept, TakenOf, InQueueOrSent, IsRedemption, Idle, JoinState
  <2>2. JoinInOrder(p)'
    <3>1. joining[p].at = "send" /\ joining[p] \in JoinState /\ joined' = joined /\ built' = built
      BY <1>9 DEF BroadcastRedemption, PhoneShape
    <3>2. \/ joining'[p].at = "idle" /\ ~joining'[p].fresh
          \/ /\ joining'[p].at = "refused" /\ joining'[p].ticket = joining[p].ticket
          \/ /\ joining'[p].at = "taken" /\ joining'[p].ticket = joining[p].ticket /\ joining'[p].tx = joining[p].tx
             /\ joining[p].tx \in network' /\ UNCHANGED <<vault, redeeming>>
      <4>0. joining \in [Phone -> JoinState]
        BY DEF PhoneShape
      <4>1. CASE joining' = [joining EXCEPT ![p] = Idle]
        BY <4>0, <4>1 DEF Idle
      <4>2. CASE /\ joining' = [joining EXCEPT ![p] = [joining[p] EXCEPT !.at = "taken"]]
                 /\ network' = network \cup {joining[p].tx} /\ UNCHANGED <<vault, redeeming>>
        BY <3>1, <4>0, <4>2 DEF JoinState
      <4>3. CASE joining' = [joining EXCEPT ![p] = [joining[p] EXCEPT !.at = "refused", !.conflict = Conflicts(joining[p].tx)]]
        BY <3>1, <4>0, <4>3 DEF JoinState
      <4> QED BY <1>9, <4>1, <4>2, <4>3 DEF BroadcastRedemption
    <3> QED BY <3>1, <3>2 DEF PhoneInv, JoinInOrder, IsRedemption
  <2>3. FreshSendsOne(p)'
    BY <1>9 DEF BroadcastRedemption, PhoneShape, PhoneInv, KeepsItsOwn, JoinInOrder, FreshSendsOne, TakenIsKept, TakenOf, InQueueOrSent, IsRedemption, Idle, JoinState
  <2>4. TakenIsKept(p)'
    BY <1>9 DEF BroadcastRedemption, PhoneShape, PhoneInv, KeepsItsOwn, JoinInOrder, FreshSendsOne, TakenIsKept, TakenOf, InQueueOrSent, IsRedemption, Idle, JoinState
  <2>5. JoinedByNetwork(p)'
    BY <1>9 DEF BroadcastRedemption, PhoneShape, PhoneInv, JoinedByNetwork, Spenders, IsSpend, IsRedemption
  <2> QED BY <2>1, <2>2, <2>3, <2>4, <2>5 DEF PhoneInv
<1>10. CASE TellRefused(p)
  <2>1. KeepsItsOwn(p)'
    BY <1>10 DEF TellRefused, PhoneShape, PhoneInv, KeepsItsOwn, IsRedemption, InQueueOrSent
  <2>2. JoinInOrder(p)'
    BY <1>10 DEF TellRefused, PhoneShape, PhoneInv, JoinInOrder, IsRedemption, JoinState, Idle
  <2>3. FreshSendsOne(p)'
    BY <1>10 DEF TellRefused, PhoneShape, PhoneInv, FreshSendsOne, TakenOf, InQueueOrSent, JoinState, Idle
  <2>4. TakenIsKept(p)'
    BY <1>10 DEF TellRefused, PhoneShape, PhoneInv, KeepsItsOwn, JoinInOrder, FreshSendsOne, TakenIsKept, TakenOf, InQueueOrSent, IsRedemption, Idle, JoinState
  <2>5. JoinedByNetwork(p)'
    BY <1>10 DEF TellRefused, PhoneShape, PhoneInv, JoinedByNetwork, Spenders, IsSpend, IsRedemption
  <2> QED BY <2>1, <2>2, <2>3, <2>4, <2>5 DEF PhoneInv
<1>11. CASE Complete(p)
  <2>1. KeepsItsOwn(p)'
    BY <1>11 DEF Complete, PhoneShape, PhoneInv, KeepsItsOwn, IsRedemption, InQueueOrSent
  <2>2. JoinInOrder(p)'
    BY <1>11 DEF Complete, PhoneShape, PhoneInv, JoinInOrder, IsRedemption, JoinState, Idle
  <2>3. FreshSendsOne(p)'
    BY <1>11 DEF Complete, PhoneShape, PhoneInv, FreshSendsOne, TakenOf, InQueueOrSent, JoinState, Idle
  <2>4. TakenIsKept(p)'
    <3>1. joined'[p] = joining[p].ticket /\ joining[p].ticket \in Ticket
      BY <1>11 DEF Complete, PhoneShape, PhoneInv, JoinInOrder
    <3> QED BY <1>none, <3>1 DEF TakenIsKept
  <2>5. JoinedByNetwork(p)'
    BY <1>11 DEF Complete, PhoneShape, PhoneInv, JoinInOrder, JoinedByNetwork, Spenders, IsSpend, IsRedemption, JoinState
  <2> QED BY <2>1, <2>2, <2>3, <2>4, <2>5 DEF PhoneInv
<1>12. CASE Resume(p)
  <2>1. KeepsItsOwn(p)'
    BY <1>12 DEF Resume, PhoneShape, PhoneInv, KeepsItsOwn, IsRedemption, InQueueOrSent
  <2>2. JoinInOrder(p)'
    <3>1. /\ joining[p].at = "idle" /\ joined[p] = None /\ redeeming[p] # None
          /\ UNCHANGED <<vault, redeeming, joined, network, built>>
      BY <1>12 DEF Resume
    <3>2. redeeming[p] \in Spend /\ redeeming[p].ticket \in Ticket
      BY <3>1 DEF PhoneShape, Spend
    <3>3. \/ joining' = joining
          \/ /\ joining'[p].at = "send" /\ joining'[p].ticket = redeeming[p].ticket
             /\ joining'[p].tx = redeeming[p] /\ ~joining'[p].fresh
      BY <1>12 DEF Resume, PhoneShape
    <3>4. IsRedemption(redeeming[p], p) /\ redeeming[p] \in built /\ vault[p] # "none"
      BY <3>1 DEF PhoneInv, KeepsItsOwn
    <3> QED BY <3>1, <3>2, <3>3, <3>4 DEF PhoneInv, JoinInOrder
  <2>3. FreshSendsOne(p)'
    BY <1>12 DEF Resume, PhoneShape, PhoneInv, FreshSendsOne, TakenOf, InQueueOrSent, JoinState, Idle
  <2>4. TakenIsKept(p)'
    BY <1>12 DEF Resume, PhoneShape, PhoneInv, TakenIsKept, TakenOf, InQueueOrSent
  <2>5. JoinedByNetwork(p)'
    BY <1>12 DEF Resume, PhoneShape, PhoneInv, JoinedByNetwork, Spenders, IsSpend, IsRedemption
  <2> QED BY <2>1, <2>2, <2>3, <2>4, <2>5 DEF PhoneInv
<1>13. CASE JoinFails(p)
  <2>1. KeepsItsOwn(p)'
    BY <1>13 DEF JoinFails, PhoneShape, PhoneInv, KeepsItsOwn, IsRedemption, InQueueOrSent
  <2>2. JoinInOrder(p)'
    BY <1>13 DEF JoinFails, PhoneShape, PhoneInv, JoinInOrder, IsRedemption, JoinState, Idle
  <2>3. FreshSendsOne(p)'
    BY <1>13 DEF JoinFails, PhoneShape, PhoneInv, FreshSendsOne, TakenOf, InQueueOrSent, JoinState, Idle
  <2>4. TakenIsKept(p)'
    <3>1. /\ joining[p].at \in {"read", "build", "vault", "seal", "send", "taken"} /\ joining[p] \in JoinState
          /\ UNCHANGED <<joined, network, abandoned>>
      BY <1>13 DEF JoinFails, PhoneShape, JoinState
    <3>2. TakenOf(p)' = TakenOf(p)
      BY <3>1 DEF TakenOf
    <3>3. CASE UNCHANGED <<vault, redeeming, queue, sent>>
      BY <3>1, <3>2, <3>3 DEF PhoneInv, TakenIsKept, InQueueOrSent
    <3>4. CASE joining[p].fresh /\ redeeming[p] = None /\ vault' = [vault EXCEPT ![p] = "none"]
      <4>1. joining[p].at \notin {"send", "taken"}
        BY <1>sealed, <1>none, <3>4 DEF PhoneInv, JoinInOrder
      <4>2. TakenOf(p) = {}
        BY <3>1, <3>4, <4>1 DEF PhoneInv, FreshSendsOne
      <4> QED BY <3>2, <4>2 DEF TakenIsKept
    <3> QED BY <1>13, <3>3, <3>4 DEF JoinFails
  <2>5. JoinedByNetwork(p)'
    BY <1>13 DEF JoinFails, PhoneShape, PhoneInv, JoinedByNetwork, Spenders, IsSpend, IsRedemption
  <2> QED BY <2>1, <2>2, <2>3, <2>4, <2>5 DEF PhoneInv
<1>14. CASE NothingBuilt(p)
  <2>1. KeepsItsOwn(p)'
    BY <1>14 DEF NothingBuilt, PhoneShape, PhoneInv, KeepsItsOwn, IsRedemption, InQueueOrSent
  <2>2. JoinInOrder(p)'
    BY <1>14 DEF NothingBuilt, PhoneShape, PhoneInv, JoinInOrder, IsRedemption, JoinState, Idle
  <2>3. FreshSendsOne(p)'
    BY <1>14 DEF NothingBuilt, PhoneShape, PhoneInv, FreshSendsOne, TakenOf, InQueueOrSent, JoinState, Idle
  <2>4. TakenIsKept(p)'
    BY <1>14 DEF NothingBuilt, PhoneShape, PhoneInv, KeepsItsOwn, JoinInOrder, FreshSendsOne, TakenIsKept, TakenOf, InQueueOrSent, IsRedemption, Idle, JoinState
  <2>5. JoinedByNetwork(p)'
    BY <1>14 DEF NothingBuilt, PhoneShape, PhoneInv, JoinedByNetwork, Spenders, IsSpend, IsRedemption
  <2> QED BY <2>1, <2>2, <2>3, <2>4, <2>5 DEF PhoneInv
<1>15. CASE DropEmptyVault(p)
  <2>1. KeepsItsOwn(p)'
    BY <1>15 DEF DropEmptyVault, PhoneShape, PhoneInv, KeepsItsOwn, IsRedemption, InQueueOrSent
  <2>2. JoinInOrder(p)'
    BY <1>15 DEF DropEmptyVault, PhoneShape, PhoneInv, JoinInOrder, IsRedemption, JoinState
  <2>3. FreshSendsOne(p)'
    BY <1>15 DEF DropEmptyVault, PhoneShape, PhoneInv, FreshSendsOne, TakenOf, InQueueOrSent, JoinState
  <2>4. TakenIsKept(p)'
    <3>1. /\ vault[p] = "cadet" /\ joined[p] = None /\ redeeming[p] = None /\ vault'[p] = "none"
          /\ UNCHANGED <<joined, network, abandoned>>
      BY <1>15 DEF DropEmptyVault, PhoneShape
    <3>2. TakenOf(p) = {} /\ TakenOf(p)' = TakenOf(p)
      BY <1>taken, <1>none, <3>1 DEF PhoneInv, TakenIsKept, TakenOf
    <3> QED BY <3>1, <3>2 DEF TakenIsKept
  <2>5. JoinedByNetwork(p)'
    BY <1>15 DEF DropEmptyVault, PhoneShape, PhoneInv, JoinedByNetwork, Spenders, IsSpend, IsRedemption
  <2> QED BY <2>1, <2>2, <2>3, <2>4, <2>5 DEF PhoneInv
<1>16. CASE RestartPhone(p)
  <2>1. KeepsItsOwn(p)'
    BY <1>16 DEF RestartPhone, PhoneShape, PhoneInv, KeepsItsOwn, IsRedemption, InQueueOrSent
  <2>2. JoinInOrder(p)'
    BY <1>16 DEF RestartPhone, PhoneShape, PhoneInv, JoinInOrder, IsRedemption, JoinState, Idle
  <2>3. FreshSendsOne(p)'
    BY <1>16 DEF RestartPhone, PhoneShape, PhoneInv, FreshSendsOne, TakenOf, InQueueOrSent, JoinState, Idle
  <2>4. TakenIsKept(p)'
    BY <1>16 DEF RestartPhone, PhoneShape, PhoneInv, TakenIsKept, TakenOf, InQueueOrSent
  <2>5. JoinedByNetwork(p)'
    BY <1>16 DEF RestartPhone, PhoneShape, PhoneInv, JoinedByNetwork, Spenders, IsSpend, IsRedemption
  <2> QED BY <2>1, <2>2, <2>3, <2>4, <2>5 DEF PhoneInv
<1>17. CASE ErasePhone(p)
  <2>1. KeepsItsOwn(p)'
    BY <1>17 DEF ErasePhone, PhoneShape, PhoneInv, KeepsItsOwn, IsRedemption, InQueueOrSent
  <2>2. JoinInOrder(p)'
    BY <1>17 DEF ErasePhone, PhoneShape, PhoneInv, JoinInOrder, IsRedemption, JoinState
  <2>3. FreshSendsOne(p)'
    BY <1>17 DEF ErasePhone, PhoneShape, PhoneInv, FreshSendsOne, TakenOf, InQueueOrSent, JoinState
  <2>4. TakenIsKept(p)'
    BY <1>17 DEF ErasePhone, PhoneShape, PhoneInv, KeepsItsOwn, JoinInOrder, FreshSendsOne, TakenIsKept, TakenOf, InQueueOrSent, IsRedemption, Idle, JoinState
  <2>5. JoinedByNetwork(p)'
    BY <1>17 DEF ErasePhone, PhoneShape, PhoneInv, JoinedByNetwork, Spenders, IsSpend, IsRedemption
  <2> QED BY <2>1, <2>2, <2>3, <2>4, <2>5 DEF PhoneInv
<1> QED BY <1>1, <1>2, <1>3, <1>4, <1>5, <1>6, <1>7, <1>8, <1>9, <1>10, <1>11, <1>12, <1>13, <1>14, <1>15, <1>16, <1>17 DEF PhoneStep

-----------------------------------------------------------------------------
(* All of it. *)

\* Nobody has anything at the start.
LEMMA InitHolds ==
  Init => IInv
<1> SUFFICES ASSUME Init PROVE IInv
  OBVIOUS
<1>1. setup.given \in [Phone -> SUBSET Ticket]
  BY TicketAssumption DEF Init, TicketAssumption
<1>2. IsFiniteSet({})
  BY FS_EmptySet
<1>3. PhoneShape
  BY <1>1, <1>2 DEF Init, PhoneShape, JoinState, Idle
<1>4. pending \in Seq(Tx) /\ ToSet(pending) = {}
  BY DEF Init, ToSet
<1>5. IssuerInv
  BY <1>4 DEF Init, IssuerInv, IssuerShape, Stage, CallState, NoCall, WalletIsTrue, InOrder, CallsAreTrue,
              CancelledByNetwork, CodeKeptWhileSpendable
<1>6. ASSUME NEW p \in Phone PROVE PhoneInv(p)
  BY <1>6 DEF Init, PhoneInv, KeepsItsOwn, JoinInOrder, FreshSendsOne, TakenIsKept, JoinedByNetwork, InQueueOrSent,
              TakenOf, Idle
<1> QED BY <1>3, <1>5, <1>6 DEF IInv

\* A step of the issuer leaves the phones alone; what it hands the network is its own.
LEMMA IssuerLeavesPhones ==
  ASSUME IInv, IssuerStep
  PROVE  PhoneShape' /\ \A p \in Phone : PhoneInv(p)'
<1>1. /\ UNCHANGED <<phoneVars, setup, abandoned>>
      /\ network \subseteq network' /\ \A x \in network' \ network : x.by = Issuer
      /\ built \subseteq built' /\ built' \subseteq Spend /\ IsFiniteSet(built')
  <2> USE DEF world, phoneVars
  <2>0. built \subseteq Spend /\ IsFiniteSet(built)
    BY DEF IInv, PhoneShape
  <2>1. CASE Offer
    BY <2>0, <2>1, IssuerOffers DEF Offer, IInv
  <2>2. ASSUME NEW c \in Call, BuildCancellation(c)
        PROVE  /\ UNCHANGED <<phoneVars, setup, abandoned, network>>
               /\ built \subseteq built' /\ built' \subseteq Spend /\ IsFiniteSet(built')
    <3>1. cancelling[c].ticket \in Ticket
      BY <2>2 DEF BuildCancellation, Cancelling, IInv, IssuerInv, CallsAreTrue
    <3>2. NewSpend("cancel", cancelling[c].ticket, Issuer) \in Spend
      BY <2>0, <3>1, SpendShape
    <3> QED BY <2>0, <2>2, <3>2, FS_AddElement DEF BuildCancellation
  <2>3. CASE \E t \in Ticket :
               \/ Expire(t) \/ SealCode(t) \/ Fund(t) \/ Pack(t) \/ List(t) \/ IssueFails(t)
               \/ PublishListing(t) \/ LearnRedeemed(t)
               \/ \E c \in Call : CancelTicket(c, t)
    BY <2>0, <2>3 DEF Expire, SealCode, Fund, Pack, List, IssueFails, PublishListing, LearnRedeemed, CancelTicket, Trouble
  <2>4. CASE \E c \in Call :
               FindCancellation(c) \/ SettleCancellation(c) \/ RecordCancelled(c) \/ ForgetTicketSecret(c)
    BY <2>0, <2>4 DEF FindCancellation, SettleCancellation, RecordCancelled, ForgetTicketSecret
  <2>5. CASE RestartIssuer
    BY <2>0, <2>5 DEF RestartIssuer, Trouble
  <2> QED BY <2>1, <2>2, <2>3, <2>4, <2>5 DEF IssuerStep
<1>2. PhoneShape'
  BY <1>1 DEF IInv, PhoneShape, phoneVars
<1>3. ASSUME NEW p \in Phone PROVE PhoneInv(p)'
  <2>1. Issuer # p
    BY TicketAssumption DEF TicketAssumption
  <2>2. PhoneInv(p)
    BY DEF IInv
  <2> QED BY <1>1, <2>1, <2>2, PhoneKept DEF phoneVars
<1> QED BY <1>2, <1>3

\* Whoever takes a step keeps its own part, and the others keep theirs.
LEMMA StepHolds ==
  IInv /\ [Next]_vars => IInv'
<1> SUFFICES ASSUME IInv, [Next]_vars PROVE IInv'
  OBVIOUS
<1>1. CASE IssuerStep
  <2>1. IssuerInv'
    BY <1>1, IssuerMakes, IssuerOffers, IssuerCancels, IssuerElse DEF IssuerStep, IInv
  <2> QED BY <1>1, <2>1, IssuerLeavesPhones DEF IInv
<1>2. ASSUME NEW p \in Phone, PhoneStep(p) PROVE IInv'
  <2>1. PhoneShape' /\ OnlyOf(p) /\ Outside(p) /\ PhoneInv(p)'
    BY <1>2, PhoneFrame, PhoneSteps DEF IInv
  <2>2. IssuerInv'
    BY <2>1, IssuerKept DEF IInv, Outside, IsRedemption
  <2>3. ASSUME NEW q \in Phone \ {p} PROVE PhoneInv(q)'
    BY <2>1, PhoneKept DEF IInv, OnlyOf, Outside, IsRedemption
  <2> QED BY <2>1, <2>2, <2>3 DEF IInv
<1>3. CASE UNCHANGED vars
  <2>1. IssuerInv' /\ PhoneShape'
    BY <1>3, IssuerKept DEF IInv, vars, world, phoneVars, PhoneShape
  <2>2. ASSUME NEW q \in Phone PROVE PhoneInv(q)'
    BY <1>3, PhoneKept DEF IInv, vars, world, phoneVars
  <2> QED BY <2>1, <2>2 DEF IInv
<1> QED BY <1>1, <1>2, <1>3 DEF Next

\* What the issuer and the phones rely on holds in every state (runtime.ts, ticketRedemption.ts,
\* cadetTicket.ts).
THEOREM Inductive == Spec => []IInv
BY InitHolds, StepHolds, PTL DEF Spec

\* Who spent the funding decides: nobody is in, and no ticket is shown as cancelled,
\* without the spend that says so (ticketRedemption.ts, redeemTicket; runtime.ts, cancelTicket).
THEOREM FundingDecides == Spec => []NetworkDecides
<1>1. IInv => NetworkDecides
  BY DEF IInv, IssuerInv, CancelledByNetwork, PhoneInv, JoinedByNetwork, IsRedemption, NetworkDecides
<1> QED BY <1>1, Inductive, PTL

\* A redemption the network took stays with the phone that made it until it is in
\* (ticketRedemption.ts, redeemTicket; vault.ts, sealRedemption).
THEOREM TakenStaysKnown == Spec => []TakenIsNotForgotten
<1>1. IInv => TakenIsNotForgotten
  <2> SUFFICES ASSUME IInv, NEW p \in Phone, NEW x \in network \ abandoned, x.by = p
               PROVE  joined[p] # None \/ x = redeeming[p] \/ x \in queue[p] \cup sent[p]
    BY DEF TakenIsNotForgotten
  <2>1. x \in TakenOf(p) /\ vault[p] \in {"none", "staff", "cadet"}
    BY DEF TakenOf, IInv, PhoneShape
  <2> QED BY <2>1 DEF IInv, PhoneInv, TakenIsKept, InQueueOrSent
<1> QED BY <1>1, Inductive, PTL

\* The code of a ticket whose funding anybody could still spend is in the vault of the
\* issuer (runtime.ts, issueTicket and cancelTicket).
THEOREM CodeStaysKept == Spec => []CodeKeptWhileSpendable
<1>1. IInv => CodeKeptWhileSpendable
  BY DEF IInv, IssuerInv
<1> QED BY <1>1, Inductive, PTL
-----------------------------------------------------------------------------
(* How many redemptions of a ticket a phone can have.                      *)

\* The redemptions a phone has: in its wallet and in its vault.
Owned(p) == InQueueOrSent(p) \cup ({redeeming[p]} \ {None})

\* Of each ticket it was given one redemption waits at most, and none where another may be
\* built.
UndecidedOne(p) ==
  LET j == joining[p] IN
  /\ j.at # "idle" => j.ticket \in setup.given[p]
  /\ \A x \in Owned(p) : x.ticket \in setup.given[p]
  /\ \A x, y \in Undecided(p) : x.ticket = y.ticket => x = y
  /\ j.at \in {"build", "refused"} => \A x \in Undecided(p) : x.ticket # j.ticket
  /\ j.at = "seal" => \A x \in queue[p] : x.ticket = j.ticket => x = j.tx

\* Where one code was given, a redemption that was sent counts as well.
OneRedemption(p) ==
  LET j == joining[p] IN
  /\ \A x, y \in Owned(p) : x = y
  /\ joined[p] = None /\ sent[p] # {} => redeeming[p] # None
  /\ j.at \in {"build", "refused"} => Owned(p) = {}
  /\ j.at = "seal" => InQueueOrSent(p) \subseteq {j.tx}

\* Somebody else has the ticket, or a device its owner gave up; or the phone itself by a
\* redemption that was sent along with that of another ticket.
Elsewhere(p, t) ==
  \E x \in Spenders(t) : x.by # p \/ x \in abandoned \/ (~OneCode(p) /\ x \in sent[p])

Answer == (Ticket \cup {None}) \X {"NO", "CANCELLED", "USED", "EXPIRED", "AGAIN"}

\* A conflict that was noticed is somebody else's, and so is the refusal that was told.
ToldTruly(p) ==
  /\ joining[p].at # "idle" /\ joining[p].conflict => Elsewhere(p, joining[p].ticket)
  /\ \A t \in Ticket :
       /\ told[p] = <<t, "CANCELLED">> => \E x \in Spenders(t) : x.kind = "cancel"
       /\ told[p] = <<t, "USED">> => Elsewhere(p, t)

\* A cancellation that neither waits nor was taken met another spend.
IssuerToldTruly ==
  /\ \A c \in Call : cancelling[c].at = "settle" =>
       cancelling[c].tx \in ToSet(pending) \cup recent \/ Spenders(cancelling[c].ticket) # {}
  /\ \A t \in Ticket : told[Issuer] = <<t, "USED">> => Spenders(t) # {}

OneInv ==
  /\ IInv
  /\ told \in [Phone \cup {Issuer} -> Answer]
  /\ IssuerToldTruly
  /\ \A p \in Phone : UndecidedOne(p) /\ (OneCode(p) => OneRedemption(p)) /\ ToldTruly(p)

\* What others do leaves the redemption of a phone alone, and takes no ticket back.
LEMMA OneKept ==
  ASSUME NEW p \in Phone, UndecidedOne(p), OneCode(p) => OneRedemption(p), ToldTruly(p), UNCHANGED setup,
         redeeming'[p] = redeeming[p], queue'[p] = queue[p], sent'[p] = sent[p],
         joined'[p] = joined[p], joining'[p] = joining[p], told'[p] = told[p],
         abandoned \subseteq abandoned', network \subseteq network'
  PROVE  UndecidedOne(p)' /\ (OneCode(p) => OneRedemption(p))' /\ ToldTruly(p)'
<1>1. UndecidedOne(p)'
  BY DEF UndecidedOne, Undecided, Owned, InQueueOrSent
<1>2. (OneCode(p) => OneRedemption(p))'
  BY DEF OneCode, OneRedemption, Owned, InQueueOrSent
<1>3. ToldTruly(p)'
  BY DEF ToldTruly, Elsewhere, Spenders, IsSpend, OneCode
<1> QED BY <1>1, <1>2, <1>3

\* Of no ticket does a phone come to two redemptions that wait: none is built beside one
\* that is kept or was built before.
LEMMA UndecidedSteps ==
  ASSUME PhoneShape, NEW p \in Phone, PhoneInv(p), UndecidedOne(p), PhoneStep(p)
  PROVE  UndecidedOne(p)'
<1> USE DEF Step, Go, At, Erased, GiveUp, world, issuerVars
<1> DEFINE j == joining[p]
           k == joining'[p]
<1>0. joining \in [Phone -> JoinState] /\ j \in JoinState
  BY DEF PhoneShape
<1>none. None \notin Spend /\ None \notin Ticket
  BY TicketAssumption DEF TicketAssumption, Spend
\* What is kept gets less, and the call goes on to a stage that asks nothing of it.
<1>less. ASSUME UNCHANGED setup, Owned(p)' \subseteq Owned(p), Undecided(p)' \subseteq Undecided(p),
                k.at \notin {"build", "refused", "seal"},
                k.at = "idle" \/ k.ticket \in setup.given[p]
         PROVE  UndecidedOne(p)'
  BY <1>less DEF UndecidedOne
<1>same. ASSUME UNCHANGED <<redeeming, queue, sent>>
         PROVE  Owned(p)' = Owned(p) /\ Undecided(p)' = Undecided(p) /\ queue'[p] = queue[p]
  BY <1>same DEF Owned, Undecided, InQueueOrSent
<1>1. CASE \E t \in Ticket : ReadTicket(p, t)
  <2>1. PICK t \in Ticket : ReadTicket(p, t)
    BY <1>1
  <2>2. UNCHANGED <<setup, redeeming, queue, sent>> /\ k.at = "read" /\ k.ticket = t /\ t \in setup.given[p]
    BY <1>0, <2>1 DEF ReadTicket
  <2> QED BY <1>less, <1>same, <2>2
<1>2. CASE StartRedemption(p)
  <2>1. UNCHANGED <<setup, redeeming, queue, sent>> /\ j.at = "read" /\ j.ticket \in setup.given[p]
    BY <1>2 DEF StartRedemption, UndecidedOne
  <2>2. CASE \/ joining' = [joining EXCEPT ![p] = Idle]
             \/ joining' = [joining EXCEPT ![p] = [joining[p] EXCEPT !.at = "send", !.tx = redeeming[p]]]
    <3>1. joining' = [joining EXCEPT ![p] = Idle] => k.at = "idle"
      BY <1>0 DEF Idle
    <3>2. joining' = [joining EXCEPT ![p] = [joining[p] EXCEPT !.at = "send", !.tx = redeeming[p]]]
            => k.at = "send" /\ k.ticket = j.ticket
      BY <1>0 DEF JoinState
    <3> QED BY <1>less, <1>same, <2>1, <2>2, <3>1, <3>2
  <2>3. CASE /\ redeeming[p] = None /\ BuiltBefore(p, j.ticket) = {}
             /\ joining' = [joining EXCEPT ![p] = [joining[p] EXCEPT !.at = "build"]]
    <3>1. k.at = "build" /\ k.ticket = j.ticket
      BY <1>0, <2>3 DEF JoinState
    <3>2. \A x \in Undecided(p) : x.ticket # j.ticket
      BY <2>3 DEF Undecided, BuiltBefore
    <3> QED BY <1>same, <2>1, <3>1, <3>2 DEF UndecidedOne
  <2>4. CASE \E x \in BuiltBefore(p, j.ticket) : joining' = [joining EXCEPT ![p] = [joining[p] EXCEPT !.at = "seal", !.tx = x]]
    <3>1. PICK x \in BuiltBefore(p, j.ticket) : joining' = [joining EXCEPT ![p] = [joining[p] EXCEPT !.at = "seal", !.tx = x]]
      BY <2>4
    <3>2. k.at = "seal" /\ k.ticket = j.ticket /\ k.tx = x
      BY <1>0, <3>1 DEF JoinState
    <3>3. \A y \in queue[p] : y.ticket = j.ticket => y = x
      BY <3>1 DEF BuiltBefore, Undecided, UndecidedOne
    <3> QED BY <1>same, <2>1, <3>2, <3>3 DEF UndecidedOne
  <2> QED BY <1>2, <2>2, <2>3, <2>4 DEF StartRedemption
<1>3. CASE PrepareRedemption(p)
  <2> DEFINE x == NewSpend("redeem", j.ticket, p)
  <2>1. /\ UNCHANGED <<setup, redeeming, sent>> /\ j.at = "build" /\ j.ticket \in setup.given[p]
        /\ queue'[p] = queue[p] \cup {x} /\ \A y \in Undecided(p) : y.ticket # j.ticket
    BY <1>3 DEF PrepareRedemption, UndecidedOne, PhoneShape
  <2>2. k.at = "seal" /\ k.ticket = j.ticket /\ k.tx = x
    BY <1>0, <1>3 DEF PrepareRedemption, JoinState
  <2>3. x.ticket = j.ticket
    BY DEF NewSpend
  <2> HIDE DEF x
  <2>4. Undecided(p)' \subseteq Undecided(p) \cup {x} /\ Owned(p)' \subseteq Owned(p) \cup {x}
    BY <2>1 DEF Undecided, Owned, InQueueOrSent
  <2>5. \A y \in queue'[p] : y.ticket = j.ticket => y = x
    BY <2>1 DEF Undecided
  <2> QED BY <2>1, <2>2, <2>3, <2>4, <2>5 DEF UndecidedOne
<1>4. CASE BuildRedemption(p)
  <2>1. UNCHANGED <<setup, redeeming, queue, sent>> /\ j.at = "read" /\ j.ticket \in setup.given[p]
    BY <1>4 DEF BuildRedemption, UndecidedOne
  <2>2. k.at = "vault" /\ k.ticket = j.ticket
    BY <1>0, <1>4 DEF BuildRedemption, JoinState
  <2> QED BY <1>less, <1>same, <2>1, <2>2
<1>5. CASE CreateCadetVault(p)
  <2>1. UNCHANGED <<setup, redeeming, queue, sent>> /\ j.at = "vault" /\ vault[p] = "none" /\ j.ticket \in setup.given[p]
    BY <1>5 DEF CreateCadetVault, UndecidedOne, PhoneInv, JoinInOrder
  <2>2. k.at = "seal" /\ k.ticket = j.ticket /\ k.tx = j.tx
    BY <1>0, <1>5 DEF CreateCadetVault, JoinState
  <2>3. queue[p] = {}
    BY <2>1 DEF PhoneInv, KeepsItsOwn, InQueueOrSent
  <2> QED BY <1>same, <2>1, <2>2, <2>3 DEF UndecidedOne
<1>6. CASE SealRedemption(p)
  <2>1. /\ UNCHANGED <<setup, queue, sent>> /\ j.at = "seal" /\ j.ticket \in setup.given[p]
        /\ redeeming'[p] = j.tx /\ j.tx.ticket = j.ticket /\ j.tx # None
    BY <1>none, <1>6 DEF SealRedemption, UndecidedOne, PhoneInv, JoinInOrder, PhoneShape
  <2>2. k.at = "send" /\ k.ticket = j.ticket
    BY <1>0, <1>6 DEF SealRedemption, JoinState
  <2>3. Owned(p)' \subseteq Owned(p) \cup {j.tx} /\ Undecided(p)' \subseteq queue[p] \cup {j.tx}
    BY <2>1 DEF Owned, Undecided, InQueueOrSent
  <2>4. queue[p] \subseteq Undecided(p)
    BY DEF Undecided
  <2>5. \A x, y \in Undecided(p)' : x.ticket = y.ticket => x = y
    BY <2>1, <2>3, <2>4 DEF UndecidedOne
  <2> QED BY <2>1, <2>2, <2>3, <2>5 DEF UndecidedOne
<1>7. CASE OfferRedemption(p)
  <2>1. UNCHANGED <<setup, redeeming>> /\ j.at = "send" /\ j.ticket \in setup.given[p]
    BY <1>7 DEF OfferRedemption, UndecidedOne
  <2>2. k.at = "send" /\ k.ticket = j.ticket
    BY <1>0, <1>7 DEF OfferRedemption, JoinState
  <2>3. queue'[p] \subseteq queue[p] /\ sent[p] \subseteq sent'[p] /\ sent'[p] \subseteq sent[p] \cup queue[p]
    BY <1>7 DEF OfferRedemption, PhoneShape
  <2>4. Owned(p)' \subseteq Owned(p) /\ Undecided(p)' \subseteq Undecided(p)
    BY <2>1, <2>3 DEF Owned, Undecided, InQueueOrSent
  <2> QED BY <1>less, <2>1, <2>2, <2>4
\* The vault's is forgotten or kept, the wallet's stay.
<1>8. ASSUME UNCHANGED <<queue, sent>>, redeeming'[p] \in {redeeming[p], None}
      PROVE  Owned(p)' \subseteq Owned(p) /\ Undecided(p)' \subseteq Undecided(p)
  BY <1>8 DEF Owned, Undecided, InQueueOrSent
<1>9. CASE SettleRedemption(p)
  <2>1. /\ UNCHANGED <<setup, queue, sent>> /\ j.at = "send" /\ j.ticket \in setup.given[p]
        /\ redeeming[p] = j.tx /\ j.tx # None /\ j.tx.ticket = j.ticket
    BY <1>none, <1>9 DEF SettleRedemption, UndecidedOne, PhoneInv, JoinInOrder, PhoneShape
  <2>2. CASE UNCHANGED redeeming /\ (joining' = [joining EXCEPT ![p] = Idle] \/ joining' = [joining EXCEPT ![p] = [joining[p] EXCEPT !.at = "taken"]])
    <3>1. k.at = "idle" \/ (k.at = "taken" /\ k.ticket = j.ticket)
      BY <1>0, <2>2 DEF JoinState, Idle
    <3> QED BY <1>less, <1>same, <2>1, <2>2, <3>1
  <2>3. CASE /\ j.tx \notin queue[p] /\ j.tx \notin sent[p] /\ redeeming' = [redeeming EXCEPT ![p] = None]
             /\ joining' = [joining EXCEPT ![p] = [joining[p] EXCEPT !.at = "refused"]]
    <3>1. k.at = "refused" /\ k.ticket = j.ticket
      BY <1>0, <2>3 DEF JoinState
    <3>2. redeeming'[p] = None
      BY <2>3 DEF PhoneShape
    <3>3. j.tx \in Undecided(p) /\ queue[p] \subseteq Undecided(p) /\ Undecided(p)' = queue[p]
      BY <2>1, <2>3, <3>2 DEF Undecided
    <3>4. \A x \in queue[p] : x.ticket # j.ticket
      BY <2>1, <2>3, <3>3 DEF UndecidedOne
    <3>5. Owned(p)' \subseteq Owned(p)
      BY <1>8, <2>1, <3>2
    <3> QED BY <2>1, <3>1, <3>3, <3>4, <3>5 DEF UndecidedOne
  <2> QED BY <1>9, <2>2, <2>3 DEF SettleRedemption
<1>10. CASE BroadcastRedemption(p)
  <2>1. /\ UNCHANGED <<setup, queue, sent>> /\ j.at = "send" /\ j.ticket \in setup.given[p]
        /\ queue[p] = {}
    BY <1>10 DEF BroadcastRedemption, UndecidedOne, PhoneInv, KeepsItsOwn, InQueueOrSent
  <2>2. CASE UNCHANGED redeeming /\ (joining' = [joining EXCEPT ![p] = Idle] \/ joining' = [joining EXCEPT ![p] = [joining[p] EXCEPT !.at = "taken"]])
    <3>1. k.at = "idle" \/ (k.at = "taken" /\ k.ticket = j.ticket)
      BY <1>0, <2>2 DEF JoinState, Idle
    <3> QED BY <1>less, <1>same, <2>1, <2>2, <3>1
  <2>3. CASE /\ redeeming' = [redeeming EXCEPT ![p] = None]
             /\ joining' = [joining EXCEPT ![p] = [joining[p] EXCEPT !.at = "refused", !.conflict = Conflicts(joining[p].tx)]]
    <3>1. k.at = "refused" /\ k.ticket = j.ticket
      BY <1>0, <2>3 DEF JoinState
    <3>2. redeeming'[p] = None
      BY <2>3 DEF PhoneShape
    <3>3. Undecided(p)' = {} /\ Owned(p)' \subseteq Owned(p)
      BY <1>8, <2>1, <3>2 DEF Undecided
    <3> QED BY <2>1, <3>1, <3>3 DEF UndecidedOne
  <2> QED BY <1>10, <2>2, <2>3 DEF BroadcastRedemption
\* What ends a call keeps the redemptions or erases them all.
<1>11. ASSUME k.at = "idle", UNCHANGED setup,
              \/ UNCHANGED <<redeeming, queue, sent>>
              \/ /\ redeeming' = [redeeming EXCEPT ![p] = None]
                 /\ queue' = [queue EXCEPT ![p] = {}] /\ sent' = [sent EXCEPT ![p] = {}]
       PROVE  UndecidedOne(p)'
  <2>1. CASE UNCHANGED <<redeeming, queue, sent>>
    BY <1>11, <1>less, <1>same, <2>1
  <2>2. CASE /\ redeeming' = [redeeming EXCEPT ![p] = None]
             /\ queue' = [queue EXCEPT ![p] = {}] /\ sent' = [sent EXCEPT ![p] = {}]
    <3>1. redeeming'[p] = None /\ queue'[p] = {} /\ sent'[p] = {}
      BY <2>2 DEF PhoneShape
    <3>2. Owned(p)' = {} /\ Undecided(p)' = {}
      BY <3>1 DEF Owned, Undecided, InQueueOrSent
    <3> QED BY <1>11, <1>less, <3>2
  <2> QED BY <1>11, <2>1, <2>2
<1>12. joining' = [joining EXCEPT ![p] = Idle] => k.at = "idle"
  BY <1>0 DEF Idle
<1>13. CASE TellRefused(p)
  BY <1>11, <1>12, <1>13 DEF TellRefused
<1>14. CASE JoinFails(p) \/ NothingBuilt(p)
  BY <1>11, <1>12, <1>14 DEF JoinFails, NothingBuilt, Trouble
<1>15. CASE RestartPhone(p)
  BY <1>11, <1>12, <1>15 DEF RestartPhone, Trouble
<1>16. CASE DropEmptyVault(p) \/ ErasePhone(p)
  <2>1. k.at = "idle"
    BY <1>16 DEF DropEmptyVault, ErasePhone
  <2> QED BY <1>11, <1>16, <2>1 DEF DropEmptyVault, ErasePhone, Trouble
<1>17. CASE Complete(p)
  <2>1. UNCHANGED <<setup, queue, sent>> /\ redeeming'[p] = None /\ k.at = "idle"
    BY <1>12, <1>17 DEF Complete, PhoneShape
  <2> QED BY <1>8, <1>less, <2>1
<1>18. CASE Resume(p)
  <2>1. UNCHANGED <<setup, redeeming, queue, sent>> /\ j.at = "idle" /\ redeeming[p] \in Owned(p)
    BY <1>18 DEF Resume, Owned
  <2>2. joining' = joining \/ (k.at = "send" /\ k.ticket = redeeming[p].ticket)
    BY <1>0, <1>18 DEF Resume
  <2>3. redeeming[p].ticket \in setup.given[p]
    BY <2>1 DEF UndecidedOne
  <2> QED BY <1>less, <1>same, <2>1, <2>2, <2>3
<1> QED BY <1>1, <1>2, <1>3, <1>4, <1>5, <1>6, <1>7, <1>9, <1>10, <1>13, <1>14, <1>15, <1>16, <1>17, <1>18 DEF PhoneStep

\* A phone that was given one code never comes to a second redemption.
LEMMA OneSteps ==
  ASSUME PhoneShape, NEW p \in Phone, PhoneInv(p), UndecidedOne(p), OneCode(p), OneRedemption(p), PhoneStep(p)
  PROVE  OneRedemption(p)'
<1> USE DEF Step, Go, At, Erased, GiveUp, world, issuerVars
<1> DEFINE j == joining[p]
           k == joining'[p]
<1>0. joining \in [Phone -> JoinState] /\ j \in JoinState
  BY DEF PhoneShape
<1>none. None \notin Spend /\ None \notin Ticket
  BY TicketAssumption DEF TicketAssumption, Spend
<1>1. CASE \E t \in Ticket : ReadTicket(p, t)
  <2>1. PICK t \in Ticket : ReadTicket(p, t)
    BY <1>1
  <2>2. UNCHANGED <<setup, redeeming, queue, sent, joined>> /\ k.at = "read" /\ k.ticket = t /\ t \in setup.given[p]
    BY <1>0, <2>1 DEF ReadTicket
  <2> QED BY <2>2 DEF OneRedemption, Owned, InQueueOrSent
<1>2. CASE StartRedemption(p)
  <2>1. UNCHANGED <<setup, redeeming, queue, sent, joined>> /\ j.at = "read" /\ joined[p] = None /\ j.ticket \in setup.given[p]
    BY <1>2 DEF StartRedemption, PhoneInv, JoinInOrder, UndecidedOne
  <2>2. Owned(p)' = Owned(p) /\ InQueueOrSent(p)' = InQueueOrSent(p)
    BY <2>1 DEF Owned, InQueueOrSent
  <2>3. CASE joining' = [joining EXCEPT ![p] = Idle]
    <3>1. k.at = "idle"
      BY <1>0, <2>3 DEF Idle
    <3> QED BY <2>1, <2>2, <3>1 DEF OneRedemption
  <2>4. CASE joining' = [joining EXCEPT ![p] = [joining[p] EXCEPT !.at = "send", !.tx = redeeming[p]]]
    <3>1. k.at = "send" /\ k.ticket = j.ticket
      BY <1>0, <2>4 DEF JoinState
    <3> QED BY <2>1, <2>2, <3>1 DEF OneRedemption
  <2>5. CASE redeeming[p] = None /\ BuiltBefore(p, j.ticket) = {} /\ joining' = [joining EXCEPT ![p] = [joining[p] EXCEPT !.at = "build"]]
    <3>1. k.at = "build" /\ k.ticket = j.ticket
      BY <1>0, <2>5 DEF JoinState
    <3>2. sent[p] = {}
      BY <2>1, <2>5 DEF OneRedemption
    <3>3. ASSUME NEW x \in queue[p] PROVE FALSE
      <4>1. x.ticket \in setup.given[p]
        BY <3>3 DEF UndecidedOne, Owned, InQueueOrSent
      <4>2. x.ticket = j.ticket
        BY <2>1, <4>1 DEF OneCode
      <4> QED BY <2>5, <4>2 DEF BuiltBefore
    <3>4. Owned(p) = {}
      BY <2>5, <3>2, <3>3 DEF Owned, InQueueOrSent
    <3> QED BY <2>1, <2>2, <3>1, <3>4 DEF OneRedemption
  <2>6. CASE \E x \in BuiltBefore(p, j.ticket) : joining' = [joining EXCEPT ![p] = [joining[p] EXCEPT !.at = "seal", !.tx = x]]
    <3>1. PICK x \in BuiltBefore(p, j.ticket) : joining' = [joining EXCEPT ![p] = [joining[p] EXCEPT !.at = "seal", !.tx = x]]
      BY <2>6
    <3>2. k.at = "seal" /\ k.ticket = j.ticket /\ k.tx = x
      BY <1>0, <3>1 DEF JoinState
    <3>3. x \in Owned(p) /\ InQueueOrSent(p) \subseteq Owned(p)
      BY <3>1 DEF BuiltBefore, Owned, InQueueOrSent
    <3>4. InQueueOrSent(p) \subseteq {x}
      BY <3>3 DEF OneRedemption
    <3> QED BY <2>1, <2>2, <3>2, <3>4 DEF OneRedemption
  <2> QED BY <1>2, <2>3, <2>4, <2>5, <2>6 DEF StartRedemption
<1>3. CASE PrepareRedemption(p)
  <2> DEFINE x == NewSpend("redeem", j.ticket, p)
  <2>1. /\ UNCHANGED <<setup, redeeming, sent, joined>> /\ j.at = "build" /\ j.ticket \in setup.given[p]
        /\ queue'[p] = queue[p] \cup {x} /\ Owned(p) = {}
    BY <1>3 DEF PrepareRedemption, OneRedemption, UndecidedOne, PhoneShape
  <2>2. k.at = "seal" /\ k.ticket = j.ticket /\ k.tx = x
    BY <1>0, <1>3 DEF PrepareRedemption, JoinState
  <2>3. x.ticket = j.ticket
    BY DEF NewSpend
  <2> HIDE DEF x
  <2>4. InQueueOrSent(p)' = {x} /\ Owned(p)' = {x} /\ sent'[p] = {}
    BY <2>1 DEF Owned, InQueueOrSent
  <2> QED BY <2>1, <2>2, <2>3, <2>4 DEF OneRedemption
<1>4. CASE BuildRedemption(p)
  <2>1. UNCHANGED <<setup, redeeming, queue, sent, joined>> /\ j.at = "read" /\ j.ticket \in setup.given[p]
    BY <1>4 DEF BuildRedemption, OneRedemption, UndecidedOne
  <2>2. k.at = "vault" /\ k.ticket = j.ticket
    BY <1>0, <1>4 DEF BuildRedemption, JoinState
  <2> QED BY <2>1, <2>2 DEF OneRedemption, Owned, InQueueOrSent
<1>5. CASE CreateCadetVault(p)
  <2>1. UNCHANGED <<setup, redeeming, queue, sent, joined>> /\ j.at = "vault" /\ vault[p] = "none" /\ j.ticket \in setup.given[p]
    BY <1>5 DEF CreateCadetVault, OneRedemption, UndecidedOne, PhoneInv, JoinInOrder
  <2>2. k.at = "seal" /\ k.ticket = j.ticket /\ k.tx = j.tx
    BY <1>0, <1>5 DEF CreateCadetVault, JoinState
  <2>3. InQueueOrSent(p) = {}
    BY <2>1 DEF PhoneInv, KeepsItsOwn
  <2> QED BY <2>1, <2>2, <2>3 DEF OneRedemption, Owned, InQueueOrSent
<1>6. CASE SealRedemption(p)
  <2>1. /\ UNCHANGED <<setup, queue, sent, joined>> /\ j.at = "seal" /\ j.ticket \in setup.given[p]
        /\ redeeming'[p] = j.tx /\ j.tx.ticket = j.ticket /\ j.tx # None
    BY <1>none, <1>6 DEF SealRedemption, OneRedemption, UndecidedOne, PhoneInv, JoinInOrder, PhoneShape
  <2>2. k.at = "send" /\ k.ticket = j.ticket
    BY <1>0, <1>6 DEF SealRedemption, JoinState
  <2>3. InQueueOrSent(p)' = InQueueOrSent(p) /\ Owned(p)' = {j.tx}
    BY <2>1 DEF OneRedemption, Owned, InQueueOrSent
  <2> QED BY <2>1, <2>2, <2>3 DEF OneRedemption
<1>7. CASE OfferRedemption(p)
  <2>1. /\ UNCHANGED <<setup, redeeming, joined>> /\ j.at = "send" /\ j.ticket \in setup.given[p]
        /\ redeeming[p] # None
    BY <1>none, <1>7 DEF OfferRedemption, OneRedemption, UndecidedOne, PhoneInv, JoinInOrder, PhoneShape
  <2>2. k.at = "send" /\ k.ticket = j.ticket
    BY <1>0, <1>7 DEF OfferRedemption, JoinState
  <2>3. queue'[p] \cup sent'[p] \subseteq queue[p] \cup sent[p]
    BY <1>7 DEF OfferRedemption, PhoneShape
  <2>4. Owned(p)' \subseteq Owned(p)
    BY <2>1, <2>3 DEF Owned, InQueueOrSent
  <2> QED BY <2>1, <2>2, <2>4 DEF OneRedemption
<1>8. CASE SettleRedemption(p)
  <2>1. /\ UNCHANGED <<setup, queue, sent, joined>> /\ j.at = "send" /\ j.ticket \in setup.given[p]
        /\ redeeming[p] = j.tx /\ j.tx # None
    BY <1>none, <1>8 DEF SettleRedemption, OneRedemption, UndecidedOne, PhoneInv, JoinInOrder, PhoneShape
  <2>2. CASE UNCHANGED redeeming /\ (joining' = [joining EXCEPT ![p] = Idle] \/ joining' = [joining EXCEPT ![p] = [joining[p] EXCEPT !.at = "taken"]])
    <3>1. k.at = "idle" \/ (k.at = "taken" /\ k.ticket = j.ticket)
      BY <1>0, <2>2 DEF JoinState, Idle
    <3> QED BY <2>1, <2>2, <3>1 DEF OneRedemption, Owned, InQueueOrSent
  <2>3. CASE /\ j.tx \notin queue[p] /\ j.tx \notin sent[p] /\ redeeming' = [redeeming EXCEPT ![p] = None]
             /\ joining' = [joining EXCEPT ![p] = [joining[p] EXCEPT !.at = "refused"]]
    <3>1. k.at = "refused" /\ k.ticket = j.ticket
      BY <1>0, <2>3 DEF JoinState
    <3>2. j.tx \in Owned(p) /\ InQueueOrSent(p) \subseteq Owned(p)
      BY <2>1 DEF Owned
    <3>3. InQueueOrSent(p) = {}
      BY <2>3, <3>2 DEF OneRedemption, InQueueOrSent
    <3>4. redeeming'[p] = None
      BY <2>3 DEF PhoneShape
    <3>5. Owned(p)' = {} /\ sent'[p] = {}
      BY <2>1, <3>3, <3>4 DEF Owned, InQueueOrSent
    <3> QED BY <2>1, <3>1, <3>5 DEF OneRedemption
  <2> QED BY <1>8, <2>2, <2>3 DEF SettleRedemption
<1>9. CASE BroadcastRedemption(p)
  <2>1. /\ UNCHANGED <<setup, queue, sent, joined>> /\ j.at = "send" /\ j.ticket \in setup.given[p]
        /\ InQueueOrSent(p) = {}
    BY <1>9 DEF BroadcastRedemption, OneRedemption, UndecidedOne, PhoneInv, KeepsItsOwn
  <2>2. CASE UNCHANGED redeeming /\ (joining' = [joining EXCEPT ![p] = Idle] \/ joining' = [joining EXCEPT ![p] = [joining[p] EXCEPT !.at = "taken"]])
    <3>1. k.at = "idle" \/ (k.at = "taken" /\ k.ticket = j.ticket)
      BY <1>0, <2>2 DEF JoinState, Idle
    <3> QED BY <2>1, <2>2, <3>1 DEF OneRedemption, Owned, InQueueOrSent
  <2>3. CASE /\ redeeming' = [redeeming EXCEPT ![p] = None]
             /\ joining' = [joining EXCEPT ![p] = [joining[p] EXCEPT !.at = "refused", !.conflict = Conflicts(joining[p].tx)]]
    <3>1. k.at = "refused" /\ k.ticket = j.ticket
      BY <1>0, <2>3 DEF JoinState
    <3>2. redeeming'[p] = None
      BY <2>3 DEF PhoneShape
    <3>3. Owned(p)' = {} /\ sent'[p] = {}
      BY <2>1, <3>2 DEF Owned, InQueueOrSent
    <3> QED BY <2>1, <3>1, <3>3 DEF OneRedemption
  <2> QED BY <1>9, <2>2, <2>3 DEF BroadcastRedemption
\* What ends a call keeps the redemptions or erases them all.
<1>10. ASSUME k.at = "idle", UNCHANGED <<setup, joined>>,
              \/ UNCHANGED <<redeeming, queue, sent>>
              \/ /\ redeeming' = [redeeming EXCEPT ![p] = None]
                 /\ queue' = [queue EXCEPT ![p] = {}] /\ sent' = [sent EXCEPT ![p] = {}]
       PROVE  OneRedemption(p)'
  <2>1. CASE UNCHANGED <<redeeming, queue, sent>>
    BY <1>10, <2>1 DEF OneRedemption, Owned, InQueueOrSent
  <2>2. CASE /\ redeeming' = [redeeming EXCEPT ![p] = None]
             /\ queue' = [queue EXCEPT ![p] = {}] /\ sent' = [sent EXCEPT ![p] = {}]
    <3>1. redeeming'[p] = None /\ queue'[p] = {} /\ sent'[p] = {}
      BY <2>2 DEF PhoneShape
    <3>2. Owned(p)' = {}
      BY <3>1 DEF Owned, InQueueOrSent
    <3> QED BY <1>10, <3>1, <3>2 DEF OneRedemption
  <2> QED BY <1>10, <2>1, <2>2
<1>11. joining' = [joining EXCEPT ![p] = Idle] => k.at = "idle"
  BY <1>0 DEF Idle
<1>12. CASE TellRefused(p)
  BY <1>10, <1>11, <1>12 DEF TellRefused
<1>13. CASE JoinFails(p) \/ NothingBuilt(p)
  BY <1>10, <1>11, <1>13 DEF JoinFails, NothingBuilt, Trouble
<1>14. CASE RestartPhone(p)
  BY <1>10, <1>11, <1>14 DEF RestartPhone, Trouble
<1>15. CASE DropEmptyVault(p) \/ ErasePhone(p)
  <2>1. k.at = "idle"
    BY <1>15 DEF DropEmptyVault, ErasePhone
  <2> QED BY <1>10, <1>15, <2>1 DEF DropEmptyVault, ErasePhone, Trouble
<1>16. CASE Complete(p)
  <2>1. /\ UNCHANGED <<setup, queue, sent>> /\ redeeming'[p] = None /\ joined'[p] = joining[p].ticket
        /\ joining[p].ticket \in Ticket /\ k.at = "idle"
    BY <1>11, <1>16 DEF Complete, PhoneShape, PhoneInv, JoinInOrder
  <2>2. Owned(p)' \subseteq Owned(p) /\ joined'[p] # None
    BY <1>none, <2>1 DEF Owned, InQueueOrSent
  <2> QED BY <2>1, <2>2 DEF OneRedemption
<1>17. CASE Resume(p)
  <2>1. UNCHANGED <<setup, redeeming, queue, sent, joined>> /\ j.at = "idle" /\ redeeming[p] \in Owned(p)
    BY <1>17 DEF Resume, Owned
  <2>2. \/ joining' = joining
        \/ k.at = "send" /\ k.ticket = redeeming[p].ticket
    BY <1>0, <1>17 DEF Resume
  <2> QED BY <2>1, <2>2 DEF OneRedemption, Owned, InQueueOrSent
<1> QED BY <1>1, <1>2, <1>3, <1>4, <1>5, <1>6, <1>7, <1>8, <1>9, <1>12, <1>13, <1>14, <1>15, <1>16, <1>17 DEF PhoneStep

\* What the network took of a phone's is what the phone has.
LEMMA TakenIsOwned ==
  ASSUME PhoneShape, NEW p \in Phone, PhoneInv(p), joined[p] = None
  PROVE  TakenOf(p) \subseteq Owned(p)
<1>1. vault[p] \in {"none", "staff", "cadet"}
  BY DEF PhoneShape
<1>2. TakenOf(p) \subseteq Spend /\ None \notin Spend
  BY TicketAssumption DEF TicketAssumption, Spend, TakenOf, PhoneInv, KeepsItsOwn, PhoneShape
<1> QED BY <1>1, <1>2 DEF PhoneInv, TakenIsKept, Owned

\* Of two spends of a ticket one is not the phone's that has at most the other.
LEMMA AnotherHasIt ==
  ASSUME PhoneShape, NEW p \in Phone, PhoneInv(p), UndecidedOne(p), OneCode(p) => OneRedemption(p),
         joined[p] = None, NEW t, NEW own \in {redeeming[p], None},
         own # None => own.ticket = t,
         own = None => (OneCode(p) => Owned(p) = {}) /\ \A x \in Undecided(p) : x.ticket # t,
         NEW y \in Spenders(t), y # own
  PROVE  Elsewhere(p, t)
<1>1. CASE y.by # p \/ y \in abandoned
  BY <1>1 DEF Elsewhere
<1>2. CASE y.by = p /\ y \notin abandoned
  <2>1. y \in Owned(p) /\ y.ticket = t
    BY <1>2, TakenIsOwned DEF TakenOf, Spenders
  <2>2. own # None => own = redeeming[p] /\ own \in Owned(p)
    BY DEF Owned
  <2>3. CASE OneCode(p)
    BY <2>1, <2>2, <2>3 DEF OneRedemption
  <2>4. CASE ~OneCode(p) /\ y \in sent[p]
    BY <2>4 DEF Elsewhere
  <2>5. CASE ~OneCode(p) /\ y \notin sent[p]
    <3>1. y \in Undecided(p)
      BY <2>1, <2>5 DEF Owned, Undecided, InQueueOrSent
    <3>2. own # None
      BY <2>1, <3>1
    <3>3. CASE own \in sent[p]
      <4>1. own \in Spenders(t)
        BY <2>2, <3>2, <3>3 DEF PhoneInv, KeepsItsOwn, IsRedemption, Spenders, IsSpend
      <4> QED BY <2>5, <3>3, <4>1 DEF Elsewhere
    <3>4. CASE own \notin sent[p]
      <4>1. own \in Undecided(p)
        BY <2>2, <3>2, <3>4 DEF Undecided
      <4> QED BY <2>1, <3>1, <3>2, <4>1 DEF UndecidedOne
    <3> QED BY <3>3, <3>4
  <2> QED BY <2>3, <2>4, <2>5
<1> QED BY <1>1, <1>2

\* What was sent stays known, or its device was given up: a device is erased before it sent
\* anything, or by its owner.
LEMMA SentStays ==
  ASSUME PhoneShape, NEW p \in Phone, PhoneInv(p), PhoneStep(p)
  PROVE  \A x \in sent[p] : x \in sent'[p] \/ x \in abandoned'
<1> USE DEF At, Step, world
<1>1. abandoned \subseteq abandoned'
  BY PhoneFrame DEF Outside
<1>2. ASSUME joining[p].fresh, joining[p].at \in {"read", "build", "vault", "seal", "refused"}
      PROVE  sent[p] \subseteq abandoned
  BY <1>2 DEF PhoneInv, FreshSendsOne, KeepsItsOwn, TakenOf, InQueueOrSent, IsRedemption
<1>3. CASE \/ \E t \in Ticket : ReadTicket(p, t)
           \/ StartRedemption(p) \/ PrepareRedemption(p) \/ BuildRedemption(p) \/ CreateCadetVault(p)
           \/ SealRedemption(p) \/ SettleRedemption(p) \/ BroadcastRedemption(p)
           \/ Complete(p) \/ Resume(p) \/ DropEmptyVault(p) \/ RestartPhone(p)
  BY <1>3 DEF ReadTicket, StartRedemption, PrepareRedemption, BuildRedemption, CreateCadetVault, SealRedemption,
              SettleRedemption, BroadcastRedemption, Complete, Resume, DropEmptyVault, RestartPhone
<1>4. CASE OfferRedemption(p)
  BY <1>4 DEF OfferRedemption, PhoneShape
<1>5. CASE TellRefused(p)
  BY <1>1, <1>2, <1>5 DEF TellRefused
<1>6. CASE JoinFails(p) \/ NothingBuilt(p)
  <2>1. \/ sent' = sent
        \/ joining[p].fresh /\ redeeming[p] = None /\ ~At(p, "idle")
    BY <1>6 DEF JoinFails, NothingBuilt, GiveUp
  <2>2. CASE sent' = sent
    BY <2>2
  <2>3. CASE joining[p].fresh /\ redeeming[p] = None /\ ~At(p, "idle")
    <3>1. joining[p].at \notin {"send", "taken"}
      BY <2>3, TicketAssumption DEF TicketAssumption, Spend, PhoneInv, JoinInOrder, KeepsItsOwn, PhoneShape
    <3>2. joining[p].at \in {"read", "build", "vault", "seal", "refused"}
      BY <2>3, <3>1 DEF PhoneShape, JoinState
    <3> QED BY <1>1, <1>2, <2>3, <3>2
  <2> QED BY <2>1, <2>2, <2>3
<1>7. CASE ErasePhone(p)
  BY <1>7 DEF ErasePhone, PhoneInv, KeepsItsOwn, InQueueOrSent, IsRedemption
<1> QED BY <1>3, <1>4, <1>5, <1>6, <1>7 DEF PhoneStep

\* So who has a ticket elsewhere keeps it.
LEMMA ElsewhereStays ==
  ASSUME PhoneShape, NEW p \in Phone, PhoneInv(p), PhoneStep(p)
  PROVE  \A t : Spenders(t) \subseteq Spenders(t)' /\ (Elsewhere(p, t) => Elsewhere(p, t)')
<1>1. UNCHANGED setup /\ abandoned \subseteq abandoned' /\ network \subseteq network'
  BY PhoneFrame DEF Outside
<1>2. \A x \in sent[p] : x \in sent'[p] \/ x \in abandoned'
  BY SentStays
<1> QED BY <1>1, <1>2 DEF Spenders, IsSpend, Elsewhere, OneCode

\* A refusal is what the network shows, when the reader leaves its own spend out.
LEMMA RefusalShows ==
  ASSUME NEW t, NEW seen \in Sights(t), NEW own
  PROVE  /\ Refusal(t, seen, own) \in {"NO", "CANCELLED", "USED", "EXPIRED"}
         /\ Refusal(t, seen, own) = "CANCELLED" => \E x \in Spenders(t) : x.kind = "cancel"
         /\ Refusal(t, seen, own) = "USED" => \E y \in Spenders(t) : y # own
BY DEF Refusal, Sights

\* What a phone is told keeps being true.
LEMMA ToldKept ==
  ASSUME NEW p \in Phone, ToldTruly(p), told'[p] = told[p],
         joining'[p].at = "idle" \/ ~joining'[p].conflict
           \/ (joining[p].at # "idle" /\ joining[p].conflict /\ joining'[p].ticket = joining[p].ticket),
         \A t : Spenders(t) \subseteq Spenders(t)' /\ (Elsewhere(p, t) => Elsewhere(p, t)')
  PROVE  ToldTruly(p)'
<1>1. (joining[p].at # "idle" /\ joining[p].conflict => Elsewhere(p, joining[p].ticket))'
  <2> SUFFICES ASSUME joining'[p].at # "idle", joining'[p].conflict PROVE Elsewhere(p, joining[p].ticket)'
    OBVIOUS
  <2>1. Elsewhere(p, joining[p].ticket) /\ joining'[p].ticket = joining[p].ticket
    BY DEF ToldTruly
  <2> QED BY <2>1 DEF Elsewhere, Spenders, IsSpend, OneCode
<1>2. \A t \in Ticket :
        /\ told'[p] = <<t, "CANCELLED">> => \E x \in Spenders(t)' : x.kind = "cancel"
        /\ told'[p] = <<t, "USED">> => Elsewhere(p, t)'
  BY DEF ToldTruly
<1> QED BY <1>1, <1>2 DEF ToldTruly

\* What a phone is told anew is true when it is told.
LEMMA ToldAnew ==
  ASSUME NEW p \in Phone, ToldTruly(p), told \in [Phone \cup {Issuer} -> Answer],
         NEW t \in Ticket \cup {None}, NEW why \in {"NO", "CANCELLED", "USED", "EXPIRED", "AGAIN"},
         Tell(p, t, why),
         \A u : Spenders(u) \subseteq Spenders(u)' /\ (Elsewhere(p, u) => Elsewhere(p, u)'),
         joining'[p].at = "idle" \/ ~joining'[p].conflict,
         why = "CANCELLED" => \E x \in Spenders(t) : x.kind = "cancel",
         why = "USED" => Elsewhere(p, t)
  PROVE  ToldTruly(p)' /\ told' \in [Phone \cup {Issuer} -> Answer]
<1>1. told'[p] = <<t, why>> /\ told' \in [Phone \cup {Issuer} -> Answer]
  BY DEF Tell, Answer
<1>2. \A u \in Ticket :
        /\ told'[p] = <<u, "CANCELLED">> => \E x \in Spenders(u)' : x.kind = "cancel"
        /\ told'[p] = <<u, "USED">> => Elsewhere(p, u)'
  BY <1>1
<1> QED BY <1>1, <1>2 DEF ToldTruly

\* A phone's steps tell it the truth, and tell nobody else.
LEMMA ToldSteps ==
  ASSUME PhoneShape, NEW p \in Phone, PhoneInv(p), UndecidedOne(p),
         OneCode(p) => OneRedemption(p), ToldTruly(p),
         told \in [Phone \cup {Issuer} -> Answer], PhoneStep(p)
  PROVE  /\ ToldTruly(p)' /\ told' \in [Phone \cup {Issuer} -> Answer]
         /\ \A w \in Phone \cup {Issuer} : w # p => told'[w] = told[w]
<1> USE DEF Step, Go, At, GiveUp, world
<1> DEFINE j == joining[p]
           k == joining'[p]
           Unsaid == told' = told
<1>0. joining \in [Phone -> JoinState] /\ j \in JoinState /\ p \in Phone \cup {Issuer}
  BY DEF PhoneShape
<1>grows. \A t : Spenders(t) \subseteq Spenders(t)' /\ (Elsewhere(p, t) => Elsewhere(p, t)')
  BY ElsewhereStays
<1>none. None \notin Spend /\ None \notin Ticket
  BY TicketAssumption DEF TicketAssumption, Spend
<1>idle. joining' = [joining EXCEPT ![p] = Idle] => k.at = "idle"
  BY <1>0 DEF Idle
<1>later. ASSUME NEW at, NEW x, \/ joining' = [joining EXCEPT ![p] = [j EXCEPT !.at = at]]
                                  \/ joining' = [joining EXCEPT ![p] = [j EXCEPT !.at = at, !.tx = x]]
          PROVE  k.ticket = j.ticket /\ k.conflict = j.conflict
  BY <1>0, <1>later DEF JoinState
\* Most steps tell nothing and notice no conflict.
<1>1. ASSUME Unsaid, k.at = "idle" \/ ~k.conflict \/ (j.at # "idle" /\ j.conflict /\ k.ticket = j.ticket)
      PROVE  /\ ToldTruly(p)' /\ told' \in [Phone \cup {Issuer} -> Answer]
             /\ \A w \in Phone \cup {Issuer} : w # p => told'[w] = told[w]
  BY <1>1, <1>grows, ToldKept
<1>2. ASSUME NEW t, NEW why, Tell(p, t, why)
      PROVE  \A w \in Phone \cup {Issuer} : w # p => told'[w] = told[w]
  BY <1>2 DEF Tell
<1>3. CASE \E t \in Ticket : ReadTicket(p, t)
  <2>1. PICK t \in Ticket : ReadTicket(p, t)
    BY <1>3
  <2>2. Tell(p, None, "NO") /\ ~k.conflict
    BY <1>0, <2>1 DEF ReadTicket
  <2> QED BY <1>2, <1>grows, <2>2, ToldAnew
<1>4. CASE StartRedemption(p)
  <2>1. Unsaid /\ j.at = "read"
    BY <1>4 DEF StartRedemption
  <2>2. \/ joining' = [joining EXCEPT ![p] = Idle]
        \/ \E at : joining' = [joining EXCEPT ![p] = [j EXCEPT !.at = at]]
        \/ \E at, x : joining' = [joining EXCEPT ![p] = [j EXCEPT !.at = at, !.tx = x]]
    BY <1>4 DEF StartRedemption
  <2>3. k.at = "idle" \/ (k.ticket = j.ticket /\ k.conflict = j.conflict)
    BY <1>idle, <1>later, <2>2
  <2> QED BY <1>0, <1>1, <2>1, <2>3 DEF JoinState
<1>5. CASE PrepareRedemption(p) \/ BuildRedemption(p) \/ CreateCadetVault(p) \/ SealRedemption(p)
  <2>1. Unsaid /\ j.at # "idle"
    BY <1>5 DEF PrepareRedemption, BuildRedemption, CreateCadetVault, SealRedemption
  <2>2. \/ \E at : joining' = [joining EXCEPT ![p] = [j EXCEPT !.at = at]]
        \/ \E at, x : joining' = [joining EXCEPT ![p] = [j EXCEPT !.at = at, !.tx = x]]
    BY <1>5 DEF PrepareRedemption, BuildRedemption, CreateCadetVault, SealRedemption
  <2>3. k.ticket = j.ticket /\ k.conflict = j.conflict
    BY <1>later, <2>2
  <2> QED BY <1>0, <1>1, <2>1, <2>3 DEF JoinState
\* The spend in the way of its own is another's.
<1>6. ASSUME j.at = "send", Conflicts(j.tx)
      PROVE  Elsewhere(p, j.ticket)
  <2>1. joined[p] = None /\ redeeming[p] = j.tx /\ j.tx # None /\ j.tx.ticket = j.ticket
    BY <1>0, <1>6, <1>none DEF PhoneInv, JoinInOrder, PhoneShape
  <2>2. PICK y \in Spenders(j.ticket) : y # j.tx
    BY <1>6, <2>1 DEF Conflicts
  <2> QED BY <2>1, <2>2, AnotherHasIt
<1>7. CASE OfferRedemption(p)
  <2>1. Unsaid /\ j.at = "send"
    BY <1>7 DEF OfferRedemption
  <2>2. \/ joining' = joining
        \/ \E x : joining' = [joining EXCEPT ![p] = [j EXCEPT !.conflict = @ \/ (x = j.tx /\ Conflicts(x))]]
    BY <1>7 DEF OfferRedemption
  <2>3. CASE joining' = joining
    BY <1>0, <1>1, <2>1, <2>3 DEF JoinState
  <2>4. ASSUME NEW x, joining' = [joining EXCEPT ![p] = [j EXCEPT !.conflict = @ \/ (x = j.tx /\ Conflicts(x))]]
        PROVE  ToldTruly(p)' /\ told' \in [Phone \cup {Issuer} -> Answer]
    <3>1. k.at = "send" /\ k.ticket = j.ticket /\ (k.conflict => j.conflict \/ Conflicts(j.tx))
      BY <1>0, <2>1, <2>4 DEF JoinState
    <3>2. CASE ~k.conflict \/ j.conflict
      BY <1>1, <2>1, <3>1, <3>2
    <3>3. CASE Conflicts(j.tx)
      <4>1. Elsewhere(p, j.ticket)
        BY <1>6, <2>1, <3>3
      <4>2. \A t \in Ticket : told'[p] = <<t, "CANCELLED">> => \E y \in Spenders(t)' : y.kind = "cancel"
        BY <1>grows, <2>1 DEF ToldTruly
      <4>3. \A t \in Ticket : told'[p] = <<t, "USED">> => Elsewhere(p, t)'
        BY <1>grows, <2>1 DEF ToldTruly
      <4>4. Elsewhere(p, joining[p].ticket)'
        BY <1>grows, <3>1, <4>1 DEF Elsewhere, Spenders, IsSpend, OneCode
      <4> QED BY <2>1, <4>2, <4>3, <4>4 DEF ToldTruly
    <3> QED BY <3>1, <3>2, <3>3
  <2> QED BY <2>1, <2>2, <2>3, <2>4
<1>8. CASE SettleRedemption(p)
  <2>1. Unsaid /\ j.at = "send"
    BY <1>8 DEF SettleRedemption
  <2>2. \/ joining' = [joining EXCEPT ![p] = Idle]
        \/ \E at \in {"taken", "refused"} : joining' = [joining EXCEPT ![p] = [j EXCEPT !.at = at]]
    BY <1>8 DEF SettleRedemption
  <2>3. k.at = "idle" \/ (k.ticket = j.ticket /\ k.conflict = j.conflict)
    BY <1>0, <1>idle, <2>2 DEF JoinState
  <2> QED BY <1>0, <1>1, <2>1, <2>3 DEF JoinState
<1>9. CASE BroadcastRedemption(p)
  <2>1. Unsaid /\ j.at = "send"
    BY <1>9 DEF BroadcastRedemption
  <2>2. CASE joining' = [joining EXCEPT ![p] = [j EXCEPT !.at = "taken"]] \/ joining' = [joining EXCEPT ![p] = Idle]
    <3>1. k.at = "idle" \/ (k.ticket = j.ticket /\ k.conflict = j.conflict)
      BY <1>0, <1>idle, <2>2 DEF JoinState
    <3> QED BY <1>0, <1>1, <2>1, <3>1 DEF JoinState
  <2>3. CASE joining' = [joining EXCEPT ![p] = [j EXCEPT !.at = "refused", !.conflict = Conflicts(j.tx)]]
    <3>1. k.ticket = j.ticket /\ k.conflict = Conflicts(j.tx)
      BY <1>0, <2>3 DEF JoinState
    <3>2. CASE ~Conflicts(j.tx)
      BY <1>1, <2>1, <3>1, <3>2
    <3>3. CASE Conflicts(j.tx)
      <4>1. Elsewhere(p, j.ticket)
        BY <1>6, <2>1, <3>3
      <4>2. \A t \in Ticket :
              /\ told'[p] = <<t, "CANCELLED">> => \E y \in Spenders(t)' : y.kind = "cancel"
              /\ told'[p] = <<t, "USED">> => Elsewhere(p, t)'
        BY <1>grows, <2>1 DEF ToldTruly
      <4>3. Elsewhere(p, joining[p].ticket)'
        BY <1>grows, <3>1, <4>1 DEF Elsewhere, Spenders, IsSpend, OneCode
      <4> QED BY <2>1, <4>2, <4>3 DEF ToldTruly
    <3> QED BY <3>2, <3>3, <2>1
  <2> QED BY <1>9, <2>2, <2>3 DEF BroadcastRedemption
<1>10. CASE TellRefused(p)
  <2>1. /\ j.at = "refused" /\ j.ticket \in Ticket /\ joined[p] = None /\ k.at = "idle"
        /\ OneCode(p) => Owned(p) = {}
        /\ \A x \in Undecided(p) : x.ticket # j.ticket
    BY <1>10, <1>idle DEF TellRefused, PhoneInv, JoinInOrder, OneRedemption, UndecidedOne
  <2>2. PICK seen \in Sights(j.ticket) :
          LET why == Refusal(j.ticket, seen, None) IN
          Tell(p, j.ticket, IF why # "NO" THEN why ELSE IF j.conflict THEN "USED" ELSE "AGAIN")
    BY <1>10 DEF TellRefused
  <2> DEFINE why == Refusal(j.ticket, seen, None)
             said == IF why # "NO" THEN why ELSE IF j.conflict THEN "USED" ELSE "AGAIN"
  <2>3. /\ why \in {"NO", "CANCELLED", "USED", "EXPIRED"}
        /\ why = "CANCELLED" => \E x \in Spenders(j.ticket) : x.kind = "cancel"
        /\ why = "USED" => \E y \in Spenders(j.ticket) : y # None
    BY RefusalShows
  <2>4. why = "USED" => Elsewhere(p, j.ticket)
    BY <2>1, <2>3, AnotherHasIt
  <2>5. j.conflict => Elsewhere(p, j.ticket)
    BY <2>1 DEF ToldTruly
  <2>6. Tell(p, j.ticket, said)
    BY <2>2
  <2> HIDE DEF why
  <2>7. /\ said \in {"NO", "CANCELLED", "USED", "EXPIRED", "AGAIN"}
        /\ said = "CANCELLED" => \E x \in Spenders(j.ticket) : x.kind = "cancel"
        /\ said = "USED" => Elsewhere(p, j.ticket)
    BY <2>3, <2>4, <2>5
  <2> HIDE DEF said
  <2> QED BY <1>2, <1>grows, <2>1, <2>6, <2>7, ToldAnew
<1>11. CASE Resume(p)
  <2> DEFINE own == redeeming[p]
  <2>1. /\ j.at = "idle" /\ joined[p] = None /\ own # None
        /\ own \in Spend /\ own.ticket \in Ticket
    BY <1>11 DEF Resume, PhoneShape, Spend
  <2>2. PICK seen \in Sights(own.ticket) :
          LET why == Refusal(own.ticket, seen, own) IN
          IF why = "NO"
          THEN /\ joining' = [joining EXCEPT ![p] = [at |-> "send", ticket |-> own.ticket, tx |-> own, fresh |-> FALSE, conflict |-> FALSE]]
               /\ Tell(p, None, "NO")
          ELSE Tell(p, own.ticket, why) /\ UNCHANGED joining
    BY <1>11 DEF Resume
  <2> DEFINE why == Refusal(own.ticket, seen, own)
  <2>3. /\ why \in {"NO", "CANCELLED", "USED", "EXPIRED"}
        /\ why = "CANCELLED" => \E x \in Spenders(own.ticket) : x.kind = "cancel"
        /\ why = "USED" => \E y \in Spenders(own.ticket) : y # own
    BY RefusalShows
  <2>4. why = "USED" => Elsewhere(p, own.ticket)
    BY <2>1, <2>3, AnotherHasIt
  <2>5. CASE why = "NO"
    <3>1. Tell(p, None, "NO") /\ joining' = [joining EXCEPT ![p] = [at |-> "send", ticket |-> own.ticket, tx |-> own, fresh |-> FALSE, conflict |-> FALSE]]
      BY <2>2, <2>5
    <3>2. ~k.conflict
      BY <1>0, <3>1
    <3> QED BY <1>2, <1>grows, <2>1, <3>1, <3>2, ToldAnew
  <2>6. CASE why # "NO"
    <3>1. Tell(p, own.ticket, why) /\ k.at = "idle"
      BY <2>1, <2>2, <2>6
    <3> HIDE DEF why
    <3> QED BY <1>2, <1>grows, <2>1, <2>3, <2>4, <3>1, ToldAnew
  <2> QED BY <2>5, <2>6
<1>12. CASE JoinFails(p) \/ NothingBuilt(p) \/ RestartPhone(p) \/ Complete(p)
  <2>1. Unsaid /\ joining' = [joining EXCEPT ![p] = Idle]
    BY <1>12 DEF JoinFails, NothingBuilt, RestartPhone, Complete
  <2> QED BY <1>1, <1>idle, <2>1
<1>13. CASE DropEmptyVault(p) \/ ErasePhone(p)
  <2>1. Unsaid /\ joining' = joining /\ j.at = "idle"
    BY <1>13 DEF DropEmptyVault, ErasePhone
  <2> QED BY <1>1, <2>1
<1> QED BY <1>3, <1>4, <1>5, <1>7, <1>8, <1>9, <1>10, <1>11, <1>12, <1>13 DEF PhoneStep

\* A queue keeps what it held, unless its head is sent on.
LEMMA QueueKeeps ==
  ASSUME NEW S, NEW q \in Seq(S), NEW x \in S
  PROVE  \A y \in ToSet(q) : y \in ToSet(Append(q, x))
BY Queued

\* The issuer is told "used" of a spent ticket only, and the phones are told nothing by it.
LEMMA IssuerTells ==
  ASSUME IInv, told \in [Phone \cup {Issuer} -> Answer], IssuerToldTruly, IssuerStep
  PROVE  /\ IssuerToldTruly' /\ told' \in [Phone \cup {Issuer} -> Answer]
         /\ \A p \in Phone : told'[p] = told[p]
<1> USE DEF world, phoneVars, SetCall, Cancelling
<1>0. /\ cancelling \in [Call -> CallState] /\ pending \in Seq(Tx)
      /\ Issuer \notin Phone
  BY TicketAssumption DEF TicketAssumption, IInv, IssuerInv, IssuerShape
\* What is told and the calls stay, or a call is set anew; nothing leaves the wallet.
<1>1. ASSUME told' = told, network' = network, recent' = recent,
             ToSet(pending) \subseteq ToSet(pending)',
             NEW c \in Call, NEW k, cancelling' = [cancelling EXCEPT ![c] = k],
             k.at = "settle" => k.tx \in ToSet(pending)'
      PROVE  IssuerToldTruly'
  <2>1. \A d \in Call : cancelling'[d] = IF d = c THEN k ELSE cancelling[d]
    BY <1>0, <1>1
  <2>2. \A t : Spenders(t)' = Spenders(t)
    BY <1>1 DEF Spenders, IsSpend
  <2>3. ASSUME NEW d \in Call, cancelling'[d].at = "settle"
        PROVE  cancelling'[d].tx \in (ToSet(pending) \cup recent)' \/ Spenders(cancelling[d].ticket)' # {}
    <3>1. CASE d = c
      BY <1>1, <2>1, <2>3, <3>1
    <3>2. CASE d # c
      <4>1. cancelling'[d] = cancelling[d]
        BY <2>1, <3>2
      <4>2. cancelling[d].tx \in ToSet(pending) \cup recent \/ Spenders(cancelling[d].ticket) # {}
        BY <2>3, <4>1 DEF IssuerToldTruly
      <4> QED BY <1>1, <4>1, <4>2 DEF Spenders, IsSpend
    <3> QED BY <3>1, <3>2
  <2>4. \A t \in Ticket : told'[Issuer] = <<t, "USED">> => Spenders(t)' # {}
    BY <1>1, <2>2 DEF IssuerToldTruly
  <2> QED BY <2>3, <2>4 DEF IssuerToldTruly
<1>2. ASSUME told' = told, network' = network, recent' = recent, cancelling' = cancelling,
             ToSet(pending) \subseteq ToSet(pending)'
      PROVE  IssuerToldTruly'
  BY <1>2 DEF IssuerToldTruly, Spenders, IsSpend
<1>3. NoCall.at = "idle"
  BY DEF NoCall
<1>4. ASSUME NEW t \in Ticket,
             \/ Expire(t) \/ SealCode(t) \/ Fund(t) \/ Pack(t) \/ List(t) \/ IssueFails(t)
             \/ PublishListing(t) \/ LearnRedeemed(t)
      PROVE  IssuerToldTruly' /\ told' = told
  <2>1. UNCHANGED <<told, network, recent, cancelling>>
    BY <1>4 DEF Expire, SealCode, Fund, Pack, List, IssueFails, PublishListing, LearnRedeemed, issuerVars
  <2>2. pending' = pending \/ \E x \in {Funding(t), Package(t), Listing(t)} : pending' = Append(pending, x)
    BY <1>4 DEF Expire, SealCode, Fund, Pack, List, IssueFails, PublishListing, LearnRedeemed, issuerVars
  <2>3. Funding(t) \in Tx /\ Package(t) \in Tx /\ Listing(t) \in Tx
    BY DEF Funding, Package, Listing, Tx
  <2>4. ToSet(pending) \subseteq ToSet(pending)'
    BY <1>0, <2>2, <2>3, QueueKeeps
  <2> QED BY <1>2, <2>1, <2>4
<1>5. ASSUME NEW c \in Call, NEW t \in Ticket, CancelTicket(c, t)
      PROVE  IssuerToldTruly' /\ told' = told
  <2> DEFINE k == [at |-> "find", ticket |-> t, tx |-> None]
  <2>1. UNCHANGED <<told, network, recent, pending>> /\ cancelling' = [cancelling EXCEPT ![c] = k]
    BY <1>5 DEF CancelTicket
  <2>2. k.at # "settle"
    OBVIOUS
  <2> HIDE DEF k
  <2> QED BY <1>1, <2>1, <2>2
<1>6. ASSUME NEW c \in Call, FindCancellation(c)
      PROVE  IssuerToldTruly' /\ told' = told
  <2>1. UNCHANGED <<told, network, recent, pending>>
    BY <1>6 DEF FindCancellation
  <2>2. \/ cancelling' = [cancelling EXCEPT ![c] = [cancelling[c] EXCEPT !.at = "build"]]
        \/ \E i \in DOMAIN pending : cancelling' = [cancelling EXCEPT ![c] = [cancelling[c] EXCEPT !.at = "settle", !.tx = pending[i]]]
    BY <1>6 DEF FindCancellation
  <2>3. PICK k : /\ cancelling' = [cancelling EXCEPT ![c] = k]
                 /\ k.at = "settle" => k.tx \in ToSet(pending)
    <3>1. CASE cancelling' = [cancelling EXCEPT ![c] = [cancelling[c] EXCEPT !.at = "build"]]
      <4>1. [cancelling[c] EXCEPT !.at = "build"].at = "build"
        BY <1>0 DEF CallState
      <4> QED BY <3>1, <4>1
    <3>2. ASSUME NEW i \in DOMAIN pending,
                 cancelling' = [cancelling EXCEPT ![c] = [cancelling[c] EXCEPT !.at = "settle", !.tx = pending[i]]]
          PROVE  \E k : /\ cancelling' = [cancelling EXCEPT ![c] = k]
                        /\ k.at = "settle" => k.tx \in ToSet(pending)
      <4>1. [cancelling[c] EXCEPT !.at = "settle", !.tx = pending[i]].tx = pending[i]
        BY <1>0 DEF CallState
      <4>2. pending[i] \in ToSet(pending)
        BY DEF ToSet
      <4> QED BY <3>2, <4>1, <4>2
    <3> QED BY <2>2, <3>1, <3>2
  <2> QED BY <1>1, <2>1, <2>3
<1>7. ASSUME NEW c \in Call, BuildCancellation(c)
      PROVE  IssuerToldTruly' /\ told' = told
  <2> DEFINE x == NewSpend("cancel", cancelling[c].ticket, Issuer)
             k == [cancelling[c] EXCEPT !.at = "settle", !.tx = x]
  <2>1. UNCHANGED <<told, network, recent>> /\ pending' = Append(pending, x) /\ cancelling' = [cancelling EXCEPT ![c] = k]
    BY <1>7 DEF BuildCancellation
  <2>2. x \in Spend
    BY <1>7, SpendShape DEF BuildCancellation, IInv, PhoneShape, IssuerInv, CallsAreTrue
  <2> HIDE DEF x
  <2>3. x \in Tx /\ k.tx = x
    BY <1>0, <2>2 DEF Spend, Tx, CallState
  <2> HIDE DEF k
  <2>4. x \in ToSet(pending)' /\ ToSet(pending) \subseteq ToSet(pending)'
    BY <1>0, <2>1, <2>3, Queued
  <2> QED BY <1>1, <2>1, <2>3, <2>4
<1>8. ASSUME NEW c \in Call, RecordCancelled(c) \/ ForgetTicketSecret(c)
      PROVE  IssuerToldTruly' /\ told' = told
  <2>1. UNCHANGED <<told, network, recent, pending>>
    BY <1>8 DEF RecordCancelled, ForgetTicketSecret
  <2>2. \/ cancelling' = [cancelling EXCEPT ![c] = NoCall]
        \/ cancelling' = [cancelling EXCEPT ![c] = [cancelling[c] EXCEPT !.at = "forget"]]
    BY <1>8 DEF RecordCancelled, ForgetTicketSecret
  <2>3. [cancelling[c] EXCEPT !.at = "forget"].at = "forget"
    BY <1>0 DEF CallState
  <2> QED BY <1>1, <1>3, <2>1, <2>2, <2>3
<1>9. ASSUME NEW c \in Call, SettleCancellation(c)
      PROVE  /\ IssuerToldTruly' /\ told' \in [Phone \cup {Issuer} -> Answer]
             /\ \A p \in Phone : told'[p] = told[p]
  <2> DEFINE call == cancelling[c]
  <2>1. UNCHANGED <<network, recent, pending>> /\ call.at = "settle" /\ call.ticket \in Ticket
    BY <1>9 DEF SettleCancellation, IInv, IssuerInv, CallsAreTrue
  <2>2. CASE told' = told /\ cancelling' = [cancelling EXCEPT ![c] = NoCall]
    BY <1>1, <1>3, <2>1, <2>2
  <2>3. CASE told' = told /\ cancelling' = [cancelling EXCEPT ![c] = [call EXCEPT !.at = "taken"]]
    <3>1. [call EXCEPT !.at = "taken"].at = "taken"
      BY <1>0 DEF CallState
    <3> QED BY <1>1, <2>1, <2>3, <3>1
  <2>4. CASE /\ call.tx \notin ToSet(pending) /\ call.tx \notin recent
             /\ cancelling' = [cancelling EXCEPT ![c] = NoCall] /\ Tell(Issuer, call.ticket, "USED")
    <3>1. Spenders(call.ticket) # {}
      BY <2>1, <2>4 DEF IssuerToldTruly
    <3>2. /\ told' = [told EXCEPT ![Issuer] = <<call.ticket, "USED">>] /\ told'[Issuer] = <<call.ticket, "USED">>
          /\ \A p \in Phone : told'[p] = told[p]
      BY <1>0, <2>4 DEF Tell
    <3>3. told' \in [Phone \cup {Issuer} -> Answer]
      BY <2>1, <3>2 DEF Answer
    <3>4. \A d \in Call : cancelling'[d] = IF d = c THEN NoCall ELSE cancelling[d]
      BY <1>0, <2>4
    <3>5. \A t : Spenders(t)' = Spenders(t)
      BY <2>1 DEF Spenders, IsSpend
    <3>6. ASSUME NEW d \in Call, cancelling'[d].at = "settle"
          PROVE  cancelling'[d].tx \in (ToSet(pending) \cup recent)' \/ Spenders(cancelling[d].ticket)' # {}
      <4>1. cancelling'[d] = cancelling[d]
        BY <1>3, <3>4, <3>6
      <4>2. cancelling[d].tx \in ToSet(pending) \cup recent \/ Spenders(cancelling[d].ticket) # {}
        BY <3>6, <4>1 DEF IssuerToldTruly
      <4> QED BY <2>1, <4>1, <4>2 DEF Spenders, IsSpend
    <3>7. \A t \in Ticket : told'[Issuer] = <<t, "USED">> => Spenders(t)' # {}
      BY <3>1, <3>2, <3>5
    <3>8. IssuerToldTruly'
      BY <3>6, <3>7 DEF IssuerToldTruly
    <3> QED BY <3>2, <3>3, <3>8
  <2> QED BY <1>9, <2>2, <2>3, <2>4 DEF SettleCancellation, Taken
<1>10. ASSUME Offer
       PROVE  IssuerToldTruly' /\ told' = told
  <2> DEFINE h == Head(pending)
  <2>1. told' = told /\ cancelling' = cancelling /\ pending # <<>> /\ network \subseteq network'
    BY <1>10, IssuerOffers DEF Offer, IInv
  <2>2. ToSet(pending) = ToSet(Tail(pending)) \cup {h} /\ h \in ToSet(pending)
    BY <1>0, <2>1, Sent
  <2>3. \/ pending' = Tail(pending) /\ recent' = recent \cup {h}
        \/ pending' = pending /\ recent' = recent
        \/ Conflicts(h) /\ pending' = Tail(pending) /\ recent' = recent
    BY <1>10 DEF Offer
  <2>4. \A t : Spenders(t) \subseteq Spenders(t)'
    BY <2>1 DEF Spenders, IsSpend
  <2> HIDE DEF h
  <2>5. ASSUME NEW d \in Call, cancelling[d].at = "settle"
        PROVE  cancelling[d].tx \in (ToSet(pending) \cup recent)' \/ Spenders(cancelling[d].ticket) # {}
    <3>1. cancelling[d].tx \in ToSet(pending) \cup recent \/ Spenders(cancelling[d].ticket) # {}
      BY <2>5 DEF IssuerToldTruly
    <3>2. cancelling[d].tx.ticket = cancelling[d].ticket
      BY <2>5 DEF IInv, IssuerInv, CallsAreTrue, IsCancellation
    <3>3. CASE cancelling[d].tx = h /\ Conflicts(h)
      BY <3>2, <3>3 DEF Conflicts
    <3>4. CASE cancelling[d].tx # h \/ ~Conflicts(h)
      BY <2>2, <2>3, <3>1, <3>4
    <3> QED BY <3>3, <3>4
  <2>6. ASSUME NEW d \in Call, cancelling'[d].at = "settle"
        PROVE  cancelling'[d].tx \in (ToSet(pending) \cup recent)' \/ Spenders(cancelling[d].ticket)' # {}
    <3>1. cancelling[d].tx \in (ToSet(pending) \cup recent)' \/ Spenders(cancelling[d].ticket) # {}
      BY <2>1, <2>5, <2>6
    <3> QED BY <2>1, <3>1 DEF Spenders, IsSpend
  <2>7. \A t \in Ticket : told'[Issuer] = <<t, "USED">> => Spenders(t)' # {}
    BY <2>1, <2>4 DEF IssuerToldTruly
  <2> QED BY <2>1, <2>6, <2>7 DEF IssuerToldTruly
<1>11. ASSUME RestartIssuer
       PROVE  IssuerToldTruly' /\ told' = told
  <2>1. UNCHANGED <<told, network>> /\ \A d \in Call : cancelling'[d].at = "idle"
    BY <1>3, <1>11 DEF RestartIssuer
  <2> QED BY <2>1 DEF IssuerToldTruly, Spenders, IsSpend
<1> QED BY <1>4, <1>5, <1>6, <1>7, <1>8, <1>9, <1>10, <1>11 DEF IssuerStep

\* Nobody is told anything at the start.
LEMMA OneInit ==
  Init => OneInv
<1> SUFFICES ASSUME Init PROVE OneInv
  OBVIOUS
<1>1. told \in [Phone \cup {Issuer} -> Answer] /\ \A w \in Phone \cup {Issuer} : told[w] = <<None, "NO">>
  BY DEF Init, Answer
<1>2. IssuerToldTruly
  BY <1>1 DEF Init, IssuerToldTruly, NoCall
<1>3. ASSUME NEW p \in Phone PROVE UndecidedOne(p) /\ OneRedemption(p) /\ ToldTruly(p)
  <2>1. UndecidedOne(p) /\ OneRedemption(p)
    BY DEF Init, UndecidedOne, OneRedemption, Undecided, Owned, InQueueOrSent, Idle
  <2>2. ToldTruly(p)
    BY <1>1 DEF Init, ToldTruly, Idle
  <2> QED BY <2>1, <2>2
<1> QED BY <1>1, <1>2, <1>3, InitHolds DEF OneInv

\* Each keeps its own part, again.
LEMMA OneStep ==
  OneInv /\ [Next]_vars => OneInv'
<1> SUFFICES ASSUME OneInv, [Next]_vars PROVE OneInv'
  OBVIOUS
<1>0. IInv /\ IInv' /\ Issuer \notin Phone
  BY StepHolds, TicketAssumption DEF OneInv, TicketAssumption
<1>1. CASE IssuerStep
  <2>1. /\ UNCHANGED <<phoneVars, setup>> /\ abandoned \subseteq abandoned' /\ network \subseteq network'
    <3>1. CASE Offer
      BY <1>0, <3>1, IssuerOffers DEF Offer, IInv
    <3>2. CASE RestartIssuer
      BY <3>2 DEF RestartIssuer
    <3>3. CASE \E t \in Ticket :
                 \/ Expire(t) \/ SealCode(t) \/ Fund(t) \/ Pack(t) \/ List(t) \/ IssueFails(t)
                 \/ PublishListing(t) \/ LearnRedeemed(t)
                 \/ \E c \in Call : CancelTicket(c, t)
      BY <3>3 DEF Expire, SealCode, Fund, Pack, List, IssueFails, PublishListing, LearnRedeemed, CancelTicket, world
    <3>4. CASE \E c \in Call :
                 \/ FindCancellation(c) \/ BuildCancellation(c) \/ SettleCancellation(c)
                 \/ RecordCancelled(c) \/ ForgetTicketSecret(c)
      BY <3>4 DEF FindCancellation, BuildCancellation, SettleCancellation, RecordCancelled, ForgetTicketSecret, world
    <3> QED BY <1>1, <3>1, <3>2, <3>3, <3>4 DEF IssuerStep
  <2>2. /\ IssuerToldTruly' /\ told' \in [Phone \cup {Issuer} -> Answer]
        /\ \A p \in Phone : told'[p] = told[p]
    BY <1>1, IssuerTells DEF OneInv
  <2>3. ASSUME NEW p \in Phone PROVE UndecidedOne(p)' /\ (OneCode(p) => OneRedemption(p))' /\ ToldTruly(p)'
    BY <2>1, <2>2, OneKept DEF OneInv, phoneVars
  <2> QED BY <1>0, <2>2, <2>3 DEF OneInv
<1>2. ASSUME NEW p \in Phone, PhoneStep(p) PROVE OneInv'
  <2>1. OnlyOf(p) /\ Outside(p)
    BY <1>0, <1>2, PhoneFrame DEF IInv
  <2>2. UndecidedOne(p)' /\ (OneCode(p) => OneRedemption(p))'
    <3>1. OneCode(p)' = OneCode(p)
      BY <2>1 DEF Outside, OneCode
    <3> QED BY <1>0, <1>2, <3>1, UndecidedSteps, OneSteps DEF IInv, OneInv
  <2>3. /\ ToldTruly(p)' /\ told' \in [Phone \cup {Issuer} -> Answer]
        /\ \A w \in Phone \cup {Issuer} : w # p => told'[w] = told[w]
    BY <1>0, <1>2, ToldSteps DEF IInv, OneInv
  <2>4. ASSUME NEW q \in Phone \ {p} PROVE UndecidedOne(q)' /\ (OneCode(q) => OneRedemption(q))' /\ ToldTruly(q)'
    BY <2>1, <2>3, OneKept DEF OneInv, OnlyOf, Outside
  <2>5. IssuerToldTruly'
    <3>1. UNCHANGED <<cancelling, pending, recent>> /\ network \subseteq network' /\ told'[Issuer] = told[Issuer]
      BY <1>0, <2>1, <2>3 DEF Outside, issuerVars
    <3> QED BY <3>1 DEF OneInv, IssuerToldTruly, Spenders, IsSpend
  <2> QED BY <1>0, <2>2, <2>3, <2>4, <2>5 DEF OneInv
<1>3. CASE UNCHANGED vars
  <2>1. IssuerToldTruly' /\ told' \in [Phone \cup {Issuer} -> Answer]
    BY <1>3 DEF OneInv, IssuerToldTruly, Spenders, IsSpend, vars, world, phoneVars, issuerVars
  <2>2. ASSUME NEW q \in Phone PROVE UndecidedOne(q)' /\ (OneCode(q) => OneRedemption(q))' /\ ToldTruly(q)'
    BY <1>3, OneKept DEF OneInv, vars, world, phoneVars
  <2> QED BY <1>0, <2>1, <2>2 DEF OneInv
<1> QED BY <1>1, <1>2, <1>3 DEF Next

\* What a phone keeps of redemptions and what it is told agree at all times (ticketRedemption.ts,
\* redeemTicket and resumeTicketRedemption; cadetTicket.ts).
THEOREM OneInductive == Spec => []OneInv
BY OneInit, OneStep, PTL DEF Spec

\* A set whose members are all alike has one at most.
LEMMA AtMostOne ==
  ASSUME NEW S, \A x, y \in S : x = y
  PROVE  Cardinality(S) <= 1
<1>1. CASE S = {}
  BY <1>1, FS_EmptySet
<1>2. CASE S # {}
  <2>1. PICK x \in S : TRUE
    BY <1>2
  <2>2. S = {x}
    BY <2>1
  <2>3. Cardinality({x}) = 1
    BY FS_Singleton
  <2> QED BY <2>2, <2>3
<1> QED BY <1>1, <1>2

\* Whatever fails or restarts, and with however many codes, a phone has at most one redemption
\* of a ticket that the network has yet to decide on, and one whose owner was given one code
\* never has a second (ticketRedemption.ts, redeemTicket; vault.ts, sealRedemption).
THEOREM OneRedemptionEach == Spec => []OneRedemptionAtATime
<1>1. OneInv => OneRedemptionAtATime
  <2> SUFFICES ASSUME OneInv, NEW p \in Phone, NEW t \in Ticket
               PROVE  /\ Cardinality(Of(t, Undecided(p))) <= 1
                      /\ OneCode(p) => Cardinality(Of(t, Kept(p))) <= 1
    BY DEF OneRedemptionAtATime
  <2>1. \A x, y \in Of(t, Undecided(p)) : x = y
    BY DEF OneInv, UndecidedOne, Of
  <2>2. ASSUME OneCode(p) PROVE \A x, y \in Of(t, Kept(p)) : x = y
    BY <2>2 DEF OneInv, OneRedemption, Owned, InQueueOrSent, Kept, Of
  <2> QED BY <2>1, <2>2, AtMostOne
<1> QED BY <1>1, OneInductive, PTL

\* Nobody is refused for a spend of their own, unless they have two codes and it was sent along
\* with that of the other, and the issuer is told "used" of spent tickets only
\* (ticketRedemption.ts, refuseSpentOrExpired; runtime.ts, cancelTicket).
THEOREM RefusalsTellTruth == Spec => []RefusalsAreTrue
<1>1. OneInv => RefusalsAreTrue
  BY DEF OneInv, ToldTruly, IssuerToldTruly, Elsewhere, RefusalsAreTrue
<1> QED BY <1>1, OneInductive, PTL
=============================================================================
