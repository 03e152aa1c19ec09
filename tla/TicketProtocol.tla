--------------------------- MODULE TicketProtocol ---------------------------
(***************************************************************************)
(* Tickets (src/src/unit/runtime.ts, ticketRedemption.ts, cadetTicket.ts,  *)
(* and the screens of src/src/unit/screens/UnitGate.tsx).                  *)
(*                                                                         *)
(* The issuer's device funds a ticket, publishes its package and lists it  *)
(* in the unit's history.  Whoever has the code may spend the funding: a   *)
(* fresh device by a redemption, the issuer by a cancellation.  The        *)
(* network takes the first spend it is offered and refuses every other.    *)
(*                                                                         *)
(* What a device keeps in storage survives a restart; a call that was      *)
(* going does not.  A flush of a wallet is any number of offers while it   *)
(* runs: how a wallet settles its transactions is in DeviceWallet, how the *)
(* history reaches the devices in UnitReplica.                             *)
(***************************************************************************)
EXTENDS Integers, FiniteSets, SequencesExt

CONSTANTS
  Ticket,       \* tickets that may be made
  Phone,        \* devices that belong to no unit yet
  Setups,       \* what is looked at: [cadet: tickets for cadets' phones, given: [Phone -> tickets its
                \* owner is told of], calls: the calls of cancelTicket that are made, maxTrouble:
                \* restarts, failed calls, refusals without a conflict, erasures]
  Call,         \* calls of cancelTicket that may run at a time
  Issuer,       \* the device that makes the tickets
  None,
  MaxSpends     \* bound: spends of one ticket that one device builds

ASSUME TicketAssumption ==
  /\ Setups \subseteq [cadet : SUBSET Ticket, given : [Phone -> SUBSET Ticket], calls : SUBSET Call,
                 maxTrouble : Nat]
  /\ Issuer \notin Phone /\ None \notin Phone \cup Ticket \cup Call
  /\ None \notin [kind : {"cancel", "redeem"}, ticket : Ticket, by : Phone \cup {Issuer}, n : Nat]
  /\ MaxSpends \in Nat

VARIABLES
  setup,
  \* the issuer's device
  issuing,    \* [ticket -> how far issueTicket has come]
  code,       \* tickets whose code its vault keeps
  pending,    \* transactions of its wallet, in the order they are sent
  recent,     \* those its wallet was told the network has
  history,    \* [ticket -> what the unit's history says, as it knows it]
  cancelling, \* [call -> the cancelTicket that is going]
  \* the phones
  vault,      \* [phone -> kind of record it has]
  redeeming,  \* [phone -> the redemption its vault keeps]
  queue,      \* [phone -> redemptions waiting in its wallet]
  sent,       \* [phone -> redemptions its wallet was told the network has]
  joined,     \* [phone -> the ticket it became a member or a cadet's phone by]
  joining,    \* [phone -> the redemption that is going]
  \* outside
  network,    \* transactions the network has
  built,      \* spends ever built
  abandoned,  \* redemptions of devices their owners gave up
  expired,    \* tickets whose week is over
  told,       \* [who -> the last ticket it was refused, and why]
  trouble

issuerVars == <<issuing, code, pending, recent, history, cancelling>>
phoneVars == <<vault, redeeming, queue, sent, joined, joining>>
world == <<setup, network, built, abandoned, expired, told, trouble>>
vars == <<issuerVars, phoneVars, world>>

Funding(t) == [kind |-> "fund", ticket |-> t, by |-> Issuer, n |-> 0]
Package(t) == [kind |-> "package", ticket |-> t, by |-> Issuer, n |-> 0]
Listing(t) == [kind |-> "listing", ticket |-> t, by |-> Issuer, n |-> 0]
IsSpend(x) == x.kind \in {"cancel", "redeem"}
BuiltBy(t, who) == {x \in built : x.ticket = t /\ x.by = who}
Kind(t) == IF t \in setup.cadet THEN "cadet" ELSE "staff"
NewSpend(kind, t, who) == [kind |-> kind, ticket |-> t, by |-> who, n |-> Cardinality(BuiltBy(t, who))]
MayBuild(t, who) == Cardinality(BuiltBy(t, who)) < MaxSpends

Idle == [at |-> "idle", ticket |-> None, tx |-> None, fresh |-> FALSE, conflict |-> FALSE]
NoCall == [at |-> "idle", ticket |-> None, tx |-> None]

Init ==
  /\ setup \in Setups
  /\ issuing = [t \in Ticket |-> "none"]
  /\ code = {} /\ pending = <<>> /\ recent = {}
  /\ history = [t \in Ticket |-> "NONE"]
  /\ cancelling = [c \in Call |-> NoCall]
  /\ vault = [p \in Phone |-> "none"]
  /\ redeeming = [p \in Phone |-> None]
  /\ queue = [p \in Phone |-> {}]
  /\ sent = [p \in Phone |-> {}]
  /\ joined = [p \in Phone |-> None]
  /\ joining = [p \in Phone |-> Idle]
  /\ network = {} /\ built = {} /\ abandoned = {} /\ expired = {} /\ trouble = 0
  /\ told = [who \in Phone \cup {Issuer} |-> <<None, "NO">>]

-----------------------------------------------------------------------------
(* The network and the clock.                                              *)

Spenders(t) == {x \in network : IsSpend(x) /\ x.ticket = t}
Conflicts(x) == IsSpend(x) /\ Spenders(x.ticket) \ {x} # {}
Tell(who, t, why) == told' = [told EXCEPT ![who] = <<t, why>>]
Trouble == trouble < setup.maxTrouble /\ trouble' = trouble + 1

\* A week has passed.  Before anybody read the ticket this only keeps everybody out.
Expire(t) ==
  /\ t \notin expired
  /\ \E p \in Phone : joining[p].ticket = t \/ (redeeming[p] # None /\ redeeming[p].ticket = t)
  /\ expired' = expired \cup {t}
  /\ UNCHANGED <<issuerVars, phoneVars, setup, network, built, abandoned, told, trouble>>

\* What a reader of the ticket's address sees: the index may not list the spend yet.
Sights(t) == {{}, Spenders(t)}

\* (what must not happen: the reader's own spend is taken for another's)
RefusalOfAny(t, seen, own) ==
  IF seen # {} THEN (IF \E x \in seen : x.kind = "cancel" THEN "CANCELLED" ELSE "USED")
  ELSE IF t \in expired THEN "EXPIRED" ELSE "NO"

\* refuseSpentOrExpired.
Refusal(t, seen, own) ==
  IF seen \ {own} # {} THEN (IF \E x \in seen : x.kind = "cancel" THEN "CANCELLED" ELSE "USED")
  ELSE IF seen = {} /\ t \in expired THEN "EXPIRED" ELSE "NO"

-----------------------------------------------------------------------------
(* The issuer makes a ticket.                                              *)

Making(t) == issuing[t] \in {"coded", "funded", "packed"}
Advance(t, from, to) == issuing[t] = from /\ issuing' = [issuing EXCEPT ![t] = to]

\* sealTicketSecret, before any money moves.
SealCode(t) ==
  /\ \E p \in Phone : t \in setup.given[p]
  /\ Advance(t, "none", "coded")
  /\ code' = code \cup {t}
  /\ UNCHANGED <<pending, recent, history, cancelling, phoneVars, world>>

\* prepareTransfer.
Fund(t) ==
  /\ Advance(t, "coded", "funded")
  /\ pending' = Append(pending, Funding(t))
  /\ UNCHANGED <<code, recent, history, cancelling, phoneVars, world>>

\* prepareRecords.
Pack(t) ==
  /\ Advance(t, "funded", "packed")
  /\ pending' = Append(pending, Package(t))
  /\ UNCHANGED <<code, recent, history, cancelling, phoneVars, world>>

\* recordTicketIssued, recordCadetTicketIssued; the code is shown.
List(t) ==
  /\ Advance(t, "packed", "listed")
  /\ history' = [history EXCEPT ![t] = "OPEN"]
  /\ UNCHANGED <<code, pending, recent, cancelling, phoneVars, world>>

\* (what must not happen: whatever failed, the code is forgotten)
ForgetCode(t) == code \ {t}

\* The code is forgotten when nothing was funded yet.
CodeAfterFailure(t) == IF issuing[t] = "coded" THEN code \ {t} ELSE code
IssueFails(t) ==
  /\ Trouble
  /\ Making(t)
  /\ issuing' = [issuing EXCEPT ![t] = "failed"]
  /\ code' = CodeAfterFailure(t)
  /\ UNCHANGED <<pending, recent, history, cancelling, phoneVars, setup, network, built, abandoned, expired, told>>

\* The transport publishes what was listed, once.
Published(t) == Listing(t) \in ToSet(pending) \cup recent
PublishListing(t) ==
  /\ history[t] # "NONE" /\ ~Published(t)
  /\ pending' = Append(pending, Listing(t))
  /\ UNCHANGED <<issuing, code, recent, history, cancelling, phoneVars, world>>

\* A flush, of the transport or of cancelTicket: the oldest transaction is taken, or
\* the answer is lost and the network has it (which matters for a spend only), or it is refused and withdrawn.
Offer ==
  /\ pending # <<>>
  /\ LET x == Head(pending) IN
     \/ /\ ~Conflicts(x)
        /\ network' = network \cup {x} /\ pending' = Tail(pending) /\ recent' = recent \cup {x}
     \/ /\ IsSpend(x) /\ ~Conflicts(x) /\ x \notin network
        /\ network' = network \cup {x} /\ UNCHANGED <<pending, recent>>
     \/ /\ Conflicts(x)
        /\ pending' = Tail(pending) /\ UNCHANGED <<network, recent>>
  /\ UNCHANGED <<issuing, code, history, cancelling, phoneVars, setup, built, abandoned, expired, told, trouble>>

\* The TICKET_REDEEMED of a staff ticket arrives with its spend.
LearnRedeemed(t) ==
  /\ Kind(t) = "staff" /\ history[t] = "OPEN"
  /\ \E x \in Spenders(t) : x.kind = "redeem"
  /\ history' = [history EXCEPT ![t] = "REDEEMED"]
  /\ UNCHANGED <<issuing, code, pending, recent, cancelling, phoneVars, world>>

-----------------------------------------------------------------------------
(* The issuer cancels a ticket.                                            *)

Cancelling(c, at) == cancelling[c].at = at
SetCall(c, call) == cancelling' = [cancelling EXCEPT ![c] = call]

\* Only a listed staff ticket that is open, whose code this device still has.
CancelTicket(c, t) ==
  /\ c \in setup.calls /\ Cancelling(c, "idle")
  /\ Kind(t) = "staff" /\ history[t] = "OPEN" /\ t \in code
  /\ SetCall(c, [at |-> "find", ticket |-> t, tx |-> None])
  /\ UNCHANGED <<issuing, code, pending, recent, history, phoneVars, world>>

IsCancellation(x, t) == x.kind = "cancel" /\ x.ticket = t
FindCancellation(c) ==
  LET t == cancelling[c].ticket
      mine == {i \in DOMAIN pending : IsCancellation(pending[i], t)}
  IN
  /\ Cancelling(c, "find")
  /\ \/ mine = {} /\ SetCall(c, [cancelling[c] EXCEPT !.at = "build"])
     \/ \E i \in mine :
          /\ \A j \in mine : i <= j
          /\ SetCall(c, [cancelling[c] EXCEPT !.at = "settle", !.tx = pending[i]])
  /\ UNCHANGED <<issuing, code, pending, recent, history, phoneVars, world>>

\* prepareSpendOfOutpoint.
BuildCancellation(c) ==
  /\ Cancelling(c, "build") /\ MayBuild(cancelling[c].ticket, Issuer)
  /\ LET x == NewSpend("cancel", cancelling[c].ticket, Issuer) IN
     /\ pending' = Append(pending, x)
     /\ built' = built \cup {x}
     /\ SetCall(c, [cancelling[c] EXCEPT !.at = "settle", !.tx = x])
  /\ UNCHANGED <<issuing, code, recent, history, phoneVars, setup, network, abandoned, expired, told, trouble>>

\* (what must not happen: what does not wait any more was taken)
TakenIfNotPending(x) == x \notin ToSet(pending)

\* pending, then ownTxHex: what does not wait any more is with the network if the
\* wallet still knows it.
Taken(x) == x \in recent
SettleCancellation(c) ==
  LET call == cancelling[c] IN
  /\ Cancelling(c, "settle")
  /\ IF call.tx \in ToSet(pending) THEN SetCall(c, NoCall) /\ UNCHANGED told
     ELSE IF Taken(call.tx) THEN SetCall(c, [call EXCEPT !.at = "taken"]) /\ UNCHANGED told
     ELSE SetCall(c, NoCall) /\ Tell(Issuer, call.ticket, "USED")
  /\ UNCHANGED <<issuing, code, pending, recent, history, phoneVars, setup, network, built, abandoned, expired, trouble>>

\* recordTicketCancelled, refused by the fold when the ticket is closed.
RecordCancelled(c) ==
  LET t == cancelling[c].ticket IN
  /\ Cancelling(c, "taken")
  /\ IF history[t] = "OPEN"
     THEN /\ history' = [history EXCEPT ![t] = "CANCELLED"]
          /\ SetCall(c, [cancelling[c] EXCEPT !.at = "forget"])
     ELSE SetCall(c, NoCall) /\ UNCHANGED history
  /\ UNCHANGED <<issuing, code, pending, recent, phoneVars, world>>
ForgetTicketSecret(c) ==
  /\ Cancelling(c, "forget")
  /\ code' = code \ {cancelling[c].ticket}
  /\ SetCall(c, NoCall)
  /\ UNCHANGED <<issuing, pending, recent, history, phoneVars, world>>

\* The page ends: no call goes on.
RestartIssuer ==
  /\ Trouble
  /\ (\E c \in Call : ~Cancelling(c, "idle")) \/ \E t \in Ticket : Making(t)
  /\ issuing' = [t \in Ticket |-> IF Making(t) THEN "failed" ELSE issuing[t]]
  /\ cancelling' = [c \in Call |-> NoCall]
  /\ UNCHANGED <<code, pending, recent, history, phoneVars, setup, network, built, abandoned, expired, told>>

-----------------------------------------------------------------------------
(* A phone reads a ticket and joins.                                       *)

At(p, at) == joining[p].at = at
Step(p, to) == joining' = [joining EXCEPT ![p] = to]
Go(p, at) == Step(p, [joining[p] EXCEPT !.at = at])
\* The device is erased: forgetDevice.
Erased(p) ==
  /\ vault' = [vault EXCEPT ![p] = "none"]
  /\ redeeming' = [redeeming EXCEPT ![p] = None]
  /\ queue' = [queue EXCEPT ![p] = {}]
  /\ sent' = [sent EXCEPT ![p] = {}]

\* readTicket, readCadetTicket: on a fresh device, or on one that is joining.
ReadTicket(p, t) ==
  /\ At(p, "idle") /\ joined[p] = None
  /\ t \in setup.given[p] /\ issuing[t] = "listed" /\ Package(t) \in network
  /\ vault[p] = "none" \/ (vault[p] = "staff" /\ Kind(t) = "staff")
  /\ \E seen \in Sights(t) : Refusal(t, seen, None) = "NO"
  /\ Step(p, [at |-> "read", ticket |-> t, tx |-> None, fresh |-> vault[p] = "none", conflict |-> FALSE])
  /\ Tell(p, None, "NO")
  /\ UNCHANGED <<issuerVars, vault, redeeming, queue, sent, joined, setup, network, built, abandoned, expired, trouble>>

\* (what must not happen: what the wallet built before is not looked for)
NotLookedFor(p, t) == {}

\* The redemption a phone's wallet has built before.
BuiltBefore(p, t) == {x \in queue[p] : x.ticket = t}

\* redeemTicket: the vault is made, and an earlier redemption of this ticket is taken
\* up again.  One of another ticket is in the way.
StartRedemption(p) ==
  LET t == joining[p].ticket IN
  /\ At(p, "read") /\ Kind(t) = "staff"
  /\ vault' = [vault EXCEPT ![p] = "staff"]
  /\ IF redeeming[p] # None
     THEN IF redeeming[p].ticket = t THEN Step(p, [joining[p] EXCEPT !.at = "send", !.tx = redeeming[p]])
          ELSE Step(p, Idle)
     ELSE IF BuiltBefore(p, t) = {} THEN Go(p, "build")
     ELSE \E x \in BuiltBefore(p, t) : Step(p, [joining[p] EXCEPT !.at = "seal", !.tx = x])
  /\ UNCHANGED <<issuerVars, redeeming, queue, sent, joined, world>>

\* prepareRedemption, once the ticket's listing is on the network and in its week.
PrepareRedemption(p) ==
  LET t == joining[p].ticket
      x == NewSpend("redeem", t, p)
  IN
  /\ At(p, "build") /\ Kind(t) = "staff"
  /\ Listing(t) \in network /\ t \notin expired /\ MayBuild(t, p)
  /\ queue' = [queue EXCEPT ![p] = @ \cup {x}]
  /\ built' = built \cup {x}
  /\ Step(p, [joining[p] EXCEPT !.at = "seal", !.tx = x])
  /\ UNCHANGED <<issuerVars, vault, redeeming, sent, joined, setup, network, abandoned, expired, told, trouble>>

\* redeemCadetTicket: the redemption is built in memory, then the vault is made.
BuildRedemption(p) ==
  LET t == joining[p].ticket
      x == NewSpend("redeem", t, p)
  IN
  /\ At(p, "read") /\ Kind(t) = "cadet" /\ vault[p] = "none"
  /\ t \notin expired /\ MayBuild(t, p)
  /\ built' = built \cup {x}
  /\ Step(p, [joining[p] EXCEPT !.at = "vault", !.tx = x])
  /\ UNCHANGED <<issuerVars, vault, redeeming, queue, sent, joined, setup, network, abandoned, expired, told, trouble>>
CreateCadetVault(p) ==
  /\ At(p, "vault")
  /\ vault' = [vault EXCEPT ![p] = "cadet"]
  /\ Go(p, "seal")
  /\ UNCHANGED <<issuerVars, redeeming, queue, sent, joined, world>>

\* sealRedemption, sealCadetRedemption.
SealRedemption(p) ==
  /\ At(p, "seal")
  /\ redeeming' = [redeeming EXCEPT ![p] = joining[p].tx]
  /\ Go(p, "send")
  /\ UNCHANGED <<issuerVars, vault, queue, sent, joined, world>>

-----------------------------------------------------------------------------
(* A staff phone's wallet sends its redemption.                            *)

OfferRedemption(p) ==
  /\ At(p, "send") /\ vault[p] = "staff"
  /\ \E x \in queue[p] :
       \/ /\ ~Conflicts(x)
          /\ network' = network \cup {x}
          /\ queue' = [queue EXCEPT ![p] = @ \ {x}]
          /\ sent' = [sent EXCEPT ![p] = @ \cup {x}]
          /\ UNCHANGED <<joining, trouble>>
       \/ /\ ~Conflicts(x) /\ x \notin network
          /\ network' = network \cup {x}
          /\ UNCHANGED <<queue, sent, joining, trouble>>
       \/ /\ x \notin network /\ (IF Conflicts(x) THEN UNCHANGED trouble ELSE Trouble)
          /\ queue' = [queue EXCEPT ![p] = @ \ {x}]
          /\ Step(p, [joining[p] EXCEPT !.conflict = @ \/ (x = joining[p].tx /\ Conflicts(x))])
          /\ UNCHANGED <<network, sent>>
  /\ UNCHANGED <<issuerVars, vault, redeeming, joined, setup, built, abandoned, expired, told>>

\* It waits, the network has it, or it was withdrawn and nothing is kept of it.
SettleRedemption(p) ==
  LET x == joining[p].tx IN
  /\ At(p, "send") /\ vault[p] = "staff"
  /\ IF x \in queue[p] THEN Step(p, Idle) /\ UNCHANGED redeeming
     ELSE IF x \in sent[p] THEN Go(p, "taken") /\ UNCHANGED redeeming
     ELSE Go(p, "refused") /\ redeeming' = [redeeming EXCEPT ![p] = None]
  /\ UNCHANGED <<issuerVars, vault, queue, sent, joined, world>>

\* A cadet's phone hands its redemption to the network itself.
BroadcastRedemption(p) ==
  LET x == joining[p].tx IN
  /\ At(p, "send") /\ vault[p] = "cadet"
  /\ \/ /\ ~Conflicts(x)
        /\ network' = network \cup {x}
        /\ Go(p, "taken")
        /\ UNCHANGED <<vault, redeeming, trouble>>
     \/ /\ Step(p, Idle)
        /\ network' = network \/ (~Conflicts(x) /\ network' = network \cup {x})
        /\ UNCHANGED <<vault, redeeming, trouble>>
     \/ /\ x \notin network /\ (IF Conflicts(x) THEN UNCHANGED trouble ELSE Trouble)
        /\ redeeming' = [redeeming EXCEPT ![p] = None]
        /\ vault' = [vault EXCEPT ![p] = IF joining[p].fresh THEN "none" ELSE @]
        /\ Step(p, [joining[p] EXCEPT !.at = "refused", !.conflict = Conflicts(x)])
        /\ UNCHANGED network
  /\ UNCHANGED <<issuerVars, queue, sent, joined, setup, built, abandoned, expired, told>>

\* The address is read again to say who spent the ticket; a device that was made for
\* it is not kept.
TellRefused(p) ==
  LET t == joining[p].ticket IN
  /\ At(p, "refused")
  /\ \E seen \in Sights(t) :
       LET why == Refusal(t, seen, None) IN
       Tell(p, t, IF why # "NO" THEN why ELSE IF joining[p].conflict THEN "USED" ELSE "AGAIN")
  /\ IF joining[p].fresh THEN Erased(p) ELSE UNCHANGED <<vault, redeeming, queue, sent>>
  /\ Step(p, Idle)
  /\ UNCHANGED <<issuerVars, joined, setup, network, built, abandoned, expired, trouble>>

\* completeTicketRedemption, completeCadetRedemption.
Complete(p) ==
  /\ At(p, "taken")
  /\ joined' = [joined EXCEPT ![p] = joining[p].ticket]
  /\ redeeming' = [redeeming EXCEPT ![p] = None]
  /\ Step(p, Idle)
  /\ UNCHANGED <<issuerVars, vault, queue, sent, world>>

\* resumeTicketRedemption, resumeCadetRedemption: the same transaction again, unless
\* the ticket is refused when it is read.
Resume(p) ==
  LET x == redeeming[p] IN
  /\ At(p, "idle") /\ joined[p] = None /\ x # None
  /\ \E seen \in Sights(x.ticket) :
       LET why == Refusal(x.ticket, seen, x) IN
       IF why = "NO"
       THEN /\ Step(p, [at |-> "send", ticket |-> x.ticket, tx |-> x, fresh |-> FALSE, conflict |-> FALSE])
            /\ Tell(p, None, "NO")
       ELSE Tell(p, x.ticket, why) /\ UNCHANGED joining
  /\ UNCHANGED <<issuerVars, vault, redeeming, queue, sent, joined, setup, network, built, abandoned, expired, trouble>>

\* (what must not happen: what was sealed is not looked at)
GiveUpAlways(p) ==
  /\ IF joining[p].fresh /\ vault[p] # "cadet" THEN Erased(p) ELSE UNCHANGED <<vault, redeeming, queue, sent>>
  /\ Step(p, Idle)

\* A call fails before the network decided: a device that keeps no redemption and was
\* made for this ticket is not kept.
GiveUp(p) ==
  /\ IF joining[p].fresh /\ redeeming[p] = None /\ vault[p] # "cadet" THEN Erased(p)
     ELSE UNCHANGED <<vault, redeeming, queue, sent>>
  /\ Step(p, Idle)
JoinFails(p) ==
  /\ Trouble
  /\ ~At(p, "idle") /\ ~At(p, "refused")
  /\ GiveUp(p)
  /\ UNCHANGED <<issuerVars, joined, setup, network, built, abandoned, expired, told>>

\* Nothing is built after the week, nor by a member before it finds the listing (the
\* index may not list it yet).
NothingBuilt(p) ==
  /\ At(p, "build") \/ (At(p, "read") /\ Kind(joining[p].ticket) = "cadet" /\ joining[p].ticket \in expired)
  /\ GiveUp(p)
  /\ UNCHANGED <<issuerVars, joined, world>>

\* A cadet's vault that holds no redemption is dropped when it is unlocked.
DropEmptyVault(p) ==
  /\ At(p, "idle") /\ vault[p] = "cadet" /\ joined[p] = None /\ redeeming[p] = None
  /\ vault' = [vault EXCEPT ![p] = "none"]
  /\ UNCHANGED <<issuerVars, redeeming, queue, sent, joined, joining, world>>

RestartPhone(p) ==
  /\ Trouble /\ ~At(p, "idle")
  /\ Step(p, Idle)
  /\ UNCHANGED <<issuerVars, vault, redeeming, queue, sent, joined, setup, network, built, abandoned, expired, told>>

\* The owner gives the device up.
ErasePhone(p) ==
  /\ Trouble
  /\ At(p, "idle") /\ vault[p] # "none" /\ joined[p] = None
  /\ Erased(p)
  /\ abandoned' = abandoned \cup {x \in built : x.by = p}
  /\ UNCHANGED <<issuerVars, joined, joining, setup, network, built, expired, told>>

-----------------------------------------------------------------------------
IssuerStep ==
  \/ \E t \in Ticket :
       \/ Expire(t) \/ SealCode(t) \/ Fund(t) \/ Pack(t) \/ List(t) \/ IssueFails(t)
       \/ PublishListing(t) \/ LearnRedeemed(t)
       \/ \E c \in Call : CancelTicket(c, t)
  \/ \E c \in Call :
       \/ FindCancellation(c) \/ BuildCancellation(c) \/ SettleCancellation(c)
       \/ RecordCancelled(c) \/ ForgetTicketSecret(c)
  \/ Offer \/ RestartIssuer

PhoneStep(p) ==
  \/ \E t \in Ticket : ReadTicket(p, t)
  \/ StartRedemption(p) \/ PrepareRedemption(p) \/ BuildRedemption(p) \/ CreateCadetVault(p)
  \/ SealRedemption(p) \/ OfferRedemption(p) \/ SettleRedemption(p) \/ BroadcastRedemption(p)
  \/ TellRefused(p) \/ Complete(p) \/ Resume(p) \/ JoinFails(p) \/ NothingBuilt(p)
  \/ DropEmptyVault(p) \/ RestartPhone(p) \/ ErasePhone(p)

Next == IssuerStep \/ \E p \in Phone : PhoneStep(p)

Spec == Init /\ [][Next]_vars

-----------------------------------------------------------------------------
(* Properties.                                                             *)

Spend == [kind : {"cancel", "redeem"}, ticket : Ticket, by : Phone \cup {Issuer}, n : Nat]
Joining == [at : {"idle", "read", "build", "vault", "seal", "send", "taken", "refused"},
            ticket : Ticket \cup {None}, tx : Spend \cup {None}, fresh : BOOLEAN, conflict : BOOLEAN]

\* Every variable keeps its shape, nothing waits twice in the issuer's wallet, and a
\* device holds only redemptions it built.
TypeOK ==
  /\ issuing \in [Ticket -> {"none", "coded", "funded", "packed", "listed", "failed"}]
  /\ IsInjective(pending)
  /\ code \subseteq Ticket /\ expired \subseteq Ticket
  /\ history \in [Ticket -> {"NONE", "OPEN", "REDEEMED", "CANCELLED"}]
  /\ vault \in [Phone -> {"none", "staff", "cadet"}]
  /\ joined \in [Phone -> Ticket \cup {None}]
  /\ joining \in [Phone -> Joining]
  /\ built \subseteq Spend /\ abandoned \subseteq built
  /\ \A p \in Phone :
       queue[p] \cup sent[p] \cup ({redeeming[p], joining[p].tx} \ {None}) \subseteq {x \in built : x.by = p}

\* Who spent the funding decides: a device is in only by its own redemption that the
\* network took, and the unit shows a ticket as cancelled only when the issuer's
\* cancellation was taken, however often either was asked, unanswered or interrupted.
NetworkDecides ==
  /\ \A p \in Phone : joined[p] # None => \E x \in Spenders(joined[p]) : x.kind = "redeem" /\ x.by = p
  /\ \A t \in Ticket : history[t] = "CANCELLED" => \E x \in Spenders(t) : x.kind = "cancel"

\* What a phone has of redemptions: in its wallet, and in its vault.
Kept(p) == queue[p] \cup sent[p] \cup ({redeeming[p]} \ {None})
\* Those of them that its wallet does not know to be with the network.
Undecided(p) == queue[p] \cup ({redeeming[p]} \ ({None} \cup sent[p]))
Of(t, redemptions) == {x \in redemptions : x.ticket = t}
OneCode(p) == \A s, t \in setup.given[p] : s = t

\* Whatever fails or restarts on the way, a phone never has two redemptions of a ticket
\* that the network has yet to decide on, and one whose owner was given one code never has
\* a second at all: what it kept, or what its wallet built before it was kept, is taken up
\* again (redeemTicket, resumeTicketRedemption).
OneRedemptionAtATime ==
  \A p \in Phone, t \in Ticket :
    /\ Cardinality(Of(t, Undecided(p))) <= 1
    /\ OneCode(p) => Cardinality(Of(t, Kept(p))) <= 1

\* A redemption the network took is never lost by the phone that made it: it is in, or
\* what it keeps lets it finish, unless its owner gave the device up.
TakenIsNotForgotten ==
  \A p \in Phone : \A x \in network \ abandoned :
    x.by = p => joined[p] # None \/ x = redeeming[p] \/ x \in queue[p] \cup sent[p]

\* "Sealed before any money moves" (src/src/unit/runtime.ts:369): while the funding is
\* queued or on the network and nobody spent it, the issuer's vault keeps the code.
CodeKeptWhileSpendable ==
  \A t \in Ticket :
    Funding(t) \in ToSet(pending) \cup network /\ Spenders(t) = {} => t \in code

\* A phone that is told why it may not join is told the truth: cancelled only when the
\* issuer's cancellation was taken, used only when somebody else's spend was; and the
\* issuer is told "used" only of a ticket whose funding is spent.
RefusalsAreTrue ==
  \A p \in Phone, t \in Ticket :
    /\ told[p] = <<t, "CANCELLED">> => \E x \in Spenders(t) : x.kind = "cancel"
    /\ told[p] = <<t, "USED">> =>
         \E x \in Spenders(t) : x.by # p \/ x \in abandoned \/ (~OneCode(p) /\ x \in sent[p])
    /\ told[Issuer] = <<t, "USED">> => Spenders(t) # {}
=============================================================================
