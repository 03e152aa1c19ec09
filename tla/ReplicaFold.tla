---------------------------- MODULE ReplicaFold ----------------------------
(***************************************************************************)
(* What a device computes from the events it knows: who was authorized     *)
(* (src/src/auth/authorization.ts) and the projection of stock and members *)
(* (the fold of src/src/distributed/replica.ts).                           *)
(*                                                                         *)
(* An event is its place in `log`, the sequence of all events any device   *)
(* ever signed.  That place is also the time on its timestamp: the clocks  *)
(* of the devices agree.  A credential is named by the event that brings   *)
(* it, and a revocation by the event that carries it.                      *)
(*                                                                         *)
(* The stock is one item.  Author tags, which order events of one clock,   *)
(* are the numbers of the devices.                                         *)
(***************************************************************************)
EXTENDS EventOrder, FiniteSets, SequencesExt

CONSTANTS
  Device,      \* the members' devices, numbered by author tag
  MaxEvents    \* bound: events ever signed

ASSUME ReplicaAssumption == Device \subseteq Nat \ {0} /\ MaxEvents \in Nat

Event == 1..MaxEvents
NoEvent == 0
Authority == 0          \* rootIdentity

Roles == {"MASTER", "SUPPLY_OFFICER", "SUPPLY_ASSISTANT"}
StockTypes == {"INVENTORY_RECEIVED", "ITEM_ISSUED", "INVENTORY_COUNT_SUBMITTED"}
EventTypes ==
  StockTypes \cup {"AUTHORITY_GRANTED", "TICKET_REDEEMED", "AUTHORITY_REVOKED", "ROLE_CHANGED"}

\* The roles whose permissions cover an event of this type.
RolesFor(type) ==
  CASE type = "INVENTORY_RECEIVED" -> {"MASTER", "SUPPLY_OFFICER"}
    [] type \in StockTypes -> Roles
    [] type \in {"AUTHORITY_GRANTED", "AUTHORITY_REVOKED", "ROLE_CHANGED"} -> {"MASTER"}

\* Types that PERMISSION_FOR lists; a redemption stands on its ticket instead.
NeedsPermission(type) == type # "TICKET_REDEEMED"

\* A ticket credential counts only when it came in its own redemption; a direct
\* one counts wherever it travels.
BringsCredential(e) == e.type \in {"AUTHORITY_GRANTED", "TICKET_REDEEMED", "ROLE_CHANGED"}
IsDirect(e) == e.type \in {"AUTHORITY_GRANTED", "ROLE_CHANGED"}
BringsRevocation(e) == e.type \in {"AUTHORITY_REVOKED", "ROLE_CHANGED"}

-----------------------------------------------------------------------------
(* Authorization: creds are the credentials accepted, revs the revocation  *)
(* each one has, or NoEvent.                                               *)

CredentialActiveAt(revs, c, at) ==
  /\ c <= at
  /\ revs[c] = NoEvent \/ revs[c] > at

\* A Master's credential is only ever issued by the authority, so a chain has
\* at most two links.
IssuerCanAuthorize(log, creds, revs, issuer, at) ==
  \/ issuer = Authority
  \/ \E c \in creds :
       /\ log[c].subject = issuer /\ log[c].role = "MASTER"
       /\ CredentialActiveAt(revs, c, at)

ChainValid(log, creds, revs, c) ==
  IssuerCanAuthorize(log, creds, revs, log[c].issuer, c)

\* require: any active credential whose role permits it.
Allowed(log, creds, revs, device, type, at) ==
  \E c \in creds :
    /\ log[c].subject = device /\ log[c].role \in RolesFor(type)
    /\ CredentialActiveAt(revs, c, at)
    /\ ChainValid(log, creds, revs, c)

CanAcceptCredential(log, creds, revs, c) ==
  /\ IssuerCanAuthorize(log, creds, revs, log[c].issuer, c)
  /\ log[c].role = "MASTER" => log[c].issuer = Authority

\* Event r revokes the credential log[r].old, from its own time on.
CanAcceptRevocation(log, creds, revs, r) ==
  /\ log[r].old \in creds
  /\ IssuerCanAuthorize(log, creds, revs, log[r].issuer, r)
  /\ log[log[r].old].role = "MASTER" => log[r].issuer = Authority

SetRevocation(log, revs, r) == [revs EXCEPT ![log[r].old] = r]

-----------------------------------------------------------------------------
(* The fold.                                                               *)

NoMember == [status |-> "NONE", role |-> "NONE", credential |-> NoEvent, roleChanged |-> FALSE]

Genesis == [onHand |-> 0, issued |-> 0, version |-> 0, applied |-> {}, conflicts |-> {},
            members |-> [d \in Device |-> NoMember], rejected |-> {}, clock |-> 0]

\* The checks in front of the switch: the credential at the claimed time, and
\* the author's place in the history folded so far.
AuthorMay(log, creds, revs, p, n) ==
  LET e == log[n]  member == p.members[e.author] IN
  NeedsPermission(e.type) =>
    /\ Allowed(log, creds, revs, e.author, e.type, n)
    /\ member.status # "REVOKED"
    /\ member.roleChanged => member.role \in RolesFor(e.type)

\* What the switch itself throws for.
Applicable(log, creds, revs, p, n) ==
  LET e == log[n]  member == p.members[e.subject] IN
  CASE e.type = "TICKET_REDEEMED" -> n \in creds /\ ChainValid(log, creds, revs, n)
    [] e.type = "ROLE_CHANGED" ->
         member.status = "ACTIVE" /\ e.old = member.credential /\ n \in creds
    [] OTHER -> TRUE

AddConflict(p, n, related) == [p EXCEPT !.conflicts = @ \cup {[loser |-> n, events |-> related \cup {n}]}]

\* An issue that the stock does not cover is kept as a conflict with the issues
\* applied before it; a count of another version than this one with every event
\* of its own version folded before it.
Consumers(log, p) == {m \in p.applied : log[m].type = "ITEM_ISSUED"}
SameBase(log, all, n) ==
  {m \in all : log[m].type \in StockTypes /\ log[m].base = log[n].base /\ Before(log, m, n)}

Stock(p, n, onHand, issued) ==
  [p EXCEPT !.onHand = onHand, !.issued = issued, !.version = @ + 1, !.applied = @ \cup {n}]

SetMember(p, d, status, role, c, changed) ==
  [p EXCEPT !.members[d] = [status |-> status, role |-> role, credential |-> c, roleChanged |-> changed]]

ReceiveStock(log, p, n) == Stock(p, n, p.onHand + log[n].quantity, p.issued)

IssueUncovered(log, p, n) ==
  Stock(p, n, p.onHand - log[n].quantity, p.issued + log[n].quantity)
IssueItem(log, p, n) ==
  IF p.onHand < log[n].quantity
  THEN AddConflict(p, n, Consumers(log, p))
  ELSE Stock(p, n, p.onHand - log[n].quantity, p.issued + log[n].quantity)

SubmitCount(log, all, p, n) ==
  IF log[n].base # p.version
  THEN AddConflict(p, n, SameBase(log, all, n))
  ELSE Stock(p, n, log[n].quantity, p.issued)

\* Revoking a credential the member no longer uses does not remove them.
RevokeMember(log, p, n) ==
  LET e == log[n] IN
  IF p.members[e.subject].credential = e.old
  THEN [p EXCEPT !.members[e.subject].status = "REVOKED"]
  ELSE p

\* The switch of applyEvent; `all` are the events stored so far.
Effect(log, all, p, n) ==
  LET e == log[n] IN
  CASE e.type = "INVENTORY_RECEIVED" -> ReceiveStock(log, p, n)
    [] e.type = "ITEM_ISSUED" -> IssueItem(log, p, n)
    [] e.type = "INVENTORY_COUNT_SUBMITTED" -> SubmitCount(log, all, p, n)
    [] e.type \in {"AUTHORITY_GRANTED", "TICKET_REDEEMED"} ->
         SetMember(p, e.subject, "ACTIVE", e.role, n, FALSE)
    [] e.type = "AUTHORITY_REVOKED" -> RevokeMember(log, p, n)
    [] e.type = "ROLE_CHANGED" -> SetMember(p, e.subject, "ACTIVE", e.role, n, TRUE)

\* tryApply: an event that may not be applied is set aside and moves no clock.
TryApply(log, creds, revs, all, p, n) ==
  IF AuthorMay(log, creds, revs, p, n) /\ Applicable(log, creds, revs, p, n)
  THEN LET q == Effect(log, all, p, n)
       IN  [q EXCEPT !.clock = IF @ < log[n].clock THEN log[n].clock ELSE @]
  ELSE [p EXCEPT !.rejected = @ \cup {n}]

\* The events of S, in order, on top of the projection p.
FoldFrom(log, creds, revs, all, p, S) ==
  LET fold[T \in SUBSET S] ==
        IF T = {} THEN p
        ELSE LET n == LastOf(log, T)
             IN  TryApply(log, creds, revs, all, fold[T \ {n}], n)
  IN  fold[S]

Rebuild(log, creds, revs, all) == FoldFrom(log, creds, revs, all, Genesis, all)
=============================================================================
