--------------------------- MODULE MCUnitReplica ---------------------------
(***************************************************************************)
(* Small units: a founder, who holds the authority, and members who joined *)
(* by ticket, some of whom the others have not heard of yet.               *)
(***************************************************************************)
EXTENDS UnitReplica

Joined(type, d, n, role) ==
  [type |-> type, author |-> d, clock |-> n, subject |-> d, role |-> role, old |-> NoEvent,
   issuer |-> Authority, quantity |-> 0, base |-> -1]

Founder == Joined("AUTHORITY_GRANTED", 1, 1, "MASTER")
Officer(d, n) == Joined("TICKET_REDEEMED", d, n, "SUPPLY_OFFICER")

\* A founder who took one thing into stock, and an officer the founder has not
\* heard of.
Received(d, n) ==
  [Joined("INVENTORY_RECEIVED", d, n, "NONE") EXCEPT !.subject = NoEvent, !.issuer = d, !.quantity = 1]
PairFounding == <<Founder, Received(1, 2), Officer(2, 3)>>
PairHeard == (1 :> {1, 2}) @@ (2 :> {1, 2, 3})

Every == [d \in Device |-> StockTypes \cup {"AUTHORITY_REVOKED", "ROLE_CHANGED"}]
=============================================================================
