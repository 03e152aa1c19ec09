-------------------------- MODULE MCTicketProtocol --------------------------
(* Instances of TicketProtocol. *)
EXTENDS TicketProtocol, TLC

CONSTANTS t1, t2, p1, p2

\* Two people with one code, of a staff ticket or of a cadet's, and what may go wrong; one
\* person with two codes, and another who may have one of them.
Alone == {[p \in Phone |-> {t}] : t \in Ticket}
Race(n) == [cadet : {{}}, given : Alone, calls : {Call}, maxTrouble : {n}]
Cadets(n) == [cadet : {{t} : t \in Ticket}, given : Alone, calls : {Call}, maxTrouble : {n}]
TwoCodes(others, calls, n) ==
  [cadet : {{}}, calls : {calls}, maxTrouble : {n},
   given : {[p \in Phone |-> IF p = q THEN Ticket ELSE S] : q \in Phone, S \in others}]

\* With two codes either the ticket is cancelled meanwhile or something goes wrong.
MCSetups ==
  Race(1) \cup {s \in Cadets(2) : \A p \in Phone : s.given[p] = s.cadet}
    \cup TwoCodes({{}}, Call, 0) \cup TwoCodes({{}} \cup {{t} : t \in Ticket}, {}, 1)

Alike == Permutations(Phone) \cup Permutations(Ticket)
=============================================================================
