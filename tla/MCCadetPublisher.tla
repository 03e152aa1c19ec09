-------------------------- MODULE MCCadetPublisher --------------------------
(* Small units for CadetPublisher: who the staff are and what they will do. *)
EXTENDS CadetPublisher, TLC

CONSTANTS d1, d2, c1, c2

Does(kind, cadet) == [kind |-> kind, cadet |-> cadet]

\* Two devices edit one cadet, one of them replaces the channel; one device does both; one
\* device writes to all the cadets and edits one; one device edits a cadet twice and
\* publishes for all.
SharedWork ==
  { (d1 :> {Does("CHANGED", c1)}) @@ (d2 :> {Does("ROTATED", c1)}),
    (d1 :> {Does("CHANGED", c1), Does("ROTATED", c1)}) @@ (d2 :> {}),
    (d1 :> {Does("CHANGED", c1), Does("NOTICE", Everyone)}) @@ (d2 :> {}),
    (d1 :> {Does("CHANGED", c1), Does("CLEARED", c1), ToAll}) @@ (d2 :> {}) }

\* Two devices edit one cadet.
SameCadet == { [d \in Staff |-> {Does("CHANGED", c1)}] }

\* One device gives out more than a record can hold, and takes it back.
GivesAndTakes == { [d \in Staff |-> {Does("CHANGED", c1), Does("CLEARED", c1)}] }
=============================================================================
