---------------------------- MODULE SupplyRules ----------------------------
(***************************************************************************)
(* What the screens work out from a projection: who an event is for, what  *)
(* its cadets lack and whether the shelf covers it                         *)
(* (src/src/stage3/eventReadiness.ts, requirements.ts), and why a size has *)
(* to be reconciled (src/src/stage3/inventoryStatus.ts).                   *)
(*                                                                         *)
(* Every device computes these from what it knows and stores none of it.   *)
(* A label names one active size at most: adding it twice is skipped       *)
(* (AddSizes).                                                             *)
(***************************************************************************)
EXTENDS CalendarFold

CONSTANT Requires   \* [bundle -> how many of the item its current version asks for]

ASSUME RulesAssumption == \A b \in DOMAIN Requires : Requires[b] \in Nat

NoSize == "none"    \* a cadet whose size nobody has recorded

-----------------------------------------------------------------------------
(* Event readiness.                                                        *)

\* The attendees; without any, the first-year cadets are the orientation's.
EventRoster(p, c) ==
  LET event == p.calendar[c]
      active == {cadet \in Cadet : IsActive(p, cadet)}
  IN  CASE event.attendees # {} -> event.attendees \cap active
        [] event.attendees = {} /\ event.fields["kind"] = "NCO" ->
             {cadet \in active : p.cadets[cadet].profile.level = 1}
        [] OTHER -> {}

\* A line in two bundles is one line, of the larger quantity.
Required(p, c) == Max({0} \cup {Requires[b] : b \in ToSet(p.calendar[c].bundles)})

\* Holding any size of the item meets the line.
HoldsAny(p, cadet) == \E line \in p.held : line.cadet = cadet
Unmet(p, c) ==
  IF Required(p, c) = 0 THEN {} ELSE {cadet \in EventRoster(p, c) : ~HoldsAny(p, cadet)}

\* A cadet's sizes are recorded under the name that the item has at the time.
RecordedSize(p, cadet) ==
  LET sizes == p.cadets[cadet].profile.sizes  name == p.catalog.fields.name IN
  IF name \in DOMAIN sizes THEN sizes[name] ELSE NoSize


VariantsOf(p) == {i \in Item : p.items[i].active}
VariantFor(p, size) == {i \in VariantsOf(p) : Label[i] = size}
OnHand(p, variants) == SumFunction([i \in variants |-> p.items[i].onHand])

Needed(p, c, size) ==
  Required(p, c) * Cardinality({cadet \in Unmet(p, c) : RecordedSize(p, cadet) = size})

KnownSizes(p, c) == {RecordedSize(p, cadet) : cadet \in Unmet(p, c)} \ {NoSize}

\* (what must not happen: nothing is kept for those whose size is known)
LeftForUnknownShared(p, c) == OnHand(p, VariantsOf(p))

\* Those whose size is unknown can only have what the known sizes leave.
LeftForUnknown(p, c) ==
  Max({0, OnHand(p, VariantsOf(p)) -
          SumFunction([size \in KnownSizes(p, c) |-> Min({Needed(p, c, size), OnHand(p, VariantFor(p, size))})])})

Available(p, c, size) ==
  IF size = NoSize THEN LeftForUnknown(p, c) ELSE OnHand(p, VariantFor(p, size))

\* The demand lines that the shelf cannot cover, with what is missing.
Shortage(p, c, size) == Max({0, Needed(p, c, size) - Available(p, c, size)})
Shortages(p, c) == {size \in KnownSizes(p, c) \cup {NoSize} : Shortage(p, c, size) > 0}

-----------------------------------------------------------------------------
(* Inventory status: a count that does not settle what is on the shelf.    *)

CountIsOpen(session) == session.status \in {"ACTIVE", "SUBMITTED"}

\* A finished count matters while it is the latest of this size.  One that did not
\* name the size matters until a later one does, by the time on their events.
StillLatestCount(log, p, i, session) ==
  LET f == session.finalizer IN
  /\ session.status = "RECONCILED"
  /\ \/ p.items[i].counted = f
     \/ i \notin DOMAIN log[f].totals /\ p.items[i].counted <= f

Matters(log, p, i, session) == CountIsOpen(session) \/ StillLatestCount(log, p, i, session)

MovedDuringCount(log, p, i, session) ==
  IF CountIsOpen(session)
  THEN /\ \E o \in session.observations : o.item = i /\ o.status # "LATE"
       /\ MovedSinceBaseline(log, p, session, i)
  ELSE i \in session.warnings
LateCount(i, session) == LateWork({o \in session.observations : o.item = i})

\* The counts because of which the status of a size says "Reconciliation required".
ReconciliationReasons(log, p, i) ==
  LET mattering == {s \in DOMAIN p.sessions : Matters(log, p, i, p.sessions[s])} IN
  IF ~p.items[i].active THEN {}
  ELSE {<<"MOVED_DURING_COUNT", s>> : s \in {s \in mattering : MovedDuringCount(log, p, i, p.sessions[s])}}
         \cup {<<"LATE_COUNT", s>> : s \in {s \in mattering : LateCount(i, p.sessions[s]) # {}}}
=============================================================================
