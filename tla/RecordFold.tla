----------------------------- MODULE RecordFold -----------------------------
(***************************************************************************)
(* What the events that amend records do to the projection: corrections of *)
(* recorded quantities, resolutions of conflicts, edits of the catalog and *)
(* of cadets, the annual rollover (src/src/distributed/replica.ts).        *)
(***************************************************************************)
EXTENDS SupplyFold

CountTypes == {"COUNT_SESSION_RECONCILED", "INVENTORY_COUNT_SUBMITTED"}

ReceiveStock(log, p, n) ==
  LET e == log[n]  item == p.items[e.item] IN
  [p EXCEPT !.items[e.item] = Touch([item EXCEPT !.onHand = @ + e.quantity], n)]

-----------------------------------------------------------------------------
(* Corrections of one recorded quantity.                                   *)

\* A count folded after a record has measured the shelf since.
CountedSince(log, p, i, target) ==
  \E m \in ToSet(p.items[i].applied) : log[m].type \in CountTypes /\ Before(log, target, m)

\* The corrections of a receipt that were applied.
ReceiptCorrections(log, p, target) ==
  {m \in ToSet(p.items[log[target].item].applied) :
     log[m].type = "RECORD_CORRECTED" /\ log[m].target = target}

LineOf(p, target, line) == p.transactions[target].lines[line]

\* recordedQuantity: the signed value, or that of the latest correction applied.
Recorded(log, p, target, line) ==
  IF log[target].type = "INVENTORY_RECEIVED"
  THEN LET corrections == ReceiptCorrections(log, p, target) IN
       IF corrections = {} THEN log[target].quantity ELSE log[LastOf(log, corrections)].to
  ELSE LineOf(p, target, line).quantity

\* The record that is corrected was applied, as far as this device knows.
Correctable(log, p, all, target, line) ==
  /\ target \in all
  /\ IF log[target].type = "INVENTORY_RECEIVED"
     THEN target \in ToSet(p.items[log[target].item].applied)
     ELSE target \in DOMAIN p.transactions /\ line \in DOMAIN p.transactions[target].lines

\* What the cadet has of a property, and the size it has by now.
HoldingOf(p, id) == IF Holds(p, id) THEN PropertyOf(p, id).quantity ELSE 0
SizeNow(p, id, recorded) == IF Holds(p, id) THEN PropertyOf(p, id).item ELSE recorded

\* planRecordCorrection: what moves when the recorded quantity changes by delta.
\* An issue's property is named after its line; a return's line names the one it
\* returned.  A count since keeps the shelf as it is.
Shift(log, p, target, item, property, held, stock) ==
  [item |-> item, property |-> property, held |-> held, holding |-> HoldingOf(p, property),
   stock |-> IF CountedSince(log, p, item, target) THEN 0 ELSE stock]

\* (what must not happen: a return that did not go back on the shelf is corrected there)
PlanShelvingAll(log, p, target, line, delta) ==
  CASE log[target].type = "INVENTORY_RECEIVED" ->
         Shift(log, p, target, log[target].item, NoNeed, 0, delta)
    [] log[target].type = "ITEM_ISSUED" ->
         Shift(log, p, target, SizeNow(p, <<target, line>>, LineOf(p, target, line).item),
               <<target, line>>, delta, -delta)
    [] OTHER -> Shift(log, p, target, LineOf(p, target, line).item, line, -delta, delta)

Plan(log, p, target, line, delta) ==
  CASE log[target].type = "INVENTORY_RECEIVED" ->
         Shift(log, p, target, log[target].item, NoNeed, 0, delta)
    [] log[target].type = "ITEM_ISSUED" ->
         Shift(log, p, target, SizeNow(p, <<target, line>>, LineOf(p, target, line).item),
                  <<target, line>>, delta, -delta)
    [] OTHER ->
         Shift(log, p, target, LineOf(p, target, line).item, line, -delta,
                  IF LineOf(p, target, line).shelf THEN delta ELSE 0)

\* Why a correction cannot be made: another one was first, the cadet no longer
\* holds it, or the stock would be negative.
CorrectionImpossible(log, p, target, line, from, plan) ==
  \/ Recorded(log, p, target, line) # from
  \/ plan.holding + plan.held < 0
  \/ p.items[plan.item].onHand + plan.stock < 0

\* The holding keeps its size if the cadet still has some of it, and comes back
\* as the size on the record otherwise.
CorrectHolding(e, p, n, plan, cadet) ==
  [Hold(p, plan.property, cadet, SizeNow(p, plan.property, plan.item), plan.holding + plan.held) EXCEPT
     !.items[plan.item] = Move(@, n, plan.stock, plan.held),
     !.cadets[cadet] = Touch(@, n),
     !.transactions[e.target].lines[e.line].quantity = e.to]

ApplyPlan(log, p, n, plan) ==
  LET e == log[n] IN
  IF CorrectionImpossible(log, p, e.target, e.line, e.from, plan) THEN AddConflict(p, n)
  ELSE IF log[e.target].type = "INVENTORY_RECEIVED"
  THEN [p EXCEPT !.items[plan.item] = Move(@, n, plan.stock, plan.held)]
  ELSE CorrectHolding(e, p, n, plan, p.transactions[e.target].cadet)

CorrectRecord(log, p, n) ==
  ApplyPlan(log, p, n, Plan(log, p, log[n].target, log[n].line, log[n].to - log[n].from))

-----------------------------------------------------------------------------
(* Conflicts.                                                              *)

\* The issue that lost, when it still is not applied.
IsLosingIssue(log, p, loser) == log[loser].type = "ITEM_ISSUED" /\ loser \notin DOMAIN p.transactions

\* The lines it asked for, as needs that the resolution makes.
LostNeeds(log, n, loser) ==
  LET e == log[loser] IN
  {NewNeed(n, i, e.cadet, i, Label[i], e.lines[i], "CONFLICT_RESOLUTION", loser) : i \in DOMAIN e.lines}
    \cup {NewNeed(n, m.line, e.cadet, m.item, m.size, m.quantity, "CONFLICT_RESOLUTION", loser) : m \in e.missing}


\* Only the first resolution of a conflict does anything.
IsOpenConflict(p, loser) == \E x \in p.conflicts : x.loser = loser /\ x.status = "OPEN"
ResolveThrows(log, p, n) ==
  /\ IsOpenConflict(p, log[n].loser) /\ log[n].outcome = "RECORD_STILL_NEEDED"
  /\ ~IsLosingIssue(log, p, log[n].loser)
Resolve(log, p, n) ==
  LET e == log[n] IN
  IF ~IsOpenConflict(p, e.loser) THEN p
  ELSE [p EXCEPT
          !.needs = IF e.outcome = "RECORD_STILL_NEEDED" THEN @ \cup LostNeeds(log, n, e.loser) ELSE @,
          !.conflicts = {IF x.loser = e.loser
                         THEN [x EXCEPT !.status = "RESOLVED", !.by = n, !.outcome = e.outcome]
                         ELSE x : x \in @}]

-----------------------------------------------------------------------------
(* The catalog and the roster.                                             *)

\* concurrentSameFieldEdits: applied edits of one of the same fields whose base
\* version is not older than this one's.
Rivals(log, applied, n) ==
  {m \in ToSet(applied) :
     /\ log[m].type = log[n].type
     /\ log[m].base >= log[n].base
     /\ DOMAIN log[m].changes \cap DOMAIN log[n].changes # {}}
Contests(log, thing, n) == log[n].base # thing.version /\ Rivals(log, thing.applied, n) # {}

\* An edit of the item reaches each of its sizes.
UpdateCatalog(log, p, n) ==
  LET e == log[n]
      retired == "active" \in DOMAIN e.changes /\ ~e.changes["active"]
      edited(item) == Touch([item EXCEPT !.active = @ /\ ~retired], n)
  IN  IF Contests(log, p.catalog, n)
      THEN AddConflict(p, n)
      ELSE [p EXCEPT !.catalog = Touch([p.catalog EXCEPT !.fields = Changed(@, e.changes)], n),
                     !.items = [i \in Item |-> IF Known(p, i) THEN edited(p.items[i]) ELSE p.items[i]]]

\* A size whose label exists already is skipped.
AddSizes(log, p, n) ==
  LET new == {i \in log[n].sizes : ~\E j \in Item : Known(p, j) /\ Label[j] = Label[i]}
      added == [Unknown EXCEPT !.version = 1, !.active = TRUE, !.applied = <<n>>]
  IN  [p EXCEPT !.catalog.applied = Append(@, n),
                !.items = [i \in Item |-> IF i \in new THEN added ELSE @[i]]]

\* Taking one size out of use, or back into it.
UpdateItem(log, p, n) ==
  LET e == log[n]  item == p.items[e.item] IN
  IF Contests(log, item, n) THEN AddConflict(p, n)
  ELSE [p EXCEPT !.items[e.item] = Touch([item EXCEPT !.active = e.changes["active"]], n)]

\* A bundle is replaced as a whole, so any edit of the same version contests it.
UpdateBundle(log, p, n) ==
  IF log[n].base # Len(p.bundle) THEN AddConflict(p, n) ELSE [p EXCEPT !.bundle = Append(@, n)]

AddCadet(log, p, n) ==
  [p EXCEPT !.cadets[log[n].cadet] =
     [version |-> 1, profile |-> [status |-> "ACTIVE", level |-> log[n].level, sizes |-> <<>>], applied |-> <<n>>]]

UpdateCadet(log, p, n) ==
  LET e == log[n]  cadet == p.cadets[e.cadet] IN
  IF Contests(log, cadet, n) THEN AddConflict(p, n)
  ELSE [p EXCEPT !.cadets[e.cadet] = Touch([cadet EXCEPT !.profile = Changed(@, e.changes)], n)]

\* The cadets the rollover named, who are still active, go up one level; those
\* at the top leave.
TopLevel == 4
Advance(profile) ==
  IF profile.level = TopLevel THEN [profile EXCEPT !.status = "INACTIVE"] ELSE [profile EXCEPT !.level = @ + 1]
Rollover(log, p, n) ==
  LET named == {c \in log[n].cadets : KnownCadet(p, c) /\ IsActive(p, c)} IN
  [p EXCEPT !.years = @ \cup {[year |-> log[n].year, by |-> n]},
            !.cadets = [c \in Cadet |-> IF c \in named
                          THEN Touch([p.cadets[c] EXCEPT !.profile = Advance(@)], n) ELSE @[c]]]
=============================================================================
