----------------------------- MODULE SupplyFold -----------------------------
(***************************************************************************)
(* What the events of supply do to the projection: stock, what the cadets  *)
(* hold, what they still need, the records and their corrections, and the  *)
(* conflicts (applyEvent and its helpers, src/src/distributed/replica.ts). *)
(*                                                                         *)
(* A projection p is a record; Throws says when an event may not be        *)
(* applied to it, Apply what it becomes.  A thing is named by the event    *)
(* that brought it and a line of that event.  There is one catalog item;   *)
(* its sizes are numbers, in the order of their lines.                     *)
(***************************************************************************)
EXTENDS EventOrder, FiniteSets, SequencesExt

CONSTANTS
  Item,      \* sizes (inventory variants)
  Cadet,     \* cadets
  Label      \* [Item -> the label of the size]

ASSUME SupplyAssumption == Item \subseteq Nat \ {0} /\ DOMAIN Label = Item

NoItem == 0
NoNeed == <<0, 0>>
WholeLine == 0      \* the line of a property that a size correction split off

\* f, and v at an x where f is not defined yet; v at x alone.
Joined(f, x, v) == [y \in DOMAIN f \cup {x} |-> IF y \in DOMAIN f THEN f[y] ELSE v]
Just(x, v) == [y \in {x} |-> v]

Open(need) == need.status \in {"OPEN", "PARTIALLY_FULFILLED"}
Remaining(need) == need.needed - need.fulfilled

\* returnsToShelf: only a serviceable return goes back on the shelf.
ToShelf(condition) == condition = "SERVICEABLE"

Unknown == [version |-> 0, active |-> FALSE, onHand |-> 0, issued |-> 0, applied |-> <<>>,
            counted |-> 0]
NoCadet == [version |-> 0, profile |-> [status |-> "NONE", level |-> 0, sizes |-> <<>>], applied |-> <<>>]

\* genesis: one catalog item without sizes, one bundle.  Count sessions, supply
\* events and transactions are named by the event that made them.
Genesis ==
  [items |-> [i \in Item |-> Unknown],
   catalog |-> [version |-> 1, fields |-> [name |-> 0, active |-> TRUE], applied |-> <<>>],
   cadets |-> [c \in Cadet |-> NoCadet], held |-> {}, needs |-> {}, conflicts |-> {},
   transactions |-> <<>>, sessions |-> <<>>, calendar |-> <<>>, bundle |-> <<0>>,
   years |-> {}, rejected |-> {}, unsafe |-> {}, clock |-> 0]

Known(p, i) == i \in Item /\ p.items[i].version > 0
KnownCadet(p, c) == p.cadets[c].version > 0
IsActive(p, c) == p.cadets[c].profile.status = "ACTIVE"

\* Every change to a size bumps its version once and appends its event.
Touch(thing, n) == [thing EXCEPT !.version = @ + 1, !.applied = Append(@, n)]
Move(item, n, shelf, issued) ==
  Touch([item EXCEPT !.onHand = @ + shelf, !.issued = Max({0, @ + issued})], n)

AddConflict(p, n) ==
  [p EXCEPT !.conflicts = @ \cup {[loser |-> n, status |-> "OPEN", by |-> 0, outcome |-> "NONE"]}]

PropertyOf(p, id) == CHOOSE line \in p.held : line.id = id
Holds(p, id) == \E line \in p.held : line.id = id
HeldOf(p, id, i) == IF Holds(p, id) /\ PropertyOf(p, id).item = i THEN PropertyOf(p, id).quantity ELSE 0

\* A holding that reaches zero is gone.
Hold(p, id, cadet, i, quantity) ==
  [p EXCEPT !.held = {line \in @ : line.id # id} \cup
     (IF quantity > 0 THEN {[id |-> id, cadet |-> cadet, item |-> i, quantity |-> quantity]} ELSE {})]

-----------------------------------------------------------------------------
(* Still Needed.                                                           *)

\* Which open need one issued line serves first: the one it names, its exact
\* size, a need raised by the same size's label, a need of any size.
Rank(need, i, named) ==
  CASE named # NoNeed /\ need.id = named -> 0
    [] need.item = i -> 1
    [] need.item = NoItem /\ need.size = Label[i] -> 2
    [] need.item = NoItem /\ need.size = "any" -> 3
    [] OTHER -> 4

Candidates(needs, cadet, i, named) ==
  {need \in needs : need.cadet = cadet /\ Open(need) /\ Rank(need, i, named) < 4}

Older(a, b) ==
  \/ a.since < b.since
  \/ a.since = b.since /\ (a.id[1] < b.id[1] \/ (a.id[1] = b.id[1] /\ a.id[2] < b.id[2]))
Sooner(a, b, i, named) ==
  IF Rank(a, i, named) = Rank(b, i, named) THEN Older(a, b) ELSE Rank(a, i, named) < Rank(b, i, named)

\* (what must not happen: every need is offered all of it)
LeftForEveryone(queue, need, i, quantity, named) == quantity

\* What an issue of `quantity` leaves for a need once those before it had theirs.
Left(queue, need, i, quantity, named) ==
  quantity - SumFunction([b \in {b \in queue : Sooner(b, need, i, named)} |-> Remaining(b)])
Fulfil(need, used, n) ==
  IF used <= 0 THEN need
  ELSE [need EXCEPT !.fulfilled = @ + used, !.version = @ + (IF n \in ToSet(need.applied) THEN 0 ELSE 1),
                    !.applied = IF n \in ToSet(@) THEN @ ELSE Append(@, n),
                    !.status = IF need.fulfilled + used = need.needed THEN "FULFILLED" ELSE "PARTIALLY_FULFILLED"]

FulfilNeeds(needs, queue, n, i, quantity, named) ==
  (needs \ queue) \cup 
    {Fulfil(need, Min({Remaining(need), Left(queue, need, i, quantity, named)}), n) : need \in queue}

NewNeed(n, line, cadet, i, size, quantity, source, since) ==
  [id |-> <<n, line>>, cadet |-> cadet, item |-> i, size |-> size, needed |-> quantity, fulfilled |-> 0,
   status |-> "OPEN", source |-> source, since |-> since, version |-> 1, applied |-> <<n>>]

\* A line that could not be issued adds to the open need it made before, or makes one.
SameMissing(need, cadet, m) ==
  /\ need.cadet = cadet /\ need.item = m.item /\ need.size = m.size
  /\ need.source = "INCOMPLETE_ISSUE" /\ Open(need)
AddMissing(p, n, cadet, m) ==
  LET same == {need \in p.needs : SameMissing(need, cadet, m)} IN
  IF same = {}
  THEN [p EXCEPT !.needs = @ \cup
          {NewNeed(n, m.line, cadet, m.item, m.size, m.quantity, "INCOMPLETE_ISSUE", n)}]
  ELSE LET need == CHOOSE need \in same : \A b \in same : need.since <= b.since
       IN  [p EXCEPT !.needs = (@ \ {need}) \cup {Touch([need EXCEPT !.needed = @ + m.quantity], n)}]

\* The later of two f's wins, field by field.
Changed(fields, changes) == [f \in DOMAIN fields |-> IF f \in DOMAIN changes THEN changes[f] ELSE fields[f]]

AddNeed(log, p, n) ==
  LET e == log[n] IN
  [p EXCEPT !.needs = @ \cup {NewNeed(n, 0, e.cadet, e.item, e.size, e.quantity, "MANUAL", n)}]

\* STILL_NEEDED_UPDATED, _FULFILLED and _CANCELLED name the version they change.
NeedOf(p, id) == CHOOSE need \in p.needs : need.id = id
ValidNeed(need) == need.needed > 0 /\ need.fulfilled \in 0..need.needed
ChangeNeed(log, p, n) ==
  LET e == log[n]  need == NeedOf(p, e.need) IN
  IF e.base # need.version THEN AddConflict(p, n)
  ELSE [p EXCEPT !.needs = (@ \ {need}) \cup {Touch(Changed(need, e.changes), n)}]
ChangeNeedThrows(log, p, n) ==
  LET e == log[n] IN
  \/ ~\E need \in p.needs : need.id = e.need
  \/ LET need == NeedOf(p, e.need) IN e.base = need.version /\ ~ValidNeed(Changed(need, e.changes))

-----------------------------------------------------------------------------
(* Issue and return.                                                       *)

\* An issue that names an inactive cadet or size, or stock that is not there,
\* is a conflict: nothing of it is applied.
Contested(p, e) == {i \in DOMAIN e.lines : ~p.items[i].active \/ p.items[i].onHand < e.lines[i]}

IssueLine(e, p, n, i) ==
  [Hold(p, <<n, i>>, e.cadet, i, e.lines[i]) EXCEPT
     !.items[i] = Move(@, n, -e.lines[i], e.lines[i]),
     !.needs = FulfilNeeds(@, Candidates(@, e.cadet, i, e.named[i]), n, i, e.lines[i], e.named[i])]

\* Line by line, in the order of the sizes (a fold takes the largest last).
IssueLines(e, p, n) ==
  MapThenFoldSet(LAMBDA i, q : IssueLine(e, q, n, i), p, LAMBDA i : i, Max, DOMAIN e.lines)
AddAllMissing(e, p, n) == FoldSet(LAMBDA m, q : AddMissing(q, n, e.cadet, m), p, e.missing)

IssueTransaction(log, p, n) ==
  LET e == log[n]  issued == AddAllMissing(e, IssueLines(e, p, n), n)
  IN  IF ~IsActive(p, e.cadet) \/ Contested(p, e) # {}
      THEN AddConflict(p, n)
      ELSE [issued EXCEPT !.cadets[e.cadet] = Touch(@, n),
              !.transactions = Joined(@, n, [cadet |-> e.cadet, lines |->
                 [i \in DOMAIN e.lines |-> [item |-> i, quantity |-> e.lines[i], shelf |-> TRUE]]])]

\* A return names holdings of the cadet; each line clears the holding, whatever
\* the condition.
NotHeld(p, e) == {id \in DOMAIN e.lines : HeldOf(p, id, e.lines[id].item) < e.lines[id].quantity}

ReturnLine(e, p, n, id) ==
  LET line == e.lines[id]
      property == PropertyOf(p, id)
      item == p.items[line.item]
      shelf == IF ToShelf(line.condition) THEN line.quantity ELSE 0
      moved == [item EXCEPT !.onHand = @ + shelf, !.issued = Max({0, @ - line.quantity})]
  IN  [Hold(p, id, e.cadet, property.item, property.quantity - line.quantity)
         EXCEPT !.items[line.item] = IF n \in ToSet(item.applied) THEN moved ELSE Touch(moved, n)]

ReturnLines(e, p, n) == FoldSet(LAMBDA id, q : ReturnLine(e, q, n, id), p, DOMAIN e.lines)

ReturnTransaction(log, p, n) ==
  LET e == log[n]  returned == ReturnLines(e, p, n)
  IN  IF NotHeld(p, e) # {}
      THEN AddConflict(p, n)
      ELSE [returned EXCEPT !.cadets[e.cadet] = Touch(@, n),
              !.transactions = Joined(@, n, [cadet |-> e.cadet, lines |->
                 [id \in DOMAIN e.lines |-> [item |-> e.lines[id].item, quantity |-> e.lines[id].quantity,
                                             shelf |-> ToShelf(e.lines[id].condition)]]])]

\* (what must not happen: nobody looks at the stock of the right size)
CorrectSizeUnchecked(p, e) ==
  \/ HeldOf(p, e.property, e.from) < e.quantity
  \/ ~p.items[e.to].active

\* The size on the record was wrong: stock and holding move to the right one.
CorrectSizeImpossible(p, e) ==
  \/ HeldOf(p, e.property, e.from) < e.quantity
  \/ ~p.items[e.to].active
  \/ p.items[e.to].onHand < e.quantity

CorrectSize(log, p, n) ==
  LET e == log[n]
      property == PropertyOf(p, e.property)
      whole == e.quantity = property.quantity
      moved == [p EXCEPT !.items[e.from] = Move(@, n, e.quantity, -e.quantity),
                         !.items[e.to] = Move(@, n, -e.quantity, e.quantity),
                         !.cadets[e.cadet] = Touch(@, n)]
  IN  IF CorrectSizeImpossible(p, e) THEN AddConflict(p, n)
      ELSE IF whole THEN Hold(moved, e.property, e.cadet, e.to, e.quantity)
      ELSE Hold(Hold(moved, e.property, e.cadet, e.from, property.quantity - e.quantity),
                <<n, WholeLine>>, e.cadet, e.to, e.quantity)
=============================================================================
