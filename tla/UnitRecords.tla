---------------------------- MODULE UnitRecords ----------------------------
(***************************************************************************)
(* The records of supply on several devices: officers who cannot reach     *)
(* each other issue, return, count, correct, edit and resolve, and every   *)
(* device folds what it knows in the one order (ArgusReplica,              *)
(* src/src/distributed/replica.ts).                                        *)
(*                                                                         *)
(* What a device may know is any set of events: UnitReplica shows that its *)
(* projection is the fold of them, whatever the sync did; authorization is *)
(* there, too, and everyone here may do everything.                        *)
(*                                                                         *)
(* `work` is the job at hand: the history it starts from, the commands the *)
(* user of each device gives, the quantities they enter, and how many.     *)
(***************************************************************************)
EXTENDS SupplyRules

CONSTANTS
  Device,      \* numbered by author tag
  Work         \* the jobs: [founding, heard, commands, quantities, budget]

VARIABLES
  work,
  log,         \* every event ever signed
  seen,        \* [event -> the events its author knew]
  known,       \* [device -> the events it knows]
  drawer,      \* [device -> the calendar its drawer was loaded with, and the events known then]
  form,        \* [device -> the cadets and the item that its forms were filled with, likewise]
  projection   \* [device -> what its screens show]

vars == <<work, log, seen, known, drawer, form, projection>>

-----------------------------------------------------------------------------
(* What is signed.                                                         *)

CountEvents == {"COUNT_SESSION_CREATED", "COUNT_CONTRIBUTED", "COUNT_RECOUNTED", "COUNT_CORRECTED",
                "COUNT_SESSION_SUBMITTED", "COUNT_SESSION_REOPENED", "COUNT_SESSION_RECONCILED",
                "COUNT_SESSION_CANCELLED"}
CalendarEvents == {"CALENDAR_EVENT_CREATED", "CALENDAR_EVENT_UPDATED", "CALENDAR_TASK_ADDED",
                   "CALENDAR_TASK_UPDATED", "TASK_COMPLETED", "CALENDAR_TASK_REMOVED",
                   "CALENDAR_ATTENDEES_ADDED", "CALENDAR_ATTENDEES_REMOVED",
                   "CALENDAR_BUNDLES_ADDED", "CALENDAR_BUNDLES_REMOVED"}
NeedChanges == {"STILL_NEEDED_UPDATED", "STILL_NEEDED_FULFILLED", "STILL_NEEDED_CANCELLED"}
EventTypes ==
  {"INVENTORY_RECEIVED", "ITEM_ISSUED", "ITEM_RETURNED", "PROPERTY_CORRECTED", "RECORD_CORRECTED",
   "CATALOG_ITEM_UPDATED", "CATALOG_SIZES_ADDED", "INVENTORY_ITEM_UPDATED", "BUNDLE_UPDATED",
   "CADETS_IMPORTED", "CADET_UPDATED", "STILL_NEEDED_ADDED", "CONFLICT_RESOLVED",
   "ANNUAL_ROLLOVER_COMPLETED"} \cup NeedChanges \cup CountEvents \cup CalendarEvents

\* What a command may have signed: quantities are positive, an issue and a return
\* have finitely many lines, each with an ID of its own (validateDraftIdentity), and
\* only finishing a need by hand says what was handed over.
Positive == Nat \ {0}
IsCommand(e) ==
  /\ e.clock \in Nat /\ e.author \in Device /\ e.type \in EventTypes
  /\ e.type = "INVENTORY_RECEIVED" => e.item \in Item /\ e.quantity \in Positive
  /\ e.type = "ITEM_ISSUED" =>
       /\ e.cadet \in Cadet /\ DOMAIN e.lines \subseteq Item /\ IsFiniteSet(DOMAIN e.lines)
       /\ \A i \in DOMAIN e.lines : e.lines[i] \in Positive
       /\ IsFiniteSet(e.missing)
       /\ \A m \in e.missing : m.quantity \in Positive /\ m.line \in Nat \ DOMAIN e.lines
       /\ \A m1 \in e.missing : \A m2 \in e.missing : m1.line = m2.line => m1 = m2
  /\ e.type = "ITEM_RETURNED" =>
       /\ e.cadet \in Cadet /\ IsFiniteSet(DOMAIN e.lines)
       /\ \A id \in DOMAIN e.lines : e.lines[id].item \in Item /\ e.lines[id].quantity \in Positive
  /\ e.type = "PROPERTY_CORRECTED" =>
       e.cadet \in Cadet /\ e.from \in Item /\ e.to \in Item \ {e.from} /\ e.quantity \in Positive
  /\ e.type = "RECORD_CORRECTED" => e.from \in Nat /\ e.to \in Nat
  /\ e.type = "INVENTORY_ITEM_UPDATED" => e.item \in Item
  /\ e.type \in {"CADETS_IMPORTED", "CADET_UPDATED"} => e.cadet \in Cadet
  /\ e.type = "STILL_NEEDED_ADDED" => e.cadet \in Cadet /\ e.quantity \in Positive
  /\ e.type \in NeedChanges =>
       /\ "needed" \in DOMAIN e.changes => e.changes["needed"] \in Nat
       /\ DOMAIN e.changes \subseteq {"status", "needed"} \cup
                                    (IF e.type = "STILL_NEEDED_FULFILLED" THEN {"fulfilled"} ELSE {})
  /\ e.type \in {"COUNT_CONTRIBUTED", "COUNT_RECOUNTED", "COUNT_CORRECTED"} => e.quantity \in Nat
  /\ e.type = "CALENDAR_EVENT_CREATED" => {"title", "notes"} \subseteq DOMAIN e.fields

\* The officers who signed the founding had seen what came before it by the clock.
SeenAtFounding(history, n) == {m \in DOMAIN history : history[m].clock < history[n].clock}

ASSUME RecordsAssumption ==
  /\ Device \subseteq Nat
  /\ \A w \in Work :
       /\ w.founding \in Seq(ToSet(w.founding))
       /\ \A n \in DOMAIN w.founding :
            /\ IsCommand(w.founding[n])
            /\ w.founding[n].type = "CALENDAR_EVENT_UPDATED" =>
                 \A f \in DOMAIN w.founding[n].changes :
                   w.founding[n].base[f] \subseteq SeenAtFounding(w.founding, n)
       /\ w.heard \in [Device -> SUBSET DOMAIN w.founding]
       /\ w.quantities \subseteq Positive /\ w.budget \in Nat

-----------------------------------------------------------------------------
(* The fold.                                                               *)

\* What applyEvent throws for.
Throws(lg, all, p, n) ==
  LET e == lg[n] IN
  CASE e.type \in {"INVENTORY_RECEIVED", "INVENTORY_ITEM_UPDATED"} -> ~Known(p, e.item)
    [] e.type = "ITEM_ISSUED" -> ~KnownCadet(p, e.cadet) \/ \E i \in DOMAIN e.lines : ~Known(p, i)
    [] e.type = "ITEM_RETURNED" ->
         ~KnownCadet(p, e.cadet) \/ \E id \in DOMAIN e.lines : ~Known(p, e.lines[id].item)
    [] e.type = "PROPERTY_CORRECTED" ->
         ~KnownCadet(p, e.cadet) \/ ~Known(p, e.from) \/ ~Known(p, e.to)
    [] e.type = "RECORD_CORRECTED" -> ~Correctable(lg, p, all, e.target, e.line)
    [] e.type \in {"CADET_UPDATED", "STILL_NEEDED_ADDED"} -> ~KnownCadet(p, e.cadet)
    [] e.type \in NeedChanges -> ChangeNeedThrows(lg, p, n)
    [] e.type = "CONFLICT_RESOLVED" -> ResolveThrows(lg, p, n)
    [] e.type = "ANNUAL_ROLLOVER_COMPLETED" -> \E y \in p.years : y.year = e.year
    [] e.type \in CountEvents -> CountThrows(lg, p, n)
    [] e.type \in CalendarEvents -> CalendarThrows(lg, p, n)
    [] OTHER -> FALSE

Effect(lg, p, n) ==
  LET type == lg[n].type IN
  CASE type = "INVENTORY_RECEIVED" -> ReceiveStock(lg, p, n)
    [] type = "ITEM_ISSUED" -> IssueTransaction(lg, p, n)
    [] type = "ITEM_RETURNED" -> ReturnTransaction(lg, p, n)
    [] type = "PROPERTY_CORRECTED" -> CorrectSize(lg, p, n)
    [] type = "RECORD_CORRECTED" -> CorrectRecord(lg, p, n)
    [] type = "CATALOG_ITEM_UPDATED" -> UpdateCatalog(lg, p, n)
    [] type = "CATALOG_SIZES_ADDED" -> AddSizes(lg, p, n)
    [] type = "INVENTORY_ITEM_UPDATED" -> UpdateItem(lg, p, n)
    [] type = "BUNDLE_UPDATED" -> UpdateBundle(lg, p, n)
    [] type = "CADETS_IMPORTED" -> AddCadet(lg, p, n)
    [] type = "CADET_UPDATED" -> UpdateCadet(lg, p, n)
    [] type = "STILL_NEEDED_ADDED" -> AddNeed(lg, p, n)
    [] type \in NeedChanges -> ChangeNeed(lg, p, n)
    [] type = "CONFLICT_RESOLVED" -> Resolve(lg, p, n)
    [] type = "ANNUAL_ROLLOVER_COMPLETED" -> Rollover(lg, p, n)
    [] type \in CountEvents -> ApplyCount(lg, p, n)
    [] type \in CalendarEvents -> ApplyCalendar(lg, p, n)

\* What no projection may show; an event that brings it about is set aside.
projectionViolation(p) ==
  \/ \E i \in Item : p.items[i].onHand < 0 \/ p.items[i].issued < 0
  \/ \E line \in p.held : line.quantity <= 0
  \/ \E need \in p.needs : need.fulfilled \notin 0..need.needed

\* p becomes q, unless q is impossible.
Accept(p, q, n, clock) ==
  IF projectionViolation(q) THEN [p EXCEPT !.rejected = @ \cup {n}, !.unsafe = @ \cup {n}]
  ELSE [q EXCEPT !.clock = Max({@, clock})]
TryApply(lg, all, p, n) ==
  IF Throws(lg, all, p, n) THEN [p EXCEPT !.rejected = @ \cup {n}]
  ELSE Accept(p, Effect(lg, p, n), n, lg[n].clock)

Rebuild(lg, all) ==
  LET fold[S \in SUBSET all] ==
        IF S = {} THEN Genesis
        ELSE LET n == LastOf(lg, S) IN TryApply(lg, all, fold[S \ {n}], n)
  IN  fold[all]

-----------------------------------------------------------------------------
Loaded(p, all) == [calendar |-> p.calendar, known |-> all]
FilledIn(p, all) == [cadets |-> [c \in Cadet |-> p.cadets[c].profile], item |-> p.catalog.fields, known |-> all]

Init ==
  /\ work \in Work
  /\ log = work.founding
  /\ seen = [n \in DOMAIN log |-> SeenAtFounding(log, n)]
  /\ known = work.heard
  /\ projection = [d \in Device |-> Rebuild(log, known[d])]
  /\ drawer = [d \in Device |-> Loaded(projection[d], known[d])]
  /\ form = [d \in Device |-> FilledIn(projection[d], known[d])]

\* What a device signs: the fields of the command under its own name and clock.
Signed(d, type, clock, fields) ==
  [f \in {"type", "author", "clock"} \cup DOMAIN fields |->
     CASE f = "type" -> type [] f = "author" -> d [] f = "clock" -> clock [] OTHER -> fields[f]]

\* commit: signed after everything applied here; refused when its own fold
\* rejects it.  A form that was saved shows what it saved.
CommitSeeing(d, type, fields, view) ==
  LET n == Len(log) + 1 IN
  /\ type \in work.commands[d]
  /\ n <= Len(work.founding) + work.budget
  /\ log' = Append(log, Signed(d, type, projection[d].clock + 1, fields))
  /\ seen' = Append(seen, view)
  /\ known' = [known EXCEPT ![d] = @ \cup {n}]
  /\ projection' = [projection EXCEPT ![d] = Rebuild(log', known'[d])]
  /\ n \notin projection'[d].rejected
  /\ form' = IF type \in {"CADET_UPDATED", "CATALOG_ITEM_UPDATED"}
              THEN [form EXCEPT ![d] = FilledIn(projection'[d], known'[d])] ELSE form
  /\ drawer' = IF type = "CALENDAR_EVENT_UPDATED"
                THEN [drawer EXCEPT ![d] = Loaded(projection'[d], known'[d])] ELSE drawer
  /\ UNCHANGED work
Commit(d, type, fields) == CommitSeeing(d, type, fields, known[d])

\* Another device's event arrives, in whatever order.
Learn(d, n) ==
  /\ n \notin known[d]
  /\ known' = [known EXCEPT ![d] = @ \cup {n}]
  /\ projection' = [projection EXCEPT ![d] = Rebuild(log, known'[d])]
  /\ UNCHANGED <<work, log, seen, drawer, form>>

-----------------------------------------------------------------------------
(* The commands, on what their own device shows.                           *)

Receive(d, i, quantity) ==
  /\ Known(projection[d], i)
  /\ Commit(d, "INVENTORY_RECEIVED", [item |-> i, quantity |-> quantity])

\* Every size gets an ID of its own.
Fresh(i) == \A n \in DOMAIN log : log[n].type = "CATALOG_SIZES_ADDED" => i \notin log[n].sizes
AddCatalogSize(d, i) ==
  /\ Fresh(i)
  /\ ~\E j \in Item : Known(projection[d], j) /\ Label[j] = Label[i]
  /\ Commit(d, "CATALOG_SIZES_ADDED", [sizes |-> {i}])

\* A form is filled in once.  It sends every field in which it differs from what the
\* device shows by now, those that its user left alone among them.
OpenForm(d) ==
  /\ form[d] # FilledIn(projection[d], known[d])
  /\ work.commands[d] \cap {"CADET_UPDATED", "CATALOG_ITEM_UPDATED"} # {}
  /\ form' = [form EXCEPT ![d] = FilledIn(projection[d], known[d])]
  /\ UNCHANGED <<work, log, seen, known, drawer, projection>>
Edited(shown, edits, now) ==
  LET filled == Changed(shown, edits) IN Restrict(filled, {f \in DOMAIN now : filled[f] # now[f]})

EditCatalog(d, edits) ==
  LET item == projection[d].catalog  changes == Edited(form[d].item, edits, item.fields) IN
  /\ DOMAIN changes # {}
  /\ CommitSeeing(d, "CATALOG_ITEM_UPDATED", [base |-> item.version, changes |-> changes], form[d].known)
EditSize(d, i, active) ==
  /\ Known(projection[d], i)
  /\ Commit(d, "INVENTORY_ITEM_UPDATED",
            [item |-> i, base |-> projection[d].items[i].version, changes |-> [active |-> active]])
EditBundle(d) == Commit(d, "BUNDLE_UPDATED", [base |-> Len(projection[d].bundle)])

\* One line, the need it is to serve, and what else was wanted.
Issue(d, c, i, quantity, need, missing) ==
  LET p == projection[d] IN
  /\ IsActive(p, c)
  /\ Known(p, i) /\ p.items[i].active /\ quantity <= p.items[i].onHand
  /\ need # NoNeed => \E open \in p.needs : open.id = need /\ open.cadet = c /\ Open(open)
  /\ Commit(d, "ITEM_ISSUED", [cadet |-> c, lines |-> Just(i, quantity), named |-> Just(i, need), missing |-> missing])

Return(d, line, quantity, condition) ==
  /\ quantity <= line.quantity
  /\ Commit(d, "ITEM_RETURNED", [cadet |-> line.cadet,
       lines |-> Just(line.id, [item |-> line.item, quantity |-> quantity, condition |-> condition])])

CorrectIssuedSize(d, line, to, quantity) ==
  LET p == projection[d] IN
  /\ to # line.item /\ Known(p, to) /\ p.items[to].active
  /\ quantity <= line.quantity /\ quantity <= p.items[to].onHand
  /\ Commit(d, "PROPERTY_CORRECTED",
            [cadet |-> line.cadet, property |-> line.id, from |-> line.item, to |-> to, quantity |-> quantity])

\* The quantity of a receipt, or of a line of an issue or a return.
Lines(p, n) == IF n \in DOMAIN p.transactions THEN DOMAIN p.transactions[n].lines ELSE {WholeLine}
CorrectQuantity(d, target, line, to) ==
  LET p == projection[d]  from == Recorded(log, p, target, line) IN
  /\ Correctable(log, p, known[d], target, line)
  /\ to # from
  /\ log[target].type = "INVENTORY_RECEIVED" \/ to \in Nat
  /\ ~CorrectionImpossible(log, p, target, line, from, Plan(log, p, target, line, to - from))
  /\ Commit(d, "RECORD_CORRECTED", [target |-> target, line |-> line, from |-> from, to |-> to])

ResolveConflict(d, loser, outcome) ==
  LET p == projection[d] IN
  /\ IsOpenConflict(p, loser)
  /\ outcome = "RECORD_STILL_NEEDED" => IsLosingIssue(log, p, loser)
  /\ Commit(d, "CONFLICT_RESOLVED", [loser |-> loser, outcome |-> outcome])

NewCadet(c) == \A n \in DOMAIN log : log[n].type = "CADETS_IMPORTED" => log[n].cadet # c
ImportCadet(d, c, level) ==
  /\ NewCadet(c)
  /\ Commit(d, "CADETS_IMPORTED", [cadet |-> c, level |-> level])
EditCadet(d, c, edits) ==
  LET cadet == projection[d].cadets[c]  changes == Edited(form[d].cadets[c], edits, cadet.profile) IN
  /\ form[d].cadets[c].status # "NONE"
  /\ DOMAIN changes # {}
  /\ CommitSeeing(d, "CADET_UPDATED", [cadet |-> c, base |-> cadet.version, changes |-> changes], form[d].known)
\* The form offers the sizes in use.
\* The labels in use are offered; a choice replaces the cadet's size of that item.
Offered(p, i) == p.catalog.fields.active /\ p.items[i].active
MeasureCadet(d, c, i) ==
  LET p == projection[d] IN
  /\ Offered(p, i)
  /\ EditCadet(d, c, [sizes |-> (p.catalog.fields.name :> Label[i]) @@ form[d].cadets[c].sizes])
CompleteRollover(d, year) ==
  LET p == projection[d] IN
  /\ ~\E y \in p.years : y.year = year
  /\ Commit(d, "ANNUAL_ROLLOVER_COMPLETED", [year |-> year, cadets |-> {c \in Cadet : IsActive(p, c)}])

AddStillNeeded(d, c, i, size, quantity) ==
  /\ KnownCadet(projection[d], c)
  /\ Commit(d, "STILL_NEEDED_ADDED", [cadet |-> c, item |-> i, size |-> size, quantity |-> quantity])
UpdateNeed(d, need, type, changes) ==
  /\ ValidNeed(Changed(need, changes))
  /\ "status" \in DOMAIN changes => Open(need)
  /\ Commit(d, type, [need |-> need.id, base |-> need.version, changes |-> changes])
\* By hand: everything was handed over; it is no longer needed; another quantity is.
FulfilByHand(d, need) ==
  UpdateNeed(d, need, "STILL_NEEDED_FULFILLED", [status |-> "FULFILLED", fulfilled |-> need.needed])
CancelNeed(d, need) == UpdateNeed(d, need, "STILL_NEEDED_CANCELLED", [status |-> "CANCELLED"])
ResizeNeed(d, need, quantity) ==
  need.status \in {"OPEN", "PARTIALLY_FULFILLED"} /\ UpdateNeed(d, need, "STILL_NEEDED_UPDATED", [needed |-> quantity])

-----------------------------------------------------------------------------
(* Shared counts.                                                          *)

OpenCount(d, assigned) ==
  /\ \A i \in assigned : Known(projection[d], i)
  /\ Commit(d, "COUNT_SESSION_CREATED", [assigned |-> assigned])

Sessions(d) == DOMAIN projection[d].sessions
IsOpenCount(d, s) == Session(projection[d], s).status = "ACTIVE"

\* A tally for an assignment, or for any active size.
Contribute(d, s, i, assignment, quantity) ==
  /\ IsOpenCount(d, s)
  /\ IF assignment = NoItem THEN projection[d].items[i].active
     ELSE assignment = i /\ i \in Session(projection[d], s).assigned
  /\ Commit(d, "COUNT_CONTRIBUTED",
       [session |-> s, item |-> i, assignment |-> assignment, quantity |-> quantity, supersedes |-> {}])

\* A recount replaces every tally of its assignment that its author knows of.
Recount(d, s, i, quantity) ==
  LET session == Session(projection[d], s) IN
  /\ IsOpenCount(d, s) /\ i \in session.assigned
  /\ Commit(d, "COUNT_RECOUNTED",
       [session |-> s, item |-> i, assignment |-> i, quantity |-> quantity,
        supersedes |-> {o.event : o \in {o \in session.observations : o.assignment = i /\ o.status # "LATE"}}])

CorrectContribution(d, s, target, quantity) ==
  /\ IsOpenCount(d, s)
  /\ Commit(d, "COUNT_CORRECTED", [session |-> s, target |-> target, quantity |-> quantity])

SubmitCount(d, s) ==
  LET O == Session(projection[d], s).observations IN
  /\ IsOpenCount(d, s)
  /\ Commit(d, "COUNT_SESSION_SUBMITTED",
            [session |-> s, contributions |-> NotLate(O), corrections |-> AppliedCorrections(O)])

ReopenCount(d, s) ==
  /\ Session(projection[d], s).status = "SUBMITTED"
  /\ Commit(d, "COUNT_SESSION_REOPENED", [session |-> s])

\* An officer finalizes an open count, or approves a submitted one without late
\* work: exactly what this device shows.
Finalize(d, s) ==
  LET session == Session(projection[d], s)
      O == session.observations
      contributions == IF session.cutoff.frozen THEN session.cutoff.observations ELSE NotLate(O)
  IN
  /\ session.status \in {"ACTIVE", "SUBMITTED"}
  /\ session.status = "SUBMITTED" => LateWork(O) = {}
  /\ Commit(d, "COUNT_SESSION_RECONCILED",
       [session |-> s, contributions |-> contributions, corrections |-> AppliedCorrections(O),
        totals |-> TotalsFor(O, contributions)])

CancelCount(d, s) ==
  /\ Session(projection[d], s).status \notin {"RECONCILED", "CANCELLED"}
  /\ Commit(d, "COUNT_SESSION_CANCELLED", [session |-> s])

-----------------------------------------------------------------------------
(* The calendar.                                                           *)

PlanEvent(d, fields) == Commit(d, "CALENDAR_EVENT_CREATED", [fields |-> fields])

\* The drawer keeps the event as it was when the form was loaded, and sends the
\* fields that its user changed since, with the writers it showed.
OpenDrawer(d) ==
  /\ drawer[d] # Loaded(projection[d], known[d])
  /\ "CALENDAR_EVENT_UPDATED" \in work.commands[d]
  /\ drawer' = [drawer EXCEPT ![d] = Loaded(projection[d], known[d])]
  /\ UNCHANGED <<work, log, seen, known, form, projection>>
SaveDrawer(d, c, changes) ==
  LET shown == drawer[d].calendar IN
  /\ c \in DOMAIN shown
  /\ \A f \in DOMAIN changes : changes[f] # shown[c].fields[f]
  /\ CommitSeeing(d, "CALENDAR_EVENT_UPDATED",
       [entry |-> c, changes |-> changes, base |-> [f \in DOMAIN changes |-> shown[c].writers[f]]], drawer[d].known)

Entries(d) == DOMAIN projection[d].calendar
TasksOf(d, c) == {t \in DOMAIN projection[d].calendar[c].tasks : ~projection[d].calendar[c].tasks[t].removed}
PlanTask(d, c, offset) == Commit(d, "CALENDAR_TASK_ADDED", [entry |-> c, offset |-> offset])
MoveTask(d, c, t, offset) ==
  /\ offset # projection[d].calendar[c].tasks[t].offset
  /\ Commit(d, "CALENDAR_TASK_UPDATED", [entry |-> c, task |-> t, offset |-> offset])
CheckTask(d, c, t, completed) == Commit(d, "TASK_COMPLETED", [entry |-> c, task |-> t, completed |-> completed])
DropTask(d, c, t) == Commit(d, "CALENDAR_TASK_REMOVED", [entry |-> c, task |-> t])

Invite(d, c, cadet) ==
  /\ KnownCadet(projection[d], cadet) /\ cadet \notin projection[d].calendar[c].attendees
  /\ Commit(d, "CALENDAR_ATTENDEES_ADDED", [entry |-> c, cadets |-> {cadet}])
Uninvite(d, c, cadet) ==
  /\ cadet \in projection[d].calendar[c].attendees
  /\ Commit(d, "CALENDAR_ATTENDEES_REMOVED", [entry |-> c, cadets |-> {cadet}])
Link(d, c, bundle) ==
  /\ bundle \notin ToSet(projection[d].calendar[c].bundles)
  /\ Commit(d, "CALENDAR_BUNDLES_ADDED", [entry |-> c, bundles |-> <<bundle>>])
Unlink(d, c, bundle) ==
  /\ bundle \in ToSet(projection[d].calendar[c].bundles)
  /\ Commit(d, "CALENDAR_BUNDLES_REMOVED", [entry |-> c, bundles |-> <<bundle>>])

-----------------------------------------------------------------------------
(* What the users may do.                                                  *)

Names == 1..2
Levels == {1, TopLevel}
Bundles == DOMAIN Requires
Missed(i, quantity) == [line |-> WholeLine, item |-> i, size |-> Label[i], quantity |-> quantity]

StockWork(d) ==
  \E i \in Item, quantity \in work.quantities :
    \/ Receive(d, i, quantity)
    \/ \E c \in Cadet, need \in {need.id : need \in projection[d].needs} \cup {NoNeed},
         missing \in {{}} \cup {{Missed(j, 1)} : j \in Item \ {i}} :
         Issue(d, c, i, quantity, need, missing)
    \/ \E line \in projection[d].held :
         \/ \E condition \in {"SERVICEABLE", "UNSERVICEABLE"} : Return(d, line, quantity, condition)
         \/ CorrectIssuedSize(d, line, i, quantity)
    \/ \E c \in Cadet : AddStillNeeded(d, c, NoItem, "any", quantity) \/ AddStillNeeded(d, c, i, Label[i], quantity)
    \/ \E need \in projection[d].needs : ResizeNeed(d, need, quantity)

AmendWork(d) ==
  \/ \E target \in DOMAIN log, to \in work.quantities \cup {0} :
       /\ log[target].type \in {"INVENTORY_RECEIVED", "ITEM_ISSUED", "ITEM_RETURNED"}
       /\ \E line \in Lines(projection[d], target) : CorrectQuantity(d, target, line, to)
  \/ \E x \in projection[d].conflicts, outcome \in {"KEEP_AS_IS", "RECORD_STILL_NEEDED"} :
       ResolveConflict(d, x.loser, outcome)
  \/ \E need \in projection[d].needs : FulfilByHand(d, need) \/ CancelNeed(d, need)

RosterWork(d) ==
  \/ OpenForm(d)
  \/ \E i \in Item : AddCatalogSize(d, i) \/ \E active \in BOOLEAN : EditSize(d, i, active)
  \/ EditCatalog(d, [active |-> FALSE]) \/ \E name \in Names : EditCatalog(d, [name |-> name])
  \/ EditBundle(d)
  \/ \E c \in Cadet :
       \/ \E level \in Levels : ImportCadet(d, c, level) \/ EditCadet(d, c, [level |-> level])
       \/ EditCadet(d, c, [status |-> "INACTIVE"]) \/ \E i \in Item : MeasureCadet(d, c, i)
  \/ CompleteRollover(d, "2026-2027")

CountWork(d) ==
  \/ \E assigned \in SUBSET Item : OpenCount(d, assigned)
  \/ \E s \in Sessions(d) :
       \/ SubmitCount(d, s) \/ ReopenCount(d, s) \/ Finalize(d, s) \/ CancelCount(d, s)
       \/ \E i \in Item, quantity \in work.quantities :
            \/ \E assignment \in {NoItem, i} : Contribute(d, s, i, assignment, quantity)
            \/ Recount(d, s, i, quantity)
       \/ \E o \in Session(projection[d], s).observations, quantity \in work.quantities :
            CorrectContribution(d, s, o.event, quantity)

CalendarWork(d) ==
  \/ PlanEvent(d, [title |-> 1, notes |-> 1, kind |-> "NCO"])
  \/ OpenDrawer(d)
  \/ \E c \in Entries(d) :
       \/ \E value \in Names : SaveDrawer(d, c, [title |-> value]) \/ SaveDrawer(d, c, [notes |-> value])
       \/ PlanTask(d, c, 0)
       \/ \E t \in TasksOf(d, c) :
            MoveTask(d, c, t, 1) \/ DropTask(d, c, t) \/ \E completed \in BOOLEAN : CheckTask(d, c, t, completed)
       \/ \E cadet \in Cadet : Invite(d, c, cadet) \/ Uninvite(d, c, cadet)
       \/ \E bundle \in Bundles : Link(d, c, bundle) \/ Unlink(d, c, bundle)

Next ==
  \E d \in Device :
    \/ StockWork(d) \/ AmendWork(d) \/ RosterWork(d) \/ CountWork(d) \/ CalendarWork(d)
    \/ \E n \in DOMAIN log : Learn(d, n)

Spec == Init /\ [][Next]_vars

-----------------------------------------------------------------------------
(* Properties.                                                             *)

TypeOK ==
  /\ Len(log) <= Len(work.founding) + work.budget /\ Len(seen) = Len(log)
  /\ \A d \in Device :
       /\ known[d] \subseteq DOMAIN log /\ drawer[d].known \subseteq known[d]
       /\ projection[d].rejected \subseteq known[d]
       /\ \A x \in projection[d].conflicts : x.loser \in known[d] \ projection[d].rejected

\* The events that changed a size, and the units of the returns that did not go
\* back on the shelf.
AppliedTo(p, i) == ToSet(p.items[i].applied)
Receipts(p) == {n \in UNION {AppliedTo(p, i) : i \in Item} : log[n].type = "INVENTORY_RECEIVED"}
SetAside(p) ==
  SumFunction([n \in DOMAIN p.transactions |->
    SumFunction([k \in DOMAIN p.transactions[n].lines |->
                   IF LineOf(p, n, k).shelf THEN 0 ELSE LineOf(p, n, k).quantity])])
WasCounted(p) == \E i \in Item : p.items[i].counted # 0

AllAccountedFor ==
  \A d \in Device : LET p == projection[d] IN
    ~WasCounted(p) =>
      SumFunction([n \in Receipts(p) |-> Recorded(log, p, n, WholeLine)])
        = SumFunction([i \in Item |-> p.items[i].onHand])
            + SumFunction([line \in p.held |-> line.quantity]) + SetAside(p)

\* A return that is corrected after the size of its issue was moves the size that it
\* named and a holding of the other.
ResizedReturn(p, i) ==
  \E n \in AppliedTo(p, i) :
    /\ log[n].type = "RECORD_CORRECTED" /\ log[log[n].target].type = "ITEM_RETURNED"
    /\ \E m \in UNION {AppliedTo(p, j) : j \in Item} : log[m].type = "PROPERTY_CORRECTED" /\ log[m].property = log[n].line
IssuedIsHeld ==
  \A d \in Device : LET p == projection[d] IN
    (~\E j \in Item : ResizedReturn(p, j)) =>
      \A i \in Item :
        p.items[i].issued = SumFunction([line \in {line \in p.held : line.item = i} |-> line.quantity])

\* Whatever officers issued, returned, corrected and re-sized on devices that could
\* not reach each other, no unit is made and none is lost: what was received, as
\* the receipts now read, is on the shelf, with a cadet or came back unserviceable,
\* and a size counts as issued exactly what the cadets hold of it, so that no cut at
\* zero hides a difference (applySupplyTransaction, PROPERTY_CORRECTED,
\* applyRecordCorrection).  ResizedReturn is left out of the second.
UnitsConserved == AllAccountedFor /\ IssuedIsHeld

\* No event that a command lets through ever leaves an impossible state for the
\* fold to set aside, in any order and with any others.  It matters because a
\* device keeps setting such an event aside, also when earlier events arrive with
\* which it would be harmless (unsafeEvents of ArgusReplica).
NothingSetAside == \A d \in Device : projection[d].unsafe = {}

\* A cadet's needs are never served by more units than were issued to that cadet:
\* no unit serves two needs, and none is served twice when an issue is folded again
\* at another place (fulfilNeedsFromIssue).
ServedByHand(need) == \E n \in ToSet(need.applied) : log[n].type = "STILL_NEEDED_FULFILLED"
NoUnitServedTwice ==
  \A d \in Device, c \in Cadet : LET p == projection[d] IN
    SumFunction([need \in {need \in p.needs : need.cadet = c /\ ~ServedByHand(need)} |-> need.fulfilled])
      <= SumFunction([n \in {n \in DOMAIN p.transactions : log[n].type = "ITEM_ISSUED" /\ log[n].cadet = c} |->
                        SumFunction(log[n].lines)])

\* An issue that lost its stock and was recorded as Still Needed is not also
\* issued, and its needs come from one resolution only, however many officers
\* resolved the conflict and whichever events turn up before it later
\* (applyConflictResolution).
NotBothIssuedAndNeeded ==
  \A d \in Device : LET p == projection[d]
                         lost == {need \in p.needs : need.source = "CONFLICT_RESOLUTION"} IN
    \A need \in lost :
      /\ need.since \notin DOMAIN p.transactions
      /\ \A other \in lost : other.since = need.since => other.id[1] = need.id[1]

\* What a cadet still needs and what a cadet was issued never count one unit twice.
NeedsMatchIssues == NoUnitServedTwice /\ NotBothIssuedAndNeeded

\* The finalizations of a session that nothing unseen by their officer reopened,
\* cancelled, submitted or finalized as well.
Deciding == {"COUNT_SESSION_SUBMITTED", "COUNT_SESSION_REOPENED", "COUNT_SESSION_RECONCILED",
             "COUNT_SESSION_CANCELLED"}
Undisputed(d) ==
  {f \in known[d] :
     /\ log[f].type = "COUNT_SESSION_RECONCILED" /\ seen[f] \subseteq known[d]
     /\ \A n \in known[d] \ (seen[f] \cup {f}) :
          log[n].type \in Deciding => log[n].session # log[f].session}
LateAfter(f, o) ==
  /\ o.event \notin seen[f] => o.status = "LATE"
  /\ \A k \in DOMAIN o.corrections : o.corrections[k].event \notin seen[f] => o.corrections[k].late

\* The size says so until another count, in the one order or by the clock, has
\* counted it again.
LateIsShown(d, f, i) ==
  LET p == projection[d] IN
  p.items[i].active /\ LateCount(i, Session(p, log[f].session)) # {} =>
    \/ <<"LATE_COUNT", log[f].session>> \in ReconciliationReasons(log, p, i)
    \/ \E g \in AppliedTo(p, i) : log[g].type = "COUNT_SESSION_RECONCILED" /\ (Before(log, f, g) \/ f < g)

\* Contributions, corrections and recounts that the officer had not seen never
\* undo a finalization nor change its totals: they stay visible as late, and the
\* size asks to be reconciled (finalizeCountSession; applyCountReconciliation;
\* reconciliationReasons).
FinalizationStands ==
  \A d \in Device : \A f \in Undisputed(d) :
    /\ f \notin projection[d].rejected
    /\ LET session == Session(projection[d], log[f].session) IN
         /\ session.status = "RECONCILED" /\ session.finalizer = f
         /\ TotalsFor(session.observations, seen[f]) = log[f].totals
         /\ \A o \in session.observations : LateAfter(f, o)
         /\ \A i \in Item : LateIsShown(d, f, i)

\* A finalized count warns of exactly the sizes that were issued, received,
\* returned or corrected while it was open, on whichever device: not of a rename,
\* and not of what was folded before it opened (movementWarnings).  While it is
\* open, a size that it counted says so at once (movedDuringOpenCount).
MovedBetween(p, i, s, f) ==
  \E m \in AppliedTo(p, i) :
    Before(log, s, m) /\ Before(log, m, f) /\ log[m].type \notin MetadataOnly
WarnsOfMovement ==
  \A d \in Device : LET p == projection[d] IN
    \A s \in DOMAIN p.sessions : LET session == p.sessions[s] IN
      /\ session.finalizer # 0 =>
           session.warnings = {i \in DOMAIN log[session.finalizer].totals :
                                 InBaseline(session, i) /\ MovedBetween(p, i, s, session.finalizer)}
      /\ CountIsOpen(session) =>
           \A i \in VariantsOf(p) :
             (<<"MOVED_DURING_COUNT", s>> \in ReconciliationReasons(log, p, i))
               <=> /\ \E o \in session.observations : o.item = i /\ o.status # "LATE"
                   /\ InBaseline(session, i)
                   /\ \E m \in AppliedTo(p, i) : Before(log, s, m) /\ log[m].type \notin MetadataOnly

\* An edit of an event's details never replaces a value that its user's drawer had
\* not shown: then it is a conflict (CALENDAR_EVENT_UPDATED).  `Writing` are the
\* edits folded last before n that all wrote one value, with the event itself when
\* nobody had changed the field before them.
EditsOf(entry, f) ==
  {n \in ToSet(entry.applied) : log[n].type = "CALENDAR_EVENT_UPDATED" /\ f \in DOMAIN log[n].changes}
Writing(c, E, f) ==
  LET value(m) == IF m = c THEN log[c].fields[f] ELSE log[m].changes[f]
      last == LastOf(log, E \cup {c})
  IN  {m \in E \cup {c} : \A k \in E \cup {c} : ~Before(log, k, m) => value(k) = value(last)}
NoSilentOverwrite ==
  \A d \in Device : \A c \in DOMAIN projection[d].calendar :
    LET entry == projection[d].calendar[c] IN
    \A f \in DOMAIN entry.fields : \A n \in EditsOf(entry, f) :
      LET earlier == {m \in EditsOf(entry, f) : Before(log, m, n)} IN
      \/ Writing(c, earlier, f) \cap seen[n] # {}
      \/ \A m \in Writing(c, earlier, f) \ {c} : log[m].changes[f] = log[n].changes[f]

\* "neither timestamp nor arrival order silently rewrites the accepted version"
\* (docs/STAGE_3A_CADETS_AND_BUNDLES.md:15): an edit of a cadet never replaces
\* another's value that the form it was made in had not shown.
CadetEdits(p, c, f) ==
  {n \in ToSet(p.cadets[c].applied) : log[n].type = "CADET_UPDATED" /\ f \in DOMAIN log[n].changes}
NoCadetRewritten ==
  \A d \in Device, c \in Cadet : LET p == projection[d] IN
    \A f \in DOMAIN p.cadets[c].profile : \A n \in CadetEdits(p, c, f) :
      LET earlier == {m \in CadetEdits(p, c, f) : Before(log, m, n)} IN
      earlier # {} => LET m == LastOf(log, earlier) IN
        m \in seen[n] \/ log[m].changes[f] = log[n].changes[f]

\* An event shows no shortage exactly when what is on the shelf can be handed out:
\* every unit that its cadets lack from a size in use, of the size recorded for the
\* cadet where there is one, and no size more than it has (eventReadiness).
CanHandOut(p, c) ==
  LET units == Unmet(p, c) \X (1..Required(p, c)) IN
  \E handed \in [units -> VariantsOf(p)] :
    /\ \A u \in units : RecordedSize(p, u[1]) \in {NoSize, Label[handed[u]]}
    /\ \A i \in VariantsOf(p) : Cardinality({u \in units : handed[u] = i}) <= p.items[i].onHand
ShortagesAreReal ==
  \A d \in Device : \A c \in Entries(d) :
    (Shortages(projection[d], c) = {}) <=> CanHandOut(projection[d], c)
=============================================================================
