---------------------------- MODULE CalendarFold ----------------------------
(***************************************************************************)
(* What the events of the calendar do to the projection: edits of an       *)
(* event's details merge field by field or become a conflict, tasks,       *)
(* attendees and bundles are sets that only ever gain and lose members     *)
(* (src/src/distributed/replica.ts).                                       *)
(*                                                                         *)
(* A field remembers who wrote its value, and an edit says which writers   *)
(* its author had seen (fieldRevisions and baseRevisions).  A task is      *)
(* named by the event that added it.                                       *)
(***************************************************************************)
EXTENDS CountFold

OnCalendar(p, c) == c \in DOMAIN p.calendar

NewTask(offset) == [offset |-> offset, completed |-> FALSE, removed |-> FALSE]

CreateCalendar(log, p, n) ==
  [p EXCEPT !.calendar = Joined(@, n,
     [fields |-> log[n].fields, writers |-> [f \in DOMAIN log[n].fields |-> {n}],
      tasks |-> <<>>, attendees |-> {}, bundles |-> <<>>, version |-> 1, applied |-> <<n>>])]

\* Same field, another value, and the author saw none of the edits that wrote the
\* one it has: a concurrent edit.
ContestedFields(event, e) ==
  {f \in DOMAIN e.changes : event.fields[f] # e.changes[f] /\ event.writers[f] \cap e.base[f] = {}}

\* (what must not happen: whoever wrote the field before still counts as its writer)
WritersKept(event, e, n) ==
  [f \in DOMAIN event.fields |-> event.writers[f] \cup (IF f \in DOMAIN e.changes THEN {n} ELSE {})]

\* Writing the value a field has already adds a writer; another value replaces them.
WritersAfter(event, e, n) ==
  [f \in DOMAIN event.fields |->
     CASE f \notin DOMAIN e.changes -> event.writers[f]
       [] f \in DOMAIN e.changes /\ event.fields[f] = e.changes[f] -> event.writers[f] \cup {n}
       [] OTHER -> {n}]

\* An entry is replaced by what an event makes of it.
Put(p, c, entry, n) == [p EXCEPT !.calendar[c] = Touch(entry, n)]

UpdateCalendar(log, p, n) ==
  LET e == log[n]  event == p.calendar[e.entry] IN
  IF ContestedFields(event, e) # {} THEN AddConflict(p, n)
  ELSE Put(p, e.entry, [event EXCEPT !.fields = Changed(@, e.changes), !.writers = WritersAfter(event, e, n)], n)

\* An edit of a task that was taken off the list reaches it there; so does its
\* completion.  Taking it off twice changes nothing more.
AddTask(log, p, n) ==
  LET e == log[n]  event == p.calendar[e.entry] IN
  Put(p, e.entry, [event EXCEPT !.tasks = Joined(@, n, NewTask(e.offset))], n)
UpdateTask(log, p, n) ==
  LET e == log[n]  event == p.calendar[e.entry] IN
  Put(p, e.entry, [event EXCEPT !.tasks[e.task].offset = e.offset], n)
CompleteTask(log, p, n) ==
  LET e == log[n]  event == p.calendar[e.entry] IN
  Put(p, e.entry, [event EXCEPT !.tasks[e.task].completed = e.completed], n)
RemoveTask(log, p, n) ==
  LET e == log[n]  event == p.calendar[e.entry] IN
  Put(p, e.entry, [event EXCEPT !.tasks[e.task].removed = TRUE], n)

\* Sets of attendees; linked bundles keep the order in which they were added.
AddAttendees(log, p, n) ==
  LET e == log[n]  event == p.calendar[e.entry] IN
  Put(p, e.entry, [event EXCEPT !.attendees = @ \cup e.cadets], n)
RemoveAttendees(log, p, n) ==
  LET e == log[n]  event == p.calendar[e.entry] IN
  Put(p, e.entry, [event EXCEPT !.attendees = @ \ e.cadets], n)
LinkBundles(log, p, n) ==
  LET e == log[n]  event == p.calendar[e.entry]
      added == SelectSeq(e.bundles, LAMBDA b : b \notin ToSet(event.bundles))
  IN  Put(p, e.entry, [event EXCEPT !.bundles = @ \o added], n)
UnlinkBundles(log, p, n) ==
  LET e == log[n]  event == p.calendar[e.entry]
      kept == SelectSeq(event.bundles, LAMBDA b : b \notin ToSet(e.bundles))
  IN  Put(p, e.entry, [event EXCEPT !.bundles = kept], n)

TaskTypes == {"CALENDAR_TASK_UPDATED", "TASK_COMPLETED", "CALENDAR_TASK_REMOVED"}
CalendarThrows(log, p, n) ==
  LET e == log[n] IN
  /\ e.type # "CALENDAR_EVENT_CREATED"
  /\ \/ ~OnCalendar(p, e.entry)
     \/ e.type \in TaskTypes /\ e.task \notin DOMAIN p.calendar[e.entry].tasks
     \/ e.type = "CALENDAR_ATTENDEES_ADDED" /\ \E c \in e.cadets : ~KnownCadet(p, c)

ApplyCalendar(log, p, n) ==
  CASE log[n].type = "CALENDAR_EVENT_CREATED" -> CreateCalendar(log, p, n)
    [] log[n].type = "CALENDAR_EVENT_UPDATED" -> UpdateCalendar(log, p, n)
    [] log[n].type = "CALENDAR_TASK_ADDED" -> AddTask(log, p, n)
    [] log[n].type = "CALENDAR_TASK_UPDATED" -> UpdateTask(log, p, n)
    [] log[n].type = "TASK_COMPLETED" -> CompleteTask(log, p, n)
    [] log[n].type = "CALENDAR_TASK_REMOVED" -> RemoveTask(log, p, n)
    [] log[n].type = "CALENDAR_ATTENDEES_ADDED" -> AddAttendees(log, p, n)
    [] log[n].type = "CALENDAR_ATTENDEES_REMOVED" -> RemoveAttendees(log, p, n)
    [] log[n].type = "CALENDAR_BUNDLES_ADDED" -> LinkBundles(log, p, n)
    [] log[n].type = "CALENDAR_BUNDLES_REMOVED" -> UnlinkBundles(log, p, n)
=============================================================================
