--------------------------- MODULE DeviceNotices ---------------------------
(***************************************************************************)
(* Notifications on a device (src/src/notifications/policy.ts, notifier.ts,*)
(* routing.ts, useDeviceNotifications.ts and src/public/sw.js).            *)
(*                                                                         *)
(* While the app is unlocked it looks at the alerts now and then and puts  *)
(* what is news on the device's screen, within limits it keeps in the      *)
(* browser's storage.  For the time it is closed it leaves a summary of    *)
(* deadlines to the service worker.  The person looks at the app, leaves,  *)
(* locks or closes it, and opens it from a notification, at any time.      *)
(*                                                                         *)
(* What the dashboard raises, resolves or had acknowledged is `live`: the  *)
(* condition of each alert that may be notified, alerts being numbered     *)
(* from the most urgent.  Calls to the browser take effect in the order    *)
(* they are made, one page has the app open, the setting is on and the     *)
(* browser's permission is given.                                          *)
(***************************************************************************)
EXTENDS Integers, FiniteSets

CONSTANTS
  Conditions,     \* [alert -> its conditions (fingerprints)], alerts being 1, 2, ...
  Due,            \* [task -> when it is due]
  Minute, Hour, Day, \* MINUTE; perAlertCooldownMs and globalWindowMs; dedupeMs
  Cap,            \* globalCap
  Refresh,        \* SUMMARY_REFRESH_MS
  RecentlyOpened, \* how long the worker keeps quiet after the app was opened
  Stale,          \* STALE_DUE: when a passed deadline is too old to be told
  MaxTime,        \* the model's last moment
  MaxChanges      \* how often an alert is raised, changes or is resolved: [closedAppChecks -> Nat]

Alert == DOMAIN Conditions
Task == DOMAIN Due

ASSUME NoticesAssumption ==
  /\ IsFiniteSet(Alert) /\ Alert = 1 .. Cardinality(Alert)
  /\ {Minute, Hour, Day, Cap, Refresh, RecentlyOpened, Stale} \subseteq Nat \ {0}
  /\ {Due[t] : t \in Task} \cup {MaxTime} \subseteq Nat /\ MaxChanges \in [BOOLEAN -> Nat]
  /\ Minute <= Hour /\ Hour < Day

None == "none"
Never == -Day   \* a time that is not recorded counts as long ago
NothingWritten == [items |-> {None}, at |-> Never]
NoSummary == [items |-> {}, opened |-> Never]
Closed == "closed"

VARIABLES
  now,
  live,        \* [alert -> the condition it is in, if it is one to notify]
  changes,     \* how often that has changed
  closedAppChecks, \* does the browser let the worker check?
  page,        \* "closed", "locked" or "open", and whether it is on the screen
  visible,
  pending,     \* the alert whose notification was opened and waits for the page to be unlocked, or 0
  history,     \* what the notifier remembers ...
  stored,      \* ... and what of it the browser keeps
  wasVisible,
  withdrawn,   \* tags the notifier has closed
  written,     \* what the notifier last wrote to the summary, and when
  summary,     \* what the worker finds
  told,        \* the deadlines the worker noted that it told: [task, at]
  showing,     \* the alerts whose notifications are on the device's screen
  shown,       \* what was shown during the last Day, and when
  looked,      \* when the notifier last saw the app on the screen, or leave it
  reminders    \* every deadline the worker ever told of

app == <<closedAppChecks, page, visible, pending>>
notifier == <<history, stored, wasVisible, withdrawn, written>>
outside == <<showing, shown, looked>>
worker == <<summary, told, reminders>>
vars == <<now, live, changes, app, notifier, outside, worker>>

-----------------------------------------------------------------------------
(* The policy (decideNotifications). *)

EmptyHistory == [opened |-> Never, raised |-> [a \in Alert |-> [of |-> None, at |-> Never]], notified |-> {}]

MarkOpened(h) == [h EXCEPT !.opened = IF now > @ THEN now ELSE @]

Remembered(h) == {n \in h.notified : now - n.at < Day}

\* Since when each condition that is live has been there, as far as this device saw.
Raised(h) ==
  [a \in Alert |-> IF live[a] = None THEN EmptyHistory.raised[a]
                   ELSE IF h.raised[a].of = live[a] THEN h.raised[a]
                   ELSE [of |-> live[a], at |-> now]]

Cooling(a, N) == \E n \in N : n.alert = a /\ now - n.at < Hour

\* Live conditions that arose since the app was looked at, of which nothing was shown.
Candidates(h) ==
  {a \in Alert : /\ live[a] # None
                 /\ h.opened < Raised(h)[a].at
                 /\ ~\E n \in Remembered(h) : n.alert = a /\ n.of = live[a]
                 /\ ~Cooling(a, Remembered(h))}

Recent(h) == {n \in Remembered(h) : now - n.at < Hour}

\* The most urgent of them, as many as the cap still allows (each one shown counts at once).
News(h) ==
  IF visible THEN {}
  ELSE {a \in Candidates(h) :
          Cardinality(Recent(h)) + Cardinality({b \in Candidates(h) : b < a}) < Cap}

NotifiedAfter(h) == Remembered(h) \cup {[alert |-> a, of |-> live[a], at |-> now] : a \in News(h)}

Withdraw(h) == {a \in Alert : (\E n \in h.notified : n.alert = a) /\ (visible \/ live[a] = None)}

-----------------------------------------------------------------------------
(* The notifier. *)

\* Mutant: what was shown is not worth a write of its own.
KeepRaised(h) == IF h.raised = stored.raised /\ h.opened - stored.opened < Minute THEN stored ELSE h

\* commit: the time the app was opened alone is written once a minute.
Keep(h) ==
  IF [h EXCEPT !.opened = 0] = [stored EXCEPT !.opened = 0] /\ h.opened - stored.opened < Minute
  THEN stored ELSE h

Items == {t \in Task : Due[t] >= now - Stale}

\* refreshSummary, for the worker (closedAppSummary).
RefreshSummary(h, leaving) ==
  IF closedAppChecks /\ (leaving \/ written.items # Items \/ now - written.at >= Refresh)
  THEN /\ written' = [items |-> Items, at |-> now]
       /\ summary' = [items |-> Items, opened |-> IF h.opened = Never THEN now ELSE h.opened]
  ELSE UNCHANGED <<written, summary>>

\* Mutant: what is shown again is taken to be closed already.
WithdrawnOnce(news) == withdrawn

WithdrawnBut(news) == withdrawn \ news

\* Mutant: leaving is not looking.
LeavingIgnored == FALSE

Leaving == wasVisible /\ ~visible

\* evaluate: on a timer, when the tab is shown or hidden, and when the data changed.
Evaluate ==
  LET h == IF Leaving THEN MarkOpened(history) ELSE history
      after == [opened |-> IF visible THEN now ELSE h.opened, raised |-> Raised(h),
                notified |-> NotifiedAfter(h)]
      news == News(h)
      close == Withdraw(h) \ WithdrawnBut(news)
  IN /\ page = "open"
     /\ wasVisible' = visible
     /\ history' = after
     /\ stored' = Keep(after)
     /\ withdrawn' = WithdrawnBut(news) \cup close
     /\ showing' = (showing \cup news) \ close
     /\ shown' = shown \cup {[alert |-> a, of |-> live[a], at |-> now] : a \in news}
     /\ looked' = IF visible \/ (wasVisible /\ ~visible) THEN now ELSE looked
     /\ RefreshSummary(after, Leaving)
     /\ UNCHANGED <<now, live, changes, app, told, reminders>>

\* markOpened of the notifier, for the notification of alert a.
Opened(a, h, gone) ==
  /\ history' = MarkOpened(h)
  /\ stored' = Keep(MarkOpened(h))
  /\ withdrawn' = gone \cup {a}
  /\ showing' = showing \ {a}
  /\ looked' = now

-----------------------------------------------------------------------------
(* The person and the page. *)

\* A click is routed to the page that is there, or opens one; a page that is locked, or still to
\* be opened, holds it.
Click(a) ==
  /\ a \in showing
  /\ visible' = TRUE
  /\ \/ /\ page = "open" /\ Opened(a, history, withdrawn)
        /\ UNCHANGED <<page, pending>>
     \/ /\ page # "open"
        /\ page' = "locked" /\ pending' = a
        /\ showing' = showing \ {a}
        /\ UNCHANGED <<history, stored, withdrawn, looked>>
  /\ UNCHANGED <<now, live, changes, closedAppChecks, wasVisible, written, shown, worker>>

\* The app is opened, perhaps in a tab that is not on the screen.
Open ==
  /\ page = Closed /\ page' = "locked" /\ visible' \in BOOLEAN
  /\ UNCHANGED <<now, live, changes, closedAppChecks, pending, notifier, outside, worker>>

\* The unlocked app makes a notifier (of what is stored) and takes what was opened meanwhile.
Unlock ==
  /\ page = "locked" /\ page' = "open" /\ pending' = 0
  /\ wasVisible' = visible
  /\ IF pending = 0 THEN UNCHANGED <<history, stored, withdrawn, showing, looked>> ELSE Opened(pending, history, {})
  /\ UNCHANGED <<now, live, changes, closedAppChecks, visible, written, shown, worker>>

\* The page is locked or closed, at any moment, with what it did not store.
Leave ==
  /\ page # Closed
  /\ \/ page = "open" /\ page' = "locked" /\ UNCHANGED <<visible, pending>>
     \/ page' = Closed /\ visible' = FALSE /\ pending' = 0
  /\ history' = stored /\ wasVisible' = FALSE /\ withdrawn' = {} /\ written' = NothingWritten
  /\ UNCHANGED <<now, live, changes, closedAppChecks, stored, outside, worker>>

TurnTo ==
  /\ page # Closed /\ visible' = ~visible
  /\ UNCHANGED <<now, live, changes, closedAppChecks, page, pending, notifier, outside, worker>>

-----------------------------------------------------------------------------
(* The service worker, and the world. *)

\* Mutant: what was told is forgotten after a day, as the page does.
ToldOfADay == {n \in told : now - n.at < Day}

ToldLately == {n \in told : now - n.at < Stale + Day}

\* checkPassedDeadlines, when the browser runs it.
Check ==
  /\ page = Closed /\ summary # NoSummary
  /\ now - summary.opened >= RecentlyOpened
  /\ LET due == {t \in summary.items : /\ Due[t] <= now /\ now - Due[t] < Stale
                                       /\ ~\E n \in ToldLately : n.task = t}
         new == {[task |-> t, at |-> now] : t \in due}
     IN /\ due # {}
        /\ told' = ToldLately \cup new
        /\ reminders' = reminders \cup new
  /\ UNCHANGED <<now, live, changes, app, notifier, outside, summary>>

Elapse ==
  /\ now < MaxTime /\ now' = now + 1
  /\ shown' = {n \in shown : now' - n.at < Day}
  /\ UNCHANGED <<live, changes, app, notifier, showing, looked, worker>>

Change(a) ==
  /\ changes < MaxChanges[closedAppChecks] /\ changes' = changes + 1
  /\ \E c \in {None} \cup Conditions[a] : c # live[a] /\ live' = [live EXCEPT ![a] = c]
  /\ UNCHANGED <<now, app, notifier, outside, worker>>

Init ==
  /\ now = 0 /\ live = [a \in Alert |-> None] /\ changes = 0 /\ closedAppChecks \in BOOLEAN
  /\ page = Closed /\ visible = FALSE /\ pending = 0
  /\ history = EmptyHistory /\ stored = EmptyHistory
  /\ wasVisible = FALSE /\ withdrawn = {} /\ written = NothingWritten
  /\ summary = NoSummary /\ told = {} /\ reminders = {}
  /\ showing = {} /\ shown = {} /\ looked = Never

Next ==
  \/ Evaluate \/ Open \/ Unlock \/ Leave \/ TurnTo \/ Check \/ Elapse
  \/ \E a \in Alert : Click(a) \/ Change(a)

Spec == Init /\ [][Next]_vars

-----------------------------------------------------------------------------
(* Properties. *)

TimeOrNever == {Never} \cup 0 .. MaxTime
HistoryOK(h) ==
  /\ h.opened \in TimeOrNever /\ DOMAIN h.raised = Alert
  /\ \A n \in h.notified : n.alert \in Alert /\ n.of \in Conditions[n.alert] /\ n.at \in 0 .. now

\* Times are past; what is shown was remembered when it was, and only an alert that exists is.
TypeOK ==
  /\ now \in 0 .. MaxTime /\ changes \in 0 .. MaxChanges[closedAppChecks]
  /\ page \in {Closed, "locked", "open"} /\ (page = Closed => ~visible) /\ pending \in {0} \cup Alert
  /\ HistoryOK(history) /\ HistoryOK(stored)
  /\ withdrawn \cup showing \subseteq Alert
  /\ {looked, written.at, summary.opened} \subseteq TimeOrNever

\* However often the page is locked, closed or opened again: no more than Cap notifications in any
\* Hour, none of one alert twice within it, and none of one condition twice within a Day
\* (NOTIFICATION_RULES, kept by decideNotifications from what commit stored).
Restrained ==
  /\ \A n \in shown : Cardinality({m \in shown : m.at <= n.at /\ n.at - m.at < Hour}) <= Cap
  /\ \A m, n \in shown : (m # n /\ m.alert = n.alert /\ m.at <= n.at) => (m.of # n.of /\ n.at - m.at >= Hour)

\* What the person has looked at is no longer news: a condition is shown only if this device first
\* saw it after the app was last on the screen or left it - as far as that was stored.  A look that
\* was not worth a write is forgotten with the page, but that is less than a Minute (evaluate,
\* markOpened, commit).
LookedAtIsNotNews ==
  [][\A n \in shown' \ shown : /\ history'.opened < history'.raised[n.alert].at
                               /\ looked' - history'.opened < Minute]_vars

\* Once the notifier has looked, nothing is left on the device's screen that is over, and nothing at
\* all when the app itself is on the screen; what was shown a Day ago may be forgotten
\* (decideNotifications withdraws by what it remembers; evaluate closes nothing twice).
StaleIsWithdrawn ==
  [][Evaluate => \A a \in showing' : \/ live[a] # None /\ ~visible
                                     \/ ~\E n \in shown : n.alert = a]_vars

\* While the app is closed each deadline is told once, whatever the worker forgets, and however often
\* the summary is written again (checkPassedDeadlines, writeSummary).
DeadlineToldOnce == \A m, n \in reminders : m.task = n.task => m = n
=============================================================================
