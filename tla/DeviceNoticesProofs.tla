------------------------ MODULE DeviceNoticesProofs ------------------------
(***************************************************************************)
(* What holds of the notifications of a device for any number of alerts    *)
(* and tasks, any times and limits and any behaviour of the page.          *)
(*                                                                         *)
(* The worker remembers what it told of for longer than a deadline can be  *)
(* told at all.  The page keeps in the browser every notification it       *)
(* shows, so that the limits hold across restarts; of what the person      *)
(* looked at it keeps all but the last Minute.                             *)
(***************************************************************************)
EXTENDS DeviceNotices, FiniteSetTheorems, TLAPS

\* The worker remembers what it told of for longer than a deadline can be told at all: a reminder
\* is never older than its deadline, and is forgotten only when the deadline is too stale.
RemindersKept ==
  /\ now \in Nat /\ summary.items \subseteq Task
  /\ \A m \in reminders :
       /\ m.task \in Task /\ m.at \in Nat
       /\ Due[m.task] <= m.at /\ m.at <= now
       /\ now - m.at < Stale + Day => m \in told

IInv == RemindersKept /\ DeadlineToldOnce

\* Tasks are due at times.
LEMMA DueIsTime == \A t \in Task : Due[t] \in Nat
BY NoticesAssumption

\* The device starts in the invariant.
LEMMA InitKept == Init => IInv
BY DEF Init, IInv, RemindersKept, DeadlineToldOnce, NoSummary

\* A check tells only of deadlines that no reminder is about: one that was told of is remembered
\* as long as the deadline is not stale.
LEMMA CheckKeeps ==
  ASSUME IInv, Check
  PROVE  IInv'
<1> DEFINE due == {t \in summary.items : /\ Due[t] <= now /\ now - Due[t] < Stale
                                          /\ ~\E n \in ToldLately : n.task = t}
           new == {[task |-> t, at |-> now] : t \in due}
<1>1. /\ told' = ToldLately \cup new /\ reminders' = reminders \cup new
      /\ now' = now /\ summary' = summary
  BY DEF Check, app, notifier, outside
<1>2. Stale \in Nat /\ Day \in Nat /\ now \in Nat /\ due \subseteq Task
  BY NoticesAssumption DEF IInv, RemindersKept
<1>3. \A m \in reminders : m.task \notin due
  <2> SUFFICES ASSUME NEW m \in reminders, m.task \in due PROVE FALSE
    OBVIOUS
  <2>1. now - m.at < Stale + Day
    BY <1>2, DueIsTime, NoticesAssumption DEF IInv, RemindersKept
  <2>2. m \in ToldLately
    BY <2>1 DEF IInv, RemindersKept, ToldLately
  <2> QED BY <2>2
<1>4. DeadlineToldOnce'
  BY <1>1, <1>3 DEF IInv, DeadlineToldOnce
<1>5. RemindersKept'
  <2>1. \A m \in reminders : now - m.at < Stale + Day => m \in ToldLately
    BY DEF IInv, RemindersKept, ToldLately
  <2>2. \A m \in new : m.task \in Task /\ m.at = now /\ Due[m.task] <= m.at
    BY <1>2
  <2> QED BY <1>1, <1>2, <2>1, <2>2 DEF IInv, RemindersKept
<1> QED BY <1>4, <1>5 DEF IInv

\* Time only makes reminders older.
LEMMA ElapseKeeps ==
  ASSUME IInv, Elapse
  PROVE  IInv'
<1>1. /\ told' = told /\ reminders' = reminders /\ summary' = summary /\ now' = now + 1
  BY DEF Elapse, worker
<1>2. Stale \in Nat /\ Day \in Nat /\ now \in Nat
  BY NoticesAssumption DEF IInv, RemindersKept
<1>3. \A m \in reminders : m.at \in Nat /\ m.at <= now
  BY DEF IInv, RemindersKept
<1> QED BY <1>1, <1>2, <1>3 DEF IInv, RemindersKept, DeadlineToldOnce

\* The page writes the summary, and never the worker's own notes.
LEMMA PageKeeps ==
  ASSUME IInv, UNCHANGED <<now, told, reminders>>,
         summary' = summary \/ summary'.items = Items
  PROVE  IInv'
BY DEF IInv, RemindersKept, DeadlineToldOnce, Items

\* Every step keeps the invariant.
LEMMA NextKeeps == IInv /\ [Next]_vars => IInv'
<1> SUFFICES ASSUME IInv, [Next]_vars PROVE IInv'
  OBVIOUS
<1>1. CASE Evaluate
  <2>1. UNCHANGED <<now, told, reminders>>
    BY <1>1 DEF Evaluate
  <2>2. summary' = summary \/ summary'.items = Items
    BY <1>1 DEF Evaluate, RefreshSummary
  <2> QED BY <2>1, <2>2, PageKeeps
<1>2. CASE Open \/ Unlock \/ Leave \/ TurnTo
  BY <1>2, PageKeeps DEF Open, Unlock, Leave, TurnTo, worker
<1>3. CASE Check
  BY <1>3, CheckKeeps
<1>4. CASE Elapse
  BY <1>4, ElapseKeeps
<1>5. CASE \E a \in Alert : Click(a) \/ Change(a)
  BY <1>5, PageKeeps DEF Click, Change, worker
<1>6. CASE UNCHANGED vars
  BY <1>6, PageKeeps DEF vars, worker
<1> QED BY <1>1, <1>2, <1>3, <1>4, <1>5, <1>6 DEF Next

\* While the app is closed each deadline is told once, however often the worker runs, whatever it
\* forgets and whenever the page writes the summary again (checkPassedDeadlines, writeSummary).
THEOREM EachDeadlineOnce == Spec => []DeadlineToldOnce
<1>1. IInv => DeadlineToldOnce
  BY DEF IInv
<1> QED BY <1>1, InitKept, NextKeeps, PTL DEF Spec

-----------------------------------------------------------------------------
(* Counting. *)

\* Of the members of a set of numbers, at most k have fewer than k smaller ones: the most urgent
\* candidates, as many as the cap still allows, are no more than it allows.
LEMMA FirstOnes ==
  ASSUME NEW C, C \subseteq Nat, IsFiniteSet(C), NEW k \in Nat
  PROVE  LET F == {a \in C : Cardinality({b \in C : b < a}) < k}
         IN  IsFiniteSet(F) /\ Cardinality(F) <= k
<1> DEFINE Below(a) == {b \in C : b < a}
           F == {a \in C : Cardinality(Below(a)) < k}
           rank == [a \in F |-> Cardinality(Below(a))]
<1>1. ASSUME NEW a \in C PROVE IsFiniteSet(Below(a)) /\ Cardinality(Below(a)) \in Nat
  <2>1. Below(a) \subseteq C
    OBVIOUS
  <2> QED BY <2>1, FS_Subset, FS_CardinalityType
<1>2. rank \in [F -> 0 .. k - 1]
  <2>1. \A a \in F : Cardinality(Below(a)) \in 0 .. k - 1
    BY <1>1
  <2> HIDE DEF Below, F
  <2> QED BY <2>1
<1>3. ASSUME NEW a \in F, NEW b \in F, a < b
      PROVE  rank[a] < rank[b]
  <2>1. a \in Nat /\ b \in Nat /\ \A c \in C : c \in Nat
    OBVIOUS
  <2>2. a \in Below(b) /\ a \notin Below(a) /\ Below(a) \subseteq Below(b)
    <3>1. \A c \in Below(a) : c \in Below(b)
      BY <1>3, <2>1
    <3>2. a \in Below(b) /\ a \notin Below(a)
      BY <1>3, <2>1
    <3> QED BY <3>1, <3>2
  <2>3. a \in C /\ b \in C
    OBVIOUS
  <2>4. IsFiniteSet(Below(b)) /\ Cardinality(Below(a)) \in Nat /\ Cardinality(Below(b)) \in Nat
    <3> HIDE DEF Below
    <3> QED BY <1>1, <2>3
  <2>5. /\ Cardinality(Below(a)) <= Cardinality(Below(b))
        /\ Cardinality(Below(a)) # Cardinality(Below(b))
    <3> HIDE DEF Below
    <3> QED BY <2>2, <2>4, FS_Subset
  <2> HIDE DEF Below, F
  <2> QED BY <2>4, <2>5
<1>4. rank \in Injection(F, 0 .. k - 1)
  <2>1. \A a, b \in F : rank[a] = rank[b] => a = b
    <3> SUFFICES ASSUME NEW a \in F, NEW b \in F, rank[a] = rank[b], a # b PROVE FALSE
      OBVIOUS
    <3>1. a \in Nat /\ b \in Nat /\ rank[a] \in Int /\ rank[b] \in Int
      BY <1>2
    <3>2. CASE a < b
      BY <1>3, <3>1, <3>2
    <3>3. CASE b < a
      BY <1>3, <3>1, <3>3
    <3> QED BY <3>1, <3>2, <3>3
  <2> HIDE DEF rank
  <2> QED BY <1>2, <2>1 DEF Injection, IsInjective
<1>5. IsFiniteSet(0 .. k - 1) /\ Cardinality(0 .. k - 1) = k
  BY FS_Interval
<1> HIDE DEF rank, F
<1>6. IsFiniteSet(F) /\ Cardinality(F) <= k
  BY <1>4, <1>5, FS_Injection
<1> QED BY <1>6 DEF F

-----------------------------------------------------------------------------
(* What is shown. *)

IsHistory(h) ==
  /\ h = [opened |-> h.opened, raised |-> h.raised, notified |-> h.notified]
  /\ h.opened \in Int /\ h.opened <= now
  /\ IsFiniteSet(h.notified)
  /\ \A n \in h.notified : n.at \in Nat /\ n.at <= now

\* Every notification of the last Day is remembered, on the page and in the browser, ...
ShownIsRemembered ==
  /\ history.notified = stored.notified
  /\ shown \subseteq history.notified
  /\ \A n \in shown : now - n.at < Day

\* ... and all but a Minute of the last look.
LookIsRemembered ==
  looked \in Int /\ looked - history.opened < Minute /\ looked - stored.opened < Minute

ShownInv ==
  /\ now \in Nat /\ IsHistory(history) /\ IsHistory(stored)
  /\ ShownIsRemembered /\ Restrained /\ LookIsRemembered
  /\ showing \subseteq Alert /\ showing \cap withdrawn = {}

\* The units of time are positive, and an hour is shorter than a day.
LEMMA Times == {Minute, Hour, Day, Cap} \subseteq Nat \ {0} /\ Hour < Day
BY NoticesAssumption

\* commit keeps every notification, and all but a Minute of the look.
LEMMA KeepKeeps ==
  ASSUME NEW h, ShownInv, IsHistory(h)
  PROVE  /\ IsHistory(Keep(h)) /\ Keep(h).notified = h.notified
         /\ h.opened - Keep(h).opened < Minute
<1>1. CASE /\ [h EXCEPT !.opened = 0] = [stored EXCEPT !.opened = 0]
           /\ h.opened - stored.opened < Minute
  <2>1. Keep(h) = stored
    BY <1>1 DEF Keep
  <2>2. stored.notified = h.notified
    <3>1. [h EXCEPT !.opened = 0].notified = [stored EXCEPT !.opened = 0].notified
      BY <1>1
    <3> QED BY <3>1 DEF IsHistory, ShownInv
  <2> QED BY <1>1, <2>1, <2>2 DEF ShownInv
<1>2. CASE ~(/\ [h EXCEPT !.opened = 0] = [stored EXCEPT !.opened = 0]
             /\ h.opened - stored.opened < Minute)
  <2>1. Keep(h) = h
    BY <1>2 DEF Keep
  <2>2. h.opened - h.opened < Minute
    BY Times DEF IsHistory
  <2> QED BY <2>1, <2>2
<1> QED BY <1>1, <1>2

\* markOpened takes the look for now, and keeps what was notified.
LEMMA MarkOpenedIsNow ==
  ASSUME ShownInv
  PROVE  MarkOpened(history) = [opened |-> now, raised |-> history.raised,
                                notified |-> history.notified]
<1>1. IsHistory(history) /\ now \in Nat
  BY DEF ShownInv
<1>2. (IF now > history.opened THEN now ELSE history.opened) = now
  BY <1>1 DEF IsHistory
<1> QED BY <1>1, <1>2 DEF MarkOpened, IsHistory

\* The history an evaluation decides from, and the one it leaves.
Decided == IF Leaving THEN MarkOpened(history) ELSE history
After == [opened |-> IF visible THEN now ELSE Decided.opened, raised |-> Raised(Decided),
          notified |-> NotifiedAfter(Decided)]
Shown == {[alert |-> a, of |-> live[a], at |-> now] : a \in News(Decided)}

\* What an evaluation writes, shows and withdraws.
LEMMA EvaluateSteps ==
  ASSUME Evaluate
  PROVE  /\ history' = After /\ stored' = Keep(After)
         /\ shown' = shown \cup Shown
         /\ looked' = IF visible \/ Leaving THEN now ELSE looked
         /\ withdrawn' = (withdrawn \ News(Decided)) \cup
                           (Withdraw(Decided) \ (withdrawn \ News(Decided)))
         /\ showing' = (showing \cup News(Decided)) \
                           (Withdraw(Decided) \ (withdrawn \ News(Decided)))
         /\ UNCHANGED <<now, live>>
BY DEF Evaluate, Decided, After, Shown, WithdrawnBut, Leaving

\* A decision notes no notice as shown; it notes only when the app was last open.
LEMMA DecidedHistory ==
  ASSUME ShownInv
  PROVE  /\ IsHistory(Decided) /\ Decided.notified = history.notified
         /\ Decided.opened = IF Leaving THEN now ELSE history.opened
BY MarkOpenedIsNow DEF Decided, ShownInv, IsHistory

\* What is news is no more than the cap still allows, and nothing that was shown lately.
LEMMA NewsIsRestrained ==
  ASSUME ShownInv
  PROVE  /\ IsFiniteSet(Shown) /\ IsFiniteSet(Recent(Decided))
         /\ Shown # {} => Cardinality(Recent(Decided)) + Cardinality(Shown) <= Cap
         /\ \A a \in News(Decided) : \A n \in Remembered(Decided) :
              n.alert = a => n.of # live[a] /\ ~(now - n.at < Hour)
<1> DEFINE D == Decided
           C == Candidates(D)
           r == Cardinality(Recent(D))
<1>1. IsFiniteSet(Remembered(D)) /\ IsFiniteSet(Recent(D)) /\ r \in Nat
  <2>1. IsFiniteSet(Remembered(D))
    BY DecidedHistory, FS_Subset DEF Remembered, IsHistory
  <2> QED BY <2>1, FS_Subset, FS_CardinalityType DEF Recent
<1>2. C \subseteq Alert /\ C \subseteq Nat /\ IsFiniteSet(C)
  <2>1. C \subseteq Alert
    BY DEF Candidates
  <2>2. Cardinality(Alert) \in Nat
    BY NoticesAssumption, FS_CardinalityType
  <2>3. Alert \subseteq Nat
    BY <2>2, NoticesAssumption
  <2> QED BY <2>1, <2>3, NoticesAssumption, FS_Subset
<1>3. News(D) \subseteq C
  BY DEF News
<1>4. IsFiniteSet(News(D)) /\ IsFiniteSet(Shown) /\ Cardinality(Shown) = Cardinality(News(D))
  <2>1. IsFiniteSet(News(D))
    BY <1>2, <1>3, FS_Subset
  <2> DEFINE f == [a \in News(D) |-> [alert |-> a, of |-> live[a], at |-> now]]
  <2>2. f \in [News(D) -> Shown] /\ \A n \in Shown : \E a \in News(D) : f[a] = n
    BY DEF Shown
  <2>3. \A a, b \in News(D) : f[a] = f[b] => a = b
    OBVIOUS
  <2> HIDE DEF f
  <2>4. f \in Injection(News(D), Shown) /\ f \in Surjection(News(D), Shown)
    BY <2>2, <2>3 DEF Injection, IsInjective, Surjection
  <2>5. f \in Bijection(News(D), Shown)
    BY <2>4 DEF Bijection
  <2> QED BY <2>1, <2>5, FS_Bijection DEF ExistsBijection
<1>5. ASSUME Shown # {} PROVE r + Cardinality(Shown) <= Cap
  <2>1. ~visible
    BY <1>5 DEF Shown, News
  <2>2. News(D) = {a \in C : r + Cardinality({b \in C : b < a}) < Cap}
    BY <2>1 DEF News
  <2>3. \A a \in C : Cardinality({b \in C : b < a}) \in Nat
    BY <1>2, FS_Subset, FS_CardinalityType
  <2>4. PICK a \in C : r + Cardinality({b \in C : b < a}) < Cap
    BY <1>5, <2>2 DEF Shown
  <2> HIDE DEF C, r
  <2>5. Cap - r \in Nat
    BY <1>1, <2>3, <2>4, Times
  <2>6. News(D) = {b \in C : Cardinality({c \in C : c < b}) < Cap - r}
    BY <1>1, <2>2, <2>3, Times
  <2>7. Cardinality(News(D)) <= Cap - r
    BY <1>2, <2>5, <2>6, FirstOnes
  <2>8. Cardinality(News(D)) \in Nat
    BY <1>4, FS_CardinalityType
  <2> QED BY <1>1, <1>4, <2>7, <2>8, Times
<1>6. \A a \in News(D) : \A n \in Remembered(D) :
        n.alert = a => n.of # live[a] /\ ~(now - n.at < Hour)
  BY <1>3 DEF Candidates, Cooling
<1> QED BY <1>1, <1>4, <1>5, <1>6

\* An evaluation shows nothing beyond the limits.
LEMMA EvaluateRestrained ==
  ASSUME ShownInv, Evaluate
  PROVE  Restrained'
<1>1. /\ shown' = shown \cup Shown /\ now' = now /\ now \in Nat
      /\ shown \subseteq Remembered(Decided)
      /\ \A n \in Shown : n.at = now
      /\ \A n \in shown : n.at \in Nat /\ n.at <= now
  BY EvaluateSteps, DecidedHistory
     DEF Shown, ShownInv, ShownIsRemembered, IsHistory, Remembered
<1>2. \A n \in shown' : n.at \in Nat /\ n.at <= now
  BY <1>1
<1>3. ASSUME NEW n \in shown'
      PROVE  Cardinality({m \in shown' : m.at <= n.at /\ n.at - m.at < Hour}) <= Cap
  <2> DEFINE S == {m \in shown' : m.at <= n.at /\ n.at - m.at < Hour}
  <2>1. CASE Shown = {} \/ n.at # now
    <3>1. n \in shown
      BY <1>1, <1>3, <2>1
    <3>2. S = {m \in shown : m.at <= n.at /\ n.at - m.at < Hour}
      BY <1>1, <1>2, <2>1
    <3> QED BY <3>1, <3>2 DEF ShownInv, Restrained
  <2>2. CASE Shown # {} /\ n.at = now
    <3>1. S \subseteq Recent(Decided) \cup Shown
      BY <1>1, <2>2 DEF Recent
    <3>2. /\ IsFiniteSet(Recent(Decided)) /\ IsFiniteSet(Shown)
          /\ Cardinality(Recent(Decided)) + Cardinality(Shown) <= Cap
      BY <2>2, NewsIsRestrained
    <3>3. /\ IsFiniteSet(Recent(Decided) \cup Shown)
          /\ Cardinality(Recent(Decided) \cup Shown) =
               Cardinality(Recent(Decided)) + Cardinality(Shown)
                 - Cardinality(Recent(Decided) \cap Shown)
      BY <3>2, FS_Union
    <3>4. Cardinality(Recent(Decided) \cap Shown) \in Nat
      <4>1. IsFiniteSet(Recent(Decided) \cap Shown)
        BY <3>2, FS_Subset
      <4> QED BY <4>1, FS_CardinalityType
    <3>5. /\ Cardinality(S) \in Nat
          /\ Cardinality(S) <= Cardinality(Recent(Decided) \cup Shown)
      <4>1. IsFiniteSet(S)
        BY <3>1, <3>3, FS_Subset
      <4> QED BY <3>1, <3>3, <4>1, FS_Subset, FS_CardinalityType
    <3>6. Cardinality(Recent(Decided)) \in Nat /\ Cardinality(Shown) \in Nat
      BY <3>2, FS_CardinalityType
    <3> HIDE DEF S
    <3>7. Cardinality(S) <= Cap
      BY <3>2, <3>3, <3>4, <3>5, <3>6, Times
    <3> QED BY <3>7 DEF S
  <2> QED BY <2>1, <2>2
<1>4. ASSUME NEW m \in shown', NEW n \in shown', m # n, m.alert = n.alert, m.at <= n.at
      PROVE  m.of # n.of /\ n.at - m.at >= Hour
  <2>1. CASE m \in shown /\ n \in shown
    BY <1>4, <2>1 DEF ShownInv, Restrained
  <2>2. CASE n \in Shown
    <3>1. PICK a \in News(Decided) : n = [alert |-> a, of |-> live[a], at |-> now]
      BY <2>2 DEF Shown
    <3>2. m \in shown
      BY <1>1, <1>4, <3>1 DEF Shown
    <3>3. m.of # live[a] /\ ~(now - m.at < Hour)
      BY <1>1, <1>4, <3>1, <3>2, NewsIsRestrained
    <3> QED BY <1>1, <3>1, <3>2, <3>3, Times
  <2>3. CASE m \in Shown /\ n \in shown
    <3>1. PICK a \in News(Decided) : m = [alert |-> a, of |-> live[a], at |-> now]
      BY <2>3 DEF Shown
    <3>2. n.at = now
      BY <1>1, <1>2, <1>4, <2>3
    <3>3. ~(now - n.at < Hour)
      BY <1>1, <1>4, <2>3, <3>1, NewsIsRestrained
    <3> QED BY <1>1, <3>2, <3>3, Times
  <2> QED BY <1>1, <2>1, <2>2, <2>3
<1> QED BY <1>3, <1>4 DEF Restrained

\* An evaluation remembers what it shows and what it has seen of the person.
LEMMA EvaluateKeeps ==
  ASSUME ShownInv, Evaluate
  PROVE  ShownInv'
<1>1. /\ history' = After /\ stored' = Keep(After) /\ now' = now
      /\ shown' = shown \cup Shown
      /\ looked' = IF visible \/ Leaving THEN now ELSE looked
  BY EvaluateSteps
<1>2. /\ IsHistory(Decided) /\ Decided.notified = history.notified
      /\ Decided.opened = IF Leaving THEN now ELSE history.opened
      /\ now \in Nat
  BY DecidedHistory DEF ShownInv
<1>3. NotifiedAfter(Decided) = Remembered(Decided) \cup Shown
  BY DEF NotifiedAfter, Shown
<1>4. IsHistory(After)
  <2>1. IsFiniteSet(Remembered(Decided))
    BY <1>2, FS_Subset DEF Remembered, IsHistory
  <2>2. IsFiniteSet(NotifiedAfter(Decided))
    BY <1>3, <2>1, NewsIsRestrained, FS_Union
  <2>3. \A n \in NotifiedAfter(Decided) : n.at \in Nat /\ n.at <= now
    BY <1>2, <1>3 DEF Remembered, Shown, IsHistory
  <2>4. After.opened \in Int /\ After.opened <= now
    BY <1>2 DEF After, IsHistory
  <2> QED BY <2>2, <2>3, <2>4 DEF After, IsHistory
<1>5. /\ IsHistory(Keep(After)) /\ Keep(After).notified = After.notified
      /\ After.opened - Keep(After).opened < Minute
  BY <1>4, KeepKeeps
<1>6. IsHistory(history)' /\ IsHistory(stored)'
  BY <1>1, <1>4, <1>5 DEF IsHistory
<1>7. ShownIsRemembered'
  <2>1. shown \subseteq Remembered(Decided)
    BY <1>2 DEF ShownInv, ShownIsRemembered, Remembered
  <2>2. \A n \in Shown : now - n.at < Day
    BY <1>2, Times DEF Shown
  <2> QED BY <1>1, <1>3, <1>5, <2>1, <2>2 DEF After, ShownInv, ShownIsRemembered
<1>8. LookIsRemembered'
  <2>1. CASE visible \/ Leaving
    <3>1. After.opened = now /\ looked' = now
      BY <1>1, <1>2, <2>1 DEF After
    <3> QED BY <1>1, <1>2, <1>5, <3>1, Times DEF LookIsRemembered, IsHistory
  <2>2. CASE ~(visible \/ Leaving)
    <3>1. After.opened = history.opened /\ looked' = looked
      BY <1>1, <1>2, <2>2 DEF After
    <3>2. Keep(After) = After \/ Keep(After) = stored
      BY DEF Keep
    <3> QED BY <1>1, <3>1, <3>2 DEF ShownInv, LookIsRemembered
  <2> QED BY <2>1, <2>2
<1>9. (showing \subseteq Alert /\ showing \cap withdrawn = {})'
  <2>1. News(Decided) \subseteq Alert
    BY DEF News, Candidates
  <2> QED BY <2>1, EvaluateSteps DEF ShownInv
<1> QED BY <1>1, <1>2, <1>6, <1>7, <1>8, <1>9, EvaluateRestrained DEF ShownInv

\* Opening the app from a notification is a look that is remembered.
LEMMA OpenedKeeps ==
  ASSUME ShownInv, NEW a, NEW gone, Opened(a, history, gone), UNCHANGED <<now, shown>>,
         gone \cap showing = {}
  PROVE  ShownInv'
<1> DEFINE H == MarkOpened(history)
<1>1. /\ H.opened = now /\ H.notified = history.notified /\ IsHistory(H)
      /\ now \in Nat
  BY MarkOpenedIsNow DEF ShownInv, IsHistory
<1>2. history' = H /\ stored' = Keep(H) /\ looked' = now
  BY DEF Opened
<1> HIDE DEF H
<1>3. /\ IsHistory(Keep(H)) /\ Keep(H).notified = H.notified
      /\ H.opened - Keep(H).opened < Minute
  BY <1>1, KeepKeeps
<1>4. IsHistory(history)' /\ IsHistory(stored)'
  BY <1>1, <1>2, <1>3 DEF IsHistory
<1>5. ShownIsRemembered' /\ Restrained'
  BY <1>1, <1>2, <1>3 DEF ShownInv, ShownIsRemembered, Restrained
<1>6. LookIsRemembered'
  BY <1>1, <1>2, <1>3, Times DEF LookIsRemembered, IsHistory
<1>7. (showing \subseteq Alert /\ showing \cap withdrawn = {})'
  BY DEF Opened, ShownInv
<1> QED BY <1>1, <1>4, <1>5, <1>6, <1>7 DEF ShownInv

\* Time lets what was shown grow old.
LEMMA ElapseKeepsShown ==
  ASSUME ShownInv, Elapse
  PROVE  ShownInv'
<1>1. /\ now' = now + 1 /\ now \in Nat
      /\ shown' = {n \in shown : now' - n.at < Day}
      /\ UNCHANGED <<history, stored, withdrawn, showing, looked>>
  BY DEF Elapse, notifier, ShownInv
<1>2. shown' \subseteq shown /\ IsFiniteSet(shown)
  BY <1>1, FS_Subset DEF ShownInv, ShownIsRemembered, IsHistory
<1>3. IsHistory(history)' /\ IsHistory(stored)'
  BY <1>1 DEF ShownInv, IsHistory
<1>4. ShownIsRemembered' /\ LookIsRemembered'
  BY <1>1 DEF ShownInv, ShownIsRemembered, LookIsRemembered
<1>5. Restrained'
  <2> SUFFICES ASSUME NEW n \in shown'
               PROVE  Cardinality({m \in shown' : m.at <= n.at /\ n.at - m.at < Hour}) <= Cap
    BY <1>2 DEF ShownInv, Restrained
  <2> DEFINE S == {m \in shown : m.at <= n.at /\ n.at - m.at < Hour}
             T == {m \in shown' : m.at <= n.at /\ n.at - m.at < Hour}
  <2>1. IsFiniteSet(S) /\ T \subseteq S
    BY <1>2, FS_Subset
  <2>2. Cardinality(S) <= Cap
    BY <1>2 DEF ShownInv, Restrained
  <2> HIDE DEF S, T
  <2>3. /\ Cardinality(T) <= Cardinality(S)
        /\ Cardinality(T) \in Nat /\ Cardinality(S) \in Nat
    BY <2>1, FS_Subset, FS_CardinalityType
  <2>4. Cardinality(T) <= Cap
    BY <2>2, <2>3, Times
  <2> QED BY <2>4 DEF T
<1> QED BY <1>1, <1>3, <1>4, <1>5 DEF ShownInv

\* Steps that show nothing and remember what they did.
LEMMA AsideKeeps ==
  ASSUME ShownInv, UNCHANGED <<now, stored, shown, looked>>,
         history' \in {history, stored}, (showing \subseteq Alert /\ showing \cap withdrawn = {})'
  PROVE  ShownInv'
<1>1. IsHistory(history)' /\ IsHistory(stored)'
  BY DEF ShownInv, IsHistory
<1>2. ShownIsRemembered' /\ Restrained' /\ LookIsRemembered'
  BY DEF ShownInv, ShownIsRemembered, Restrained, LookIsRemembered
<1> QED BY <1>1, <1>2 DEF ShownInv

\* The notices start in the invariant of what is shown.
LEMMA InitShown == Init => ShownInv
<1> SUFFICES ASSUME Init PROVE ShownInv
  OBVIOUS
<1>1. IsHistory(history) /\ IsHistory(stored)
  BY Times, FS_EmptySet DEF Init, EmptyHistory, IsHistory, Never
<1>2. LookIsRemembered
  BY Times DEF Init, EmptyHistory, LookIsRemembered, Never
<1> QED BY <1>1, <1>2 DEF Init, EmptyHistory, ShownInv, ShownIsRemembered, Restrained

\* Every step keeps the invariant of what is shown.
LEMMA NextShown == ShownInv /\ [Next]_vars => ShownInv'
<1> SUFFICES ASSUME ShownInv, [Next]_vars PROVE ShownInv'
  OBVIOUS
<1>1. CASE Evaluate
  BY <1>1, EvaluateKeeps
<1>2. CASE Open \/ TurnTo \/ Check \/ (\E a \in Alert : Change(a)) \/ UNCHANGED vars
  <2>1. UNCHANGED <<now, history, stored, shown, looked, showing, withdrawn>>
    BY <1>2 DEF Open, TurnTo, Check, Change, notifier, outside, vars
  <2> QED BY <2>1, AsideKeeps DEF ShownInv
<1>3. CASE Unlock
  <2>1. CASE pending = 0
    BY <1>3, <2>1, AsideKeeps DEF Unlock, ShownInv
  <2>2. CASE pending # 0
    BY <1>3, <2>2, OpenedKeeps DEF Unlock
  <2> QED BY <2>1, <2>2
<1>4. CASE Leave
  BY <1>4, AsideKeeps DEF Leave, outside, ShownInv
<1>5. CASE Elapse
  BY <1>5, ElapseKeepsShown
<1>6. ASSUME NEW a \in Alert, Click(a) PROVE ShownInv'
  <2>1. CASE page = "open" /\ Opened(a, history, withdrawn)
    BY <1>6, <2>1, OpenedKeeps DEF Click, ShownInv
  <2>2. CASE page # "open" /\ showing' = showing \ {a}
             /\ UNCHANGED <<history, stored, withdrawn, looked>>
    BY <1>6, <2>2, AsideKeeps DEF Click, ShownInv
  <2> QED BY <1>6, <2>1, <2>2 DEF Click
<1> QED BY <1>1, <1>2, <1>3, <1>4, <1>5, <1>6 DEF Next

\* However often the page is locked, closed or opened again, the limits of NOTIFICATION_RULES hold:
\* what decideNotifications shows is no more than the cap still allows, and commit stores all of it.
THEOREM NoticesAreRestrained == Spec => []Restrained
<1>1. ShownInv => Restrained
  BY DEF ShownInv
<1> QED BY <1>1, InitShown, NextShown, PTL DEF Spec

\* Nothing else than an evaluation shows anything.
LEMMA OnlyEvaluateShows ==
  ASSUME [Next]_vars, ~Evaluate
  PROVE  shown' \subseteq shown
BY DEF Next, vars, Open, Unlock, Leave, TurnTo, Check, Elapse, Click, Change, outside

\* What was looked at is not shown: the notifier remembers the look when the page goes out of sight,
\* and all but a Minute of it when the page ends (evaluate, markOpened, commit).
THEOREM NoNewsOfWhatWasSeen == Spec => LookedAtIsNotNews
<1> DEFINE P == \A n \in shown' \ shown : /\ history'.opened < history'.raised[n.alert].at
                                          /\ looked' - history'.opened < Minute
<1>1. ASSUME ShownInv, [Next]_vars PROVE P
  <2>1. CASE ~Evaluate
    BY <1>1, <2>1, OnlyEvaluateShows
  <2>2. CASE Evaluate
    <3> SUFFICES ASSUME NEW n \in shown' \ shown
                 PROVE  /\ history'.opened < history'.raised[n.alert].at
                        /\ looked' - history'.opened < Minute
      OBVIOUS
    <3>1. looked' - history'.opened < Minute
      BY <1>1, <2>2, EvaluateKeeps DEF ShownInv, LookIsRemembered
    <3>2. history' = After /\ n \in Shown
      BY <2>2, EvaluateSteps
    <3>3. PICK a \in News(Decided) : n.alert = a
      BY <3>2 DEF Shown
    <3>4. ~visible /\ a \in Candidates(Decided)
      BY DEF News
    <3>5. history'.opened = Decided.opened /\ history'.raised = Raised(Decided)
      BY <3>2, <3>4 DEF After
    <3>6. Decided.opened < Raised(Decided)[a].at
      BY <3>4 DEF Candidates
    <3> QED BY <3>1, <3>3, <3>5, <3>6
  <2> QED BY <2>1, <2>2
<1> QED BY <1>1, InitShown, NextShown, PTL DEF Spec, LookedAtIsNotNews

\* Once the notifier has looked, what is over is gone from the device's screen, and everything is
\* when the app itself is on the screen: a tag that is closed is one that is not showing, whatever
\* was shown again in between (decideNotifications, evaluate).
THEOREM StaleIsGone == Spec => StaleIsWithdrawn
<1> DEFINE P == Evaluate => \A a \in showing' : \/ live[a] # None /\ ~visible
                                                \/ ~\E n \in shown : n.alert = a
<1>1. ASSUME ShownInv, [Next]_vars PROVE P
  <2> SUFFICES ASSUME Evaluate, NEW a \in showing', live[a] = None \/ visible,
                      NEW n \in shown, n.alert = a
               PROVE  FALSE
    BY Zenon
  <2>1. a \notin News(Decided)
    BY DEF News, Candidates
  <2>2. a \in showing /\ a \notin withdrawn
    BY <1>1, <2>1, EvaluateSteps DEF ShownInv
  <2>3. n \in Decided.notified
    BY <1>1, DecidedHistory DEF ShownInv, ShownIsRemembered
  <2>4. a \notin Withdraw(Decided)
    BY <2>1, <2>2, EvaluateSteps
  <2>5. a \notin Alert
    BY <2>3, <2>4, EvaluateSteps DEF Withdraw
  <2> QED BY <1>1, <2>2, <2>5 DEF ShownInv
<1> QED BY <1>1, InitShown, NextShown, PTL DEF Spec, StaleIsWithdrawn
=============================================================================
