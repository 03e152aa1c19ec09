----------------------------- MODULE CountFold -----------------------------
(***************************************************************************)
(* What the events of a shared count do to the projection (applyCountEvent,*)
(* applyCountReconciliation, observationsAt, totalsFor of                  *)
(* src/src/distributed/replica.ts; stockMovedSince of                      *)
(* src/src/stage3/inventoryStatus.ts).                                     *)
(*                                                                         *)
(* A session is named by the event that opened it.  A size has at most one *)
(* assignment in a session, and the size stands for it.                    *)
(***************************************************************************)
EXTENDS RecordFold

NoCutoff == [frozen |-> FALSE, observations |-> {}]
Corrections(O) == UNION {{c.event : c \in ToSet(o.corrections)} : o \in O}
Observations(O) == {o.event : o \in O}

\* The corrections that count now.
AppliedCorrections(O) ==
  UNION {{c.event : c \in {k \in ToSet(o.corrections) : ~k.late}} : o \in {o \in O : o.status # "LATE"}}
NotLate(O) == {o.event : o \in {o \in O : o.status # "LATE"}}

\* totalsFor: what the observations that count add up to, size by size.
Counting(O, accepted) == {o \in O : o.status # "SUPERSEDED" /\ o.event \in accepted}
TotalsFor(O, accepted) ==
  LET counting == Counting(O, accepted) IN
  [i \in {o.item : o \in counting} |->
     SumFunction([o \in {o \in counting : o.item = i} |-> o.effective])]

\* Work that arrived after the cutoff.
LateWork(O) ==
  {o.event : o \in {o \in O : o.status = "LATE"}}
    \cup UNION {{c.event : c \in {k \in ToSet(o.corrections) : k.late}} : o \in O}

\* observationsAt: what each observation is worth to someone who had seen the
\* contributions and corrections of a cutoff; all the rest is late.
ObservationAt(o, superseded, contributions, corrections) ==
  LET live == o.event \in contributions
      marked == [k \in DOMAIN o.corrections |->
                   [o.corrections[k] EXCEPT !.late = ~live \/ o.corrections[k].event \notin corrections]]
      applied == {k \in DOMAIN marked : ~marked[k].late}
  IN  [o EXCEPT
         !.corrections = marked,
         !.effective = IF applied = {} THEN o.quantity ELSE marked[Max(applied)].quantity,
         !.status = CASE ~live -> "LATE"
                      [] live /\ o.event \in superseded -> "SUPERSEDED"
                      [] live /\ o.event \notin superseded /\ applied # {} -> "CORRECTED"
                      [] OTHER -> "ACCEPTED"]
ObservationsAt(O, contributions, corrections) ==
  LET superseded == UNION {o.supersedes : o \in {o \in O : o.event \in contributions}} IN
  {ObservationAt(o, superseded, contributions, corrections) : o \in O}

\* Back to counting: everything counts again.
ReopenedObservations(O) == ObservationsAt(O, Observations(O), Corrections(O))

\* A rename or a new threshold moves no stock, whatever it does to the version.
MetadataOnly == {"INVENTORY_ITEM_UPDATED", "CATALOG_ITEM_UPDATED"}
\* (what must not happen: an edit of the catalog counts as movement)
AnythingSince(log, item, version) == item.version > version

StockMovedSince(log, item, version) ==
  \E k \in (Len(item.applied) - (item.version - version) + 1)..Len(item.applied) :
    k > 0 /\ log[item.applied[k]].type \notin MetadataOnly

-----------------------------------------------------------------------------
Session(p, s) == p.sessions[s]
IsSession(p, s) == s \in DOMAIN p.sessions

\* The versions of the sizes in use when the count opened.
Baseline(p) == {[item |-> i, version |-> p.items[i].version] : i \in {i \in Item : p.items[i].active}}
InBaseline(session, i) == \E b \in session.baseline : b.item = i
MovedSinceBaseline(log, p, session, i) ==
  \E b \in session.baseline : b.item = i /\ StockMovedSince(log, p.items[i], b.version)

OpenSession(log, p, n) ==
  [p EXCEPT !.sessions = Joined(@, n,
     [status |-> "ACTIVE", assigned |-> log[n].assigned, observations |-> {}, cutoff |-> NoCutoff,
      baseline |-> Baseline(p),
      warnings |-> {}, finalizer |-> 0])]

\* (what must not happen: work after the cutoff counts)
ObserveAlways(log, p, n) ==
  LET e == log[n]
      new == [event |-> n, item |-> e.item, assignment |-> e.assignment, quantity |-> e.quantity,
              effective |-> e.quantity, status |-> "ACCEPTED", corrections |-> <<>>, supersedes |-> e.supersedes]
  IN  [p EXCEPT !.sessions[e.session].observations =
         {IF o.event \in e.supersedes THEN [o EXCEPT !.status = "SUPERSEDED"] ELSE o : o \in @} \cup {new}]

\* A contribution or a recount.  After the cutoff it is late, and replaces nothing.
Observe(log, p, n) ==
  LET e == log[n]
      cutoff == Session(p, e.session).cutoff
      late == cutoff.frozen /\ n \notin cutoff.observations
      new == [event |-> n, item |-> e.item, assignment |-> e.assignment, quantity |-> e.quantity,
              effective |-> e.quantity, status |-> IF late THEN "LATE" ELSE "ACCEPTED",
              corrections |-> <<>>, supersedes |-> e.supersedes]
      replaced(o) == ~late /\ o.event \in e.supersedes /\ o.status # "LATE"
  IN  [p EXCEPT !.sessions[e.session].observations =
         {IF replaced(o) THEN [o EXCEPT !.status = "SUPERSEDED"] ELSE o : o \in @} \cup {new}]

CorrectObservation(o, n, quantity, frozen) ==
  LET late == frozen \/ o.status = "LATE"
      kept == [o EXCEPT !.corrections = Append(@, [event |-> n, quantity |-> quantity, late |-> late])]
  IN  IF late THEN kept
      ELSE [kept EXCEPT !.effective = quantity,
                        !.status = IF @ = "ACCEPTED" THEN "CORRECTED" ELSE @]
CorrectCount(log, p, n) ==
  LET e == log[n]  frozen == Session(p, e.session).cutoff.frozen IN
  [p EXCEPT !.sessions[e.session].observations =
     {IF o.event = e.target THEN CorrectObservation(o, n, e.quantity, frozen) ELSE o : o \in @}]

SubmitSession(log, p, n) ==
  LET e == log[n]  session == Session(p, e.session) IN
  [p EXCEPT !.sessions[e.session] =
     [session EXCEPT !.observations = ObservationsAt(@, e.contributions, e.corrections),
                     !.status = "SUBMITTED", !.cutoff = [frozen |-> TRUE, observations |-> e.contributions]]]

ReopenSession(log, p, n) ==
  LET session == Session(p, log[n].session) IN
  [p EXCEPT !.sessions[log[n].session] =
     [session EXCEPT !.observations = ReopenedObservations(@), !.status = "ACTIVE", !.cutoff = NoCutoff]]

\* A submitted count is frozen at its cutoff already; another one is frozen now,
\* at what the finalizer had seen.
FrozenAt(session, contributions, corrections) ==
  IF session.cutoff.frozen THEN session.observations
  ELSE ObservationsAt(session.observations, contributions, corrections)

\* What an event of a session asks of it.
SeenBy(session, e) ==
  e.contributions \subseteq Observations(session.observations)
    /\ e.corrections \subseteq Corrections(session.observations)
ReconcileFits(session, e) ==
  /\ SeenBy(session, e)
  /\ session.cutoff.frozen => e.contributions = session.cutoff.observations
  /\ TotalsFor(FrozenAt(session, e.contributions, e.corrections), e.contributions) = e.totals

\* The shared totals replace the stock of every size that was counted.
ReconcileSession(log, p, n) ==
  LET e == log[n]
      session == Session(p, e.session)
      frozen == FrozenAt(session, e.contributions, e.corrections)
      counted == DOMAIN e.totals
      moved == {i \in counted : MovedSinceBaseline(log, p, session, i)}
  IN  [p EXCEPT
         !.sessions[e.session] =
           [session EXCEPT !.status = "RECONCILED", !.finalizer = n, !.warnings = moved,
              !.cutoff = [frozen |-> TRUE, observations |-> e.contributions],
              !.observations = {IF o.event \in e.contributions THEN o ELSE [o EXCEPT !.status = "LATE"] : o \in frozen}],
         !.items = [i \in Item |-> IF i \in counted
                      THEN Touch([p.items[i] EXCEPT !.onHand = e.totals[i], !.counted = n], n) ELSE @[i]]]

CancelSession(log, p, n) == [p EXCEPT !.sessions[log[n].session].status = "CANCELLED"]

-----------------------------------------------------------------------------
\* What each of them throws for.
CountThrows(log, p, n) ==
  LET e == log[n]  session == Session(p, e.session) IN
  IF e.type = "COUNT_SESSION_CREATED"
  THEN \E i \in e.assigned : ~Known(p, i)
  ELSE \/ ~IsSession(p, e.session)
       \/ CASE e.type \in {"COUNT_CONTRIBUTED", "COUNT_RECOUNTED"} ->
                 \/ session.status = "CANCELLED"
                 \/ IF e.assignment = NoItem THEN ~Known(p, e.item) ELSE e.item \notin session.assigned
            [] e.type = "COUNT_CORRECTED" ->
                 session.status = "CANCELLED" \/ e.target \notin Observations(session.observations)
            [] e.type = "COUNT_SESSION_SUBMITTED" ->
                 session.status \in {"CANCELLED", "RECONCILED"} \/ ~SeenBy(session, e)
            [] e.type = "COUNT_SESSION_REOPENED" -> session.status # "SUBMITTED"
            [] e.type = "COUNT_SESSION_RECONCILED" ->
                 session.status \notin {"ACTIVE", "SUBMITTED"} \/ ~ReconcileFits(session, e)
            [] e.type = "COUNT_SESSION_CANCELLED" -> session.status = "RECONCILED"

ApplyCount(log, p, n) ==
  CASE log[n].type = "COUNT_SESSION_CREATED" -> OpenSession(log, p, n)
    [] log[n].type \in {"COUNT_CONTRIBUTED", "COUNT_RECOUNTED"} -> Observe(log, p, n)
    [] log[n].type = "COUNT_CORRECTED" -> CorrectCount(log, p, n)
    [] log[n].type = "COUNT_SESSION_SUBMITTED" -> SubmitSession(log, p, n)
    [] log[n].type = "COUNT_SESSION_REOPENED" -> ReopenSession(log, p, n)
    [] log[n].type = "COUNT_SESSION_RECONCILED" -> ReconcileSession(log, p, n)
    [] log[n].type = "COUNT_SESSION_CANCELLED" -> CancelSession(log, p, n)
=============================================================================
