--------------------------- MODULE MCUnitRecords ---------------------------
(***************************************************************************)
(* Two officers who share a short history and then work apart, one job at  *)
(* a time.  The histories are ones that the commands can bring about: what *)
(* two devices wrote without hearing of each other has the same clocks.    *)
(***************************************************************************)
EXTENDS UnitRecords

\* One bundle asks for two of the item, the other for one.
Requirements == [b \in {"b1", "b2"} |-> IF b = "b1" THEN 1 ELSE 2]
Labels == [i \in Item |-> IF i = 1 THEN "M" ELSE "L"]

By(d, type, n, fields) == [type |-> type, author |-> d, clock |-> n] @@ fields
At(type, n, fields) == By(1, type, n, fields)
Sizes(n) == At("CATALOG_SIZES_ADDED", n, [sizes |-> {1, 2}])
Enlisted(n) == At("CADETS_IMPORTED", n, [cadet |-> 1, level |-> 1])
Got(d, n, i, quantity) == By(d, "INVENTORY_RECEIVED", n, [item |-> i, quantity |-> quantity])
Issued(d, n, i, quantity) ==
  By(d, "ITEM_ISSUED", n, [cadet |-> 1, lines |-> (i :> quantity), named |-> (i :> NoNeed), missing |-> {}])
Wanted(n, i, size) == At("STILL_NEEDED_ADDED", n, [cadet |-> 1, item |-> i, size |-> size, quantity |-> 2])
Opened(n) == At("COUNT_SESSION_CREATED", n, [assigned |-> {1}])
Counted(d, n, s, quantity) ==
  By(d, "COUNT_CONTRIBUTED", n,
     [session |-> s, item |-> 1, assignment |-> 1, quantity |-> quantity, supersedes |-> {}])
Planned(n) == At("CALENDAR_EVENT_CREATED", n, [fields |-> [title |-> 1, notes |-> 1, kind |-> "NCO"]])

Job(founding, first, second, quantities, budget) ==
  [founding |-> founding, heard |-> [d \in Device |-> DOMAIN founding],
   commands |-> [d \in Device |-> IF d = 1 THEN first ELSE second], quantities |-> quantities, budget |-> budget]

Depot == <<Sizes(1), Enlisted(2), Got(1, 3, 1, 2), Got(1, 4, 2, 1)>>
Needs == {"STILL_NEEDED_UPDATED", "STILL_NEEDED_FULFILLED", "STILL_NEEDED_CANCELLED"}

\* The last unit was issued twice; the second officer had a delivery that the first
\* may not have heard of.
Clash == <<Sizes(1), Enlisted(2), Got(1, 3, 1, 1), Issued(1, 4, 1, 1), Got(2, 4, 1, 1), Issued(2, 5, 1, 2)>>
Unheard(job, d, n) == [job EXCEPT !.heard[d] = @ \ {n}]

Supply == Job(Depot, {"ITEM_ISSUED", "ITEM_RETURNED"}, {"ITEM_ISSUED", "PROPERTY_CORRECTED"}, {1, 2}, 3)
Amend == Job(Append(Depot, Issued(1, 5, 1, 2)),
             {"ITEM_RETURNED", "RECORD_CORRECTED"}, {"PROPERTY_CORRECTED", "RECORD_CORRECTED"}, {1}, 3)
Serve == Job(Depot \o <<Wanted(5, 1, "M"), Wanted(6, NoItem, "any")>>,
             {"ITEM_ISSUED"} , {"ITEM_ISSUED"} \cup Needs, {2}, 3)
Settle == Unheard(Job(Clash, {"CONFLICT_RESOLVED"}, {"CONFLICT_RESOLVED", "INVENTORY_RECEIVED", "RECORD_CORRECTED"}, {1}, 3), 1, 5)
Catalog == Job(<<Sizes(1)>>,
               {"CATALOG_ITEM_UPDATED"}, {"INVENTORY_ITEM_UPDATED", "CATALOG_ITEM_UPDATED", "BUNDLE_UPDATED"}, {1}, 2)
Roster == Job(<<Sizes(1), Enlisted(2)>>, {"CADET_UPDATED", "ANNUAL_ROLLOVER_COMPLETED"},
              {"CADETS_IMPORTED", "CADET_UPDATED", "ANNUAL_ROLLOVER_COMPLETED"}, {1}, 2)
Beginning == Job(<<>>, {"CATALOG_SIZES_ADDED", "INVENTORY_RECEIVED"}, {"CATALOG_SIZES_ADDED", "COUNT_SESSION_CREATED"}, {1}, 3)
Stocktake == Job(<<Sizes(1), Got(1, 2, 1, 1), Opened(3), Counted(2, 4, 3, 2)>>,
                 {"COUNT_SESSION_SUBMITTED", "COUNT_SESSION_REOPENED", "COUNT_SESSION_RECONCILED"},
                 {"COUNT_RECOUNTED", "COUNT_CORRECTED"}, {1}, 4)
Movement == Job(<<Sizes(1), Got(1, 2, 1, 1), Opened(3), Counted(2, 4, 3, 2)>>,
                 {"COUNT_SESSION_RECONCILED", "COUNT_CONTRIBUTED"},
                 {"INVENTORY_RECEIVED", "CATALOG_ITEM_UPDATED", "COUNT_SESSION_CANCELLED"}, {1}, 3)
Details == Job(<<Planned(1)>>, {"CALENDAR_EVENT_UPDATED"}, {"CALENDAR_EVENT_UPDATED"}, {}, 3)
Planning == Job(<<Sizes(1), Enlisted(2), Planned(3), At("CALENDAR_TASK_ADDED", 4, [entry |-> 3, offset |-> 0])>>,
                {"CALENDAR_EVENT_CREATED", "CALENDAR_TASK_ADDED", "CALENDAR_TASK_UPDATED", "TASK_COMPLETED",
                 "CALENDAR_ATTENDEES_ADDED", "CALENDAR_BUNDLES_ADDED"},
                {"CALENDAR_TASK_REMOVED", "CALENDAR_ATTENDEES_ADDED", "CALENDAR_ATTENDEES_REMOVED",
                 "CALENDAR_BUNDLES_REMOVED", "STILL_NEEDED_ADDED"}, {1}, 2)

Uncounted(n, s, i) ==
  By(2, "COUNT_CONTRIBUTED", n, [session |-> s, item |-> i, assignment |-> NoItem, quantity |-> 1, supersedes |-> {}])

\* Two counts of one unit, and work that reaches the first too late.
Recounts == Job(<<Sizes(1), Opened(2), Opened(3), Uncounted(4, 2, 1), Uncounted(5, 3, 2)>>,
                {"COUNT_SESSION_RECONCILED"}, {"COUNT_SESSION_RECONCILED", "COUNT_CONTRIBUTED"}, {1}, 3)

\* An event that asks two cadets for one of the item, or for two.
Second(n) == At("CADETS_IMPORTED", n, [cadet |-> 2, level |-> 1])
Linked(n, entry, bundles) == At("CALENDAR_BUNDLES_ADDED", n, [entry |-> entry, bundles |-> bundles])
Measured(n) == At("CADET_UPDATED", n, [cadet |-> 1, base |-> 1, changes |-> [sizes |-> (0 :> "M")]])
Prepare(bundles, second, quantities, budget) ==
  Job(<<Sizes(1), Enlisted(2), Second(3), Got(1, 4, 1, 1), Got(1, 5, 2, 1), Planned(6), Linked(7, 6, bundles), Measured(8)>>,
      {"CADET_UPDATED"}, second, quantities, budget)
Measure == Prepare(<<"b1">>, {"CALENDAR_ATTENDEES_ADDED", "INVENTORY_ITEM_UPDATED", "CATALOG_ITEM_UPDATED"}, {}, 2)
Shelve == Prepare(<<"b1", "b2">>, {"ITEM_ISSUED", "INVENTORY_RECEIVED"}, {1, 2}, 2)

\* A form that was filled in before another officer's edit arrived.
FormJobs == {Job(<<Sizes(1), Enlisted(2)>>, {"CADET_UPDATED"}, {"CADET_UPDATED"}, {}, 2)}

Jobs == {Recounts, Measure, Shelve, Supply, Amend, Serve, Settle, Catalog, Roster, Beginning, Stocktake, Movement, Details, Planning}
=============================================================================
