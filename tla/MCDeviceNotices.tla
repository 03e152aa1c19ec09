-------------------------- MODULE MCDeviceNotices --------------------------
(* Two alerts, the more urgent one with two conditions, and one preparation task. *)
EXTENDS DeviceNotices

ConditionsOfTwo == <<{"few", "more"}, {"late"}>>
DueAtOnce == [task |-> 0]
ChangesWatched == [checks \in BOOLEAN |-> IF checks THEN 1 ELSE 3]
=============================================================================
