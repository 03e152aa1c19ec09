----------------------------- MODULE MCUnitKeys -----------------------------
(***************************************************************************)
(* A founder (1), a Master made by it (2), a member (3) and a newcomer     *)
(* (4), in situations chosen so that what may cross does cross.            *)
(***************************************************************************)
EXTENDS UnitKeys, TLC

Nothing == [d \in Device |-> {}]
Situations == <<
  \* Two Masters rotate and one of them removes the member; a page ends somewhere.
  [rotations |-> 2, byHand |-> {1, 2}, removals |-> {<<1, 3>>, <<2, 3>>}, packs |-> Nothing, crashes |-> 1],
  \* The same with a generation more.
  [rotations |-> 3, byHand |-> {2}, removals |-> {<<1, 3>>}, packs |-> Nothing, crashes |-> 0],
  \* The Master who rotates is removed.
  [rotations |-> 2, byHand |-> {2}, removals |-> {<<1, 2>>}, packs |-> Nothing, crashes |-> 1],
  \* A ticket is out while another Master replaces keys.
  [rotations |-> 2, byHand |-> {2}, removals |-> {}, packs |-> [Nothing EXCEPT ![1] = {"ticket"}], crashes |-> 0],
  \* The newcomer is removed, or the Master who made the ticket.
  [rotations |-> 1, byHand |-> {1}, removals |-> {<<1, 4>>, <<1, 2>>}, packs |-> [Nothing EXCEPT ![2] = {"ticket"}], crashes |-> 0],
  \* The founder's file restores another device.
  [rotations |-> 2, byHand |-> {2}, removals |-> {}, packs |-> [Nothing EXCEPT ![1] = {"recoveryKey"}], crashes |-> 1],
  \* ... which removes the lost one.
  [rotations |-> 1, byHand |-> {2}, removals |-> {<<4, 1>>}, packs |-> [Nothing EXCEPT ![1] = {"recoveryKey"}], crashes |-> 1]
>>
CONSTANT Looked   \* the situations a run looks at
MCSetups == {Situations[i] : i \in Looked}
=============================================================================
