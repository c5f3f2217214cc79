---------------------------- MODULE MCProvisioning ----------------------------
(* A small instance of Provisioning: what the layouts of the commands are. *)
EXTENDS Provisioning

CONSTANTS slot1, slot2, slot3   \* slots; the Arduino does not have slot3

Number(s) == [slot |-> s, text |-> FALSE]
Text(s) == [slot |-> s, text |-> TRUE]
Null == [slot |-> None, text |-> FALSE]
Whole(slots) == [slots |-> slots, places |-> TRUE, ids |-> TRUE]

(* Layouts in order, with a slot without number before one whose number is *)
(* a text, without rows, and without ids.                                  *)
MCLayouts ==
  {Whole(<<Number(slot1), Number(slot2)>>), Whole(<<Null, Text(slot2)>>),
   [slots |-> <<Number(slot3)>>, places |-> FALSE, ids |-> TRUE],
   [slots |-> <<Number(slot1)>>, places |-> TRUE, ids |-> FALSE]}
================================================================================
