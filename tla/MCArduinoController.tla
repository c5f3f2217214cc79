--------------------------- MODULE MCArduinoController ---------------------------
(* The sketch on one bus with another slave, for TLC. *)
EXTENDS ArduinoController

MCCommands == {[to |-> 1, op |-> "O", slot |-> 0], [to |-> 1, op |-> "T", slot |-> 1],
               [to |-> 1, op |-> "PING", slot |-> 0], [to |-> 2, op |-> "O", slot |-> 0]}

(* The door was found closed and is reported closed, and it is.            *)
ClosedForLong(s) == /\ door[s] /\ prev[s] /\ doorClosed[s]
                    /\ age[s] = Debounce /\ steady[s] = Debounce /\ found[s] = 0

(* Bound: the doors have come to rest closed when the last line is sent,   *)
(* and do not move from then on.                                           *)
DoorsRest ==
  lines' = MaxLines => \A s \in Slots : ClosedForLong(s) /\ UNCHANGED door[s]
================================================================================
