----------------------------- MODULE MCSubscriptions -----------------------------
(* The gateway at work, for TLC. *)
EXTENDS Subscriptions

(* main serves: the startup has subscribed to every cabinet that it found, *)
(* and the heartbeat runs.                                                 *)
ServedInit ==
  /\ conn = "on" /\ located = TRUE /\ cabs = Cabinets /\ subs = Cabinets
  /\ todo = [t \in Threads |->
               IF t = Main THEN SubSeq(MainSteps, 3, Len(MainSteps)) ELSE <<>>]
  /\ settingUp = FALSE
  /\ running = TRUE /\ latest = 1 /\ loop = <<"waiting">>
  /\ jobs = 0 /\ losses = 0 /\ mishaps = {}

ServedSpec == ServedInit /\ [][Next]_vars /\ Fairness
================================================================================
