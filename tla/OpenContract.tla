------------------------------ MODULE OpenContract ------------------------------
(***************************************************************************)
(* What the backend may rely on when it publishes an open or close command *)
(* for a cabinet (src/README.md, "Demo Simulation"): every command that    *)
(* was delivered and taken up has one result at most, and none comes for   *)
(* a command that was not.  The gateway (LockerCommands) and the simulator *)
(* (DemoCabinet) both implement it; they differ in which commands they     *)
(* take up.                                                                *)
(***************************************************************************)
CONSTANT Commands    \* the deliveries of commands

VARIABLES waiting,   \* commands taken up whose result has not been published
          answered   \* commands whose result has been published

vars == <<waiting, answered>>

Init == waiting = {} /\ answered = {}

TakeUp(c) == /\ c \notin waiting \union answered
             /\ waiting' = waiting \union {c}
             /\ UNCHANGED answered

Answer(c) == /\ c \in waiting
             /\ waiting' = waiting \ {c}
             /\ answered' = answered \union {c}

Next == \E c \in Commands : TakeUp(c) \/ Answer(c)

Spec == Init /\ [][Next]_vars
================================================================================
