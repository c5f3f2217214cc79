------------------------------ MODULE DemoCabinet ------------------------------
(***************************************************************************)
(* The stand-in for the cabinets in demonstrations                         *)
(* (src/simulate_demo_cabinet.py): paho's network thread learns cabinets   *)
(* from the traffic and starts a thread for every open command, which      *)
(* answers after a delay and lets a timer report the door closed; another  *)
(* thread sends heartbeats.  The connection may be lost and comes back.    *)
(***************************************************************************)
EXTENDS Naturals, FiniteSets

CONSTANTS Cabinets, Boxes,
          None,
          Seeded,        \* SIM_HEARTBEAT_CABINETS
          ForceFail,     \* SIM_FORCE_FAIL
          MaxMessages,   \* bound: messages delivered
          MaxLosses      \* bound: connections lost

ASSUME CabinetsAssumption == Seeded \subseteq Cabinets
ASSUME NoneAssumption == None \notin Cabinets \union Boxes \union {"open", "timer"}
ASSUME BoundsAssumption == ForceFail \in BOOLEAN /\ {MaxMessages, MaxLosses} \subseteq Nat

VARIABLES conn,        \* "off", "on" (subscribed) or "stopped"
          known,       \* _known_cabinets
          learning,    \* the cabinet _learn_cabinet has added and not announced yet
          beating,     \* the cabinets the heartbeat loop has still to go through
          delivery,    \* the open command _on_message has still to act on
          jobs,        \* reply threads and timers
          doors,       \* what the backend was last told of each box
          announced,   \* cabinets heard of by the backend in this connection
          waiting, answered,   \* commands, see OpenContract
          messages, losses,    \* how many so far
          unheard      \* history: boxes with a report dropped for want of a connection

network == <<conn, losses>>
heartbeats == <<known, learning, beating, announced>>
commands == <<delivery, waiting, answered, messages>>
vars == <<network, heartbeats, commands, jobs, doors, unheard>>

Init == /\ conn = "off" /\ losses = 0
        /\ known = Seeded /\ learning = None /\ beating = {} /\ announced = {}
        /\ delivery = None /\ waiting = {} /\ answered = {} /\ messages = 0
        /\ jobs = {}
        /\ doors = [b \in Boxes |-> "CLOSED"] /\ unheard = {}

Connected == conn = "on"

(* Heartbeats for the cabinets cs, dropped without a connection.           *)
Announce(cs) == announced' = IF Connected THEN announced \union cs ELSE announced

--------------------------------------------------------------------------------
(* The connection *)

(* _on_connect subscribes and announces what is known.  An answer to a     *)
(* refused connection does neither.                                        *)
OnConnect ==
  /\ conn = "off" /\ learning = None /\ delivery = None
  /\ conn' = "on"
  /\ announced' = known
  /\ UNCHANGED <<losses, known, learning, beating, commands, jobs, doors, unheard>>

Lost ==
  /\ Connected /\ losses < MaxLosses
  /\ conn' = "off" /\ losses' = losses + 1
  /\ announced' = {}
  /\ UNCHANGED <<known, learning, beating, commands, jobs, doors, unheard>>

(* main ends: threads are daemons and go, timers are not and stay.         *)
Stop ==
  /\ conn # "stopped"
  /\ conn' = "stopped" /\ announced' = {}
  /\ learning' = None /\ beating' = {} /\ delivery' = None
  /\ jobs' = {j \in jobs : j.at = "timer"}
  /\ UNCHANGED <<losses, known, waiting, answered, messages, doors, unheard>>

--------------------------------------------------------------------------------
(* Messages: _on_message in the network thread *)

(* Mistake: whether the cabinet is new is asked after it was added.        *)
NeverNew(c) == FALSE

New(c) == c \notin known

(* Any message adds its cabinet.  The sync command, and what is not JSON,  *)
(* has no other effect.                                                    *)
Message(c, open, box) ==
  /\ Connected /\ learning = None /\ delivery = None
  /\ messages < MaxMessages
  /\ messages' = messages + 1
  /\ known' = known \union {c}
  /\ learning' = IF New(c) THEN c ELSE None
  /\ delivery' = IF open THEN [n |-> messages + 1, box |-> box] ELSE None
  /\ UNCHANGED <<network, beating, announced, waiting, answered, jobs, doors, unheard>>

Learn ==
  /\ learning # None
  /\ Announce({learning})
  /\ learning' = None
  /\ UNCHANGED <<network, known, beating, commands, jobs, doors, unheard>>

(* Mistake: a command cancels the timers of its box, as a new one follows. *)
WithoutTimers(box) == {j \in jobs : ~(j.box = box /\ j.at = "timer")}

(* Threads and timers a command for a box leaves running: all of them.     *)
Kept(box) == jobs

(* An open command starts a thread of its own.                             *)
StartReply ==
  /\ learning = None /\ delivery # None
  /\ jobs' = Kept(delivery.box) \union {[n |-> delivery.n, box |-> delivery.box, at |-> "delay"]}
  /\ waiting' = waiting \union {delivery.n}
  /\ delivery' = None
  /\ UNCHANGED <<network, heartbeats, answered, messages, doors, unheard>>

--------------------------------------------------------------------------------
(* Reply threads and timers *)

(* Mistake: a thread goes on beside the timer it has started.              *)
Fork(j, at) == jobs' = jobs \union (IF at = None THEN {} ELSE {[j EXCEPT !.at = at]})

Advance(j, at) == jobs' = (jobs \ {j}) \union (IF at = None THEN {} ELSE {[j EXCEPT !.at = at]})

(* Mistake: a thread answers every command for its box.                    *)
AnswerBox(j) == {k.n : k \in {k \in jobs : k.box = j.box}}

(* Mistake: the result is dropped without a connection, as reports are.    *)
AnswerIfConnected(j) == IF Connected THEN {j.n} ELSE {}

AnswerOwn(j) == {j.n}

(* The result is published; without a connection paho keeps it and sends   *)
(* it later.                                                               *)
Reply(j) ==
  /\ j.at = "delay"
  /\ answered' = answered \union AnswerOwn(j)
  /\ waiting' = waiting \ AnswerOwn(j)
  /\ Advance(j, IF ForceFail \/ j.box = None THEN None ELSE "open")
  /\ UNCHANGED <<network, heartbeats, delivery, messages, doors, unheard>>

(* _report_box_hw_state says nothing without a connection.                 *)
Tell(box, state) ==
  IF Connected
  THEN doors' = [doors EXCEPT ![box] = state] /\ unheard' = unheard \ {box}
  ELSE unheard' = unheard \union {box} /\ UNCHANGED doors

ReportOpen(j) ==
  /\ j.at = "open"
  /\ Tell(j.box, "OPEN")
  /\ Advance(j, "timer")
  /\ UNCHANGED <<network, heartbeats, commands>>

ReportClosed(j) ==
  /\ j.at = "timer"
  /\ Tell(j.box, "CLOSED")
  /\ Advance(j, None)
  /\ UNCHANGED <<network, heartbeats, commands>>

--------------------------------------------------------------------------------
(* The heartbeat loop *)

Snapshot ==
  /\ conn # "stopped" /\ beating = {} /\ known # {}
  /\ beating' = known
  /\ UNCHANGED <<network, known, learning, announced, commands, jobs, doors, unheard>>

Beat(c) ==
  /\ c \in beating
  /\ Announce({c})
  /\ beating' = beating \ {c}
  /\ UNCHANGED <<network, known, learning, commands, jobs, doors, unheard>>

--------------------------------------------------------------------------------
Job(j) == Reply(j) \/ ReportOpen(j) \/ ReportClosed(j)

Next == \/ OnConnect \/ Lost \/ Stop
        \/ \E c \in Cabinets :
             Beat(c) \/ \E open \in BOOLEAN, b \in Boxes \union {None} : Message(c, open, b)
        \/ Learn \/ StartReply \/ Snapshot
        \/ \E j \in jobs : Job(j)

(* Started threads and timers run; nothing is assumed of the network.      *)
Spec == /\ Init /\ [][Next]_vars
        /\ WF_vars(Learn) /\ WF_vars(StartReply) /\ WF_vars(\E j \in jobs : Job(j))

--------------------------------------------------------------------------------
(* Properties *)

(* The variables keep their types, and no two threads act for one command. *)
TypeOK ==
  /\ conn \in {"off", "on", "stopped"}
  /\ known \subseteq Cabinets /\ learning \in known \union {None}
  /\ beating \subseteq known /\ announced \subseteq known
  /\ jobs \subseteq [n : 1..MaxMessages, box : Boxes \union {None},
                     at : {"delay", "open", "timer"}]
  /\ \A j, k \in jobs : j.n = k.n => j = k
  /\ doors \in [Boxes -> {"OPEN", "CLOSED"}]
  /\ unheard \subseteq Boxes

(* Every open command that reaches the simulator is answered once at most, *)
(* though several threads answer at the same time and through losses of    *)
(* the connection.                                                         *)
Contract == INSTANCE OpenContract WITH Commands <- 1..MaxMessages
KeepsContract == Contract!Spec

(* The backend has heard of every cabinet the simulator knows, at any time *)
(* of a connection: what is learned from traffic is announced by the one   *)
(* who learned it, and what was known before by _on_connect.               *)
KnownAreOnline == Connected => known \subseteq announced \union {learning}

(* When no thread and no timer is left, no box is left reported OPEN: with *)
(* overlapping commands for a box the last report is CLOSED too, and only  *)
(* a report that found no connection is missing.                           *)
DoorsEndClosed == jobs = {} => \A b \in Boxes \ unheard : doors[b] = "CLOSED"

(* Every command is answered unless the simulator is stopped first.        *)
EveryCommandAnswered ==
  \A n \in 1..MaxMessages : n \in waiting ~> n \in answered \/ conn = "stopped"
================================================================================
