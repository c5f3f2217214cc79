---------------------------- MODULE DemoCabinetProofs ----------------------------
(***************************************************************************)
(* DemoCabinet for any sets of cabinets and boxes and any bounds: the type *)
(* invariant, the contract with the backend, and what the backend was told *)
(* of cabinets and doors.                                                  *)
(***************************************************************************)
EXTENDS DemoCabinet, TLAPS

Delivery == [n : 1..MaxMessages, box : Boxes \union {None}]

(* TypeOK is not inductive: that no two threads act for one command needs  *)
(* the numbers of the commands taken up to be those of messages that came, *)
(* and the command in delivery to be a new one.                            *)
DeliveryTyped == delivery # None => delivery \in Delivery
BoxesGiven == \A j \in jobs : j.at # "delay" => j.box \in Boxes
Numbered ==
  /\ messages \in 0..MaxMessages
  /\ waiting \union answered \subseteq 1..messages
  /\ \A j \in jobs : j.n <= messages
  /\ delivery # None => /\ delivery.n <= messages
                        /\ delivery.n \notin waiting \union answered
                        /\ \A j \in jobs : j.n # delivery.n
Typed == TypeOK /\ DeliveryTyped /\ BoxesGiven /\ Numbered

(* Type correctness of every step.                                         *)
LEMMA TypeStep == Typed /\ [Next]_vars => Typed'
<1> SUFFICES ASSUME Typed, [Next]_vars PROVE Typed'
  OBVIOUS
<1> USE NoneAssumption, BoundsAssumption
<1> USE DEF Typed
<1>1. CASE OnConnect
  BY <1>1 DEF OnConnect, TypeOK, DeliveryTyped, BoxesGiven, Numbered, commands
<1>2. CASE Lost
  BY <1>2 DEF Lost, TypeOK, DeliveryTyped, BoxesGiven, Numbered, commands
<1>3. CASE Stop
  BY <1>3 DEF Stop, TypeOK, DeliveryTyped, BoxesGiven, Numbered
<1>4. ASSUME NEW c \in Cabinets, NEW open \in BOOLEAN, NEW b \in Boxes \union {None},
             Message(c, open, b)
      PROVE  Typed'
  <2>1. messages' \in 1..MaxMessages /\ messages' = messages + 1
    BY <1>4 DEF Message, Numbered
  <2>2. delivery' = None \/ delivery' = [n |-> messages + 1, box |-> b]
    BY <1>4 DEF Message
  <2>3. TypeOK'
    BY <1>4 DEF Message, TypeOK, network
  <2>4. DeliveryTyped'
    BY <2>1, <2>2 DEF DeliveryTyped, Delivery
  <2>5. BoxesGiven'
    BY <1>4 DEF Message, BoxesGiven
  <2>6. Numbered'
    <3>1. \A n \in waiting \union answered : n \in 1..messages
      BY DEF Numbered
    <3>2. \A j \in jobs : j.n \in Nat /\ j.n <= messages
      BY DEF TypeOK, Numbered
    <3>3. delivery' # None => delivery'.n = messages + 1
      BY <2>2
    <3>4. messages + 1 \notin waiting \union answered
      BY <3>1 DEF Numbered
    <3>5. \A j \in jobs : j.n # messages + 1 /\ j.n <= messages + 1
      BY <3>2, <2>1 DEF Numbered
    <3>6. UNCHANGED <<waiting, answered, jobs>>
      BY <1>4 DEF Message
    <3>7. (waiting \union answered) \subseteq 1..(messages + 1)
      BY <3>1 DEF Numbered
    <3> QED
      BY <2>1, <3>3, <3>4, <3>5, <3>6, <3>7 DEF Numbered
  <2> QED
    BY <2>3, <2>4, <2>5, <2>6
<1>5. CASE Learn
  BY <1>5 DEF Learn, Announce, TypeOK, DeliveryTyped, BoxesGiven, Numbered, network,
       commands
<1>6. CASE StartReply
  <2> DEFINE job == [n |-> delivery.n, box |-> delivery.box, at |-> "delay"]
  <2>1. delivery \in Delivery
    BY <1>6 DEF StartReply, DeliveryTyped
  <2>2. jobs' = jobs \union {job} /\ waiting' = waiting \union {delivery.n}
    BY <1>6 DEF StartReply, Kept
  <2>3. job \in [n : 1..MaxMessages, box : Boxes \union {None},
                 at : {"delay", "open", "timer"}]
    BY <2>1 DEF Delivery
  <2>4. \A j \in jobs : j.n # job.n
    BY <1>6 DEF StartReply, Numbered
  <2>5. TypeOK'
    BY <1>6, <2>2, <2>3, <2>4 DEF StartReply, TypeOK, network, heartbeats
  <2>6. BoxesGiven'
    BY <2>2 DEF BoxesGiven
  <2>7. DeliveryTyped'
    BY <1>6 DEF StartReply, DeliveryTyped
  <2>8. Numbered'
    <3>1. delivery.n \in 1..messages
      BY <1>6, <2>1 DEF StartReply, Delivery, Numbered
    <3> QED
      BY <1>6, <2>2, <3>1 DEF StartReply, Numbered
  <2> QED
    BY <2>5, <2>6, <2>7, <2>8
<1>7. ASSUME NEW j \in jobs, Job(j) PROVE Typed'
  <2>1. PICK at \in {None, "open", "timer"} :
          /\ Advance(j, at)
          /\ at # None => j.box \in Boxes
    BY <1>7 DEF Job, Reply, ReportOpen, ReportClosed, TypeOK, BoxesGiven
  <2>2. jobs' = (jobs \ {j}) \union (IF at = None THEN {} ELSE {[j EXCEPT !.at = at]})
    BY <2>1 DEF Advance
  <2>3. at # None => [j EXCEPT !.at = at] \in [n : 1..MaxMessages, box : Boxes \union {None},
                                              at : {"delay", "open", "timer"}]
    BY <2>1 DEF TypeOK
  <2>4. j \in [n : 1..MaxMessages, box : Boxes \union {None},
               at : {"delay", "open", "timer"}]
    BY DEF TypeOK
  <2>5. [j EXCEPT !.at = at].n = j.n /\ [j EXCEPT !.at = at].box = j.box
    BY <2>4
  <2>6. doors' \in [Boxes -> {"OPEN", "CLOSED"}] /\ unheard' \subseteq Boxes
    BY <1>7 DEF Job, Reply, ReportOpen, ReportClosed, Tell, TypeOK, BoxesGiven
  <2>7. UNCHANGED <<network, heartbeats, delivery, messages>>
    BY <1>7 DEF Job, Reply, ReportOpen, ReportClosed, commands
  <2>8. waiting' \union answered' = waiting \union answered
          \/ waiting' \union answered' = waiting \union answered \union {j.n}
    BY <1>7 DEF Job, Reply, ReportOpen, ReportClosed, commands, AnswerOwn
  <2>9. \A k \in jobs' : \E i \in jobs : k.n = i.n /\ (k = i \/ i = j)
    BY <2>2, <2>5
  <2>10. \A k, i \in jobs' : k.n = i.n => k = i
    BY <2>2, <2>5 DEF TypeOK
  <2>11. TypeOK'
    BY <2>2, <2>3, <2>6, <2>7, <2>10 DEF TypeOK, network, heartbeats
  <2>12. BoxesGiven'
    BY <2>1, <2>2, <2>5 DEF BoxesGiven
  <2>13. DeliveryTyped'
    BY <2>7 DEF DeliveryTyped
  <2>14. Numbered'
    <3>1. j.n \in 1..messages
      BY <2>4 DEF Numbered
    <3>2. delivery # None => j.n # delivery.n
      BY DEF Numbered
    <3> QED
      BY <2>7, <2>8, <2>9, <3>1, <3>2 DEF Numbered
  <2> QED
    BY <2>11, <2>12, <2>13, <2>14
<1>8. CASE Snapshot
  BY <1>8 DEF Snapshot, TypeOK, DeliveryTyped, BoxesGiven, Numbered, network, commands
<1>9. ASSUME NEW c \in Cabinets, Beat(c) PROVE Typed'
  BY <1>9 DEF Beat, Announce, TypeOK, DeliveryTyped, BoxesGiven, Numbered, network,
       commands
<1>10. CASE UNCHANGED vars
  BY <1>10 DEF vars, network, heartbeats, commands, TypeOK, DeliveryTyped, BoxesGiven,
       Numbered
<1> QED
  BY <1>1, <1>2, <1>3, <1>4, <1>5, <1>6, <1>7, <1>8, <1>9, <1>10 DEF Next

LEMMA TypedInvariant == Spec => []Typed
<1>1. Init => Typed
  BY CabinetsAssumption, BoundsAssumption
  DEF Init, Typed, TypeOK, DeliveryTyped, BoxesGiven, Numbered
<1> QED
  BY <1>1, TypeStep, PTL DEF Spec

(* The variables keep their types and no two threads act for one command,  *)
(* however many commands, reply threads and losses of the connection.      *)
THEOREM TypeCorrect == Spec => []TypeOK
<1>1. Typed => TypeOK
  BY DEF Typed
<1> QED
  BY <1>1, TypedInvariant, PTL

--------------------------------------------------------------------------------
(* The contract with the backend *)

(* A thread before its answer acts for a command that waits.               *)
DelayedWait == /\ waiting \intersect answered = {}
               /\ \A j \in jobs : j.at = "delay" => j.n \in waiting

LEMMA DelayedWaitInvariant == Spec => []DelayedWait
<1>1. Init => DelayedWait
  BY DEF Init, DelayedWait
<1>2. Typed /\ DelayedWait /\ [Next]_vars => DelayedWait'
  <2> SUFFICES ASSUME Typed, DelayedWait, [Next]_vars PROVE DelayedWait'
    OBVIOUS
  <2> USE NoneAssumption
  <2>1. CASE StartReply
    <3>1. delivery.n \notin answered
      BY <2>1 DEF StartReply, Typed, Numbered
    <3> QED
      BY <2>1, <3>1 DEF StartReply, Kept, DelayedWait
  <2>2. ASSUME NEW j \in jobs, Reply(j) PROVE DelayedWait'
    <3>1. \A k \in jobs' : (k \in jobs /\ k # j) \/ k.at # "delay"
      BY <2>2 DEF Reply, Advance, Typed, TypeOK
    <3>2. \A k \in jobs : k # j => k.n # j.n
      BY DEF Typed, TypeOK
    <3> QED
      BY <2>2, <3>1, <3>2 DEF Reply, AnswerOwn, DelayedWait
  <2>3. ASSUME NEW j \in jobs, ReportOpen(j) \/ ReportClosed(j) PROVE DelayedWait'
    <3>1. \A k \in jobs' : k \in jobs \/ k.at # "delay"
      BY <2>3 DEF ReportOpen, ReportClosed, Advance, Typed, TypeOK
    <3> QED
      BY <2>3, <3>1 DEF ReportOpen, ReportClosed, commands, DelayedWait
  <2>4. CASE Stop
    BY <2>4 DEF Stop, DelayedWait
  <2>5. CASE \/ OnConnect \/ Lost \/ Learn \/ Snapshot
             \/ \E c \in Cabinets :
                  Beat(c) \/ \E open \in BOOLEAN, b \in Boxes \union {None} : Message(c, open, b)
             \/ UNCHANGED vars
    BY <2>5 DEF OnConnect, Lost, Learn, Snapshot, Beat, Message, vars, commands, DelayedWait
  <2> QED
    BY <2>1, <2>2, <2>3, <2>4, <2>5 DEF Next, Job
<1> QED
  BY <1>1, <1>2, TypedInvariant, PTL DEF Spec

(* Every open command that reaches the simulator is answered once at most, *)
(* for any number of overlapping commands, threads and losses.             *)
THEOREM ImplementsContract == Spec => KeepsContract
<1>1. Init => Contract!Init
  BY DEF Init, Contract!Init
<1>2. Typed /\ DelayedWait /\ [Next]_vars => [Contract!Next]_(Contract!vars)
  <2> SUFFICES ASSUME Typed, DelayedWait, [Next]_vars
               PROVE  Contract!Next \/ UNCHANGED Contract!vars
    OBVIOUS
  <2>1. CASE StartReply
    <3>1. delivery.n \in 1..MaxMessages /\ Contract!TakeUp(delivery.n)
      BY <2>1 DEF StartReply, Typed, DeliveryTyped, Delivery, Numbered, Contract!TakeUp
    <3> QED
      BY <3>1 DEF Contract!Next
  <2>2. ASSUME NEW j \in jobs, Reply(j) PROVE Contract!Next
    <3>1. j.n \in 1..MaxMessages /\ Contract!Answer(j.n)
      BY <2>2 DEF Reply, AnswerOwn, DelayedWait, Typed, TypeOK, Contract!Answer
    <3> QED
      BY <3>1 DEF Contract!Next
  <2>3. CASE \/ OnConnect \/ Lost \/ Learn \/ Snapshot \/ Stop
             \/ \E c \in Cabinets :
                  Beat(c) \/ \E open \in BOOLEAN, b \in Boxes \union {None} : Message(c, open, b)
             \/ \E j \in jobs : ReportOpen(j) \/ ReportClosed(j)
             \/ UNCHANGED vars
    BY <2>3 DEF OnConnect, Lost, Learn, Snapshot, Stop, Beat, Message, ReportOpen,
         ReportClosed, vars, commands, Contract!vars
  <2> QED
    BY <2>1, <2>2, <2>3 DEF Next, Job
<1> QED
  BY <1>1, <1>2, TypedInvariant, DelayedWaitInvariant, PTL
  DEF Spec, KeepsContract, Contract!Spec

--------------------------------------------------------------------------------
(* What the backend was told *)

(* The backend has heard of every cabinet the simulator knows, at any time *)
(* of a connection, whoever learned it.                                    *)
THEOREM CabinetsAnnounced == Spec => []KnownAreOnline
<1>1. Init => KnownAreOnline
  BY DEF Init, KnownAreOnline, Connected
<1>2. Typed /\ KnownAreOnline /\ [Next]_vars => KnownAreOnline'
  <2> SUFFICES ASSUME Typed, KnownAreOnline, [Next]_vars PROVE KnownAreOnline'
    OBVIOUS
  <2>1. None \notin known
    BY NoneAssumption DEF Typed, TypeOK
  <2>2. ASSUME NEW c \in Cabinets, NEW open \in BOOLEAN, NEW b \in Boxes \union {None},
               Message(c, open, b)
        PROVE  KnownAreOnline'
    BY <2>1, <2>2 DEF Message, New, KnownAreOnline, Connected, network
  <2>3. CASE OnConnect \/ Lost \/ Stop
    BY <2>3 DEF OnConnect, Lost, Stop, KnownAreOnline, Connected
  <2>4. CASE Learn
    BY <2>1, <2>4 DEF Learn, Announce, KnownAreOnline, Connected, network
  <2>5. ASSUME NEW c \in Cabinets, Beat(c) PROVE KnownAreOnline'
    BY <2>5 DEF Beat, Announce, KnownAreOnline, Connected, network
  <2>6. CASE StartReply \/ Snapshot \/ (\E j \in jobs : Job(j)) \/ UNCHANGED vars
    BY <2>6 DEF StartReply, Snapshot, Job, Reply, ReportOpen, ReportClosed, vars,
         network, heartbeats, KnownAreOnline, Connected
  <2> QED
    BY <2>2, <2>3, <2>4, <2>5, <2>6 DEF Next
<1> QED
  BY <1>1, <1>2, TypedInvariant, PTL DEF Spec

(* A box reported OPEN has a timer that will report it CLOSED.             *)
OpenHasTimer ==
  \A b \in Boxes \ unheard : doors[b] = "OPEN" => \E j \in jobs : j.box = b /\ j.at = "timer"

(* When no thread and no timer is left no box is left reported OPEN, but   *)
(* for reports that found no connection.                                   *)
THEOREM DoorsClosedInTheEnd == Spec => []DoorsEndClosed
<1>1. Init => OpenHasTimer
  BY DEF Init, OpenHasTimer
<1>2. Typed /\ OpenHasTimer /\ [Next]_vars => OpenHasTimer'
  <2> SUFFICES ASSUME Typed, OpenHasTimer, [Next]_vars PROVE OpenHasTimer'
    OBVIOUS
  <2> USE NoneAssumption
  <2>1. CASE StartReply
    BY <2>1 DEF StartReply, Kept, OpenHasTimer
  <2>2. CASE Stop
    BY <2>2 DEF Stop, OpenHasTimer
  <2>3. ASSUME NEW j \in jobs, Reply(j) PROVE OpenHasTimer'
    <3>1. \A k \in jobs : k.at = "timer" => k \in jobs'
      BY <2>3 DEF Reply, Advance
    <3> QED
      BY <2>3, <3>1 DEF Reply, OpenHasTimer
  <2>4. ASSUME NEW j \in jobs, ReportOpen(j) PROVE OpenHasTimer'
    <3>1. \A k \in jobs : k.at = "timer" => k \in jobs'
      BY <2>4 DEF ReportOpen, Advance
    <3>2. \E k \in jobs' : k.box = j.box /\ k.at = "timer"
      <4>1. [j EXCEPT !.at = "timer"] \in jobs'
        BY <2>4 DEF ReportOpen, Advance
      <4>2. /\ [j EXCEPT !.at = "timer"].box = j.box
            /\ [j EXCEPT !.at = "timer"].at = "timer"
        BY DEF Typed, TypeOK
      <4> QED
        BY <4>1, <4>2
    <3>3. \A b \in Boxes : b # j.box => doors'[b] = doors[b] /\ (b \in unheard' <=> b \in unheard)
      BY <2>4 DEF ReportOpen, Tell, Typed, TypeOK
    <3> QED
      BY <3>1, <3>2, <3>3 DEF OpenHasTimer
  <2>5. ASSUME NEW j \in jobs, ReportClosed(j) PROVE OpenHasTimer'
    <3>1. \A k \in jobs : k # j => k \in jobs'
      BY <2>5 DEF ReportClosed, Advance
    <3>2. \A b \in Boxes : b # j.box => doors'[b] = doors[b] /\ (b \in unheard' <=> b \in unheard)
      BY <2>5 DEF ReportClosed, Tell, Typed, TypeOK
    <3>3. j.box \in Boxes => j.box \in unheard' \/ doors'[j.box] = "CLOSED"
      BY <2>5 DEF ReportClosed, Tell, Typed, TypeOK
    <3> QED
      BY <3>1, <3>2, <3>3 DEF OpenHasTimer
  <2>6. CASE \/ OnConnect \/ Lost \/ Learn \/ Snapshot
             \/ \E c \in Cabinets :
                  Beat(c) \/ \E open \in BOOLEAN, b \in Boxes \union {None} : Message(c, open, b)
             \/ UNCHANGED vars
    BY <2>6 DEF OnConnect, Lost, Learn, Snapshot, Beat, Message, vars, OpenHasTimer
  <2> QED
    BY <2>1, <2>2, <2>3, <2>4, <2>5, <2>6 DEF Next, Job
<1>3. Typed /\ OpenHasTimer => DoorsEndClosed
  BY DEF Typed, TypeOK, OpenHasTimer, DoorsEndClosed
<1> QED
  BY <1>1, <1>2, <1>3, TypedInvariant, PTL DEF Spec
================================================================================
