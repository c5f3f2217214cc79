---------------------------- MODULE SerialLinkProofs ----------------------------
(***************************************************************************)
(* SerialLink for any set of callers and slaves and any bounds: the type   *)
(* invariant, the order in which lines are handed out, no lost wake-up, no *)
(* registration left behind, and the implementation of CommandService.     *)
(***************************************************************************)
EXTENDS SerialLink, TLAPS

(* None is neither a slave, a line, a made-up outcome nor a command.       *)
LEMMA NoneIsNew ==
  None \notin Slaves /\ None \notin Message /\ None \notin Failure /\ None \notin Call
BY NoneAssumption

LEMMA EmptySeq == ASSUME NEW S PROVE <<>> \in Seq(S)
OBVIOUS

(* Type correctness of every step.                                         *)
LEMMA TypeStep == TypeOK /\ [Next]_vars => TypeOK'
<1> SUFFICES ASSUME TypeOK, [Next]_vars PROVE TypeOK'
  OBVIOUS
<1> USE NoneIsNew, BoundsAssumption
<1>1. ASSUME NEW c \in Callers, NEW s \in Slaves, NEW cmd \in Commands,
             Arm(c, s, cmd)
      PROVE  TypeOK'
  <2>1. [slave |-> s, cmd |-> cmd, id |-> issued + 1] \in Call
    BY <1>1 DEF Arm, TypeOK, Call
  <2>2. issued' \in 0..MaxCalls
    BY <1>1 DEF Arm, TypeOK
  <2>3. pc' \in [Callers -> InFlight \union {"idle", "leaving"}]
    BY <1>1 DEF Arm, TypeOK, InFlight
  <2>4. call' \in [Callers -> Call \union {None}]
    BY <1>1, <2>1 DEF Arm, TypeOK
  <2>5. heard' \in [Callers -> SUBSET Message]
    BY <1>1 DEF Arm, TypeOK, history
  <2>6. \A d \in Callers : /\ call'[d] = None <=> pc'[d] = "idle"
                          /\ outcome'[d] = None <=> pc'[d] # "leaving"
    BY <1>1, <2>1 DEF Arm, TypeOK
  <2> QED
    BY <1>1, <2>2, <2>3, <2>4, <2>5, <2>6 DEF Arm, ClearMailbox, TypeOK, history
<1>2. ASSUME NEW c \in Callers, Send(c) PROVE TypeOK'
  <2>1. call[c] \in Call
    BY <1>2 DEF Send, TypeOK
  <2>2. call[c].slave \in Slaves /\ call[c].id \in 1..MaxCalls
    BY <2>1 DEF Call
  <2>3. todo' \in [Slaves -> Seq(1..MaxCalls)]
    BY <1>2, <2>2 DEF Send, TypeOK
  <2> QED
    BY <1>2, <2>3 DEF Send, TypeOK, rendezvous, history, InFlight
<1>3. ASSUME NEW c \in Callers, WriteFails(c) PROVE TypeOK'
  BY <1>3 DEF WriteFails, TypeOK, rendezvous, history, Failure, InFlight
<1>4. ASSUME NEW c \in Callers, Await(c) PROVE TypeOK'
  BY <1>4 DEF Await, TypeOK, rendezvous, history, InFlight
<1>5. ASSUME NEW c \in Callers, Take(c) PROVE TypeOK'
  <2>1. Reply \in Message \union Failure
    BY DEF TypeOK, Reply, Failure
  <2> QED
    BY <1>5, <2>1 DEF Take, TakeData, TypeOK, InFlight
<1>6. ASSUME NEW c \in Callers, TimeOut(c) PROVE TypeOK'
  BY <1>6 DEF TimeOut, TypeOK, rendezvous, history, Failure, InFlight
<1>7. ASSUME NEW c \in Callers, Leave(c) PROVE TypeOK'
  BY <1>7 DEF Leave, Unregister, TypeOK, history, InFlight
<1>8. CASE ListenerMatches
  <2>1. Head(wire) \in Message /\ Tail(wire) \in Seq(Message)
    BY <1>8 DEF ListenerMatches, TypeOK
  <2> QED
    BY <1>8, <2>1 DEF ListenerMatches, TypeOK, rendezvous, history
<1>9. CASE ListenerIgnores
  <2>1. Tail(wire) \in Seq(Message)
    BY <1>9 DEF ListenerIgnores, TypeOK
  <2> QED
    BY <1>9, <2>1 DEF ListenerIgnores, TypeOK, rendezvous, history
<1>10. CASE ListenerStores
  BY <1>10 DEF ListenerStores, TypeOK, InFlight
<1>11. ASSUME NEW s \in Slaves, SlaveAnswers(s) PROVE TypeOK'
  <2>1. Head(todo[s]) \in 1..MaxCalls /\ Tail(todo[s]) \in Seq(1..MaxCalls)
    BY <1>11 DEF SlaveAnswers, TypeOK
  <2>2. [kind |-> "reply", slave |-> s, n |-> spoken + 1, of |-> Head(todo[s])]
           \in Message
    BY <1>11, <2>1 DEF SlaveAnswers, Says, TypeOK, Message
  <2>3. wire' \in Seq(Message) /\ spoken' \in 0..MaxMessages
    BY <1>11, <2>2 DEF SlaveAnswers, Says, TypeOK
  <2>4. todo' \in [Slaves -> Seq(1..MaxCalls)]
    BY <1>11, <2>1 DEF SlaveAnswers, TypeOK
  <2> QED
    BY <1>11, <2>3, <2>4 DEF SlaveAnswers, TypeOK, rendezvous, history
<1>12. ASSUME NEW s \in Slaves, CommandLost(s) PROVE TypeOK'
  <2>1. Tail(todo[s]) \in Seq(1..MaxCalls)
    BY <1>12 DEF CommandLost, TypeOK
  <2>2. todo' \in [Slaves -> Seq(1..MaxCalls)]
    BY <1>12, <2>1 DEF CommandLost, TypeOK
  <2> QED
    BY <1>12, <2>2 DEF CommandLost, TypeOK, rendezvous, history
<1>13. ASSUME NEW s \in Slaves, SlaveReports(s) PROVE TypeOK'
  <2>1. PICK kind \in {"ALIVE", "DOOR"} : Says(kind, s, 0)
    BY <1>13 DEF SlaveReports
  <2>2. [kind |-> kind, slave |-> s, n |-> spoken + 1, of |-> 0] \in Message
    BY <2>1 DEF Says, TypeOK, Message
  <2>3. wire' \in Seq(Message) /\ spoken' \in 0..MaxMessages
    BY <2>1, <2>2 DEF Says, TypeOK
  <2> QED
    BY <1>13, <2>3 DEF SlaveReports, TypeOK, rendezvous, history
<1>14. CASE Break \/ Close
  BY <1>14 DEF Break, Close, TypeOK, rendezvous, history
<1>15. CASE ListenerFails \/ ResetInput
  BY <1>15, EmptySeq DEF ListenerFails, ResetInput, TypeOK, rendezvous, history
<1>16. CASE Reopen
  <2>1. todo' \in [Slaves -> Seq(1..MaxCalls)]
    BY <1>16, EmptySeq DEF Reopen, TypeOK
  <2> QED
    BY <1>16, <2>1 DEF Reopen, TypeOK, rendezvous, history
<1>17. CASE UNCHANGED vars
  BY <1>17 DEF vars, TypeOK
<1> QED
  BY <1>1, <1>2, <1>3, <1>4, <1>5, <1>6, <1>7, <1>8, <1>9, <1>10, <1>11, <1>12,
     <1>13, <1>14, <1>15, <1>16, <1>17 DEF Next, CallerStep

(* The variables keep their types, whatever the number of callers, slaves, *)
(* commands and lines.                                                     *)
THEOREM TypeCorrect == Spec => []TypeOK
<1>1. Init => TypeOK
  <2> SUFFICES ASSUME Init PROVE TypeOK
    OBVIOUS
  <2>1. wire \in Seq(Message) /\ todo \in [Slaves -> Seq(1..MaxCalls)]
    BY EmptySeq DEF Init
  <2>2. issued \in 0..MaxCalls /\ spoken \in 0..MaxMessages
    BY BoundsAssumption DEF Init
  <2> QED
    BY <2>1, <2>2 DEF Init, TypeOK
<1> QED
  BY <1>1, TypeStep, PTL DEF Spec

--------------------------------------------------------------------------------
(* The order of lines *)

(* Lines are numbered as the slaves send them.  Whatever was returned came *)
(* before what the mailbox holds, that before what the listener holds, and *)
(* that before everything still on the wire.                               *)
BeforeWire(m) == m.n <= spoken /\ \A i \in 1..Len(wire) : m.n < wire[i].n
WireOrdered == /\ \A i \in 1..Len(wire) : wire[i].n <= spoken
               /\ \A i, j \in 1..Len(wire) : i < j => wire[i].n < wire[j].n
InHandOrdered == inHand # None => BeforeWire(inHand)
DataOrdered == data # None => /\ BeforeWire(data)
                              /\ inHand # None => data.n < inHand.n
UsedOrdered == \A m \in used : /\ BeforeWire(m)
                               /\ inHand # None => m.n < inHand.n
                               /\ data # None => m.n < data.n
Ordered == WireOrdered /\ InHandOrdered /\ DataOrdered /\ UsedOrdered

LEMMA LineNumbers ==
  /\ \A m \in Message : m.n \in Nat
  /\ TypeOK => \A i \in 1..Len(wire) : wire[i] \in Message
<1>1. \A m \in Message : m.n \in 1..MaxMessages
  BY DEF Message
<1>2. TypeOK => wire \in Seq(Message)
  BY DEF TypeOK
<1> QED
  BY <1>1, <1>2, BoundsAssumption

LEMMA OrderedStep == TypeOK /\ Ordered /\ [Next]_vars => Ordered'
<1> SUFFICES ASSUME TypeOK, Ordered, [Next]_vars PROVE Ordered'
  OBVIOUS
<1> USE NoneIsNew DEF Ordered, WireOrdered, InHandOrdered, DataOrdered,
                      UsedOrdered, BeforeWire
<1>1. ASSUME UNCHANGED <<wire, inHand, data, used, spoken>> PROVE Ordered'
  BY <1>1
<1>2. ASSUME NEW c \in Callers, NEW s \in Slaves, NEW cmd \in Commands,
             Arm(c, s, cmd)
      PROVE  Ordered'
  BY <1>2 DEF Arm, ClearMailbox, history
<1>3. ASSUME NEW c \in Callers, Take(c) PROVE Ordered'
  BY <1>3 DEF Take, TakeData
<1>4. CASE ListenerMatches
  <2>1. /\ wire \in Seq(Message) /\ wire # <<>> /\ inHand = None
        /\ inHand' = Head(wire) /\ wire' = Tail(wire)
        /\ UNCHANGED <<data, used, spoken>>
    BY <1>4 DEF ListenerMatches, TypeOK, rendezvous, history
  <2>2. inHand' = wire[1] /\ 1 \in 1..Len(wire) /\ Len(wire) \in Nat
    BY <2>1
  <2>3. Len(wire') = Len(wire) - 1
    BY <2>1
  <2>4. \A i \in 1..Len(wire') : wire'[i] = wire[i + 1] /\ i + 1 \in 1..Len(wire)
    BY <2>1, <2>2, <2>3
  <2>5. \A i \in 1..Len(wire) : wire[i].n \in Nat
    BY LineNumbers
  <2>6. WireOrdered'
    BY <2>1, <2>2, <2>3, <2>4, <2>5
  <2>7. InHandOrdered'
    BY <2>1, <2>2, <2>3, <2>4, <2>5
  <2>8. DataOrdered' /\ UsedOrdered'
    BY <2>1, <2>2, <2>3, <2>4, <2>5
  <2> QED
    BY <2>6, <2>7, <2>8
<1>5. ASSUME wire' = <<>> \/ (wire # <<>> /\ wire' = Tail(wire)),
             UNCHANGED <<inHand, data, used, spoken>>
      PROVE  Ordered'
  <2>1. CASE wire' = <<>>
    BY <1>5, <2>1
  <2>2. CASE wire # <<>> /\ wire' = Tail(wire)
    <3>1. wire \in Seq(Message)
      BY DEF TypeOK
    <3>2. Len(wire) \in Nat /\ Len(wire') = Len(wire) - 1
      BY <2>2, <3>1
    <3>3. \A i \in 1..Len(wire') : wire'[i] = wire[i + 1] /\ i + 1 \in 1..Len(wire)
      BY <2>2, <3>1, <3>2
    <3>4. WireOrdered'
      <4>1. \A i \in 1..Len(wire') : wire'[i].n <= spoken'
        BY <1>5, <3>3
      <4>2. \A i, j \in 1..Len(wire') : i < j => wire'[i].n < wire'[j].n
        <5> TAKE i, j \in 1..Len(wire')
        <5>1. i < j => i + 1 < j + 1
          BY <3>2
        <5> QED
          BY <3>3, <5>1
      <4> QED
        BY <4>1, <4>2
    <3>5. InHandOrdered' /\ DataOrdered' /\ UsedOrdered'
      BY <1>5, <3>2, <3>3
    <3> QED
      BY <3>4, <3>5
  <2> QED
    BY <1>5, <2>1, <2>2
<1>6. CASE ListenerStores
  <2>1. /\ inHand # None /\ data' = inHand /\ inHand' = None
        /\ UNCHANGED <<wire, spoken, used>>
    BY <1>6 DEF ListenerStores
  <2> QED
    BY <2>1
<1>7. ASSUME NEW kind, NEW s, NEW id, Says(kind, s, id),
             UNCHANGED <<inHand, data, used>>
      PROVE  Ordered'
  <2> DEFINE line == [kind |-> kind, slave |-> s, n |-> spoken + 1, of |-> id]
  <2>1. /\ wire \in Seq(Message) /\ spoken \in Nat /\ spoken' = spoken + 1
        /\ wire' = Append(wire, line)
    BY <1>7, BoundsAssumption DEF Says, TypeOK
  <2>4. line.n = spoken + 1
    OBVIOUS
  <2> HIDE DEF line
  <2>2. Len(wire) \in Nat /\ Len(wire') = Len(wire) + 1
    BY <2>1
  <2>3. \A i \in 1..Len(wire') :
           (i \in 1..Len(wire) /\ wire'[i] = wire[i]) \/ (i = Len(wire) + 1 /\ wire'[i] = line)
    <3> TAKE i \in 1..Len(wire')
    <3>1. CASE i = Len(wire) + 1
      BY <2>1, <2>2, <3>1
    <3>2. CASE i # Len(wire) + 1
      <4>1. i \in 1..Len(wire)
        BY <2>2, <3>2
      <4> QED
        BY <2>1, <2>2, <4>1
    <3> QED
      BY <3>1, <3>2
  <2>5. /\ \A i \in 1..Len(wire) : wire[i].n \in Nat
        /\ inHand # None => inHand.n \in Nat
        /\ data # None => data.n \in Nat
        /\ \A m \in used : m.n \in Nat
    BY LineNumbers DEF TypeOK
  <2>6. WireOrdered'
    BY <2>1, <2>2, <2>3, <2>4, <2>5
  <2>7. InHandOrdered' /\ DataOrdered'
    BY <1>7, <2>1, <2>2, <2>3, <2>4, <2>5
  <2>8. UsedOrdered'
    BY <1>7, <2>1, <2>2, <2>3, <2>4, <2>5
  <2> QED
    BY <2>6, <2>7, <2>8
<1>8. ASSUME NEW c \in Callers, CallerStep(c), ~Take(c) PROVE Ordered'
  <2>1. UNCHANGED <<wire, inHand, data, used, spoken>>
    BY <1>8 DEF CallerStep, Send, WriteFails, Await, TimeOut, Leave, rendezvous,
                history
  <2> QED
    BY <1>1, <2>1
<1>9. CASE ListenerIgnores \/ ListenerFails \/ ResetInput
  <2>1. wire' = <<>> \/ (wire # <<>> /\ wire' = Tail(wire))
    BY <1>9 DEF ListenerIgnores, ListenerFails, ResetInput
  <2>2. UNCHANGED <<inHand, data, used, spoken>>
    BY <1>9 DEF ListenerIgnores, ListenerFails, ResetInput, rendezvous, history
  <2> QED
    BY <1>5, <2>1, <2>2
<1>10. ASSUME NEW s \in Slaves, SlaveAnswers(s) \/ SlaveReports(s) PROVE Ordered'
  <2>1. PICK kind, id : Says(kind, s, id)
    BY <1>10 DEF SlaveAnswers, SlaveReports
  <2>2. UNCHANGED <<inHand, data, used>>
    BY <1>10 DEF SlaveAnswers, SlaveReports, rendezvous, history
  <2> QED
    BY <1>7, <2>1, <2>2
<1>11. CASE (\E s \in Slaves : CommandLost(s)) \/ Break \/ Reopen \/ Close
            \/ UNCHANGED vars
  <2>1. UNCHANGED <<wire, inHand, data, used, spoken>>
    BY <1>11 DEF CommandLost, Break, Reopen, Close, vars, rendezvous, history
  <2> QED
    BY <1>1, <2>1
<1> QED
  BY <1>2, <1>3, <1>4, <1>6, <1>8, <1>9, <1>10, <1>11 DEF Next

LEMMA OrderedInvariant == Spec => [](TypeOK /\ Ordered)
<1>1. Init => Ordered
  BY DEF Init, Ordered, WireOrdered, InHandOrdered, DataOrdered, UsedOrdered
<1> QED
  BY <1>1, OrderedStep, TypeCorrect, PTL DEF Spec

(* Lines are returned in the order the slaves sent them and none twice,    *)
(* for any number of callers inside _send_and_wait at once.                *)
THEOREM InOrder == Spec => InOrderAtMostOnce
<1>1. ASSUME TypeOK, Ordered, [Next]_vars
      PROVE  [\A c \in Callers : Hands(c) => \A m \in used : m.n < outcome'[c].n]_vars
  <2> SUFFICES ASSUME Next, NEW c \in Callers, Hands(c), NEW m \in used
               PROVE  m.n < outcome'[c].n
    BY <1>1
  <2>1. Take(c) /\ data # None /\ outcome'[c] = data
    <3>1. outcome'[c] # outcome[c] /\ outcome'[c] \in Message
      BY DEF Hands
    <3>2. TimeoutReply \notin Message /\ SerialError \notin Message
      BY DEF TimeoutReply, SerialError, Message
    <3>3. outcome \in [Callers -> Message \union Failure \union {None}]
      BY <1>1 DEF TypeOK
    <3>4. PICK d \in Callers : WriteFails(d) \/ Take(d) \/ TimeOut(d) \/ Leave(d)
      BY <3>1 DEF Next, Arm, CallerStep, Send, Await, ListenerMatches,
            ListenerIgnores, ListenerStores, SlaveAnswers, CommandLost,
            SlaveReports, Break, ListenerFails, Reopen, ResetInput, Close
    <3>5. Take(d) /\ d = c
      BY <3>1, <3>2, <3>3, <3>4, NoneIsNew DEF WriteFails, Take, TimeOut, Leave
    <3> QED
      BY <3>1, <3>2, <3>3, <3>5 DEF Take, Reply
  <2> QED
    BY <1>1, <2>1 DEF Ordered, UsedOrdered
<1> QED
  BY <1>1, OrderedInvariant, PTL DEF Spec, InOrderAtMostOnce

--------------------------------------------------------------------------------
(* The mailbox and the waiting callers *)

(* What the mailbox holds has been announced, wakes every caller inside    *)
(* Event.wait and was heard by every call in progress.                     *)
Announced == data # None => /\ event
                            /\ \A c \in Callers : pc[c] # "waiting"
                            /\ \A c \in Callers : pc[c] \in InFlight => data \in heard[c]

LEMMA AnnouncedStep == TypeOK /\ Announced /\ [Next]_vars => Announced'
<1> SUFFICES ASSUME TypeOK, Announced, [Next]_vars PROVE Announced'
  OBVIOUS
<1>1. ASSUME data' = None PROVE Announced'
  BY <1>1 DEF Announced
<1>2. ASSUME UNCHANGED <<pc, data, event, heard>> PROVE Announced'
  BY <1>2 DEF Announced
<1>3. ASSUME NEW c \in Callers, Take(c) PROVE Announced'
  BY <1>1, <1>3 DEF Take, TakeData
<1>4. ASSUME NEW c \in Callers, Send(c) PROVE Announced'
  BY <1>4 DEF Send, Announced, TypeOK, InFlight, rendezvous, history
<1>5. ASSUME NEW c \in Callers, Await(c) PROVE Announced'
  BY <1>5 DEF Await, Announced, TypeOK, InFlight, rendezvous, history
<1>6. ASSUME NEW c \in Callers, WriteFails(c) \/ TimeOut(c) \/ Leave(c)
      PROVE  Announced'
  <2>1. /\ UNCHANGED <<data, event>>
        /\ \A d \in Callers : d # c => heard'[d] = heard[d] /\ pc'[d] = pc[d]
    BY <1>6 DEF WriteFails, TimeOut, Leave, rendezvous, history, TypeOK
  <2>2. pc'[c] \in {"leaving", "idle"}
    BY <1>6 DEF WriteFails, TimeOut, Leave, TypeOK
  <2> QED
    BY <2>1, <2>2 DEF Announced, InFlight
<1>7. CASE ListenerStores
  BY <1>7 DEF ListenerStores, Announced, TypeOK, InFlight
<1>8. CASE \/ ListenerMatches \/ ListenerIgnores
           \/ \E s \in Slaves : SlaveAnswers(s) \/ CommandLost(s) \/ SlaveReports(s)
           \/ Break \/ ListenerFails \/ Reopen \/ ResetInput \/ Close
           \/ UNCHANGED vars
  <2>1. UNCHANGED <<pc, data, event, heard>>
    BY <1>8 DEF ListenerMatches, ListenerIgnores, SlaveAnswers, CommandLost,
          SlaveReports, Break, ListenerFails, Reopen, ResetInput, Close, vars,
          rendezvous, history
  <2> QED
    BY <1>2, <2>1
<1>9. ASSUME NEW c \in Callers, NEW s \in Slaves, NEW cmd \in Commands,
             Arm(c, s, cmd)
      PROVE  Announced'
  BY <1>1, <1>9 DEF Arm, ClearMailbox
<1> QED
  BY <1>3, <1>4, <1>5, <1>6, <1>7, <1>8, <1>9 DEF Next, CallerStep

LEMMA AnnouncedInvariant == Spec => [](TypeOK /\ Announced)
<1>1. Init => Announced
  BY DEF Init, Announced
<1> QED
  BY <1>1, AnnouncedStep, TypeCorrect, PTL DEF Spec

(* No caller, however many there are, sleeps while a line is in the mailbox. *)
THEOREM NoLostWakeUp == Spec => []NoSleepOnReply
<1>1. Announced => NoSleepOnReply
  BY DEF Announced, NoSleepOnReply
<1> QED
  BY <1>1, AnnouncedInvariant, PTL

(* No registration survives the last call in progress, although every      *)
(* caller overwrites and removes the registrations of the others.          *)
THEOREM RegistrationReleased == Spec => []Released
<1>1. Init => Released
  BY DEF Init, Released
<1>2. TypeOK /\ Released /\ [Next]_vars => Released'
  <2> SUFFICES ASSUME TypeOK, Released, [Next]_vars PROVE Released'
    OBVIOUS
  <2>1. ASSUME NEW c \in Callers, pc'[c] # "idle" PROVE Released'
    BY <2>1 DEF Released
  <2>2. ASSUME NEW c \in Callers, NEW s \in Slaves, NEW cmd \in Commands,
               Arm(c, s, cmd)
        PROVE  Released'
    BY <2>1, <2>2 DEF Arm, TypeOK
  <2>3. ASSUME NEW c \in Callers, Leave(c) PROVE Released'
    BY <2>3 DEF Leave, Unregister, Released
  <2>4. ASSUME NEW c \in Callers, CallerStep(c), ~Leave(c) PROVE Released'
    <3>1. pc'[c] # "idle"
      BY <2>4 DEF CallerStep, Send, WriteFails, Await, Take, TimeOut, TypeOK
    <3> QED
      BY <2>1, <3>1
  <2>5. CASE ListenerStores
    BY <2>5 DEF ListenerStores, Released, TypeOK
  <2>6. CASE \/ ListenerMatches \/ ListenerIgnores
             \/ \E s \in Slaves : SlaveAnswers(s) \/ CommandLost(s) \/ SlaveReports(s)
             \/ Break \/ ListenerFails \/ Reopen \/ ResetInput \/ Close
             \/ UNCHANGED vars
    <3>1. UNCHANGED <<pc, waiting>>
      BY <2>6 DEF ListenerMatches, ListenerIgnores, SlaveAnswers, CommandLost,
            SlaveReports, Break, ListenerFails, Reopen, ResetInput, Close, vars,
            rendezvous, history
    <3> QED
      BY <3>1 DEF Released
  <2> QED
    BY <2>2, <2>3, <2>4, <2>5, <2>6 DEF Next
<1> QED
  BY <1>1, <1>2, TypeCorrect, PTL DEF Spec

--------------------------------------------------------------------------------
(* The implementation of CommandService *)

LEMMA StepImplements ==
  TypeOK /\ Ordered /\ Announced /\ [Next]_vars => [Promise!Next]_(Promise!vars)
<1> SUFFICES ASSUME TypeOK, Ordered, Announced, [Next]_vars
             PROVE  Promise!Next \/ UNCHANGED Promise!vars
  OBVIOUS
<1> DEFINE phase == [c \in Callers |-> Phase(c)]
<1>1. ASSUME NEW c \in Callers, NEW s \in Slaves, NEW cmd \in Commands,
             Arm(c, s, cmd)
      PROVE  Promise!Begin(c)
  <2>1. phase[c] = "idle" /\ phase' = [phase EXCEPT ![c] = "calling"]
    BY <1>1 DEF Arm, Phase, TypeOK
  <2> QED
    BY <1>1, <2>1 DEF Arm, history, Promise!Begin
<1>2. ASSUME NEW c \in Callers, Take(c), data # None PROVE Promise!Succeed(c)
  <2>1. phase[c] = "calling" /\ phase' = [phase EXCEPT ![c] = "done"]
    BY <1>2 DEF Take, Phase, TypeOK
  <2>2. data \in heard[c]
    BY <1>2 DEF Take, Announced, InFlight
  <2>3. data \notin used
    <3>1. data.n \in Nat
      BY <1>2, LineNumbers DEF TypeOK
    <3>2. data \in used => data.n < data.n
      BY <1>2 DEF Ordered, UsedOrdered
    <3> QED
      BY <3>1, <3>2
  <2> QED
    BY <1>2, <2>1, <2>2, <2>3 DEF Take, Reply, Promise!Succeed
<1>3. ASSUME NEW c \in Callers,
             WriteFails(c) \/ TimeOut(c) \/ (Take(c) /\ data = None)
      PROVE  Promise!Fail(c)
  <2>1. phase[c] = "calling" /\ phase' = [phase EXCEPT ![c] = "done"]
    BY <1>3 DEF WriteFails, TimeOut, Take, Phase, TypeOK
  <2>2. \E f \in Failure : outcome' = [outcome EXCEPT ![c] = f]
    BY <1>3 DEF WriteFails, TimeOut, Take, Reply, Failure
  <2>3. UNCHANGED <<heard, used>>
    BY <1>3 DEF WriteFails, TimeOut, Take, history
  <2> QED
    BY <2>1, <2>2, <2>3 DEF Promise!Fail
<1>4. ASSUME NEW c \in Callers, Leave(c) PROVE Promise!End(c)
  <2>1. phase[c] = "done" /\ phase' = [phase EXCEPT ![c] = "idle"]
    BY <1>4 DEF Leave, Phase, TypeOK
  <2> QED
    BY <1>4, <2>1 DEF Leave, Promise!End
<1>5. CASE ListenerStores
  <2>1. inHand \in Message
    BY <1>5 DEF ListenerStores, TypeOK
  <2>2. \A c \in Callers : phase[c] = "calling" <=> pc[c] \in InFlight
    BY DEF Phase, TypeOK, InFlight
  <2>3. phase' = phase
    BY <1>5 DEF ListenerStores, Phase, TypeOK
  <2>4. heard' = [c \in Callers |-> IF phase[c] = "calling"
                                    THEN heard[c] \union {inHand} ELSE heard[c]]
    BY <1>5, <2>2 DEF ListenerStores
  <2>5. Promise!Accept(inHand)
    BY <1>5, <2>3, <2>4 DEF ListenerStores, Promise!Accept
  <2> QED
    BY <2>1, <2>5 DEF Promise!Next
<1>6. ASSUME NEW c \in Callers, Send(c) \/ Await(c) PROVE UNCHANGED Promise!vars
  <2>1. phase' = phase
    BY <1>6 DEF Send, Await, Phase, TypeOK
  <2> QED
    BY <1>6, <2>1 DEF Send, Await, history, Promise!vars
<1>7. CASE \/ ListenerMatches \/ ListenerIgnores
           \/ \E s \in Slaves : SlaveAnswers(s) \/ CommandLost(s) \/ SlaveReports(s)
           \/ Break \/ ListenerFails \/ Reopen \/ ResetInput \/ Close
           \/ UNCHANGED vars
  <2>1. UNCHANGED <<pc, outcome, heard, used>>
    BY <1>7 DEF ListenerMatches, ListenerIgnores, SlaveAnswers, CommandLost,
          SlaveReports, Break, ListenerFails, Reopen, ResetInput, Close, vars,
          history
  <2> QED
    BY <2>1 DEF Promise!vars, Phase
<1> QED
  BY <1>1, <1>2, <1>3, <1>4, <1>5, <1>6, <1>7 DEF Next, CallerStep, Promise!Next

(* SerialManager keeps the promise of CommandService for any number of     *)
(* calling threads: a call ends with a line accepted during it that no     *)
(* other call was given, or with a failure.                                *)
THEOREM Implements == Spec => ImplementsCommandService
<1>1. Init => Promise!Init
  BY DEF Init, Promise!Init, Phase
<1> QED
  BY <1>1, StepImplements, OrderedInvariant, AnnouncedInvariant, PTL
  DEF Spec, ImplementsCommandService, Promise!Spec
================================================================================
