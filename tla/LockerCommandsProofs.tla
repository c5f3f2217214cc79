-------------------------- MODULE LockerCommandsProofs --------------------------
(***************************************************************************)
(* LockerCommands for any set of slots and any bounds: the type invariant, *)
(* one result for every accepted command, the contract with the backend,   *)
(* the state that is reported, and the commands the gateway sends itself.  *)
(***************************************************************************)
EXTENDS LockerCommands, FiniteSetTheorems, TLAPS

(* What the Arduino says and what waits in its buffer.                     *)
Said == {l \in [kind : {"reply", "event", "ALIVE"}, slot : Slots \union {None},
                ok : BOOLEAN, closed : BOOLEAN, of : Nat, n : Nat] :
           l.kind = "event" => l.slot \in Fitted}
Asked == [op : {"open", "close"}, slot : Slots, id : Nat]

(* TypeOK is not inductive: an event on its way must name a slot before    *)
(* the listener turns it into a close command, the command in work must    *)
(* have one before its state is written, and no line has a number that was *)
(* not given yet.                                                          *)
LinesTyped == /\ wire \in Seq(Said) /\ todo \in Seq(Asked)
              /\ listener # "idle" => ev \in Said /\ ev.kind = "event"
HandlerTyped == /\ cmd # None => cmd.slot \in Slots
                /\ paho = "updating" => published.hwState \in {"OPENING", "CLOSING"}
CountersTyped == spoken \in Nat /\ accepted \in Nat /\ answered \in Nat
NumbersTyped == /\ \A i \in 1..Len(wire) : wire[i].n <= spoken
                /\ listener # "idle" => ev.n <= spoken
Typed == TypeOK /\ LinesTyped /\ HandlerTyped /\ CountersTyped /\ NumbersTyped

LEMMA EmptySeq == ASSUME NEW S PROVE <<>> \in Seq(S)
OBVIOUS

LEMMA BooleanExcept ==
  ASSUME NEW S, NEW f \in [S -> BOOLEAN], NEW s \in S, NEW v \in BOOLEAN
  PROVE  [f EXCEPT ![s] = v] \in [S -> BOOLEAN]
OBVIOUS

LEMMA TailElements ==
  ASSUME NEW S, NEW w \in Seq(S), w # <<>>
  PROVE  /\ Tail(w) \in Seq(S) /\ Len(w) \in Nat \ {0} /\ Len(Tail(w)) = Len(w) - 1
         /\ Head(w) = w[1] /\ Head(w) \in S
         /\ \A i \in 1..(Len(w) - 1) : Tail(w)[i] = w[i + 1]
OBVIOUS

LEMMA AppendElements ==
  ASSUME NEW S, NEW w \in Seq(S), NEW e \in S
  PROVE  /\ Append(w, e) \in Seq(S) /\ Len(w) \in Nat /\ Len(Append(w, e)) = Len(w) + 1
         /\ Append(w, e)[Len(w) + 1] = e
         /\ \A i \in 1..Len(w) : Append(w, e)[i] = w[i]
OBVIOUS

(* The events are about slots the Arduino has.                             *)
LEMMA LineTyped ==
  ASSUME Typed, NEW kind \in {"reply", "event", "ALIVE"}, NEW slot \in Slots \union {None},
         kind = "event" => slot \in Fitted,
         NEW ok \in BOOLEAN, NEW closed \in BOOLEAN, NEW of \in Nat
  PROVE  /\ Line(kind, slot, ok, closed, of) \in Said
         /\ Line(kind, slot, ok, closed, of).n = spoken + 1
BY DEF Typed, CountersTyped, Line, Said

(* A line appended by Says keeps the wire typed.                           *)
LEMMA SaysTyped ==
  ASSUME Typed, NEW l \in Said, l.n = spoken + 1, Says(l), UNCHANGED <<listener, ev, told>>
  PROVE  /\ wire' \in Seq(Said) /\ spoken' \in Nat /\ NumbersTyped'
         /\ told' \in [Slots -> 0..spoken']
<1>1. wire' = Append(wire, l) /\ spoken' = spoken + 1 /\ spoken \in Nat /\ wire \in Seq(Said)
  BY DEF Says, Typed, LinesTyped, CountersTyped
<1>2. /\ wire' \in Seq(Said) /\ Len(wire) \in Nat /\ Len(wire') = Len(wire) + 1
      /\ wire'[Len(wire) + 1] = l /\ \A i \in 1..Len(wire) : wire'[i] = wire[i]
  BY <1>1, AppendElements
<1>3. ASSUME NEW i \in 1..Len(wire') PROVE wire'[i].n <= spoken'
  <2>1. CASE i = Len(wire) + 1
    BY <1>1, <1>2, <2>1
  <2>2. CASE i # Len(wire) + 1
    <3>1. i \in 1..Len(wire) /\ wire'[i] = wire[i] /\ wire[i] \in Said
      BY <1>1, <1>2, <2>2
    <3>2. wire[i].n <= spoken /\ wire[i].n \in Nat
      BY <3>1 DEF Typed, NumbersTyped, Said
    <3> QED
      BY <1>1, <3>1, <3>2
  <2> QED
    BY <2>1, <2>2
<1>4. listener' # "idle" => ev'.n <= spoken'
  <2>1. listener # "idle" => ev.n <= spoken /\ ev.n \in Nat
    BY DEF Typed, NumbersTyped, LinesTyped, Said
  <2> QED
    BY <1>1, <2>1
<1>5. told' \in [Slots -> 0..spoken']
  BY <1>1 DEF Typed, TypeOK
<1> QED
  BY <1>1, <1>2, <1>3, <1>4, <1>5 DEF NumbersTyped

(* The first line goes.                                                    *)
LEMMA TailTyped ==
  ASSUME Typed, wire # <<>>, wire' = Tail(wire), spoken' = spoken
  PROVE  /\ wire' \in Seq(Said) /\ Head(wire) \in Said /\ Head(wire).n <= spoken
         /\ \A i \in 1..Len(wire') : wire'[i].n <= spoken'
<1>1. /\ wire' \in Seq(Said) /\ Len(wire) \in Nat \ {0} /\ Len(wire') = Len(wire) - 1
      /\ Head(wire) = wire[1] /\ Head(wire) \in Said
      /\ \A i \in 1..(Len(wire) - 1) : wire'[i] = wire[i + 1]
  BY TailElements DEF Typed, LinesTyped
<1>2. \A i \in 1..Len(wire') : i + 1 \in 1..Len(wire) /\ wire'[i] = wire[i + 1]
  BY <1>1
<1>3. 1 \in 1..Len(wire)
  BY <1>1
<1> QED
  BY <1>1, <1>2, <1>3 DEF Typed, NumbersTyped

(* Type correctness of every step.                                         *)
LEMMA TypeStep == Typed /\ [Next]_vars => Typed'
<1> SUFFICES ASSUME Typed, [Next]_vars PROVE Typed'
  OBVIOUS
<1> USE NoneAssumption
<1>1. ASSUME NEW op \in {"open", "close"}, NEW s \in Slots \union {None},
             BackendSends(op, s)
      PROVE  Typed'
  <2>1. inbox' \in Seq(Command)
    BY <1>1 DEF BackendSends, Typed, TypeOK, Command
  <2> QED
    BY <1>1, <2>1 DEF BackendSends, Typed, TypeOK, LinesTyped, HandlerTyped,
         CountersTyped, NumbersTyped, cabinet, history, traces
<1>2. CASE ClearSetup
  BY <1>2 DEF ClearSetup, Typed, TypeOK, LinesTyped, HandlerTyped,
       CountersTyped, NumbersTyped, cabinet, history, traces
<1>3. CASE Reject
  BY <1>3 DEF Reject, Typed, TypeOK, LinesTyped, HandlerTyped,
       CountersTyped, NumbersTyped, cabinet, history, traces
<1>4. CASE Accept
  <2> DEFINE c == Head(inbox)
  <2>1. c \in Command /\ c.slot \in Slots /\ Tail(inbox) \in Seq(Command)
    <3>1. c \in Command /\ Tail(inbox) \in Seq(Command)
      BY <1>4 DEF Accept, Typed, TypeOK
    <3>2. c.slot # None
      BY <1>4 DEF Accept
    <3> QED
      BY <3>1, <3>2 DEF Command
  <2>2. hw' \in [Slots -> {"OPENING", "CLOSING"}]
    BY <1>4, <2>1 DEF Accept, Optimistic, Typed, TypeOK
  <2>3. [op |-> c.op, slot |-> c.slot, id |-> accepted + 1] \in Asked
    BY <2>1 DEF Asked, Command, Typed, CountersTyped
  <2>4. todo' \in Seq(Asked)
    BY <1>4, <2>3 DEF Accept, Typed, LinesTyped
  <2> QED
    BY <1>4, <2>1, <2>2, <2>4 DEF Accept, Typed, TypeOK, LinesTyped, HandlerTyped,
         CountersTyped, NumbersTyped, traces
<1>5. CASE CallReturns
  BY <1>5 DEF CallReturns, Typed, TypeOK, LinesTyped, HandlerTyped,
       CountersTyped, NumbersTyped, gateway, cabinet, history, traces
<1>6. CASE Publish
  <2>1. published'.hwState \in {"OPENING", "CLOSING"}
    BY <1>6 DEF Publish, StateAfter
  <2> QED
    BY <1>6, <2>1 DEF Publish, PublishResult, Typed, TypeOK, LinesTyped, HandlerTyped,
         CountersTyped, NumbersTyped, cabinet, traces
<1>7. CASE Update
  <2>1. cmd.slot \in Slots /\ published.hwState \in {"OPENING", "CLOSING"}
    BY <1>7 DEF Update, Typed, TypeOK, HandlerTyped
  <2>2. /\ hw' \in [Slots -> {"OPENING", "CLOSING"}]
        /\ guessed' \subseteq Slots /\ overtaken' \subseteq Slots
    BY <1>7, <2>1 DEF Update, Typed, TypeOK
  <2> QED
    BY <1>7, <2>2 DEF Update, Typed, TypeOK, LinesTyped, HandlerTyped,
         CountersTyped, NumbersTyped, cabinet
<1>8. CASE ListenerAccepts
  <2>1. /\ wire # <<>> /\ wire' = Tail(wire)
        /\ UNCHANGED <<gateway, todo, door, doorClosed, spoken, history>>
    BY <1>8 DEF ListenerAccepts
  <2>2. /\ wire' \in Seq(Said) /\ \A i \in 1..Len(wire') : wire'[i].n <= spoken'
    BY <2>1, TailTyped
  <2> QED
    BY <2>1, <2>2 DEF Typed, TypeOK, LinesTyped, HandlerTyped,
         CountersTyped, NumbersTyped, gateway, history, traces
<1>9. CASE ListenerTakesEvent
  <2>1. /\ wire # <<>> /\ wire' = Tail(wire) /\ Head(wire).kind = "event"
        /\ UNCHANGED <<inbox, paho, cmd, hw, configured, hearsClose, todo, door, doorClosed,
                       spoken, history>>
        /\ \/ listener' = "event" /\ ev' = Head(wire)
           \/ UNCHANGED <<listener, ev>>
    BY <1>9 DEF ListenerTakesEvent
  <2>2. /\ wire' \in Seq(Said) /\ Head(wire) \in Said /\ Head(wire).n <= spoken
        /\ \A i \in 1..Len(wire') : wire'[i].n <= spoken'
    BY <2>1, TailTyped
  <2> QED
    BY <2>1, <2>2 DEF Typed, TypeOK, LinesTyped, HandlerTyped,
         CountersTyped, NumbersTyped, history, traces
<1>10. CASE ListenerPublishes
  <2>1. ev \in Said /\ ev.slot \in Slots
    BY <1>10, BoundsAssumption DEF ListenerPublishes, Typed, LinesTyped, Said
  <2>2. [op |-> "close", slot |-> ev.slot] \in Command
    BY <2>1 DEF Command
  <2>3. inbox' \in Seq(Command)
    BY <1>10, <2>2 DEF ListenerPublishes, CloseCommand, Typed, TypeOK
  <2> QED
    BY <1>10, <2>3 DEF ListenerPublishes, Typed, TypeOK, LinesTyped, HandlerTyped,
         CountersTyped, NumbersTyped, cabinet, history, traces
<1>11. CASE ListenerUpdates
  <2>1. ev.slot \in Slots /\ ev.n \in 0..spoken
    BY <1>11, BoundsAssumption
    DEF ListenerUpdates, Typed, LinesTyped, NumbersTyped, CountersTyped, Said
  <2>2. told' \in [Slots -> 0..spoken]
    BY <1>11, <2>1 DEF ListenerUpdates, Typed, TypeOK
  <2>3. hw' \in [Slots -> {"OPENING", "CLOSING"}]
    BY <1>11 DEF ListenerUpdates, Typed, TypeOK
  <2>4. guessed' \subseteq Slots /\ overtaken' \subseteq Slots
    BY <1>11 DEF ListenerUpdates, Typed, TypeOK
  <2> QED
    BY <1>11, <2>2, <2>3, <2>4 DEF ListenerUpdates, Typed, TypeOK, LinesTyped, HandlerTyped,
         CountersTyped, NumbersTyped, cabinet
<1>12. CASE Execute
  <2> DEFINE c == Head(todo)
  <2>1. c \in Asked /\ Tail(todo) \in Seq(Asked)
    BY <1>12 DEF Execute, Typed, LinesTyped
  <2>2. c.slot \in Slots /\ c.id \in Nat
    BY <2>1 DEF Asked
  <2>3. PICK ok \in BOOLEAN, closed \in BOOLEAN : Says(Line("reply", c.slot, ok, closed, c.id))
    <3>1. (door[c.slot] = "closed") \in BOOLEAN
      OBVIOUS
    <3> QED
      BY <1>12, <3>1 DEF Execute
  <2>4. /\ wire' \in Seq(Said) /\ spoken' \in Nat /\ NumbersTyped'
        /\ told' \in [Slots -> 0..spoken']
    <3>1. UNCHANGED <<listener, ev, told>>
      BY <1>12 DEF Execute, gateway, history, traces
    <3> QED
      BY <2>2, <2>3, <3>1, LineTyped, SaysTyped
  <2> QED
    BY <1>12, <2>1, <2>4 DEF Execute, Typed, TypeOK, LinesTyped, HandlerTyped,
         CountersTyped, gateway, history, traces
<1>13. CASE ReportAlive
  <2>1. /\ wire' \in Seq(Said) /\ spoken' \in Nat /\ NumbersTyped'
        /\ told' \in [Slots -> 0..spoken']
    <3>1. UNCHANGED <<listener, ev, told>>
      BY <1>13 DEF ReportAlive, gateway, history, traces
    <3> QED
      BY <1>13, <3>1, LineTyped, SaysTyped DEF ReportAlive
  <2> QED
    BY <1>13, <2>1 DEF ReportAlive, Typed, TypeOK, LinesTyped, HandlerTyped,
         CountersTyped, gateway, history, traces
<1>14. CASE LoseCommand
  <2>1. Tail(todo) \in Seq(Asked)
    BY <1>14 DEF LoseCommand, Typed, LinesTyped
  <2> QED
    BY <1>14, <2>1 DEF LoseCommand, Typed, TypeOK, LinesTyped, HandlerTyped,
         CountersTyped, NumbersTyped, gateway, history, traces
<1>15. CASE LoseLine
  <2>1. /\ wire' \in Seq(Said) /\ Head(wire) \in Said
        /\ \A i \in 1..Len(wire') : wire'[i].n <= spoken'
    BY <1>15, TailTyped DEF LoseLine
  <2>2. missed' \subseteq Fitted
    BY <1>15, <2>1 DEF LoseLine, Said, Typed, TypeOK
  <2> QED
    BY <1>15, <2>1, <2>2 DEF LoseLine, Typed, TypeOK, LinesTyped, HandlerTyped,
         CountersTyped, NumbersTyped, gateway
<1>16. ASSUME NEW s \in Fitted, DoorOpens(s) \/ UserShuts(s) PROVE Typed'
  <2>1. /\ door' \in [Fitted -> {"open", "closed"}] /\ missed' \subseteq Fitted
        /\ UNCHANGED <<gateway, todo, wire, doorClosed, spoken, accepted, answered,
                       published, guessed, told, overtaken>>
    BY <1>16 DEF DoorOpens, UserShuts, Moves, Typed, TypeOK
  <2> QED
    BY <2>1 DEF Typed, TypeOK, LinesTyped, HandlerTyped, CountersTyped, NumbersTyped, gateway
<1>17. ASSUME NEW s \in Fitted, ReportDoor(s) PROVE Typed'
  <2>1. doorClosed' \in [Fitted -> BOOLEAN] /\ (~doorClosed[s]) \in BOOLEAN
    <3>1. doorClosed \in [Fitted -> BOOLEAN]
      BY DEF Typed, TypeOK
    <3>2. (~doorClosed[s]) \in BOOLEAN
      OBVIOUS
    <3>3. doorClosed' = [doorClosed EXCEPT ![s] = ~doorClosed[s]]
      BY <1>17 DEF ReportDoor
    <3>4. doorClosed' \in [Fitted -> BOOLEAN]
      BY <3>1, <3>2, <3>3, BooleanExcept
    <3> QED
      BY <3>2, <3>4
  <2>2. /\ wire' \in Seq(Said) /\ spoken' \in Nat /\ NumbersTyped'
        /\ told' \in [Slots -> 0..spoken']
    <3>1. UNCHANGED <<listener, ev, told>> /\ Says(Line("event", s, TRUE, ~doorClosed[s], 0))
      BY <1>17 DEF ReportDoor, gateway, history, traces
    <3> QED
      BY <2>1, <3>1, BoundsAssumption, LineTyped, SaysTyped
  <2> QED
    BY <1>17, <2>1, <2>2 DEF ReportDoor, Typed, TypeOK, LinesTyped, HandlerTyped,
         CountersTyped, gateway, history, traces
<1>18. CASE UNCHANGED vars
  BY <1>18 DEF vars, gateway, cabinet, history, traces, Typed, TypeOK, LinesTyped,
       HandlerTyped, CountersTyped, NumbersTyped
<1> QED
  BY <1>1, <1>2, <1>3, <1>4, <1>5, <1>6, <1>7, <1>8, <1>9, <1>10, <1>11, <1>12, <1>13,
     <1>14, <1>15, <1>16, <1>17, <1>18 DEF Next

LEMMA TypedInvariant == Spec => []Typed
<1>1. Init => Typed
  <2> SUFFICES ASSUME Init PROVE Typed
    OBVIOUS
  <2>1. TypeOK
    BY EmptySeq DEF Init, TypeOK
  <2>2. LinesTyped /\ HandlerTyped /\ CountersTyped /\ NumbersTyped
    BY EmptySeq DEF Init, LinesTyped, HandlerTyped, CountersTyped, NumbersTyped
  <2> QED
    BY <2>1, <2>2 DEF Typed
<1> QED
  BY <1>1, TypeStep, PTL DEF Spec

(* The variables keep their types, whatever the slots and bounds.          *)
THEOREM TypeCorrect == Spec => []TypeOK
<1>1. Typed => TypeOK
  BY DEF Typed
<1> QED
  BY <1>1, TypedInvariant, PTL

--------------------------------------------------------------------------------
(* Results *)

(* The command in the serial call is the only one without a result.        *)
OnePending == accepted = (IF paho = "calling" THEN answered + 1 ELSE answered)

(* The two steps that count, and all the others.                           *)
LEMMA CountingSteps ==
  ASSUME Typed, [Next]_vars
  PROVE  \/ paho = "idle" /\ paho' = "calling" /\ accepted' = accepted + 1
              /\ answered' = answered
         \/ paho = "calling" /\ paho' = "updating" /\ answered' = answered + 1
              /\ accepted' = accepted
         \/ /\ UNCHANGED <<accepted, answered>>
            /\ paho' = "calling" <=> paho = "calling"
<1>1. CASE Accept
  BY <1>1 DEF Accept
<1>2. CASE Publish
  BY <1>2 DEF Publish, PublishResult
<1>3. CASE Update
  BY <1>3 DEF Update
<1>4. CASE \/ \E op \in {"open", "close"}, s \in Slots \union {None} : BackendSends(op, s)
           \/ ClearSetup \/ Reject \/ CallReturns
           \/ ListenerAccepts \/ ListenerTakesEvent \/ ListenerPublishes
           \/ ListenerUpdates \/ Execute \/ ReportAlive \/ LoseCommand \/ LoseLine
           \/ \E s \in Fitted : DoorOpens(s) \/ UserShuts(s) \/ ReportDoor(s)
           \/ UNCHANGED vars
  BY <1>4 DEF BackendSends, ClearSetup, Reject, CallReturns, ListenerAccepts,
       ListenerTakesEvent, ListenerPublishes, ListenerUpdates, Execute, ReportAlive,
       LoseCommand, LoseLine, DoorOpens, UserShuts, Moves, ReportDoor, vars, gateway, history
<1> QED
  BY <1>1, <1>2, <1>3, <1>4 DEF Next

LEMMA OnePendingInvariant == Spec => []OnePending
<1>1. Init => OnePending
  BY DEF Init, OnePending
<1>2. Typed /\ OnePending /\ [Next]_vars => OnePending'
  BY CountingSteps DEF OnePending, Typed, CountersTyped
<1> QED
  BY <1>1, <1>2, TypedInvariant, PTL DEF Spec

(* Every accepted command has had its result once all has settled, whether *)
(* the serial call ended with a reply, another line or a timeout.          *)
THEOREM Answered == Spec => []AllAnswered
<1>1. OnePending => AllAnswered
  BY DEF OnePending, AllAnswered, Settled
<1> QED
  BY <1>1, OnePendingInvariant, PTL

--------------------------------------------------------------------------------
(* Lines and commands on their way *)

IsEvent(l, s) == l.kind = "event" /\ l.slot = s

(* What the lines w tell of a slot from the n-th line on, and what the     *)
(* last of its events says.                                                *)
TellsSince(w, s, n) == \E i \in 1..Len(w) : IsEvent(w[i], s) /\ w[i].n >= n
LastTells(w, s, closed) ==
  \A i \in 1..Len(w) :
    (IsEvent(w[i], s) /\ \A j \in (i + 1)..Len(w) : ~IsEvent(w[j], s)) => w[i].closed = closed

(* Some command in q is for the slot.                                      *)
Commands(q, s) == \E i \in 1..Len(q) : q[i].slot = s

(* The first line goes.                                                    *)
LEMMA FirstLineGoes ==
  ASSUME NEW w \in Seq(Said), w # <<>>, NEW s, NEW n \in Nat, NEW closed
  PROVE  /\ LastTells(w, s, closed) => LastTells(Tail(w), s, closed)
         /\ TellsSince(w, s, n) => TellsSince(Tail(w), s, n)
                                    \/ (IsEvent(Head(w), s) /\ Head(w).n >= n)
         /\ TellsSince(Tail(w), s, n) => TellsSince(w, s, n)
         /\ IsEvent(Head(w), s) /\ ~TellsSince(Tail(w), s, 0) /\ LastTells(w, s, closed)
              => Head(w).closed = closed
<1> DEFINE t == Tail(w)
<1>1. /\ Len(w) \in Nat \ {0} /\ Len(t) = Len(w) - 1 /\ Head(w) = w[1]
      /\ \A i \in 1..(Len(w) - 1) : t[i] = w[i + 1]
      /\ \A i \in 1..Len(w) : w[i] \in Said
  BY TailElements
<1> HIDE DEF t
<1>2. /\ \A i \in 1..Len(w) : i = 1 \/ (i - 1 \in 1..Len(t) /\ t[i - 1] = w[i])
      /\ \A i \in 1..Len(t) : i + 1 \in 1..Len(w) /\ t[i] = w[i + 1]
  BY <1>1
<1>3. ASSUME LastTells(w, s, closed) PROVE LastTells(t, s, closed)
  <2> SUFFICES ASSUME NEW i \in 1..Len(t), IsEvent(t[i], s),
                      \A j \in (i + 1)..Len(t) : ~IsEvent(t[j], s)
               PROVE  t[i].closed = closed
    BY DEF LastTells
  <2>1. i + 1 \in 1..Len(w) /\ t[i] = w[i + 1]
    BY <1>1
  <2>2. ASSUME NEW j \in (i + 2)..Len(w) PROVE ~IsEvent(w[j], s)
    <3>1. j - 1 \in (i + 1)..Len(t) /\ t[j - 1] = w[j]
      BY <1>1, <2>1
    <3> QED
      BY <3>1
  <2>3. (i + 1) + 1 = i + 2
    BY <2>1
  <2> QED
    BY <1>3, <2>1, <2>2, <2>3 DEF LastTells
<1>4. TellsSince(w, s, n) => TellsSince(t, s, n) \/ (IsEvent(w[1], s) /\ w[1].n >= n)
  BY <1>2 DEF TellsSince
<1>5. TellsSince(t, s, n) => TellsSince(w, s, n)
  BY <1>2 DEF TellsSince
<1>6. ASSUME IsEvent(w[1], s), ~TellsSince(t, s, 0), LastTells(w, s, closed)
      PROVE  w[1].closed = closed
  <2>1. ASSUME NEW j \in 2..Len(w) PROVE ~IsEvent(w[j], s)
    <3>1. j \in 1..Len(w) /\ j # 1
      BY <1>1
    <3>2. j - 1 \in 1..Len(t) /\ t[j - 1] = w[j] /\ w[j] \in Said
      BY <1>1, <1>2, <3>1
    <3>3. w[j].n >= 0
      BY <3>2 DEF Said
    <3> QED
      BY <1>6, <3>2, <3>3 DEF TellsSince
  <2>2. 1 \in 1..Len(w) /\ 1 + 1 = 2
    BY <1>1
  <2> QED
    BY <1>6, <2>1, <2>2 DEF LastTells
<1> QED
  BY <1>1, <1>3, <1>4, <1>5, <1>6 DEF t

(* A line is added.                                                        *)
LEMMA LineAdded ==
  ASSUME NEW w \in Seq(Said), NEW l \in Said, NEW s, NEW n \in Nat, NEW closed
  PROVE  /\ TellsSince(w, s, n) => TellsSince(Append(w, l), s, n)
         /\ IsEvent(l, s) /\ l.n >= n => TellsSince(Append(w, l), s, n)
         /\ ~IsEvent(l, s) /\ LastTells(w, s, closed) => LastTells(Append(w, l), s, closed)
         /\ IsEvent(l, s) /\ l.closed = closed => LastTells(Append(w, l), s, closed)
<1> DEFINE t == Append(w, l)
<1>1. /\ Len(w) \in Nat /\ Len(t) = Len(w) + 1 /\ t[Len(w) + 1] = l
      /\ \A i \in 1..Len(w) : t[i] = w[i]
  BY AppendElements
<1> HIDE DEF t
<1>2. /\ TellsSince(w, s, n) => TellsSince(t, s, n)
      /\ IsEvent(l, s) /\ l.n >= n => TellsSince(t, s, n)
  BY <1>1 DEF TellsSince
<1>3. ASSUME ~IsEvent(l, s), LastTells(w, s, closed) PROVE LastTells(t, s, closed)
  <2> SUFFICES ASSUME NEW i \in 1..Len(t), IsEvent(t[i], s),
                      \A j \in (i + 1)..Len(t) : ~IsEvent(t[j], s)
               PROVE  t[i].closed = closed
    BY DEF LastTells
  <2>1. i \in 1..Len(w) /\ t[i] = w[i]
    BY <1>1, <1>3
  <2>2. \A j \in (i + 1)..Len(w) : ~IsEvent(w[j], s)
    BY <1>1, <2>1
  <2> QED
    BY <1>3, <2>1, <2>2 DEF LastTells
<1>4. ASSUME IsEvent(l, s), l.closed = closed PROVE LastTells(t, s, closed)
  <2> SUFFICES ASSUME NEW i \in 1..Len(t),
                      \A j \in (i + 1)..Len(t) : ~IsEvent(t[j], s)
               PROVE  t[i].closed = closed
    BY DEF LastTells
  <2>1. ~(Len(w) + 1 \in (i + 1)..Len(t))
    BY <1>1, <1>4
  <2>2. i = Len(w) + 1
    BY <1>1, <2>1
  <2> QED
    BY <1>1, <1>4, <2>2
<1> QED
  BY <1>2, <1>3, <1>4 DEF t

(* Commands are added at the end and taken from the front.                 *)
LEMMA CommandAdded ==
  ASSUME NEW S, NEW q \in Seq(S), NEW c \in S, NEW s
  PROVE  /\ Commands(q, s) => Commands(Append(q, c), s)
         /\ c.slot = s => Commands(Append(q, c), s)
<1> DEFINE t == Append(q, c)
<1>1. /\ Len(q) \in Nat /\ Len(t) = Len(q) + 1 /\ t[Len(q) + 1] = c
      /\ \A i \in 1..Len(q) : t[i] = q[i]
  BY AppendElements
<1> HIDE DEF t
<1>2. Commands(q, s) => Commands(t, s)
  BY <1>1 DEF Commands
<1>3. c.slot = s => Commands(t, s)
  BY <1>1 DEF Commands
<1> QED
  BY <1>2, <1>3 DEF t

LEMMA FirstCommandGoes ==
  ASSUME NEW S, NEW q \in Seq(S), q # <<>>, NEW s
  PROVE  Commands(q, s) => Commands(Tail(q), s) \/ Head(q).slot = s
<1> DEFINE t == Tail(q)
<1>1. /\ Len(q) \in Nat \ {0} /\ Len(t) = Len(q) - 1 /\ Head(q) = q[1]
      /\ \A i \in 1..(Len(q) - 1) : t[i] = q[i + 1]
  BY TailElements
<1> HIDE DEF t
<1>2. \A i \in 1..Len(q) : i = 1 \/ (i - 1 \in 1..Len(t) /\ t[i - 1] = q[i])
  BY <1>1
<1>3. Commands(q, s) => Commands(t, s) \/ q[1].slot = s
  BY <1>2 DEF Commands
<1> QED
  BY <1>1, <1>3 DEF t

(* What the Arduino says of a command, of a door and of itself.            *)
LEMMA ExecuteSays ==
  ASSUME Typed, Execute
  PROVE  /\ todo # <<>> /\ Head(todo) \in Asked /\ todo' = Tail(todo)
         /\ UNCHANGED <<gateway, serial, door, doorClosed, opened, sent, history>>
         /\ \E l \in Said :
              /\ wire' = Append(wire, l) /\ spoken' = spoken + 1 /\ l.n = spoken + 1
              /\ l.kind = "reply" /\ l.slot = Head(todo).slot /\ l.of = Head(todo).id
              /\ l.slot \in Fitted => l.ok /\ l.closed = (door[l.slot] = "closed")
<1> DEFINE c == Head(todo)
<1>1. c \in Asked /\ c.slot \in Slots /\ c.id \in Nat
  <2>1. c \in Asked
    BY TailElements DEF Execute, Typed, LinesTyped
  <2> QED
    BY <2>1 DEF Asked
<1> HIDE DEF c
<1>2. CASE c.slot \in Fitted
  <2> DEFINE l == Line("reply", c.slot, TRUE, door[c.slot] = "closed", c.id)
  <2>1. l \in Said /\ l.n = spoken + 1
    BY <1>1, LineTyped
  <2>2. Says(l)
    BY <1>2 DEF Execute, c
  <2>3. l.kind = "reply" /\ l.slot = c.slot /\ l.of = c.id /\ l.ok
        /\ l.closed = (door[l.slot] = "closed")
    BY DEF Line
  <2> HIDE DEF l
  <2> QED
    BY <1>1, <2>1, <2>2, <2>3 DEF Execute, Says, c
<1>3. CASE c.slot \notin Fitted
  <2> DEFINE l == Line("reply", c.slot, FALSE, FALSE, c.id)
  <2>1. l \in Said /\ l.n = spoken + 1
    BY <1>1, LineTyped
  <2>2. Says(l)
    BY <1>3 DEF Execute, c
  <2>3. l.kind = "reply" /\ l.slot = c.slot /\ l.of = c.id
    BY DEF Line
  <2> HIDE DEF l
  <2> QED
    BY <1>1, <1>3, <2>1, <2>2, <2>3 DEF Execute, Says, c
<1> QED
  BY <1>2, <1>3

LEMMA ReportSays ==
  ASSUME Typed, NEW s \in Fitted, ReportDoor(s)
  PROVE  /\ ~Noticed(s) /\ doorClosed' = [doorClosed EXCEPT ![s] = ~doorClosed[s]]
         /\ UNCHANGED <<gateway, serial, todo, door, opened, sent, history>>
         /\ \E l \in Said :
              /\ wire' = Append(wire, l) /\ spoken' = spoken + 1 /\ l.n = spoken + 1
              /\ l.kind = "event" /\ l.slot = s /\ l.closed = ~doorClosed[s]
              /\ l.ok /\ l.of = 0
<1> DEFINE l == Line("event", s, TRUE, ~doorClosed[s], 0)
<1>1. l \in Said /\ l.n = spoken + 1
  <2>1. (~doorClosed[s]) \in BOOLEAN /\ s \in Slots
    BY BoundsAssumption
  <2> QED
    BY <2>1, LineTyped
<1>2. Says(l)
  BY DEF ReportDoor
<1>3. l.kind = "event" /\ l.slot = s /\ l.closed = ~doorClosed[s] /\ l.ok /\ l.of = 0
  BY DEF Line
<1> HIDE DEF l
<1> QED
  BY <1>1, <1>2, <1>3 DEF ReportDoor, Says

LEMMA AliveSays ==
  ASSUME Typed, ReportAlive
  PROVE  /\ UNCHANGED <<gateway, serial, todo, door, doorClosed, opened, sent, history>>
         /\ \E l \in Said :
              /\ wire' = Append(wire, l) /\ spoken' = spoken + 1 /\ l.n = spoken + 1
              /\ l.kind = "ALIVE" /\ l.slot = None /\ l.of = 0
<1> DEFINE l == Line("ALIVE", None, TRUE, TRUE, 0)
<1>1. l \in Said /\ l.n = spoken + 1
  BY LineTyped
<1>2. Says(l)
  BY DEF ReportAlive
<1>3. l.kind = "ALIVE" /\ l.slot = None /\ l.of = 0
  BY DEF Line
<1> HIDE DEF l
<1> QED
  BY <1>1, <1>2, <1>3 DEF ReportAlive, Says

--------------------------------------------------------------------------------
(* The serial call and its lines *)

(* A call that is done ended with a line it heard or timed out.            *)
CallTyped ==
  /\ phase \in [{Paho} -> {"idle", "calling", "done"}]
  /\ heard \in [{Paho} -> SUBSET Said]
  /\ DOMAIN result = {Paho}
  /\ phase[Paho] = "done" => result[Paho] \in heard[Paho] \union {TimedOut}
  /\ paho = "updating" => /\ phase[Paho] = "done"
                          /\ published.hwState = StateAfter(cmd.op, result[Paho])

(* The lines on their way and those the call has heard.                    *)
Lines == {wire[i] : i \in 1..Len(wire)} \union heard[Paho]

LEMMA CallStep == Typed /\ CallTyped /\ [Next]_vars => CallTyped'
<1> SUFFICES ASSUME Typed, CallTyped, [Next]_vars PROVE CallTyped'
  OBVIOUS
<1>1. CASE Accept
  <2>1. /\ phase' = [phase EXCEPT ![Paho] = "calling"] /\ UNCHANGED <<result, heard>>
        /\ paho' = "calling"
    BY <1>1 DEF Accept, Serial!Begin
  <2> QED
    BY <2>1 DEF CallTyped
<1>2. CASE CallReturns
  <2>1. /\ phase' = [phase EXCEPT ![Paho] = "done"] /\ UNCHANGED <<heard, paho>>
        /\ paho = "calling"
    BY <1>2 DEF CallReturns, Serial!Succeed, Serial!Fail, gateway
  <2>2. PICK r \in heard[Paho] \union {TimedOut} : result' = [result EXCEPT ![Paho] = r]
    BY <1>2 DEF CallReturns, Serial!Succeed, Serial!Fail
  <2> QED
    BY <2>1, <2>2 DEF CallTyped
<1>3. CASE Publish
  <2>1. /\ phase[Paho] = "done" /\ UNCHANGED <<phase, result, heard, cmd>>
        /\ published'.hwState = StateAfter(cmd.op, result[Paho])
    BY <1>3 DEF Publish, serial
  <2> QED
    BY <2>1 DEF CallTyped, StateAfter, Success
<1>4. CASE Update
  <2>1. /\ phase' = [phase EXCEPT ![Paho] = "idle"] /\ result' = [result EXCEPT ![Paho] = None]
        /\ heard' = [heard EXCEPT ![Paho] = {}] /\ paho' = "idle"
    BY <1>4 DEF Update, Serial!End
  <2> QED
    BY <2>1 DEF CallTyped
<1>5. CASE ListenerAccepts
  <2>1. Head(wire) \in Said
    BY <1>5, TailElements DEF ListenerAccepts, Typed, LinesTyped
  <2>2. /\ heard' = [c \in {Paho} |-> IF phase[c] = "calling" THEN heard[c] \union {Head(wire)}
                                      ELSE heard[c]]
        /\ UNCHANGED <<phase, result, paho, cmd, published>>
    BY <1>5 DEF ListenerAccepts, Serial!Accept, gateway, history
  <2>3. heard' \in [{Paho} -> SUBSET Said] /\ heard[Paho] \subseteq heard'[Paho]
    BY <2>1, <2>2 DEF CallTyped
  <2> QED
    BY <2>2, <2>3 DEF CallTyped, StateAfter, Success, TimedOut
<1>6. CASE \/ \E op \in {"open", "close"}, s \in Slots \union {None} : BackendSends(op, s)
           \/ ClearSetup \/ Reject \/ ListenerTakesEvent \/ ListenerPublishes
           \/ ListenerUpdates \/ Execute \/ ReportAlive \/ LoseCommand \/ LoseLine
           \/ \E s \in Fitted : DoorOpens(s) \/ UserShuts(s) \/ ReportDoor(s)
           \/ UNCHANGED vars
  <2>1. UNCHANGED <<phase, heard, result, paho, cmd, published>>
    BY <1>6 DEF BackendSends, ClearSetup, Reject, ListenerTakesEvent, ListenerPublishes,
         ListenerUpdates, Execute, ReportAlive, LoseCommand, LoseLine, DoorOpens, UserShuts,
         Moves, ReportDoor, vars, gateway, history, serial
  <2> QED
    BY <2>1 DEF CallTyped, StateAfter, Success, TimedOut
<1> QED
  BY <1>1, <1>2, <1>3, <1>4, <1>5, <1>6 DEF Next

(* Only the Arduino makes lines.                                           *)
LEMMA LineSaid ==
  ASSUME Typed, NEW l \in Said, wire' = Append(wire, l), UNCHANGED heard
  PROVE  Lines' \subseteq Lines \union {l}
<1>1. /\ Len(wire) \in Nat /\ Len(wire') = Len(wire) + 1 /\ wire'[Len(wire) + 1] = l
      /\ \A i \in 1..Len(wire) : wire'[i] = wire[i]
  BY AppendElements DEF Typed, LinesTyped
<1>2. \A i \in 1..Len(wire') : i \in 1..Len(wire) \/ i = Len(wire) + 1
  BY <1>1
<1> QED
  BY <1>1, <1>2 DEF Lines

LEMMA LinesStep ==
  ASSUME Typed, CallTyped, [Next]_vars,
         ~Execute, ~ReportAlive, \A s \in Fitted : ~ReportDoor(s)
  PROVE  Lines' \subseteq Lines
<1>1. ASSUME wire # <<>>, wire' = Tail(wire),
             heard'[Paho] \subseteq heard[Paho] \union {Head(wire)}
      PROVE  Lines' \subseteq Lines
  <2>1. /\ Len(wire) \in Nat \ {0} /\ Len(wire') = Len(wire) - 1 /\ Head(wire) = wire[1]
        /\ \A i \in 1..(Len(wire) - 1) : wire'[i] = wire[i + 1]
    BY <1>1, TailElements DEF Typed, LinesTyped
  <2>2. \A i \in 1..Len(wire') : i + 1 \in 1..Len(wire) /\ wire'[i] = wire[i + 1]
    BY <2>1
  <2>3. Head(wire) \in {wire[i] : i \in 1..Len(wire)}
    BY <2>1
  <2> QED
    BY <1>1, <2>2, <2>3 DEF Lines
<1>2. CASE ListenerAccepts
  <2>1. heard'[Paho] \subseteq heard[Paho] \union {Head(wire)}
    BY <1>2 DEF ListenerAccepts, Serial!Accept
  <2> QED
    BY <1>1, <1>2, <2>1 DEF ListenerAccepts
<1>3. CASE ListenerTakesEvent \/ LoseLine
  BY <1>1, <1>3 DEF ListenerTakesEvent, LoseLine, serial
<1>4. CASE Update
  <2>1. heard'[Paho] = {} /\ wire' = wire
    BY <1>4 DEF Update, Serial!End, cabinet, CallTyped
  <2> QED
    BY <2>1 DEF Lines
<1>5. CASE \/ \E op \in {"open", "close"}, s \in Slots \union {None} : BackendSends(op, s)
           \/ ClearSetup \/ Reject \/ Accept \/ CallReturns \/ Publish
           \/ ListenerPublishes \/ ListenerUpdates \/ LoseCommand
           \/ \E s \in Fitted : DoorOpens(s) \/ UserShuts(s)
           \/ UNCHANGED vars
  <2>1. UNCHANGED <<wire, heard>>
    BY <1>5 DEF BackendSends, ClearSetup, Reject, Accept, Serial!Begin, CallReturns,
         Serial!Succeed, Serial!Fail, Publish, ListenerPublishes, ListenerUpdates,
         LoseCommand, DoorOpens, UserShuts, Moves, vars, serial, cabinet
  <2> QED
    BY <2>1 DEF Lines
<1> QED
  BY <1>2, <1>3, <1>4, <1>5 DEF Next

(* Replies carry the numbers of accepted commands, and the commands in the *)
(* buffer are in the order in which they were accepted.                    *)
LinesOK == \A l \in Lines : /\ l.of \in 0..accepted /\ l.n <= spoken
                            /\ l.slot \in Fitted => l.ok
AskedOK == /\ \A i \in 1..Len(todo) : todo[i].id \in 1..accepted
           /\ \A i, j \in 1..Len(todo) : i < j => todo[i].id < todo[j].id
Numbered == LinesOK /\ AskedOK /\ (paho # "idle" => accepted > 0)

LEMMA CommandTaken ==
  ASSUME Typed, AskedOK, todo # <<>>
  PROVE  /\ Head(todo).id \in 1..accepted
         /\ Head(todo).id = accepted => Tail(todo) = <<>>
         /\ todo' = Tail(todo) /\ accepted' = accepted => AskedOK'
<1> DEFINE t == Tail(todo)
<1>1. /\ Len(todo) \in Nat \ {0} /\ Len(t) = Len(todo) - 1 /\ Head(todo) = todo[1]
      /\ \A i \in 1..(Len(todo) - 1) : t[i] = todo[i + 1]
      /\ t \in Seq(Asked) /\ accepted \in Nat
  BY TailElements DEF Typed, LinesTyped, CountersTyped
<1> HIDE DEF t
<1>2. Head(todo).id \in 1..accepted
  BY <1>1 DEF AskedOK
<1>3. ASSUME Head(todo).id = accepted PROVE t = <<>>
  <2>1. ASSUME Len(t) > 0 PROVE FALSE
    <3>1. 1 \in 1..Len(todo) /\ 2 \in 1..Len(todo)
      BY <1>1, <2>1
    <3>2. todo[1].id < todo[2].id /\ todo[2].id \in 1..accepted
      BY <3>1 DEF AskedOK
    <3> QED
      BY <1>1, <1>3, <3>2
  <2> QED
    BY <1>1, <2>1
<1>4. ASSUME todo' = t, accepted' = accepted PROVE AskedOK'
  <2>1. \A i \in 1..Len(t) : i + 1 \in 1..Len(todo) /\ t[i] = todo[i + 1]
    BY <1>1
  <2>2. \A i \in 1..Len(t) : t[i].id \in 1..accepted
    BY <2>1 DEF AskedOK
  <2>3. ASSUME NEW i \in 1..Len(t), NEW j \in 1..Len(t), i < j PROVE t[i].id < t[j].id
    <3>1. i + 1 < j + 1 /\ i + 1 \in 1..Len(todo) /\ j + 1 \in 1..Len(todo)
      BY <1>1, <2>1, <2>3
    <3>2. todo[i + 1].id < todo[j + 1].id
      BY <3>1 DEF AskedOK
    <3> QED
      BY <2>1, <3>2
  <2> QED
    BY <1>4, <2>2, <2>3 DEF AskedOK
<1> QED
  BY <1>2, <1>3, <1>4 DEF t

LEMMA CommandPut ==
  ASSUME Typed, AskedOK, NEW c \in Asked, c.id = accepted + 1,
         todo' = Append(todo, c), accepted' = accepted + 1
  PROVE  /\ AskedOK'
         /\ \A i \in 1..Len(todo') : todo'[i].id = accepted' => todo'[i] = c
<1>1. /\ Len(todo) \in Nat /\ Len(todo') = Len(todo) + 1 /\ todo'[Len(todo) + 1] = c
      /\ \A i \in 1..Len(todo) : todo'[i] = todo[i]
      /\ accepted \in Nat
  BY AppendElements DEF Typed, LinesTyped, CountersTyped
<1>2. \A i \in 1..Len(todo') : i \in 1..Len(todo) \/ i = Len(todo) + 1
  BY <1>1
<1>3. \A i \in 1..Len(todo) : todo'[i].id \in 1..accepted
  BY <1>1 DEF AskedOK
<1>4. \A i \in 1..Len(todo') : todo'[i].id \in 1..accepted'
  BY <1>1, <1>2, <1>3
<1>5. ASSUME NEW i \in 1..Len(todo'), NEW j \in 1..Len(todo'), i < j
      PROVE  todo'[i].id < todo'[j].id
  <2>1. i \in 1..Len(todo)
    BY <1>1, <1>5
  <2>2. CASE j \in 1..Len(todo)
    BY <1>1, <1>5, <2>1, <2>2 DEF AskedOK
  <2>3. CASE j = Len(todo) + 1
    BY <1>1, <1>3, <2>1, <2>3
  <2> QED
    BY <1>2, <2>2, <2>3
<1> QED
  BY <1>1, <1>2, <1>3, <1>4, <1>5 DEF AskedOK

LEMMA NumberedStep == Typed /\ CallTyped /\ Numbered /\ [Next]_vars => Numbered'
<1> SUFFICES ASSUME Typed, CallTyped, Numbered, [Next]_vars PROVE Numbered'
  OBVIOUS
<1> USE DEF Numbered
<1>0. /\ accepted \in Nat /\ spoken \in Nat
      /\ \A l \in Lines : l \in Said /\ l.n \in Nat
  <2>1. \A l \in Lines : l \in Said
    BY DEF Lines, CallTyped, Typed, LinesTyped
  <2> QED
    BY <2>1 DEF Typed, CountersTyped, Said
<1>1. CASE Accept
  <2> DEFINE c == [op |-> Head(inbox).op, slot |-> Head(inbox).slot, id |-> accepted + 1]
  <2>1. c \in Asked
    <3>1. Head(inbox) \in Command /\ Head(inbox).slot # None
      BY <1>1 DEF Accept, Typed, TypeOK
    <3> QED
      BY <1>0, <3>1 DEF Command, Asked
  <2>2. todo' = Append(todo, c) /\ accepted' = accepted + 1 /\ c.id = accepted + 1
    BY <1>1 DEF Accept
  <2> HIDE DEF c
  <2>3. AskedOK'
    BY <2>1, <2>2, CommandPut
  <2>4. Lines' = Lines
    BY <1>1 DEF Accept, Serial!Begin, Lines
  <2> QED
    BY <1>0, <1>1, <2>2, <2>3, <2>4 DEF LinesOK, Accept
<1>2. CASE Execute
  <2>1. /\ todo # <<>> /\ todo' = Tail(todo)
        /\ UNCHANGED <<gateway, serial, door, doorClosed, opened, sent, history>>
    BY <1>2, ExecuteSays
  <2>2. PICK l \in Said : /\ wire' = Append(wire, l) /\ l.of = Head(todo).id
                          /\ l.slot \in Fitted => l.ok
                          /\ l.n = spoken + 1 /\ spoken' = spoken + 1
    BY <1>2, ExecuteSays
  <2>3. UNCHANGED <<heard, accepted, paho>>
    BY <2>1 DEF gateway, serial, history
  <2>4. Lines' \subseteq Lines \union {l}
    BY <2>2, <2>3, LineSaid
  <2>5. Head(todo).id \in 1..accepted /\ AskedOK'
    BY <2>1, <2>3, CommandTaken
  <2> QED
    BY <1>0, <2>2, <2>3, <2>4, <2>5 DEF LinesOK
<1>3. CASE ReportAlive \/ \E s \in Fitted : ReportDoor(s)
  <2>1. PICK l \in Said : /\ wire' = Append(wire, l) /\ l.of = 0
                          /\ l.slot \in Fitted => l.ok
                          /\ l.n = spoken + 1 /\ spoken' = spoken + 1
    <3>1. None \notin Fitted
      BY NoneAssumption, BoundsAssumption
    <3> QED
      BY <1>3, <3>1, AliveSays, ReportSays
  <2>2. UNCHANGED <<heard, accepted, todo, paho>>
    BY <1>3, AliveSays, ReportSays DEF gateway, serial, history
  <2>3. Lines' \subseteq Lines \union {l}
    BY <2>1, <2>2, LineSaid
  <2> QED
    BY <1>0, <2>1, <2>2, <2>3 DEF LinesOK, AskedOK
<1>4. CASE ~Accept /\ ~Execute /\ ~(ReportAlive \/ \E s \in Fitted : ReportDoor(s))
  <2>1. Lines' \subseteq Lines
    BY <1>4, LinesStep
  <2>2. UNCHANGED <<accepted, spoken>> /\ (paho' # "idle" => paho # "idle")
    BY <1>4 DEF Next, BackendSends, ClearSetup, Reject, CallReturns, Publish, Update,
         ListenerAccepts, ListenerTakesEvent, ListenerPublishes, ListenerUpdates,
         LoseCommand, LoseLine, DoorOpens, UserShuts, Moves, vars, gateway, cabinet, history
  <2>3. AskedOK'
    <3>1. CASE LoseCommand
      BY <2>2, <3>1, CommandTaken DEF LoseCommand
    <3>2. CASE ~LoseCommand
      <4>1. todo' = todo
        BY <1>4, <3>2 DEF Next, BackendSends, ClearSetup, Reject, CallReturns, Publish,
             Update, ListenerAccepts, ListenerTakesEvent, ListenerPublishes,
             ListenerUpdates, LoseLine, DoorOpens, UserShuts, Moves, vars, cabinet
      <4> QED
        BY <2>2, <4>1 DEF AskedOK
    <3> QED
      BY <3>1, <3>2
  <2> QED
    BY <2>1, <2>2, <2>3 DEF LinesOK
<1> QED
  BY <1>1, <1>2, <1>3, <1>4

--------------------------------------------------------------------------------
(* Door events *)

(* Lines are handled in the order in which they were said.                 *)
Ordered ==
  /\ \A i \in 1..Len(wire), s \in Slots : told[s] < wire[i].n
  /\ \A i, j \in 1..Len(wire) : i < j => wire[i].n < wire[j].n
  /\ listener # "idle" => /\ \A s \in Slots : told[s] < ev.n
                          /\ \A i \in 1..Len(wire) : ev.n < wire[i].n

LEMMA OrderedStep == Typed /\ Ordered /\ [Next]_vars => Ordered'
<1> SUFFICES ASSUME Typed, Ordered, [Next]_vars PROVE Ordered'
  OBVIOUS
<1>1. /\ wire \in Seq(Said) /\ Len(wire) \in Nat /\ spoken \in Nat
      /\ \A i \in 1..Len(wire) : wire[i] \in Said /\ wire[i].n \in Nat /\ wire[i].n <= spoken
      /\ listener # "idle" => ev \in Said /\ ev.n \in Nat /\ ev.n <= spoken
      /\ \A s \in Slots : told[s] \in Nat /\ told[s] <= spoken
  <2>1. wire \in Seq(Said) /\ spoken \in Nat /\ told \in [Slots -> 0..spoken]
    BY DEF Typed, TypeOK, LinesTyped, CountersTyped
  <2>2. \A i \in 1..Len(wire) : wire[i] \in Said /\ wire[i].n \in Nat /\ wire[i].n <= spoken
    BY <2>1 DEF Typed, NumbersTyped, Said
  <2>3. listener # "idle" => ev \in Said /\ ev.n \in Nat /\ ev.n <= spoken
    BY DEF Typed, LinesTyped, NumbersTyped, Said
  <2> QED
    BY <2>1, <2>2, <2>3
<1>2. ASSUME NEW l \in Said, wire' = Append(wire, l), l.n = spoken + 1,
             UNCHANGED <<listener, ev, told>>
      PROVE  Ordered'
  <2>1. /\ Len(wire') = Len(wire) + 1 /\ wire'[Len(wire) + 1] = l
        /\ \A i \in 1..Len(wire) : wire'[i] = wire[i]
    BY <1>1, <1>2, AppendElements
  <2>2. \A i \in 1..Len(wire') : i \in 1..Len(wire) \/ i = Len(wire) + 1
    BY <1>1, <2>1
  <2>3. \A i \in 1..Len(wire'), s \in Slots : told[s] < wire'[i].n
    BY <1>1, <1>2, <2>1, <2>2 DEF Ordered
  <2>4. ASSUME NEW i \in 1..Len(wire'), NEW j \in 1..Len(wire'), i < j
        PROVE  wire'[i].n < wire'[j].n
    <3>1. i \in 1..Len(wire) /\ wire'[i] = wire[i]
      BY <1>1, <2>1, <2>4
    <3>2. CASE j \in 1..Len(wire)
      BY <2>1, <2>4, <3>1, <3>2 DEF Ordered
    <3>3. CASE j = Len(wire) + 1
      BY <1>1, <1>2, <2>1, <3>1, <3>3
    <3> QED
      BY <2>2, <3>2, <3>3
  <2>5. listener # "idle" => \A i \in 1..Len(wire') : ev.n < wire'[i].n
    BY <1>1, <1>2, <2>1, <2>2 DEF Ordered
  <2> QED
    BY <1>2, <2>3, <2>4, <2>5 DEF Ordered
<1>3. ASSUME wire # <<>>, wire' = Tail(wire)
      PROVE  /\ \A i \in 1..Len(wire'), s \in Slots : told[s] < wire'[i].n
             /\ \A i, j \in 1..Len(wire') : i < j => wire'[i].n < wire'[j].n
             /\ \A i \in 1..Len(wire') : \E j \in 1..Len(wire) : wire'[i] = wire[j]
             /\ \A i \in 1..Len(wire') : Head(wire).n < wire'[i].n
             /\ \A s \in Slots : told[s] < Head(wire).n
  <2>1. /\ Len(wire) \in Nat \ {0} /\ Len(wire') = Len(wire) - 1 /\ Head(wire) = wire[1]
        /\ \A i \in 1..(Len(wire) - 1) : wire'[i] = wire[i + 1]
    BY <1>1, <1>3, TailElements
  <2>2. /\ \A i \in 1..Len(wire') : i + 1 \in 1..Len(wire) /\ wire'[i] = wire[i + 1]
        /\ 1 \in 1..Len(wire)
    BY <2>1
  <2>3. ASSUME NEW i \in 1..Len(wire'), NEW j \in 1..Len(wire'), i < j
        PROVE  wire'[i].n < wire'[j].n
    <3>1. i + 1 \in 1..Len(wire) /\ j + 1 \in 1..Len(wire) /\ i + 1 < j + 1
      BY <2>1, <2>2, <2>3
    <3> QED
      BY <2>2, <3>1 DEF Ordered
  <2>4. ASSUME NEW i \in 1..Len(wire') PROVE wire[1].n < wire'[i].n
    <3>1. i + 1 \in 1..Len(wire) /\ 1 < i + 1
      BY <2>1, <2>2
    <3> QED
      BY <2>2, <3>1 DEF Ordered
  <2>5. \A i \in 1..Len(wire'), s \in Slots : told[s] < wire'[i].n
    BY <2>2 DEF Ordered
  <2>6. \A s \in Slots : told[s] < wire[1].n
    BY <2>2 DEF Ordered
  <2> QED
    BY <2>1, <2>2, <2>3, <2>4, <2>5, <2>6
<1>4. CASE Execute
  <2>1. UNCHANGED <<listener, ev, told>>
    BY <1>4, ExecuteSays DEF gateway, history, traces
  <2> QED
    BY <1>2, <1>4, <2>1, ExecuteSays
<1>5. CASE ReportAlive
  <2>1. UNCHANGED <<listener, ev, told>>
    BY <1>5, AliveSays DEF gateway, history, traces
  <2> QED
    BY <1>2, <1>5, <2>1, AliveSays
<1>6. ASSUME NEW s \in Fitted, ReportDoor(s) PROVE Ordered'
  <2>1. UNCHANGED <<listener, ev, told>>
    BY <1>6, ReportSays DEF gateway, history, traces
  <2> QED
    BY <1>2, <1>6, <2>1, ReportSays
<1>7. CASE ListenerAccepts \/ LoseLine
  <2>1. wire # <<>> /\ wire' = Tail(wire) /\ UNCHANGED <<listener, ev, told>>
    BY <1>7 DEF ListenerAccepts, LoseLine, gateway, history, traces
  <2> QED
    BY <1>3, <2>1 DEF Ordered
<1>8. CASE ListenerTakesEvent
  <2>1. /\ wire # <<>> /\ wire' = Tail(wire) /\ listener = "idle" /\ told' = told
        /\ (listener' = "event" /\ ev' = Head(wire)) \/ UNCHANGED <<listener, ev>>
    BY <1>8 DEF ListenerTakesEvent, history, traces
  <2> QED
    BY <1>3, <2>1 DEF Ordered
<1>9. CASE ListenerUpdates
  <2>1. /\ listener = "updating" /\ listener' = "idle" /\ wire' = wire
        /\ told' = [told EXCEPT ![ev.slot] = ev.n]
    BY <1>9 DEF ListenerUpdates, cabinet
  <2>2. \A s \in Slots : told'[s] \in {told[s], ev.n}
    BY <2>1 DEF Typed, TypeOK
  <2>3. \A i \in 1..Len(wire), s \in Slots : told'[s] < wire[i].n
    BY <2>1, <2>2 DEF Ordered
  <2> QED
    BY <2>1, <2>3 DEF Ordered
<1>10. CASE \/ \E op \in {"open", "close"}, t \in Slots \union {None} : BackendSends(op, t)
            \/ ClearSetup \/ Reject \/ Accept \/ CallReturns \/ Publish \/ Update
            \/ ListenerPublishes \/ LoseCommand
            \/ \E t \in Fitted : DoorOpens(t) \/ UserShuts(t)
            \/ UNCHANGED vars
  <2>1. UNCHANGED <<wire, ev, told>> /\ (listener' = "idle" <=> listener = "idle")
    BY <1>10 DEF BackendSends, ClearSetup, Reject, Accept, CallReturns, Publish, Update,
         ListenerPublishes, LoseCommand, DoorOpens, UserShuts, Moves, vars, gateway, cabinet,
         history, traces
  <2> QED
    BY <2>1 DEF Ordered
<1> QED
  BY <1>4, <1>5, <1>6, <1>7, <1>8, <1>9, <1>10 DEF Next

(* The last word on its way about a slot is what the Arduino remembers of  *)
(* its door, unless one was lost.                                          *)
LastWord(s) ==
  /\ LastTells(wire, s, doorClosed[s])
  /\ listener # "idle" /\ ev.slot = s /\ ~TellsSince(wire, s, 0) => ev.closed = doorClosed[s]
EventsOK == configured => \A s \in Fitted \ missed : LastWord(s)

(* The steps that take no line from the wire and say none leave an event   *)
(* where it is.                                                            *)
LEMMA EventsStep == Typed /\ EventsOK /\ [Next]_vars => EventsOK'
<1> SUFFICES ASSUME Typed, EventsOK, [Next]_vars, configured',
                    NEW s \in Fitted, s \notin missed'
             PROVE  LastWord(s)'
  BY DEF EventsOK
<1>1. wire \in Seq(Said) /\ doorClosed \in [Fitted -> BOOLEAN]
  BY DEF Typed, TypeOK, LinesTyped
<1>2. s \notin missed => LastWord(s)
  <2>1. configured
    BY DEF Next, BackendSends, ClearSetup, Reject, Accept, CallReturns, Publish, Update,
       ListenerAccepts, ListenerTakesEvent, ListenerPublishes, ListenerUpdates, Execute,
       ReportAlive, LoseCommand, LoseLine, DoorOpens, UserShuts, Moves, ReportDoor, vars,
       gateway
  <2> QED
    BY <2>1 DEF EventsOK
<1>3. CASE ListenerAccepts
  <2>1. /\ listener = "idle" /\ wire # <<>> /\ ~IsEvent(Head(wire), s) /\ wire' = Tail(wire)
        /\ UNCHANGED <<listener, ev, doorClosed, missed>>
    BY <1>3 DEF ListenerAccepts, IsEvent, gateway, history, traces
  <2>2. LastTells(Tail(wire), s, doorClosed[s])
    BY <1>1, <1>2, <2>1, FirstLineGoes DEF LastWord
  <2> QED
    BY <2>1, <2>2 DEF LastWord
<1>4. CASE ListenerTakesEvent
  <2>1. /\ wire # <<>> /\ wire' = Tail(wire) /\ Head(wire).kind = "event"
        /\ ev' = Head(wire) /\ UNCHANGED <<doorClosed, missed>>
    BY <1>4 DEF ListenerTakesEvent, history, traces
  <2>2. LastTells(wire, s, doorClosed[s])
    BY <1>2, <2>1 DEF LastWord
  <2>3. LastTells(Tail(wire), s, doorClosed[s])
    BY <1>1, <2>1, <2>2, FirstLineGoes
  <2>4. ASSUME Head(wire).slot = s, ~TellsSince(Tail(wire), s, 0)
        PROVE  Head(wire).closed = doorClosed[s]
    <3>1. IsEvent(Head(wire), s)
      BY <2>1, <2>4 DEF IsEvent
    <3> QED
      BY <1>1, <2>1, <2>2, <2>4, <3>1, FirstLineGoes
  <2> QED
    BY <2>1, <2>3, <2>4 DEF LastWord
<1>5. CASE LoseLine
  <2>1. /\ wire # <<>> /\ wire' = Tail(wire) /\ UNCHANGED <<listener, ev, doorClosed>>
        /\ s \notin missed /\ ~IsEvent(Head(wire), s)
    BY <1>5 DEF LoseLine, IsEvent, gateway
  <2>2. LastTells(Tail(wire), s, doorClosed[s])
    BY <1>1, <1>2, <2>1, FirstLineGoes DEF LastWord
  <2>3. ~TellsSince(Tail(wire), s, 0) => ~TellsSince(wire, s, 0)
    BY <1>1, <2>1, FirstLineGoes
  <2> QED
    BY <1>2, <2>1, <2>2, <2>3 DEF LastWord
<1>6. ASSUME NEW l \in Said, wire' = Append(wire, l), ~IsEvent(l, s),
             UNCHANGED <<listener, ev, missed>>, doorClosed'[s] = doorClosed[s]
      PROVE  LastWord(s)'
  <2>1. LastTells(Append(wire, l), s, doorClosed[s])
    BY <1>1, <1>2, <1>6, LineAdded DEF LastWord
  <2>2. TellsSince(wire, s, 0) => TellsSince(Append(wire, l), s, 0)
    BY <1>1, LineAdded
  <2> QED
    BY <1>2, <1>6, <2>1, <2>2 DEF LastWord
<1>7. CASE Execute
  <2>1. UNCHANGED <<listener, ev, missed, doorClosed>>
    BY <1>7, ExecuteSays DEF gateway, history, traces
  <2>2. PICK l \in Said : wire' = Append(wire, l) /\ l.kind = "reply"
    BY <1>7, ExecuteSays
  <2> QED
    BY <1>6, <2>1, <2>2 DEF IsEvent
<1>8. CASE ReportAlive
  <2>1. UNCHANGED <<listener, ev, missed, doorClosed>>
    BY <1>8, AliveSays DEF gateway, history, traces
  <2>2. PICK l \in Said : wire' = Append(wire, l) /\ l.kind = "ALIVE"
    BY <1>8, AliveSays
  <2> QED
    BY <1>6, <2>1, <2>2 DEF IsEvent
<1>9. ASSUME NEW t \in Fitted, ReportDoor(t) PROVE LastWord(s)'
  <2>1. /\ UNCHANGED <<listener, ev, missed>>
        /\ doorClosed' = [doorClosed EXCEPT ![t] = ~doorClosed[t]]
    BY <1>9, ReportSays DEF gateway, history, traces
  <2>2. PICK l \in Said : /\ wire' = Append(wire, l)
                          /\ l.kind = "event" /\ l.slot = t /\ l.closed = ~doorClosed[t]
    BY <1>9, ReportSays
  <2>3. CASE t = s
    <3>1. IsEvent(l, s) /\ l.closed = doorClosed'[s] /\ l.n >= 0
      <4>1. l.n \in Nat
        BY DEF Said
      <4>2. IsEvent(l, s) /\ l.closed = doorClosed'[s]
        BY <1>1, <2>1, <2>2, <2>3, Zenon DEF IsEvent
      <4> QED
        BY <4>1, <4>2
    <3>2. LastTells(Append(wire, l), s, doorClosed'[s]) /\ TellsSince(Append(wire, l), s, 0)
      BY <1>1, <2>2, <3>1, LineAdded
    <3> QED
      BY <2>2, <3>2 DEF LastWord
  <2>4. CASE t # s
    <3>1. ~IsEvent(l, s) /\ doorClosed'[s] = doorClosed[s]
      BY <1>1, <2>1, <2>2, <2>4, Zenon DEF IsEvent
    <3> QED
      BY <1>6, <2>1, <2>2, <3>1
  <2> QED
    BY <2>3, <2>4
<1>10. CASE ListenerPublishes
  <2>1. listener = "event" /\ UNCHANGED <<ev, wire, doorClosed, missed>>
    BY <1>10 DEF ListenerPublishes, cabinet, history, traces
  <2> QED
    BY <1>2, <2>1 DEF LastWord
<1>11. CASE ListenerUpdates
  <2>1. listener' = "idle" /\ UNCHANGED <<wire, doorClosed, missed>>
    BY <1>11 DEF ListenerUpdates, cabinet
  <2> QED
    BY <1>2, <2>1 DEF LastWord
<1>12. CASE \/ \E op \in {"open", "close"}, t \in Slots \union {None} : BackendSends(op, t)
            \/ ClearSetup \/ Reject \/ Accept \/ CallReturns \/ Publish \/ Update
            \/ LoseCommand \/ \E t \in Fitted : DoorOpens(t) \/ UserShuts(t)
            \/ UNCHANGED vars
  <2>1. UNCHANGED <<listener, ev, wire, doorClosed>> /\ missed \subseteq missed'
    BY <1>12 DEF BackendSends, ClearSetup, Reject, Accept, CallReturns, Publish, Update,
         LoseCommand, DoorOpens, UserShuts, Moves, vars, gateway, cabinet, history, traces
  <2> QED
    BY <1>2, <2>1 DEF LastWord
<1> QED
  BY <1>3, <1>4, <1>5, <1>7, <1>8, <1>9, <1>10, <1>11, <1>12 DEF Next

(* An event about a slot, from the n-th line on, has still to be handled.  *)
PendingSince(s, n) == \/ TellsSince(wire, s, n)
                      \/ listener # "idle" /\ ev.slot = s /\ ev.n >= n

(* It stays so until the listener handles it, or it is lost.               *)
LEMMA PendingStep ==
  ASSUME Typed, [Next]_vars, configured, NEW s \in Fitted, s \notin missed', NEW n \in Nat,
         PendingSince(s, n), ~(ListenerUpdates /\ ev.slot = s /\ ev.n >= n)
  PROVE  PendingSince(s, n)'
<1>1. wire \in Seq(Said)
  BY DEF Typed, LinesTyped
<1>2. ASSUME NEW l \in Said, wire' = Append(wire, l), UNCHANGED <<listener, ev>>
      PROVE  PendingSince(s, n)'
  BY <1>1, <1>2, LineAdded DEF PendingSince
<1>3. CASE Execute
  BY <1>2, <1>3, ExecuteSays DEF gateway
<1>4. CASE ReportAlive
  BY <1>2, <1>4, AliveSays DEF gateway
<1>5. ASSUME NEW t \in Fitted, ReportDoor(t) PROVE PendingSince(s, n)'
  BY <1>2, <1>5, ReportSays DEF gateway
<1>6. CASE ListenerAccepts \/ LoseLine
  <2>1. /\ wire # <<>> /\ wire' = Tail(wire) /\ UNCHANGED <<listener, ev>>
        /\ ~IsEvent(Head(wire), s)
    BY <1>6 DEF ListenerAccepts, LoseLine, IsEvent, gateway
  <2> QED
    BY <1>1, <2>1, FirstLineGoes DEF PendingSince
<1>7. CASE ListenerTakesEvent
  <2>1. /\ wire # <<>> /\ wire' = Tail(wire) /\ listener = "idle"
        /\ listener' = "event" /\ ev' = Head(wire)
    BY <1>7 DEF ListenerTakesEvent
  <2>2. TellsSince(Tail(wire), s, n) \/ (IsEvent(Head(wire), s) /\ Head(wire).n >= n)
    BY <1>1, <2>1, FirstLineGoes DEF PendingSince
  <2> QED
    BY <2>1, <2>2 DEF PendingSince, IsEvent
<1>8. CASE ListenerUpdates
  <2>1. wire' = wire /\ TellsSince(wire, s, n)
    BY <1>8 DEF ListenerUpdates, cabinet, PendingSince
  <2> QED
    BY <2>1 DEF PendingSince
<1>9. CASE \/ \E op \in {"open", "close"}, t \in Slots \union {None} : BackendSends(op, t)
           \/ ClearSetup \/ Reject \/ Accept \/ CallReturns \/ Publish \/ Update
           \/ ListenerPublishes \/ LoseCommand
           \/ \E t \in Fitted : DoorOpens(t) \/ UserShuts(t)
           \/ UNCHANGED vars
  <2>1. UNCHANGED <<wire, ev>> /\ (listener' = "idle" <=> listener = "idle")
    BY <1>9 DEF BackendSends, ClearSetup, Reject, Accept, CallReturns, Publish, Update,
         ListenerPublishes, LoseCommand, DoorOpens, UserShuts, Moves, vars, gateway, cabinet
  <2> QED
    BY <2>1 DEF PendingSince
<1> QED
  BY <1>3, <1>4, <1>5, <1>6, <1>7, <1>8, <1>9 DEF Next

(* A command for a slot stays in the inbox until it is accepted.           *)
LEMMA CommandsStep ==
  ASSUME Typed, [Next]_vars, configured, NEW s \in Slots, Commands(inbox, s),
         ~(Accept /\ Head(inbox).slot = s)
  PROVE  Commands(inbox', s)
<1>1. inbox \in Seq(Command) /\ s # None
  BY NoneAssumption DEF Typed, TypeOK
<1>2. CASE \E op \in {"open", "close"}, t \in Slots \union {None} : BackendSends(op, t)
  <2>1. PICK c \in Command : inbox' = Append(inbox, c)
    BY <1>2 DEF BackendSends, Command
  <2> QED
    BY <1>1, <2>1, CommandAdded
<1>3. CASE Reject \/ Accept
  <2>1. inbox # <<>> /\ inbox' = Tail(inbox) /\ Head(inbox).slot # s
    BY <1>1, <1>3 DEF Reject, Accept
  <2> QED
    BY <1>1, <2>1, FirstCommandGoes
<1>4. CASE ListenerPublishes
  <2>1. [op |-> "close", slot |-> ev.slot] \in Command
    BY <1>4, BoundsAssumption DEF ListenerPublishes, Typed, LinesTyped, Said, Command
  <2> QED
    BY <1>1, <1>4, <2>1, CommandAdded DEF ListenerPublishes, CloseCommand
<1>5. CASE \/ ClearSetup \/ CallReturns \/ Publish \/ Update
           \/ ListenerAccepts \/ ListenerTakesEvent \/ ListenerUpdates
           \/ Execute \/ ReportAlive \/ LoseCommand \/ LoseLine
           \/ \E t \in Fitted : DoorOpens(t) \/ UserShuts(t) \/ ReportDoor(t)
           \/ UNCHANGED vars
  <2>1. inbox' = inbox
    BY <1>5 DEF ClearSetup, CallReturns, Publish, PublishResult, Update, ListenerAccepts,
         ListenerTakesEvent, ListenerUpdates, Execute, ReportAlive, LoseCommand, LoseLine,
         DoorOpens, UserShuts, Moves, ReportDoor, vars, gateway
  <2> QED
    BY <2>1
<1> QED
  BY <1>2, <1>3, <1>4, <1>5 DEF Next

(* What the last event about a slot said is remembered until the next one. *)
LEMMA ToldStep ==
  ASSUME Typed, [Next]_vars, NEW s \in Slots
  PROVE  \/ ListenerUpdates /\ ev.slot = s /\ told'[s] = ev.n
         \/ told'[s] = told[s]
<1>1. CASE ListenerUpdates
  BY <1>1 DEF ListenerUpdates, Typed, TypeOK
<1>2. CASE ~ListenerUpdates
  <2>1. told' = told
    BY <1>2, ExecuteSays, ReportSays, AliveSays
    DEF Next, BackendSends, ClearSetup, Reject, Accept, CallReturns, Publish, Update,
       ListenerAccepts, ListenerTakesEvent, ListenerPublishes, LoseCommand, LoseLine,
       DoorOpens, UserShuts, Moves, vars, gateway, history, traces
  <2> QED
    BY <2>1
<1> QED
  BY <1>1, <1>2

(* A door moves unnoticed, or is reported, or nothing changes.             *)
LEMMA DoorStep ==
  ASSUME Typed, [Next]_vars, NEW s \in Fitted, s \notin missed',
         NEW n \in Nat, n <= spoken + 1
  PROVE  \/ ~Noticed(s)' /\ doorClosed'[s] = doorClosed[s]
         \/ (Noticed(s)' <=> Noticed(s)) /\ doorClosed'[s] = doorClosed[s]
         \/ PendingSince(s, n)'
<1>1. /\ door \in [Fitted -> {"open", "closed"}] /\ doorClosed \in [Fitted -> BOOLEAN]
      /\ wire \in Seq(Said) /\ spoken \in Nat
  BY DEF Typed, TypeOK, LinesTyped, CountersTyped
<1>2. ASSUME NEW t \in Fitted, DoorOpens(t) \/ UserShuts(t)
      PROVE  \/ ~Noticed(s)' /\ doorClosed'[s] = doorClosed[s]
             \/ (Noticed(s)' <=> Noticed(s)) /\ doorClosed'[s] = doorClosed[s]
  <2>1. /\ doorClosed' = doorClosed
        /\ t = s => Noticed(s)
        /\ \/ door[t] = "closed" /\ door' = [door EXCEPT ![t] = "open"]
           \/ door[t] = "open" /\ door' = [door EXCEPT ![t] = "closed"]
    BY <1>2 DEF DoorOpens, UserShuts, Moves
  <2>2. CASE t = s
    <3>1. door'[s] = "closed" <=> door[s] # "closed"
      BY <1>1, <2>1, <2>2
    <3>2. doorClosed[s] \in BOOLEAN /\ doorClosed'[s] = doorClosed[s]
      BY <1>1, <2>1
    <3>3. doorClosed[s] = (door[s] = "closed")
      BY <2>1, <2>2 DEF Noticed
    <3>4. doorClosed'[s] # (door'[s] = "closed")
      BY <3>1, <3>2, <3>3
    <3> QED
      BY <3>2, <3>4 DEF Noticed
  <2>3. CASE t # s
    <3>1. door'[s] = door[s]
      BY <1>1, <2>1, <2>3
    <3> QED
      BY <2>1, <3>1 DEF Noticed
  <2> QED
    BY <2>2, <2>3
<1>3. ASSUME NEW t \in Fitted, ReportDoor(t)
      PROVE  \/ (Noticed(s)' <=> Noticed(s)) /\ doorClosed'[s] = doorClosed[s]
             \/ PendingSince(s, n)'
  <2>1. door' = door /\ doorClosed' = [doorClosed EXCEPT ![t] = ~doorClosed[t]]
    BY <1>3, ReportSays
  <2>2. PICK l \in Said : /\ wire' = Append(wire, l) /\ l.n = spoken + 1
                          /\ l.kind = "event" /\ l.slot = t
    BY <1>3, ReportSays
  <2>3. CASE t = s
    <3>1. IsEvent(l, s) /\ l.n >= n
      BY <1>1, <2>2, <2>3 DEF IsEvent
    <3>2. TellsSince(wire', s, n)
      BY <1>1, <2>2, <3>1, LineAdded
    <3> QED
      BY <3>2 DEF PendingSince
  <2>4. CASE t # s
    <3>1. doorClosed'[s] = doorClosed[s]
      BY <1>1, <2>1, <2>4, Zenon
    <3> QED
      BY <2>1, <3>1 DEF Noticed
  <2> QED
    BY <2>3, <2>4
<1>4. CASE ~\E t \in Fitted : DoorOpens(t) \/ UserShuts(t) \/ ReportDoor(t)
  <2>1. UNCHANGED <<door, doorClosed>>
    BY <1>4, ExecuteSays, AliveSays
    DEF Next, BackendSends, ClearSetup, Reject, Accept, CallReturns, Publish, Update,
       ListenerAccepts, ListenerTakesEvent, ListenerPublishes, ListenerUpdates, LoseCommand,
       LoseLine, vars, cabinet
  <2> QED
    BY <2>1 DEF Noticed
<1> QED
  BY <1>2, <1>3, <1>4

--------------------------------------------------------------------------------
(* The reply to the command in work *)

(* A reply l that no door event overtook says what the Arduino remembers   *)
(* of the door, or a later event has still to be handled or to come.       *)
Fresh(l, s) == told[s] < l.n => \/ PendingSince(s, l.n) \/ ~Noticed(s)
                                \/ l.closed = doorClosed[s]

(* When an event that overtook l said closed, a close command follows.     *)
Followed(l, s) == hearsClose =>
  /\ listener = "updating" /\ ev.slot = s /\ ev.closed /\ ev.n >= l.n => Commands(inbox, s)
  /\ l.n <= told[s] /\ doorClosed[s] => PendingSince(s, 0) \/ Commands(inbox, s)

(* The reply to the command in work is about its slot.                     *)
InWork == paho # "idle" =>
  /\ \A i \in 1..Len(todo) : todo[i].id = accepted => todo[i].slot = cmd.slot
  /\ \A l \in Lines : l.of = accepted =>
       /\ l.slot = cmd.slot
       /\ configured /\ cmd.slot \in Fitted \ missed
            => Fresh(l, cmd.slot) /\ Followed(l, cmd.slot)

LEMMA FreshStep ==
  ASSUME Typed, Ordered, [Next]_vars, configured, NEW s \in Fitted, s \notin missed',
         NEW l \in Said, l.n <= spoken, Fresh(l, s)
  PROVE  Fresh(l, s)'
<1> SUFFICES ASSUME told'[s] < l.n
             PROVE  PendingSince(s, l.n)' \/ ~Noticed(s)' \/ l.closed = doorClosed'[s]
  BY DEF Fresh
<1>1. /\ s \in Slots /\ l.n \in Nat /\ told[s] \in Nat /\ spoken \in Nat
      /\ listener # "idle" => ev.n \in Nat
  BY BoundsAssumption DEF Said, Typed, TypeOK, LinesTyped, CountersTyped
<1>2. told[s] < l.n
  <2>1. CASE ListenerUpdates /\ ev.slot = s /\ told'[s] = ev.n
    <3>1. told[s] < ev.n /\ ev.n \in Nat
      BY <1>1, <2>1 DEF Ordered, ListenerUpdates
    <3> QED
      BY <1>1, <2>1, <3>1
  <2>2. CASE told'[s] = told[s]
    BY <2>2
  <2> QED
    BY <1>1, <2>1, <2>2, ToldStep
<1>3. CASE PendingSince(s, l.n)
  <2>1. ~(ListenerUpdates /\ ev.slot = s /\ ev.n >= l.n)
    <3>1. ASSUME ListenerUpdates, ev.slot = s PROVE told'[s] = ev.n
      BY <1>1, <3>1 DEF ListenerUpdates, Typed, TypeOK
    <3>2. ListenerUpdates => ev.n \in Nat
      BY <1>1 DEF ListenerUpdates
    <3> QED
      BY <1>1, <3>1, <3>2
  <2> QED
    BY <1>1, <1>3, <2>1, PendingStep
<1>4. CASE ~PendingSince(s, l.n)
  <2>1. ~Noticed(s) \/ l.closed = doorClosed[s]
    BY <1>2, <1>4 DEF Fresh
  <2>2. l.n <= spoken + 1
    BY <1>1
  <2> QED
    BY <1>1, <2>1, <2>2, DoorStep
<1> QED
  BY <1>3, <1>4

LEMMA FollowedStep ==
  ASSUME Typed, EventsOK, [Next]_vars, configured, NEW s \in Fitted, s \notin missed',
         s \notin missed, ~Accept, NEW l \in Said, Followed(l, s)
  PROVE  Followed(l, s)'
<1>1. hearsClose' = hearsClose
  BY DEF Next, BackendSends, ClearSetup, Reject, CallReturns, Publish, Update,
     ListenerAccepts, ListenerTakesEvent, ListenerPublishes, ListenerUpdates, Execute,
     ReportAlive, LoseCommand, LoseLine, DoorOpens, UserShuts, Moves, ReportDoor, vars, gateway
<1>2. s \in Slots /\ inbox \in Seq(Command) /\ spoken \in Nat
  BY BoundsAssumption DEF Typed, TypeOK, CountersTyped
<1>3. Commands(inbox, s) => Commands(inbox', s)
  BY <1>2, CommandsStep
<1> SUFFICES ASSUME hearsClose, hearsClose'
             PROVE  /\ listener' = "updating" /\ ev'.slot = s /\ ev'.closed /\ ev'.n >= l.n
                         => Commands(inbox', s)
                    /\ l.n <= told'[s] /\ doorClosed'[s]
                         => PendingSince(s, 0)' \/ Commands(inbox', s)
  BY <1>1 DEF Followed
<1>4. ASSUME listener' = "updating", ev'.slot = s, ev'.closed, ev'.n >= l.n
      PROVE  Commands(inbox', s)
  <2>1. CASE ListenerPublishes
    <3> DEFINE c == [op |-> "close", slot |-> s]
    <3>1. ev' = ev
      BY <2>1 DEF ListenerPublishes
    <3>2. inbox' = Append(inbox, c)
      BY <1>4, <2>1, <3>1 DEF ListenerPublishes, CloseCommand
    <3>3. c \in Command /\ c.slot = s
      BY <1>2 DEF Command
    <3> HIDE DEF c
    <3> QED
      BY <1>2, <3>2, <3>3, CommandAdded
  <2>2. CASE ~ListenerPublishes
    <3>1. UNCHANGED <<listener, ev>>
      BY <1>4, <2>2 DEF Next, BackendSends, ClearSetup, Reject, CallReturns, Publish, Update,
         ListenerAccepts, ListenerTakesEvent, ListenerUpdates, Execute, ReportAlive,
         LoseCommand, LoseLine, DoorOpens, UserShuts, Moves, ReportDoor, vars, gateway
    <3>2. Commands(inbox, s)
      BY <1>4, <3>1 DEF Followed
    <3> QED
      BY <1>3, <3>2
  <2> QED
    BY <2>1, <2>2
<1>5. ASSUME l.n <= told'[s], doorClosed'[s]
      PROVE  PendingSince(s, 0)' \/ Commands(inbox', s)
  <2>1. CASE ListenerUpdates /\ ev.slot = s
    <3>1. /\ listener = "updating" /\ told'[s] = ev.n /\ UNCHANGED <<wire, doorClosed>>
      BY <1>2, <2>1 DEF ListenerUpdates, cabinet, Typed, TypeOK
    <3>2. CASE TellsSince(wire, s, 0)
      BY <3>1, <3>2 DEF PendingSince
    <3>3. CASE ~TellsSince(wire, s, 0)
      <4>1. ev.closed = doorClosed[s]
        BY <2>1, <3>1, <3>3 DEF EventsOK, LastWord
      <4>2. ev.n >= l.n
        <5>1. ev.n \in Nat /\ l.n \in Nat
          BY <3>1 DEF Said, Typed, LinesTyped
        <5> QED
          BY <1>5, <3>1, <5>1
      <4>3. Commands(inbox, s)
        BY <1>5, <2>1, <3>1, <4>1, <4>2 DEF Followed
      <4> QED
        BY <1>3, <4>3
    <3> QED
      BY <3>2, <3>3
  <2>2. CASE ~(ListenerUpdates /\ ev.slot = s)
    <3>1. told'[s] = told[s]
      BY <1>2, <2>2, ToldStep
    <3>2. CASE doorClosed'[s] = doorClosed[s]
      <4>1. PendingSince(s, 0) \/ Commands(inbox, s)
        BY <1>5, <3>1, <3>2 DEF Followed
      <4>2. PendingSince(s, 0) => PendingSince(s, 0)'
        BY <2>2, PendingStep
      <4> QED
        BY <1>3, <4>1, <4>2
    <3>3. CASE doorClosed'[s] # doorClosed[s]
      <4>1. 0 <= spoken + 1
        BY <1>2
      <4> QED
        BY <3>3, <4>1, DoorStep
    <3> QED
      BY <3>2, <3>3
  <2> QED
    BY <2>1, <2>2
<1> QED
  BY <1>4, <1>5

LEMMA InWorkStep ==
  Typed /\ CallTyped /\ Numbered /\ Ordered /\ EventsOK /\ InWork /\ [Next]_vars => InWork'
<1> SUFFICES ASSUME Typed, CallTyped, Numbered, Ordered, EventsOK, InWork, [Next]_vars,
                    paho' # "idle"
             PROVE  /\ \A i \in 1..Len(todo') : todo'[i].id = accepted'
                                                  => todo'[i].slot = cmd'.slot
                    /\ \A l \in Lines' : l.of = accepted' =>
                         /\ l.slot = cmd'.slot
                         /\ configured' /\ cmd'.slot \in Fitted \ missed'
                              => Fresh(l, cmd.slot)' /\ Followed(l, cmd.slot)'
  BY DEF InWork
<1>0. /\ accepted \in Nat /\ spoken \in Nat /\ LinesOK /\ AskedOK
      /\ \A l \in Lines : l \in Said
  BY DEF Typed, LinesTyped, CountersTyped, CallTyped, Numbered, Lines
<1>1. CASE Accept
  <2> DEFINE c == [op |-> Head(inbox).op, slot |-> Head(inbox).slot, id |-> accepted + 1]
  <2>1. c \in Asked
    <3>1. Head(inbox) \in Command /\ Head(inbox).slot # None
      BY <1>1 DEF Accept, Typed, TypeOK
    <3> QED
      BY <1>0, <3>1 DEF Command, Asked
  <2>2. /\ todo' = Append(todo, c) /\ accepted' = accepted + 1 /\ c.id = accepted + 1
        /\ cmd'.slot = c.slot
    BY <1>1 DEF Accept
  <2>3. Lines' = Lines
    BY <1>1 DEF Accept, Serial!Begin, Lines
  <2> HIDE DEF c
  <2>4. \A i \in 1..Len(todo') : todo'[i].id = accepted' => todo'[i] = c
    BY <1>0, <2>1, <2>2, CommandPut
  <2>5. \A l \in Lines' : l.of # accepted'
    BY <1>0, <2>2, <2>3 DEF LinesOK
  <2> QED
    BY <2>2, <2>4, <2>5
<1>2. CASE ~Accept
  <2>1. /\ paho # "idle" /\ UNCHANGED <<accepted, cmd>>
        /\ missed \subseteq missed'
        /\ configured' => configured
    <3>1. CASE Execute \/ ReportAlive \/ \E s \in Fitted : ReportDoor(s)
      <4>1. UNCHANGED <<gateway, history>>
        BY <3>1, ExecuteSays, ReportSays, AliveSays
      <4> QED
        BY <4>1 DEF gateway, history, traces
    <3>2. ASSUME NEW s \in Fitted, DoorOpens(s) \/ UserShuts(s)
          PROVE  UNCHANGED <<gateway, accepted>> /\ missed \subseteq missed'
      BY <3>2 DEF DoorOpens, UserShuts, Moves
    <3>3. CASE LoseLine
      BY <3>3 DEF LoseLine, gateway
    <3>4. CASE Reject \/ CallReturns \/ Publish \/ Update
      BY <3>4 DEF Reject, CallReturns, Publish, Update, gateway, history, traces
    <3>5. CASE \E op \in {"open", "close"}, t \in Slots \union {None} : BackendSends(op, t)
      BY <3>5 DEF BackendSends, history, traces
    <3>6. CASE ClearSetup \/ LoseCommand \/ UNCHANGED vars
      BY <3>6 DEF ClearSetup, LoseCommand, vars, gateway, history, traces
    <3>7. CASE \/ ListenerAccepts \/ ListenerTakesEvent \/ ListenerPublishes
               \/ ListenerUpdates
      BY <3>7 DEF ListenerAccepts, ListenerTakesEvent, ListenerPublishes, ListenerUpdates,
         gateway, history, traces
    <3> QED
      BY <1>2, <3>1, <3>2, <3>3, <3>4, <3>5, <3>6, <3>7 DEF Next, gateway
  <2>2. accepted > 0
    BY <2>1 DEF Numbered
  <2>3. ASSUME NEW l \in Lines, l.of = accepted
        PROVE  /\ l.slot = cmd'.slot
               /\ configured' /\ cmd'.slot \in Fitted \ missed'
                    => Fresh(l, cmd.slot)' /\ Followed(l, cmd.slot)'
    <3>1. l.slot = cmd.slot
      BY <2>1, <2>3 DEF InWork
    <3>2. ASSUME configured', NEW s \in Fitted, s = cmd.slot, s \notin missed'
          PROVE  Fresh(l, s)' /\ Followed(l, s)'
      <4>1. configured /\ s \notin missed /\ l \in Said /\ l.n <= spoken
        BY <1>0, <2>1, <3>2 DEF LinesOK
      <4>2. Fresh(l, s) /\ Followed(l, s)
        BY <2>1, <2>3, <3>2, <4>1 DEF InWork
      <4> QED
        BY <1>2, <3>2, <4>1, <4>2, FreshStep, FollowedStep
    <3>3. cmd' = cmd
      BY <2>1
    <3> QED
      BY <3>1, <3>2, <3>3 DEF Fresh, Followed, PendingSince, Noticed
  <2>4. CASE Execute
    <3>1. /\ todo # <<>> /\ todo' = Tail(todo) /\ Head(todo) \in Asked
          /\ UNCHANGED <<heard, told, listener, ev, door, doorClosed, missed>>
      BY <2>4, ExecuteSays DEF gateway, serial, history, traces
    <3>2. PICK l \in Said :
            /\ wire' = Append(wire, l) /\ l.n = spoken + 1
            /\ l.slot = Head(todo).slot /\ l.of = Head(todo).id
            /\ l.slot \in Fitted => l.closed = (door[l.slot] = "closed")
      BY <2>4, ExecuteSays
    <3>3. Lines' \subseteq Lines \union {l}
      BY <3>1, <3>2, LineSaid
    <3>4. todo[1] = Head(todo) /\ 1 \in 1..Len(todo)
      BY <3>1, TailElements DEF Typed, LinesTyped
    <3>5. Head(todo).id = accepted => Head(todo).slot = cmd.slot
      BY <2>1, <3>4 DEF InWork
    <3>6. \A i \in 1..Len(todo') : todo'[i].id = accepted => todo'[i].slot = cmd.slot
      <4>1. \A i \in 1..Len(todo') : i + 1 \in 1..Len(todo) /\ todo'[i] = todo[i + 1]
        <5>1. /\ Len(todo) \in Nat \ {0} /\ Len(todo') = Len(todo) - 1
              /\ \A i \in 1..(Len(todo) - 1) : todo'[i] = todo[i + 1]
          BY <3>1, TailElements DEF Typed, LinesTyped
        <5> QED
          BY <5>1
      <4> QED
        BY <2>1, <4>1 DEF InWork
    <3>7. ASSUME NEW s \in Fitted, l.slot = s
          PROVE  Fresh(l, s)' /\ Followed(l, s)'
      <4>1. l.closed = (door[s] = "closed")
        BY <3>2, <3>7
      <4>2. Fresh(l, s)'
        BY <3>1, <4>1 DEF Fresh, Noticed
      <4>3. s \in Slots /\ told[s] \in Nat /\ told[s] <= spoken
        BY <1>0, BoundsAssumption DEF Typed, TypeOK
      <4>4. ~(l.n <= told'[s])
        BY <1>0, <3>1, <3>2, <4>3
      <4>5. listener' # "idle" => ~(ev'.n >= l.n)
        <5>1. listener # "idle" => ev.n \in Nat /\ ev.n <= spoken
          BY DEF Typed, LinesTyped, NumbersTyped, Said
        <5> QED
          BY <1>0, <3>1, <3>2, <5>1
      <4>6. Followed(l, s)'
        BY <4>4, <4>5 DEF Followed
      <4> QED
        BY <4>2, <4>6
    <3>8. cmd' = cmd /\ accepted' = accepted
      BY <2>1
    <3>9. l.of = accepted => l.slot = cmd.slot
      BY <3>2, <3>5
    <3>10. l.of = accepted /\ cmd.slot \in Fitted =>
             Fresh(l, cmd.slot)' /\ Followed(l, cmd.slot)'
      BY <3>7, <3>8, <3>9 DEF Fresh, Followed, PendingSince, Noticed
    <3> QED
      BY <2>3, <3>3, <3>6, <3>8, <3>9, <3>10
  <2>5. CASE ReportAlive \/ \E s \in Fitted : ReportDoor(s)
    <3>1. PICK l \in Said : wire' = Append(wire, l) /\ l.of = 0
      BY <2>5, AliveSays, ReportSays
    <3>2. UNCHANGED <<heard, todo>>
      BY <2>5, AliveSays, ReportSays DEF serial
    <3>3. Lines' \subseteq Lines \union {l}
      BY <3>1, <3>2, LineSaid
    <3>4. l.of # accepted
      BY <2>2, <3>1
    <3>5. \A i \in 1..Len(todo') : todo'[i].id = accepted' => todo'[i].slot = cmd'.slot
      BY <2>1, <3>2 DEF InWork
    <3> QED
      BY <2>1, <2>3, <3>3, <3>4, <3>5
  <2>6. CASE ~Execute /\ ~(ReportAlive \/ \E s \in Fitted : ReportDoor(s))
    <3>1. Lines' \subseteq Lines
      BY <2>6, LinesStep
    <3>2. \A i \in 1..Len(todo') : todo'[i].id = accepted' => todo'[i].slot = cmd'.slot
      <4>1. CASE LoseCommand
        <5>1. todo # <<>> /\ todo' = Tail(todo)
          BY <4>1 DEF LoseCommand
        <5>2. /\ Len(todo) \in Nat \ {0} /\ Len(todo') = Len(todo) - 1
              /\ \A i \in 1..(Len(todo) - 1) : todo'[i] = todo[i + 1]
          BY <5>1, TailElements DEF Typed, LinesTyped
        <5>3. \A i \in 1..Len(todo') : i + 1 \in 1..Len(todo) /\ todo'[i] = todo[i + 1]
          BY <5>2
        <5> QED
          BY <2>1, <5>3 DEF InWork
      <4>2. CASE ~LoseCommand
        <5>1. todo' = todo
          BY <1>2, <2>6, <4>2 DEF Next, BackendSends, ClearSetup, Reject, CallReturns, Publish,
             Update, ListenerAccepts, ListenerTakesEvent, ListenerPublishes,
             ListenerUpdates, LoseLine, DoorOpens, UserShuts, Moves, vars, cabinet
        <5> QED
          BY <2>1, <5>1 DEF InWork
      <4> QED
        BY <4>1, <4>2
    <3> QED
      BY <2>1, <2>3, <3>1, <3>2
  <2> QED
    BY <2>4, <2>5, <2>6
<1> QED
  BY <1>1, <1>2

--------------------------------------------------------------------------------
(* The state that is reported *)

(* Something about the slot has still to be handled.                       *)
Coming(s) == PendingSince(s, 0) \/ ~Noticed(s) \/ (paho # "idle" /\ cmd.slot = s)

(* The state is what the Arduino remembers of the door; or a late write is *)
(* over an event, and a close command puts it right if the door is closed. *)
Right(s) == \/ hw[s] = "CLOSING" <=> doorClosed[s]
            \/ s \in overtaken /\ (doorClosed[s] /\ hearsClose => Commands(inbox, s))
HwOK == configured => \A s \in Fitted \ (guessed \union missed) : Coming(s) \/ Right(s)

(* The handler's late write.                                               *)
LEMMA UpdateRight ==
  ASSUME Typed, CallTyped, Numbered, InWork, Update, configured,
         NEW s \in Fitted, cmd.slot = s, s \notin missed, result[Paho].of = accepted
  PROVE  (Coming(s) \/ Right(s))'
<1> DEFINE r == result[Paho]
<1>1. /\ paho = "updating" /\ cmd # None /\ UNCHANGED <<inbox, hearsClose, told>>
      /\ hw' = [hw EXCEPT ![s] = published.hwState]
      /\ overtaken' = IF r.n <= told[s] THEN overtaken \union {s} ELSE overtaken \ {s}
      /\ UNCHANGED <<wire, listener, ev, door, doorClosed>>
  BY DEF Update, cabinet, Typed, TypeOK
<1>2. accepted > 0 /\ r \in heard[Paho] /\ r \in Said
  <2>1. accepted > 0 /\ accepted \in Nat
    BY <1>1 DEF Numbered, Typed, CountersTyped
  <2>2. r # TimedOut
    BY <2>1 DEF TimedOut
  <2>3. r \in heard[Paho] \union {TimedOut} /\ heard[Paho] \subseteq Said
    BY <1>1 DEF CallTyped
  <2> QED
    BY <2>1, <2>2, <2>3
<1>3. r \in Lines /\ r.ok /\ r.slot = s
  <2>1. r \in Lines
    BY <1>2 DEF Lines
  <2>2. r.slot = s
    BY <1>1, <2>1 DEF InWork
  <2> QED
    BY <2>1, <2>2 DEF Numbered, LinesOK
<1>4. Fresh(r, s) /\ Followed(r, s)
  BY <1>1, <1>3 DEF InWork
<1>5. /\ hw'[s] = IF r.closed THEN "CLOSING" ELSE "OPENING"
      /\ r.closed \in BOOLEAN /\ doorClosed[s] \in BOOLEAN
      /\ told[s] \in Nat /\ r.n \in Nat /\ s \in Slots
  <2>1. s \in Slots /\ r.closed \in BOOLEAN /\ doorClosed[s] \in BOOLEAN
    BY <1>2, BoundsAssumption DEF Said, Typed, TypeOK
  <2>2. hw'[s] = StateAfter(cmd.op, r)
    BY <1>1, <2>1 DEF Typed, TypeOK, CallTyped
  <2>3. cmd.op \in {"open", "close"}
    BY <1>1 DEF Typed, TypeOK, Command
  <2>4. hw'[s] = IF r.closed THEN "CLOSING" ELSE "OPENING"
    BY <1>3, <2>1, <2>2, <2>3 DEF StateAfter, Success
  <2>5. told[s] \in Nat /\ r.n \in Nat
    BY <1>2, <2>1 DEF Typed, TypeOK, CountersTyped, Said
  <2> QED
    BY <2>1, <2>4, <2>5
<1> HIDE DEF r
<1>6. UNCHANGED <<PendingSince(s, 0), Noticed(s)>>
  BY <1>1 DEF PendingSince, Noticed
<1>7. CASE r.n <= told[s]
  <2>1. s \in overtaken'
    BY <1>1, <1>7
  <2>2. hearsClose /\ doorClosed[s] => PendingSince(s, 0) \/ Commands(inbox, s)
    BY <1>4, <1>7 DEF Followed
  <2> QED
    BY <1>1, <1>6, <2>1, <2>2 DEF Coming, Right
<1>8. CASE told[s] < r.n
  <2>1. PendingSince(s, r.n) \/ ~Noticed(s) \/ r.closed = doorClosed[s]
    BY <1>4, <1>8 DEF Fresh
  <2>2. PendingSince(s, r.n) => PendingSince(s, 0)
    <3>1. \A i \in 1..Len(wire) : wire[i] \in Said
      BY DEF Typed, LinesTyped
    <3>2. \A i \in 1..Len(wire) : wire[i].n >= 0
      BY <3>1 DEF Said
    <3>3. listener # "idle" => ev.n >= 0
      BY DEF Typed, LinesTyped, Said
    <3> QED
      BY <3>2, <3>3 DEF PendingSince, TellsSince
  <2> QED
    BY <1>1, <1>5, <1>6, <2>1, <2>2 DEF Coming, Right
<1> QED
  BY <1>5, <1>7, <1>8

LEMMA HwStep ==
  Typed /\ CallTyped /\ Numbered /\ EventsOK /\ InWork /\ HwOK /\ [Next]_vars => HwOK'
<1> SUFFICES ASSUME Typed, CallTyped, Numbered, EventsOK, InWork, HwOK, [Next]_vars,
                    configured', NEW s \in Fitted, s \notin guessed', s \notin missed'
             PROVE  (Coming(s) \/ Right(s))'
  BY DEF HwOK
<1>1. /\ s \in Slots /\ hw \in [Slots -> {"OPENING", "CLOSING"}] /\ spoken \in Nat
      /\ wire \in Seq(Said)
  BY BoundsAssumption DEF Typed, TypeOK, LinesTyped, CountersTyped
<1>2. configured /\ s \notin missed
  <2>1. CASE Execute \/ ReportAlive \/ \E t \in Fitted : ReportDoor(t)
    <3>1. UNCHANGED <<gateway, history>>
      BY <2>1, ExecuteSays, ReportSays, AliveSays
    <3> QED
      BY <3>1 DEF gateway, history, traces
  <2>2. CASE LoseLine \/ \E t \in Fitted : DoorOpens(t) \/ UserShuts(t)
    <3>1. UNCHANGED gateway /\ missed \subseteq missed'
      BY <2>2 DEF LoseLine, DoorOpens, UserShuts, Moves
    <3> QED
      BY <3>1 DEF gateway
  <2>3. CASE \/ \E op \in {"open", "close"}, t \in Slots \union {None} : BackendSends(op, t)
             \/ ClearSetup \/ Reject \/ Accept \/ CallReturns \/ Publish \/ Update
             \/ LoseCommand \/ UNCHANGED vars
    BY <2>3 DEF BackendSends, ClearSetup, Reject, Accept, CallReturns, Publish, Update,
         LoseCommand, vars, gateway, history, traces
  <2>4. CASE \/ ListenerAccepts \/ ListenerTakesEvent \/ ListenerPublishes
             \/ ListenerUpdates
    BY <2>4 DEF ListenerAccepts, ListenerTakesEvent, ListenerPublishes, ListenerUpdates,
       gateway, history, traces
  <2> QED
    BY <2>1, <2>2, <2>3, <2>4 DEF Next
<1>3. CASE Accept
  <2>1. /\ paho' = "calling" /\ cmd' = Head(inbox) /\ inbox # <<>>
        /\ hw' = Optimistic(Head(inbox)) /\ Head(inbox) \in Command
        /\ UNCHANGED <<guessed, overtaken, hearsClose, wire, listener, ev, door, doorClosed>>
    BY <1>3 DEF Accept, traces, Typed, TypeOK
  <2>2. CASE Head(inbox).slot = s
    BY <2>1, <2>2 DEF Coming
  <2>3. CASE Head(inbox).slot # s
    <3>1. Commands(inbox, s) => Commands(inbox', s)
      BY <1>1, <1>2, <2>3, CommandsStep
    <3>2. hw'[s] = hw[s]
      BY <1>1, <2>1, <2>3 DEF Optimistic
    <3>3. paho = "idle"
      BY <1>3 DEF Accept
    <3>4. PendingSince(s, 0)' = PendingSince(s, 0) /\ Noticed(s)' = Noticed(s)
      BY <2>1 DEF PendingSince, Noticed
    <3>5. Coming(s) \/ Right(s)
      BY <1>2, <2>1 DEF HwOK
    <3> QED
      BY <2>1, <3>1, <3>2, <3>3, <3>4, <3>5 DEF Coming, Right
  <2> QED
    BY <2>2, <2>3
<1>4. CASE Update /\ cmd.slot = s
  <2>1. result[Paho].of = accepted
    BY <1>4 DEF Update
  <2> QED
    BY <1>2, <1>4, <2>1, UpdateRight
<1>5. CASE ListenerUpdates /\ ev.slot = s
  <2>1. /\ listener = "updating" /\ UNCHANGED <<wire, doorClosed>>
        /\ hw' = [hw EXCEPT ![s] = IF ev.closed THEN "CLOSING" ELSE "OPENING"]
        /\ ev \in Said /\ doorClosed[s] \in BOOLEAN
    BY <1>5 DEF ListenerUpdates, cabinet, Typed, TypeOK, LinesTyped
  <2>2. hw'[s] = IF ev.closed THEN "CLOSING" ELSE "OPENING"
    BY <1>1, <2>1
  <2>3. CASE TellsSince(wire, s, 0)
    BY <2>1, <2>3 DEF Coming, PendingSince
  <2>4. CASE ~TellsSince(wire, s, 0)
    <3>1. ev.closed = doorClosed[s]
      BY <1>2, <1>5, <2>1, <2>4 DEF EventsOK, LastWord
    <3> QED
      BY <2>1, <2>2, <3>1 DEF Right
  <2> QED
    BY <2>3, <2>4
<1>6. CASE ~Accept /\ ~(Update /\ cmd.slot = s) /\ ~(ListenerUpdates /\ ev.slot = s)
  <2>1. Commands(inbox, s) => Commands(inbox', s)
    BY <1>1, <1>2, <1>6, CommandsStep
  <2>2. PendingSince(s, 0) => PendingSince(s, 0)'
    BY <1>2, <1>6, PendingStep
  <2>3. \/ ~Noticed(s)' /\ doorClosed'[s] = doorClosed[s]
        \/ (Noticed(s)' <=> Noticed(s)) /\ doorClosed'[s] = doorClosed[s]
        \/ PendingSince(s, 0)'
    <3>1. 0 <= spoken + 1
      BY <1>1
    <3> QED
      BY <3>1, DoorStep
  <2>4. /\ hearsClose' = hearsClose /\ hw'[s] = hw[s]
        /\ s \in guessed' <=> s \in guessed
        /\ s \in overtaken' <=> s \in overtaken
        /\ paho # "idle" /\ cmd.slot = s => paho' # "idle" /\ cmd'.slot = s
    <3>1. CASE Execute \/ ReportAlive \/ \E t \in Fitted : ReportDoor(t)
      <4>1. UNCHANGED <<gateway, history>>
        BY <3>1, ExecuteSays, ReportSays, AliveSays
      <4> QED
        BY <4>1 DEF gateway, history, traces
    <3>2. CASE LoseLine \/ \E t \in Fitted : DoorOpens(t) \/ UserShuts(t)
      <4>1. UNCHANGED <<gateway, guessed, overtaken>>
        BY <3>2 DEF LoseLine, DoorOpens, UserShuts, Moves
      <4> QED
        BY <4>1 DEF gateway
    <3>3. CASE \/ \E op \in {"open", "close"}, t \in Slots \union {None} : BackendSends(op, t)
               \/ ClearSetup \/ Reject \/ CallReturns \/ LoseCommand \/ UNCHANGED vars
      BY <3>3 DEF BackendSends, ClearSetup, Reject, CallReturns, LoseCommand, vars, gateway,
         history, traces
    <3>4. CASE \/ ListenerAccepts \/ ListenerTakesEvent \/ ListenerPublishes
      BY <3>4 DEF ListenerAccepts, ListenerTakesEvent, ListenerPublishes, gateway, history,
         traces
    <3>5. CASE Publish
      BY <3>5 DEF Publish, traces
    <3>6. CASE Update
      <4>1. cmd.slot # s
        BY <1>6, <3>6
      <4> QED
        BY <1>1, <3>6, <4>1 DEF Update
    <3>7. CASE ListenerUpdates
      <4>1. ev.slot # s
        BY <1>6, <3>7
      <4> QED
        BY <1>1, <3>7, <4>1 DEF ListenerUpdates
    <3> QED
      BY <1>6, <3>1, <3>2, <3>3, <3>4, <3>5, <3>6, <3>7 DEF Next
  <2>5. Coming(s) \/ Right(s)
    BY <1>2, <2>4 DEF HwOK
  <2> QED
    BY <2>1, <2>2, <2>3, <2>4, <2>5 DEF Coming, Right
<1> QED
  BY <1>3, <1>4, <1>5, <1>6

(* Once everything has settled, the state the heartbeats report is that of *)
(* the door, unless the last word about it was not from its own sensor or  *)
(* was lost, or a late write covers a door event: and then a closed door   *)
(* is put right if the gateway hears its close commands.  This holds for   *)
(* any number of slots, commands, openings and losses.                     *)
THEOREM StateFollows == Spec => []StateFollowsDoor
<1> DEFINE Inv == CallTyped /\ Numbered /\ Ordered /\ EventsOK /\ InWork /\ HwOK
<1>1. Init => Inv
  <2> SUFFICES ASSUME Init PROVE Inv
    OBVIOUS
  <2>1. /\ wire = <<>> /\ todo = <<>> /\ paho = "idle" /\ listener = "idle"
        /\ phase = [c \in {Paho} |-> "idle"] /\ heard = [c \in {Paho} |-> {}]
        /\ result = [c \in {Paho} |-> None]
        /\ hw = [s \in Slots |-> "CLOSING"] /\ doorClosed = [s \in Fitted |-> TRUE]
    BY DEF Init, Serial!Init
  <2>2. Lines = {}
    BY <2>1 DEF Lines
  <2>3. Numbered
    BY <2>1, <2>2 DEF Numbered, LinesOK, AskedOK
  <2>4. EventsOK
    <3>1. ASSUME NEW s PROVE LastTells(wire, s, doorClosed[s])
      BY <2>1 DEF LastTells
    <3> QED
      BY <2>1, <3>1 DEF EventsOK, LastWord
  <2>5. HwOK
    BY <2>1, BoundsAssumption DEF HwOK, Right
  <2>6. Ordered
    BY <2>1 DEF Ordered
  <2> QED
    BY <2>1, <2>3, <2>4, <2>5, <2>6 DEF CallTyped, InWork
<1>2. Typed /\ Inv /\ [Next]_vars => Inv'
  BY CallStep, NumberedStep, OrderedStep, EventsStep, InWorkStep, HwStep
<1>3. Typed /\ Inv => StateFollowsDoor
  <2> SUFFICES ASSUME Typed, Inv, Settled, configured,
                      NEW s \in Fitted \ (guessed \union missed)
               PROVE  /\ door[s] = "open" => hw[s] = "OPENING" \/ s \in overtaken
                      /\ door[s] = "closed" => \/ hw[s] = "CLOSING"
                                               \/ s \in overtaken /\ ~hearsClose
    BY DEF StateFollowsDoor
  <2>1. ~Coming(s) /\ ~Commands(inbox, s)
    BY DEF Settled, Coming, PendingSince, TellsSince, Commands
  <2>2. Right(s)
    BY <2>1 DEF HwOK
  <2>3. /\ hw[s] \in {"OPENING", "CLOSING"} /\ door[s] \in {"open", "closed"}
        /\ doorClosed[s] = (door[s] = "closed")
    BY BoundsAssumption DEF Typed, TypeOK, Settled, Noticed
  <2> QED
    BY <2>1, <2>2, <2>3 DEF Right
<1> QED
  BY <1>1, <1>2, <1>3, TypedInvariant, PTL DEF Spec

--------------------------------------------------------------------------------
(* Commands the gateway sends itself *)

(* How many elements of q are in Q.                                        *)
Places(q, Q) == {i \in 1..Len(q) : q[i] \in Q}
Count(q, Q) == Cardinality(Places(q, Q))

LEMMA CountIsNatural ==
  ASSUME NEW S, NEW q \in Seq(S), NEW Q
  PROVE  IsFiniteSet(Places(q, Q)) /\ Count(q, Q) \in Nat
<1>1. Len(q) \in Nat
  OBVIOUS
<1>2. IsFiniteSet(1..Len(q)) /\ Places(q, Q) \in SUBSET (1..Len(q))
  BY <1>1, FS_Interval DEF Places
<1>3. IsFiniteSet(Places(q, Q))
  BY <1>2, FS_Subset
<1> QED
  BY <1>3, FS_CardinalityType DEF Count

LEMMA CountAppend ==
  ASSUME NEW S, NEW q \in Seq(S), NEW e \in S, NEW Q
  PROVE  Count(Append(q, e), Q) = Count(q, Q) + (IF e \in Q THEN 1 ELSE 0)
<1> DEFINE t == Append(q, e)
           n == Len(q)
<1>1. /\ n \in Nat /\ Len(t) = n + 1 /\ t[n + 1] = e
      /\ \A i \in 1..n : t[i] = q[i]
  BY AppendElements
<1>2. IsFiniteSet(Places(q, Q)) /\ Count(q, Q) \in Nat
  BY CountIsNatural
<1> HIDE DEF t, n
<1>3. CASE e \in Q
  <2>1. Places(t, Q) = Places(q, Q) \union {n + 1} /\ n + 1 \notin Places(q, Q)
    BY <1>1, <1>3 DEF Places, n
  <2>2. Cardinality(Places(q, Q) \union {n + 1}) = Cardinality(Places(q, Q)) + 1
    BY <1>2, <2>1, FS_AddElement
  <2> QED
    BY <1>3, <2>1, <2>2 DEF Count, t
<1>4. CASE e \notin Q
  <2>1. Places(t, Q) = Places(q, Q)
    BY <1>1, <1>4 DEF Places, n
  <2> QED
    BY <1>2, <1>4, <2>1 DEF Count, t
<1> QED
  BY <1>3, <1>4

LEMMA CountTail ==
  ASSUME NEW S, NEW q \in Seq(S), q # <<>>, NEW Q
  PROVE  Count(q, Q) = Count(Tail(q), Q) + (IF Head(q) \in Q THEN 1 ELSE 0)
<1> DEFINE t == Tail(q)
           P == Places(t, Q)
           R == {i \in 2..Len(q) : q[i] \in Q}
           f == [i \in P |-> i + 1]
<1>1. /\ Len(q) \in Nat \ {0} /\ Len(t) = Len(q) - 1 /\ Head(q) = q[1] /\ t \in Seq(S)
      /\ \A i \in 1..(Len(q) - 1) : t[i] = q[i + 1]
  BY TailElements
<1>2. IsFiniteSet(P) /\ Cardinality(P) \in Nat
  BY <1>1, CountIsNatural DEF Count
<1> HIDE DEF t
<1>3. f \in Bijection(P, R)
  <2>1. \A i \in P : i \in 1..Len(t) /\ i + 1 \in R
    BY <1>1 DEF Places
  <2>2. f \in [P -> R]
    BY <2>1
  <2>3. \A i, j \in P : f[i] = f[j] => i = j
    BY <2>1
  <2>4. ASSUME NEW j \in R PROVE \E i \in P : f[i] = j
    <3>1. j - 1 \in 1..Len(t) /\ t[j - 1] = q[j]
      BY <1>1
    <3>2. j - 1 \in P /\ f[j - 1] = j
      BY <3>1 DEF Places
    <3> QED
      BY <3>2
  <2> QED
    BY <2>2, <2>3, <2>4 DEF Bijection, Injection, Surjection, IsInjective
<1> HIDE DEF f
<1>4. ExistsBijection(P, R)
  BY <1>3 DEF ExistsBijection
<1> HIDE DEF P, R
<1>5. IsFiniteSet(R) /\ Cardinality(R) = Cardinality(P)
  BY <1>2, <1>4, FS_Bijection
<1>6. CASE Head(q) \in Q
  <2>1. Places(q, Q) = R \union {1} /\ 1 \notin R
    BY <1>1, <1>6 DEF Places, R
  <2>2. Cardinality(R \union {1}) = Cardinality(R) + 1
    BY <1>5, <2>1, FS_AddElement
  <2> QED
    BY <1>5, <1>6, <2>1, <2>2 DEF Count, P, t
<1>7. CASE Head(q) \notin Q
  <2>1. Places(q, Q) = R
    BY <1>1, <1>7 DEF Places, R
  <2> QED
    BY <1>2, <1>5, <1>7, <2>1 DEF Count, P, t
<1> QED
  BY <1>6, <1>7

(* What may still become a close command of the gateway's own: a door that *)
(* was opened, and the event that it was closed.                           *)
ClosedEvents == {l \in Said : l.kind = "event" /\ l.closed}
Ajar == {s \in Fitted : door[s] = "open" \/ ~doorClosed[s]}
ToPublish == IF listener = "event" /\ ev.closed THEN 1 ELSE 0

(* Each command of the backend pays for itself, each opening of a door for *)
(* the close command that follows it.                                      *)
Paid == /\ sent \in Nat /\ opened \in Nat /\ IsFiniteSet(Ajar)
        /\ accepted + Len(inbox) + Count(wire, ClosedEvents) + Cardinality(Ajar) + ToPublish
             <= sent + opened

LEMMA PaidStep == Typed /\ Paid /\ [Next]_vars => Paid'
<1> SUFFICES ASSUME Typed, Paid, [Next]_vars PROVE Paid'
  OBVIOUS
<1> DEFINE wireCloses == Count(wire, ClosedEvents)
           ajar == Cardinality(Ajar)
<1>1. /\ inbox \in Seq(Command) /\ wire \in Seq(Said)
      /\ door \in [Fitted -> {"open", "closed"}] /\ doorClosed \in [Fitted -> BOOLEAN]
      /\ accepted \in Nat /\ sent \in Nat /\ opened \in Nat /\ Len(inbox) \in Nat
      /\ IsFiniteSet(Ajar)
  BY DEF Typed, TypeOK, LinesTyped, CountersTyped, Paid
<1>2. wireCloses \in Nat /\ ajar \in Nat
  BY <1>1, CountIsNatural, FS_CardinalityType
<1>3. ToPublish \in {0, 1}
  BY DEF ToPublish
<1>4. accepted + Len(inbox) + wireCloses + ajar + ToPublish <= sent + opened
  BY DEF Paid
<1>5. ASSUME sent' \in {sent, sent + 1}, opened' \in {opened, opened + 1}, IsFiniteSet(Ajar'),
             accepted' + Len(inbox') + Count(wire', ClosedEvents) + Cardinality(Ajar')
               + ToPublish' <= sent' + opened'
      PROVE  Paid'
  <2>1. Count(wire, ClosedEvents)' = Count(wire', ClosedEvents)
    BY DEF Count, Places, ClosedEvents, Said
  <2> QED
    BY <1>1, <1>5, <2>1 DEF Paid
<1> HIDE DEF wireCloses, ajar
<1>6. ASSUME wire' = wire PROVE Count(wire', ClosedEvents) = wireCloses
  BY <1>6 DEF wireCloses
<1>7. ASSUME UNCHANGED <<door, doorClosed>>
      PROVE  IsFiniteSet(Ajar') /\ Cardinality(Ajar') = ajar
  <2>1. Ajar' = Ajar
    BY <1>7 DEF Ajar
  <2> QED
    BY <1>1, <2>1 DEF ajar
<1>8. ASSUME UNCHANGED <<listener, ev>> PROVE ToPublish' = ToPublish
  BY <1>8 DEF ToPublish
<1>9. ASSUME NEW l \in Said, wire' = Append(wire, l)
      PROVE  Count(wire', ClosedEvents) = wireCloses + (IF l \in ClosedEvents THEN 1 ELSE 0)
  BY <1>1, <1>9, CountAppend DEF wireCloses
<1>10. ASSUME wire # <<>>, wire' = Tail(wire)
       PROVE  /\ Head(wire) \in Said /\ Count(wire', ClosedEvents) \in Nat
              /\ wireCloses = Count(wire', ClosedEvents)
                                + (IF Head(wire) \in ClosedEvents THEN 1 ELSE 0)
  <2>1. Head(wire) \in Said /\ wire' \in Seq(Said)
    BY <1>1, <1>10, TailElements
  <2> QED
    BY <1>1, <1>10, <2>1, CountTail, CountIsNatural DEF wireCloses
<1>11. ASSUME NEW c \in Command, inbox' = Append(inbox, c)
       PROVE  Len(inbox') = Len(inbox) + 1
  BY <1>1, <1>11, AppendElements
<1>12. ASSUME inbox # <<>>, inbox' = Tail(inbox)
       PROVE  Len(inbox') = Len(inbox) - 1
  BY <1>1, <1>12, TailElements
<1>13. CASE \E op \in {"open", "close"}, t \in Slots \union {None} : BackendSends(op, t)
  <2>1. PICK c \in Command : inbox' = Append(inbox, c)
    BY <1>13 DEF BackendSends, Command
  <2>2. /\ sent' = sent + 1
        /\ UNCHANGED <<opened, accepted, wire, door, doorClosed, listener, ev>>
    BY <1>13 DEF BackendSends, cabinet, history
  <2> QED
    BY <1>1, <1>2, <1>3, <1>4, <1>5, <1>6, <1>7, <1>8, <1>11, <2>1, <2>2
<1>14. CASE Reject
  <2>1. /\ inbox # <<>> /\ inbox' = Tail(inbox)
        /\ UNCHANGED <<sent, opened, accepted, wire, door, doorClosed, listener, ev>>
    BY <1>14 DEF Reject, cabinet, history
  <2> QED
    BY <1>1, <1>2, <1>3, <1>4, <1>5, <1>6, <1>7, <1>8, <1>12, <2>1
<1>15. CASE Accept
  <2>1. /\ inbox # <<>> /\ inbox' = Tail(inbox) /\ accepted' = accepted + 1
        /\ UNCHANGED <<sent, opened, wire, door, doorClosed, listener, ev>>
    BY <1>15 DEF Accept
  <2> QED
    BY <1>1, <1>2, <1>3, <1>4, <1>5, <1>6, <1>7, <1>8, <1>12, <2>1
<1>16. CASE ListenerAccepts \/ LoseLine
  <2>1. /\ wire # <<>> /\ wire' = Tail(wire)
        /\ UNCHANGED <<sent, opened, accepted, inbox, door, doorClosed, listener, ev>>
    BY <1>16 DEF ListenerAccepts, LoseLine, gateway, history
  <2> QED
    BY <1>1, <1>2, <1>3, <1>4, <1>5, <1>7, <1>8, <1>10, <2>1
<1>17. CASE ListenerTakesEvent
  <2>1. /\ wire # <<>> /\ wire' = Tail(wire) /\ listener = "idle" /\ Head(wire).kind = "event"
        /\ \/ listener' = "event" /\ ev' = Head(wire)
           \/ UNCHANGED <<listener, ev>>
        /\ UNCHANGED <<sent, opened, accepted, inbox, door, doorClosed>>
    BY <1>17 DEF ListenerTakesEvent, history
  <2>2. ToPublish = 0 /\ ToPublish' \in {0, 1}
    BY <2>1 DEF ToPublish
  <2>3. ToPublish' = 1 => Head(wire) \in ClosedEvents
    BY <1>10, <2>1 DEF ToPublish, ClosedEvents
  <2>4. Count(wire', ClosedEvents) + ToPublish' <= wireCloses
    BY <1>10, <2>1, <2>2, <2>3
  <2>5. Count(wire', ClosedEvents) \in Nat /\ IsFiniteSet(Ajar') /\ Cardinality(Ajar') = ajar
    BY <1>7, <1>10, <2>1
  <2> QED
    BY <1>1, <1>2, <1>4, <1>5, <2>1, <2>2, <2>4, <2>5
<1>18. CASE ListenerPublishes
  <2>1. /\ listener = "event" /\ listener' = "updating" /\ ev \in Said /\ ev.kind = "event"
        /\ UNCHANGED <<sent, opened, accepted, wire, door, doorClosed>>
    BY <1>18 DEF ListenerPublishes, cabinet, history, Typed, LinesTyped
  <2> DEFINE c == [op |-> "close", slot |-> ev.slot]
  <2>2. c \in Command
    BY <2>1, BoundsAssumption DEF Command, Said
  <2>3. inbox' = inbox \/ (inbox' = Append(inbox, c) /\ ev.closed)
    BY <1>18 DEF ListenerPublishes, CloseCommand
  <2> HIDE DEF c
  <2>4. ToPublish' = 0 /\ (ev.closed => ToPublish = 1)
    BY <2>1 DEF ToPublish
  <2>5. CASE inbox' = inbox
    BY <1>1, <1>2, <1>3, <1>4, <1>5, <1>6, <1>7, <2>1, <2>4, <2>5
  <2>6. CASE inbox' = Append(inbox, c) /\ ev.closed
    BY <1>1, <1>2, <1>4, <1>5, <1>6, <1>7, <1>11, <2>1, <2>2, <2>4, <2>6
  <2> QED
    BY <2>3, <2>5, <2>6
<1>19. CASE ListenerUpdates
  <2>1. /\ listener = "updating" /\ listener' = "idle"
        /\ UNCHANGED <<sent, opened, accepted, inbox, wire, door, doorClosed>>
    BY <1>19 DEF ListenerUpdates, cabinet
  <2>2. ToPublish = 0 /\ ToPublish' = 0
    BY <2>1 DEF ToPublish
  <2> QED
    BY <1>1, <1>2, <1>4, <1>5, <1>6, <1>7, <2>1, <2>2
<1>20. CASE Execute \/ ReportAlive
  <2>1. PICK l \in Said : wire' = Append(wire, l) /\ l.kind # "event"
    BY <1>20, ExecuteSays, AliveSays
  <2>2. UNCHANGED <<sent, opened, accepted, inbox, door, doorClosed, listener, ev>>
    BY <1>20, ExecuteSays, AliveSays DEF gateway, history
  <2>3. Count(wire', ClosedEvents) = wireCloses
    BY <1>2, <1>9, <2>1 DEF ClosedEvents
  <2> QED
    BY <1>1, <1>2, <1>3, <1>4, <1>5, <1>7, <1>8, <2>2, <2>3
<1>21. ASSUME NEW s \in Fitted, DoorOpens(s) PROVE Paid'
  <2>1. /\ door' = [door EXCEPT ![s] = "open"] /\ opened' = opened + 1
        /\ UNCHANGED <<sent, accepted, inbox, wire, doorClosed, listener, ev>>
    BY <1>21 DEF DoorOpens, Moves, gateway
  <2>2. Ajar' = Ajar \union {s}
    BY <1>1, <2>1 DEF Ajar
  <2>3. /\ IsFiniteSet(Ajar \union {s})
        /\ Cardinality(Ajar \union {s}) \in {ajar, ajar + 1}
    BY <1>1, FS_AddElement DEF ajar
  <2>4. IsFiniteSet(Ajar') /\ Cardinality(Ajar') \in {ajar, ajar + 1}
    BY <2>2, <2>3
  <2> QED
    BY <1>1, <1>2, <1>3, <1>4, <1>5, <1>6, <1>8, <2>1, <2>4
<1>22. ASSUME NEW s \in Fitted, UserShuts(s) PROVE Paid'
  <2>1. /\ door' = [door EXCEPT ![s] = "closed"]
        /\ UNCHANGED <<sent, opened, accepted, inbox, wire, doorClosed, listener, ev>>
    BY <1>22 DEF UserShuts, Moves, gateway
  <2>2. Ajar' \in SUBSET Ajar
    BY <1>1, <2>1 DEF Ajar
  <2>3. IsFiniteSet(Ajar') /\ Cardinality(Ajar') <= ajar
    BY <1>1, <2>2, FS_Subset DEF ajar
  <2>4. Cardinality(Ajar') \in Nat
    BY <2>3, FS_CardinalityType
  <2> QED
    BY <1>1, <1>2, <1>3, <1>4, <1>5, <1>6, <1>8, <2>1, <2>3, <2>4
<1>23. ASSUME NEW s \in Fitted, ReportDoor(s) PROVE Paid'
  <2>1. /\ ~Noticed(s) /\ doorClosed' = [doorClosed EXCEPT ![s] = ~doorClosed[s]]
        /\ UNCHANGED <<sent, opened, accepted, inbox, door, listener, ev>>
    BY <1>23, ReportSays DEF gateway, history
  <2>2. PICK l \in Said : wire' = Append(wire, l) /\ l.closed = ~doorClosed[s]
    BY <1>23, ReportSays
  <2>3. /\ \A t \in Fitted : t # s => doorClosed'[t] = doorClosed[t]
        /\ doorClosed'[s] = ~doorClosed[s]
    BY <1>1, <2>1, Zenon
  <2>4. CASE doorClosed[s]
    <3>1. door[s] = "open" /\ l \notin ClosedEvents
      BY <1>1, <2>1, <2>2, <2>4 DEF ClosedEvents, Noticed
    <3>2. Ajar' = Ajar
      <4>1. \A t \in Fitted : (door'[t] = "open" \/ ~doorClosed'[t])
                                <=> (door[t] = "open" \/ ~doorClosed[t])
        BY <2>1, <2>3, <3>1
      <4> QED
        BY <4>1 DEF Ajar
    <3>3. Count(wire', ClosedEvents) = wireCloses
      BY <1>2, <1>9, <2>2, <3>1
    <3> QED
      BY <1>1, <1>2, <1>3, <1>4, <1>5, <1>8, <2>1, <3>2, <3>3 DEF ajar
  <2>5. CASE ~doorClosed[s]
    <3>1. door[s] = "closed" /\ s \in Ajar
      BY <1>1, <2>1, <2>5 DEF Ajar, Noticed
    <3>2. Ajar' = Ajar \ {s}
      <4>1. \A t \in Fitted : (door'[t] = "open" \/ ~doorClosed'[t])
                                <=> (door[t] = "open" \/ ~doorClosed[t]) /\ t # s
        BY <2>1, <2>3, <2>5, <3>1
      <4> QED
        BY <4>1 DEF Ajar
    <3>3. IsFiniteSet(Ajar \ {s}) /\ Cardinality(Ajar \ {s}) = ajar - 1
      BY <1>1, <3>1, FS_RemoveElement DEF ajar
    <3>4. Count(wire', ClosedEvents) \in {wireCloses, wireCloses + 1}
      BY <1>2, <1>9, <2>2
    <3> QED
      BY <1>1, <1>2, <1>3, <1>4, <1>5, <1>8, <2>1, <3>2, <3>3, <3>4
  <2> QED
    BY <2>4, <2>5
<1>24. CASE ClearSetup \/ CallReturns \/ Publish \/ Update \/ LoseCommand \/ UNCHANGED vars
  <2>1. UNCHANGED <<sent, opened, accepted, inbox, wire, door, doorClosed, listener, ev>>
    BY <1>24 DEF ClearSetup, CallReturns, Publish, PublishResult, Update, LoseCommand, vars,
         gateway, cabinet, history
  <2> QED
    BY <1>1, <1>2, <1>3, <1>4, <1>5, <1>6, <1>7, <1>8, <2>1
<1> QED
  BY <1>13, <1>14, <1>15, <1>16, <1>17, <1>18, <1>19, <1>20, <1>21, <1>22, <1>23, <1>24
  DEF Next

(* The gateway handles one command at most for each command of the backend *)
(* and each opening of a door, for any number of them, of slots and losses:*)
(* the close commands that follow door events do not feed on their own     *)
(* results.                                                                *)
THEOREM NoFeedback == Spec => []NoChatter
<1>1. Init => Paid
  <2> SUFFICES ASSUME Init PROVE Paid
    OBVIOUS
  <2>1. /\ inbox = <<>> /\ wire = <<>> /\ sent = 0 /\ opened = 0 /\ accepted = 0
        /\ listener = "idle"
    BY DEF Init
  <2>2. Ajar = {}
    BY DEF Init, Ajar
  <2>3. \A Q : Places(<<>>, Q) = {}
    BY DEF Places
  <2>4. \A Q : Count(<<>>, Q) = 0
    BY <2>3, FS_EmptySet DEF Count
  <2> QED
    BY <2>1, <2>2, <2>4, FS_EmptySet DEF Paid, ToPublish
<1>2. Typed /\ Paid /\ [Next]_vars => Paid'
  BY PaidStep
<1>3. Typed /\ Paid => NoChatter
  <2> SUFFICES ASSUME Typed, Paid PROVE NoChatter
    OBVIOUS
  <2>1. /\ inbox \in Seq(Command) /\ wire \in Seq(Said) /\ opened \in Nat
        /\ accepted \in Nat /\ sent \in Nat /\ Len(inbox) \in Nat
    BY DEF Typed, TypeOK, LinesTyped, CountersTyped, Paid
  <2>2. Count(wire, ClosedEvents) \in Nat /\ Cardinality(Ajar) \in Nat
    BY <2>1, CountIsNatural, FS_CardinalityType DEF Paid
  <2>3. ToPublish \in {0, 1}
    BY DEF ToPublish
  <2> QED
    BY <2>1, <2>2, <2>3 DEF Paid, NoChatter
<1> QED
  BY <1>1, <1>2, <1>3, TypedInvariant, PTL DEF Spec

--------------------------------------------------------------------------------
(* The contract for the commands there can be *)

LEMMA NoChatterStays == Spec => [](Typed /\ OnePending /\ NoChatter)
BY TypedInvariant, OnePendingInvariant, NoFeedback, PTL

SentBounded == sent \in 0..MaxCommands /\ opened \in 0..MaxOpenings

LEMMA SentStep == SentBounded /\ [Next]_vars => SentBounded'
<1> SUFFICES ASSUME SentBounded, [Next]_vars PROVE SentBounded'
  OBVIOUS
<1>1. MaxCommands \in Nat /\ MaxOpenings \in Nat
  BY BoundsAssumption
<1>2. CASE \E op \in {"open", "close"}, s \in Slots \union {None} : BackendSends(op, s)
  BY <1>1, <1>2 DEF BackendSends, cabinet, SentBounded
<1>3. CASE \E s \in Fitted : DoorOpens(s)
  BY <1>1, <1>3 DEF DoorOpens, Moves, SentBounded
<1>4. CASE /\ ~\E op \in {"open", "close"}, s \in Slots \union {None} : BackendSends(op, s)
           /\ ~\E s \in Fitted : DoorOpens(s)
  <2>1. UNCHANGED <<sent, opened>>
    BY <1>4 DEF Next, ClearSetup, Reject, Accept, CallReturns, Publish, Update,
       ListenerAccepts, ListenerTakesEvent, ListenerPublishes, ListenerUpdates, Execute,
       ReportAlive, LoseCommand, LoseLine, UserShuts, Moves, ReportDoor, vars, cabinet
  <2> QED
    BY <2>1 DEF SentBounded
<1> QED
  BY <1>2, <1>3, <1>4

(* One result for each accepted command, after it was accepted, and none   *)
(* for anything else, for any number of commands and openings of doors: no *)
(* more than there are of both are accepted, because the gateway does not  *)
(* feed on its own.                                                        *)
THEOREM ImplementsContract == Spec => KeepsContract
<1>1. Init => Contract!Init
  BY DEF Init, Contract!Init
<1>2. /\ Typed /\ OnePending /\ NoChatter /\ SentBounded /\ [Next]_vars
      => [Contract!Next]_(Contract!vars)
  <2> SUFFICES ASSUME Typed, OnePending, NoChatter, SentBounded, [Next]_vars
               PROVE  Contract!Next \/ UNCHANGED Contract!vars
    OBVIOUS
  <2> USE DEF Typed, CountersTyped, OnePending
  <2>1. CASE paho = "idle" /\ paho' = "calling" /\ accepted' = accepted + 1
               /\ answered' = answered
    <3>1. Accept
      BY <2>1 DEF Next, BackendSends, ClearSetup, Reject, CallReturns, Publish, Update,
         ListenerAccepts, ListenerTakesEvent, ListenerPublishes, ListenerUpdates, Execute,
         ReportAlive, LoseCommand, LoseLine, DoorOpens, UserShuts, Moves, ReportDoor, vars, gateway,
         history
    <3>2. Len(inbox) \in Nat /\ Len(inbox) > 0
      BY <3>1 DEF Accept, TypeOK
    <3>3. accepted + 1 \in 1..(MaxCommands + MaxOpenings)
      BY <3>2, BoundsAssumption DEF NoChatter, SentBounded
    <3>4. Contract!TakeUp(accepted + 1)
      BY <2>1 DEF Contract!TakeUp
    <3> QED
      BY <3>3, <3>4 DEF Contract!Next
  <2>2. CASE paho = "calling" /\ paho' = "updating" /\ answered' = answered + 1
               /\ accepted' = accepted
    <3>1. accepted \in 1..(MaxCommands + MaxOpenings)
      <4>1. Len(inbox) \in Nat /\ accepted = answered + 1
        BY <2>2 DEF TypeOK
      <4> QED
        BY <4>1, BoundsAssumption DEF NoChatter, SentBounded
    <3>2. Contract!Answer(accepted)
      BY <2>2 DEF Contract!Answer
    <3> QED
      BY <3>1, <3>2 DEF Contract!Next
  <2>3. CASE UNCHANGED <<accepted, answered>>
    BY <2>3 DEF Contract!vars
  <2> QED
    BY <2>1, <2>2, <2>3, CountingSteps
<1>3. Init => SentBounded
  BY BoundsAssumption DEF Init, SentBounded
<1> QED
  BY <1>1, <1>2, <1>3, SentStep, NoChatterStays, PTL DEF Spec, KeepsContract, Contract!Spec
================================================================================
