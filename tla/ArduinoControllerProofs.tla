----------------------- MODULE ArduinoControllerProofs -----------------------
(***************************************************************************)
(* Proofs about ArduinoController, for any slots, address and commands and *)
(* any number of lines.  The words that are on their way make one stream,  *)
(* from the command buffer through the receive buffer to the bus: a word   *)
(* that moves on leaves the stream as it is, a line that is processed or   *)
(* cut off leaves it at its front, a line that is sent joins it at its end.*)
(***************************************************************************)
EXTENDS ArduinoController, SequenceTheorems, TLAPS

Words ==
  {Word("id", n) : n \in Nat} \union {Word("slot", n) : n \in Nat}
    \union {Word(o, 0) : o \in Ops \union {"PING"}} \union {End, Json}

Phases == {"loop", "poll", "recheck", "event", "alive", "pulse", "reply"}

(* TypeOK, and the types that it leaves to the shape of the lines.         *)
Typed ==
  /\ TypeOK
  /\ {bus, rx, buf} \subseteq Seq(Words)
  /\ asked \in Seq(Commands) /\ served \in Seq([to : Nat, op : Ops \union {"PING"}, slot : Nat])
  /\ late \in 0..Debounce
  /\ \A i \in 1..Len(buf) : buf[i] # End

LEMMA WordForms ==
  /\ End \in Words /\ Json \in Words /\ End # Json
  /\ End.k = "end" /\ Json.k = "json"
  /\ \A n \in Nat : /\ Word("id", n) \in Words /\ Word("id", n).k = "id" /\ Word("id", n).v = n
                    /\ Word("slot", n) \in Words /\ Word("slot", n).k = "slot" /\ Word("slot", n).v = n
  /\ \A o \in Ops \union {"PING"} : Word(o, 0) \in Words /\ Word(o, 0).k = o
BY DEF Words, End, Json, Word

LEMMA WordKinds ==
  ASSUME NEW w \in Words
  PROVE  /\ w.k \in {"id", "slot", "end", "json", "PING"} \union Ops
         /\ w.v \in Nat
         /\ w.k = "end" <=> w = End
         /\ w.k = "json" <=> w = Json
         /\ w.k = "id" => w = Word("id", w.v)
BY DEF Words, End, Json, Word, Ops

(* t is the sequence s with x after it.                                    *)
OneMore(t, s, x) ==
  /\ t \in Seq(Words) /\ Len(t) = Len(s) + 1 /\ t[Len(s) + 1] = x
  /\ \A i \in 1..Len(s) : t[i] = s[i]

LEMMA Appended ==
  ASSUME NEW s \in Seq(Words), NEW x \in Words
  PROVE  OneMore(Append(s, x), s, x) /\ Append(s, x) = s \o <<x>>
<1>1. OneMore(Append(s, x), s, x)
  BY AppendProperties DEF OneMore
<1>2. Append(s, x) = s \o <<x>>
  BY AppendIsConcat
<1> QED
  BY <1>1, <1>2

(* The words of a command.                                                 *)
LEMMA LineOf ==
  ASSUME NEW c \in Commands, NEW l, l = WordsOf(c)
  PROVE  /\ l \in Seq(Words) /\ c.to \in Nat /\ c.slot \in Nat
         /\ c.op \in Ops \union {"PING"}
         /\ l[1] = Word("id", c.to) /\ l[2] = Word(c.op, 0)
         /\ c.op = "PING" => Len(l) = 3 /\ l[3] = End /\ c.slot = 0
         /\ c.op # "PING" => Len(l) = 4 /\ l[3] = Word("slot", c.slot) /\ l[4] = End
<1>1. c.to \in Nat /\ c.slot \in Nat /\ c.op \in Ops \union {"PING"} /\ (c.op = "PING" => c.slot = 0)
  BY CommandsAssumption DEF Ops
<1> DEFINE a == Word("id", c.to)
           b == Word(c.op, 0)
           d == Word("slot", c.slot)
<1>2. a \in Words /\ b \in Words /\ d \in Words /\ End \in Words
  BY <1>1, WordForms
<1>3. l = (<<a, b>> \o (IF c.op = "PING" THEN <<>> ELSE <<d>>)) \o <<End>>
  BY DEF WordsOf
<1> HIDE DEF a, b, d
<1> DEFINE ab == <<a, b>>
<1>4. ab \in Seq(Words) /\ Len(ab) = 2 /\ ab[1] = a /\ ab[2] = b
  BY <1>2
<1>5. l = (ab \o (IF c.op = "PING" THEN <<>> ELSE <<d>>)) \o <<End>>
  BY <1>3
<1> HIDE DEF ab
<1>6. CASE c.op = "PING"
  <2>1. ab \o <<>> = ab
    BY <1>4, ConcatEmptySeq
  <2>2. l = ab \o <<End>>
    BY <1>5, <1>6, <2>1
  <2>3. OneMore(l, ab, End)
    BY <1>2, <1>4, <2>2, Appended
  <2>4. l \in Seq(Words) /\ Len(l) = 3 /\ l[1] = a /\ l[2] = b /\ l[3] = End
    BY <1>4, <2>3 DEF OneMore
  <2> QED
    BY <1>1, <1>6, <2>4 DEF a, b
<1>7. CASE c.op # "PING"
  <2> DEFINE abd == ab \o <<d>>
  <2>1. l = abd \o <<End>>
    BY <1>5, <1>7
  <2>2. OneMore(abd, ab, d)
    BY <1>2, <1>4, Appended
  <2> HIDE DEF abd
  <2>3. abd \in Seq(Words) /\ Len(abd) = 3 /\ abd[1] = a /\ abd[2] = b /\ abd[3] = d
    BY <1>4, <2>2 DEF OneMore
  <2>4. OneMore(l, abd, End)
    BY <1>2, <2>1, <2>3, Appended
  <2>5. l \in Seq(Words) /\ Len(l) = 4 /\ l[1] = a /\ l[2] = b /\ l[3] = d /\ l[4] = End
    BY <2>3, <2>4 DEF OneMore
  <2> QED
    BY <1>1, <1>7, <2>5 DEF a, b, d
<1> QED
  BY <1>6, <1>7

--------------------------------------------------------------------------------
(* Types *)

LEMMA Minimum ==
  ASSUME NEW max \in Nat, NEW n \in Nat
  PROVE  UpTo(max, n) \in 0..max
BY DEF UpTo

LEMMA AgedTyped ==
  ASSUME age \in [Slots -> 0..Debounce], NEW d \in Nat
  PROVE  Aged(d) \in [Slots -> 0..Debounce]
<1>1. \A s \in Slots : age[s] + d \in Nat
  BY DEF Debounce
<1>2. Debounce \in Nat
  BY DEF Debounce
<1> QED
  BY <1>1, <1>2, Minimum DEF Aged

LEMMA TypeInit == Init => Typed
<1> SUFFICES ASSUME Init PROVE Typed
  OBVIOUS
<1>1. /\ bus = <<>> /\ rx = <<>> /\ buf = <<>> /\ asked = <<>> /\ served = <<>>
      /\ phase = "loop" /\ at = 0 /\ late = 0 /\ due = FALSE /\ quiet = 0 /\ harmed = {}
      /\ age = [s \in Slots |-> Debounce] /\ steady = [s \in Slots |-> Debounce]
      /\ found = [s \in Slots |-> 0]
      /\ door \in [Slots -> BOOLEAN] /\ prev = door /\ doorClosed = door
  BY DEF Init
<1>2. /\ {age, steady} \subseteq [Slots -> 0..Debounce] /\ found \in [Slots -> 0..2]
      /\ late \in 0..Debounce /\ quiet \in 0..(Gap + 1)
  BY <1>1 DEF Debounce, Gap
<1>3. at \in 0..NumSlots
  BY <1>1, BoundsAssumption
<1>4. \A i \in 1..Len(buf) : FALSE
  BY <1>1
<1>5. TypeOK
  BY <1>1, <1>2, <1>3, <1>4 DEF TypeOK
<1> QED
  BY <1>1, <1>2, <1>4, <1>5 DEF Typed

(* Time that passes, in a step of the sketch.                              *)
LEMMA PassTyped ==
  ASSUME Typed, NEW d \in Nat, Pass(d)
  PROVE  quiet' \in 0..(Gap + 1) /\ due' \in BOOLEAN /\ steady' \in [Slots -> 0..Debounce]
<1>0. steady' \in [Slots -> 0..Debounce]
  <2>1. steady \in [Slots -> 0..Debounce] /\ Debounce \in Nat
    BY DEF Typed, TypeOK, Debounce
  <2>2. \A s \in Slots : steady[s] + d \in Nat
    BY <2>1 DEF Debounce
  <2>3. \A s \in Slots : UpTo(Debounce, steady[s] + d) \in 0..Debounce
    BY <2>1, <2>2, Minimum
  <2> QED
    BY <2>3 DEF Pass
<1>1. quiet + d \in Nat /\ Gap + 1 \in Nat /\ 0 \in 0..(Gap + 1)
  BY DEF Typed, TypeOK, Gap
<1>2. UpTo(Gap + 1, quiet + d) \in 0..(Gap + 1)
  BY <1>1, Minimum
<1> QED
  BY <1>0, <1>1, <1>2 DEF Pass

Orders == [to : Nat, op : Ops \union {"PING"}, slot : Nat]

(* A line is processed.                                                    *)
LEMMA Processed ==
  ASSUME Typed, phase = "loop", NEW b \in Seq(Words), Process(b)
  PROVE  phase' \in {"loop", "reply", "pulse"} /\ served' \in Seq(Orders)
<1>0. served \in Seq(Orders)
  BY DEF Typed, Orders
<1>1. CASE UNCHANGED served
  BY <1>0, <1>1 DEF Process
<1>2. CASE ForMe(b) /\ (IsPing(b) \/ HasAction(b)) /\ ~(Len(b) > 1 /\ b[2].k = "id")
  <2> DEFINE slot == IF IsPing(b) THEN 0 ELSE SlotIn(b)
             x == [to |-> Me, op |-> b[2].k, slot |-> slot]
  <2>1. served' = Append(served, x) /\ phase' \in {"reply", "pulse"}
    BY <1>2, Zenon DEF Process
  <2>2. slot \in Nat
    <3>1. CASE IsPing(b)
      BY <3>1
    <3>2. CASE ~IsPing(b)
      <4>1. HasAction(b)
        BY <1>2, <3>2
      <4>2. b[3] \in Words /\ (Len(b) > 3 => b[4] \in Words)
        BY <4>1 DEF HasAction
      <4>3. b[3].v \in Nat /\ (Len(b) > 3 => b[4].v \in Nat)
        BY <4>2, WordKinds
      <4>4. SlotIn(b) \in Nat
        <5>1. CASE b[3].k # "slot"
          <6>1. SlotIn(b) = 0
            BY <5>1 DEF SlotIn
          <6> QED
            BY <6>1
        <5>2. CASE b[3].k = "slot" /\ Len(b) > 3 /\ b[4].k = "slot"
          <6>1. SlotIn(b) = 10 * b[3].v + b[4].v
            BY <5>2 DEF SlotIn
          <6> QED
            BY <4>3, <5>2, <6>1
        <5>3. CASE b[3].k = "slot" /\ ~(Len(b) > 3 /\ b[4].k = "slot")
          <6>1. SlotIn(b) = b[3].v
            BY <5>3 DEF SlotIn
          <6> QED
            BY <4>3, <6>1
        <5> QED
          BY <5>1, <5>2, <5>3
      <4> QED
        BY <3>2, <4>4
    <3> QED
      BY <3>1, <3>2
  <2>3. b[2].k \in Ops \union {"PING"}
    BY <1>2 DEF IsPing, HasAction
  <2> HIDE DEF slot
  <2>4. x \in Orders
    BY <2>2, <2>3, BoundsAssumption DEF Orders
  <2> HIDE DEF x
  <2> QED
    BY <1>0, <2>1, <2>4
<1> QED
  BY <1>1, <1>2, Zenon DEF Process

LEMMA ReadTyped ==
  ASSUME Typed, ReadWord
  PROVE  Typed'
<1>0. /\ bus \in Seq(Words) /\ rx \in Seq(Words) /\ buf \in Seq(Words) /\ Typed /\ TypeOK
      /\ served \in Seq(Orders) /\ phase = "loop" /\ rx # <<>>
      /\ \A i \in 1..Len(buf) : buf[i] # End /\ (buf[i] = Json => i = Len(buf))
  BY DEF Typed, TypeOK, Orders, ReadWord
<1> DEFINE h == Head(rx)
<1>1. h \in Words /\ rx' \in Seq(Words)
  BY <1>0 DEF ReadWord
<1>2. /\ Kept \in Seq(Words)
      /\ \A i \in 1..Len(Kept) : Kept[i] # End /\ (Kept[i] = Json => i = Len(Kept))
  BY <1>0 DEF Kept
<1>3. /\ buf' \in Seq(Words)
      /\ \A i \in 1..Len(buf') : buf'[i] # End /\ (buf'[i] = Json => i = Len(buf'))
      /\ phase' \in {"loop", "reply", "pulse"} /\ served' \in Seq(Orders)
  <2> DEFINE k == Kept
  <2>1. CASE h # End
    <3>1. buf' = (IF Json \in ToSet(k) THEN k ELSE Append(k, h)) /\ UNCHANGED <<served, phase>>
      BY <2>1 DEF ReadWord, Stored
    <3> HIDE DEF h, k
    <3>2. CASE Json \in ToSet(k)
      BY <1>0, <1>2, <3>1, <3>2 DEF k
    <3>3. CASE Json \notin ToSet(k)
      <4>1. \A i \in 1..Len(k) : k[i] # Json
        BY <3>3 DEF ToSet
      <4>2. OneMore(buf', k, h) /\ k \in Seq(Words)
        BY <1>1, <1>2, <3>1, <3>3, Appended DEF k
      <4>3. \A i \in 1..Len(buf') : i \in 1..Len(k) \/ i = Len(k) + 1
        BY <4>2 DEF OneMore
      <4>4. \A i \in 1..Len(buf') : buf'[i] # End /\ (buf'[i] = Json => i = Len(buf'))
        BY <1>2, <2>1, <4>1, <4>2, <4>3 DEF OneMore, k
      <4> QED
        BY <1>0, <3>1, <4>2, <4>4 DEF OneMore
    <3> QED
      BY <3>2, <3>3
  <2>2. CASE h = End /\ k = <<>>
    <3>1. buf' = <<>> /\ UNCHANGED <<served, phase>>
      BY <2>2 DEF ReadWord
    <3> QED
      BY <1>0, <3>1
  <2>3. CASE h = End /\ k # <<>>
    <3>1. Process(k) /\ buf' = <<>>
      BY <2>3 DEF ReadWord, After
    <3>2. phase' \in {"loop", "reply", "pulse"} /\ served' \in Seq(Orders)
      BY <1>0, <1>2, <3>1, Processed
    <3> QED
      BY <3>1, <3>2
  <2> QED
    BY <2>1, <2>2, <2>3
<1>4. quiet' \in 0..(Gap + 1) /\ harmed' \subseteq {"lost", "cut"}
  BY <1>0 DEF ReadWord, TypeOK, Gap
<1>5. UNCHANGED <<outside, at, late, due, age, steady, sensors>>
  BY DEF ReadWord
<1> QED
  BY <1>0, <1>1, <1>3, <1>4, <1>5 DEF Typed, TypeOK, Orders, outside, sensors

(* What a step of the bus and the doors, or of the poll, leaves alone.     *)
LEMMA TypeStep ==
  ASSUME Typed, [Next]_vars
  PROVE  Typed'
<1>0. /\ bus \in Seq(Words) /\ rx \in Seq(Words) /\ buf \in Seq(Words) /\ asked \in Seq(Commands)
      /\ late \in 0..Debounce /\ at \in 0..NumSlots /\ NumSlots \in Nat \ {0}
      /\ age \in [Slots -> 0..Debounce] /\ door \in [Slots -> BOOLEAN]
      /\ steady \in [Slots -> 0..Debounce] /\ found \in [Slots -> 0..2]
      /\ prev \in [Slots -> BOOLEAN] /\ doorClosed \in [Slots -> BOOLEAN]
      /\ due \in BOOLEAN /\ quiet \in 0..(Gap + 1) /\ harmed \subseteq {"lost", "cut"}
      /\ phase \in Phases /\ (phase \in {"recheck", "event"} => at \in Slots)
      /\ phase \in {"loop", "pulse", "reply"} => at = 0 /\ late = 0
  BY BoundsAssumption DEF Typed, TypeOK, Phases
(* Only these change: what comes from outside, the sketch at its poll.     *)
<1>1. ASSUME UNCHANGED <<rx, buf, phase, at, time, sensors, served>>, asked' \in Seq(Commands),
             bus' \in Seq(Words), door' \in [Slots -> BOOLEAN], harmed' \subseteq {"lost", "cut"}
      PROVE  Typed'
  BY <1>1 DEF Typed, TypeOK, time, sensors
<1>2. ASSUME UNCHANGED <<outside, rx, buf, served, harmed>>, phase' \in Phases,
             at' \in 0..NumSlots, late' \in 0..Debounce, due' \in BOOLEAN, quiet' \in 0..(Gap + 1),
             age' \in [Slots -> 0..Debounce], prev' \in [Slots -> BOOLEAN],
             steady' \in [Slots -> 0..Debounce], found' \in [Slots -> 0..2],
             doorClosed' \in [Slots -> BOOLEAN], phase' \in {"recheck", "event"} => at' \in Slots,
             phase' \in {"loop", "pulse", "reply"} => at' = 0 /\ late' = 0
      PROVE  Typed'
  BY <1>2 DEF Typed, TypeOK, outside, Phases
<1>3. 0 \in 0..NumSlots /\ 0 \in 0..Debounce /\ NumSlots \in 0..NumSlots
  BY <1>0 DEF Debounce
<1>4. \A n \in Nat : UpTo(Debounce, late + n) \in 0..Debounce /\ Aged(n) \in [Slots -> 0..Debounce]
                     /\ Aged(late + n) \in [Slots -> 0..Debounce]
  <2>1. \A n \in Nat : late + n \in Nat
    BY <1>0 DEF Debounce
  <2>2. Debounce \in Nat
    BY DEF Debounce
  <2> QED
    BY <1>0, <2>1, <2>2, Minimum, AgedTyped
<1>5. 1 \in Nat /\ Pulse \in Nat /\ Transmission \in Nat /\ Recheck \in Nat /\ late \in Nat
  BY <1>0 DEF Pulse, Transmission, Recheck, Debounce
<1>6. \A n \in Nat : Pass(n) => /\ quiet' \in 0..(Gap + 1) /\ due' \in BOOLEAN
                               /\ steady' \in [Slots -> 0..Debounce]
  BY PassTyped
<1>7. CASE Idle
  BY <1>0, <1>2, <1>4, <1>5, <1>6, <1>7 DEF Idle, sensors
<1>8. CASE PulseEnds
  BY <1>0, <1>2, <1>4, <1>5, <1>6, <1>8 DEF PulseEnds, sensors, Phases
<1>9. CASE ReplySent
  BY <1>0, <1>2, <1>4, <1>5, <1>6, <1>9 DEF ReplySent, sensors, Phases
<1>10. CASE Poll
  BY <1>0, <1>2, <1>3, <1>10 DEF Poll, sensors, Phases
<1>11. CASE Look
  <2>1. /\ phase = "poll" /\ at < NumSlots
        /\ age' = [age EXCEPT ![at] = Since] /\ prev' = [prev EXCEPT ![at] = door[at]]
        /\ steady' = [steady EXCEPT ![at] = IF Changed THEN 0 ELSE @]
        /\ found' = [found EXCEPT ![at] = IF door[at] = doorClosed[at] THEN 0 ELSE UpTo(2, @ + 1)]
        /\ UNCHANGED <<outside, rx, buf, late, due, quiet, doorClosed, served, harmed>>
        /\ \/ phase' = "recheck" /\ UNCHANGED at
           \/ at' = at + 1 /\ UNCHANGED phase
    BY <1>11 DEF Look, Remember
  <2>2. at \in Slots /\ at + 1 \in 0..NumSlots
    BY <1>0, <2>1 DEF Slots
  <2>3. Since \in 0..Debounce /\ door[at] \in BOOLEAN
    BY <1>0, <1>3, <2>2 DEF Since
  <2>4. age' \in [Slots -> 0..Debounce] /\ prev' \in [Slots -> BOOLEAN]
    BY <1>0, <2>1, <2>3
  <2>5. steady' \in [Slots -> 0..Debounce]
    BY <1>0, <1>3, <2>1, <2>2
  <2>6. found' \in [Slots -> 0..2]
    <3>1. found[at] + 1 \in Nat /\ 0 \in 0..2 /\ 2 \in Nat
      <4>1. found[at] \in 0..2
        BY <1>0, <2>2
      <4> QED
        BY <4>1
    <3>2. UpTo(2, found[at] + 1) \in 0..2
      BY <3>1, Minimum
    <3> QED
      BY <1>0, <2>1, <2>2, <3>1, <3>2
  <2> QED
    BY <1>0, <1>2, <2>1, <2>2, <2>4, <2>5, <2>6 DEF Phases
<1>12. CASE LookAgain
  <2>1. at \in Slots /\ at + 1 \in 0..NumSlots
    BY <1>0, <1>12 DEF LookAgain, Slots
  <2>2. [doorClosed EXCEPT ![at] = ~@] \in [Slots -> BOOLEAN] /\ found' \in [Slots -> 0..2]
    BY <1>0, <1>12, <2>1 DEF LookAgain
  <2> QED
    BY <1>0, <1>2, <1>4, <1>5, <1>6, <1>12, <2>1, <2>2 DEF LookAgain, Phases
<1>13. CASE EventSent
  <2>1. at \in Slots /\ at + 1 \in 0..NumSlots
    BY <1>0, <1>13 DEF EventSent, Slots
  <2> QED
    BY <1>0, <1>2, <1>4, <1>5, <1>6, <1>13, <2>1 DEF EventSent, sensors, Phases
<1>14. CASE PollEnds
  BY <1>0, <1>2, <1>3, <1>4, <1>5, <1>14 DEF PollEnds, sensors, Phases
<1>15. CASE AliveSent
  BY <1>0, <1>2, <1>3, <1>4, <1>5, <1>6, <1>15 DEF AliveSent, sensors, Phases
<1>16. CASE OtherSpeaks
  <2>1. <<Json, End>> \in Seq(Words)
    BY WordForms
  <2> QED
    BY <1>0, <1>1, <1>16, <2>1 DEF OtherSpeaks
<1>17. ASSUME NEW c \in Commands, CommandSent(c) PROVE Typed'
  <2>1. WordsOf(c) \in Seq(Words)
    BY LineOf
  <2>2. asked' \in Seq(Commands)
    BY <1>0, <1>17 DEF CommandSent
  <2> QED
    BY <1>0, <1>1, <1>17, <2>1, <2>2 DEF CommandSent
<1>18. ASSUME NEW s \in Slots, DoorMoves(s) PROVE Typed'
  <2>1. [door EXCEPT ![s] = ~@] \in [Slots -> BOOLEAN]
    BY <1>0
  <2> QED
    BY <1>0, <1>1, <1>18, <2>1 DEF DoorMoves
<1>19. CASE Arrive
  <2>1. bus' \in Seq(Words) /\ Head(bus) \in Words
    BY <1>0, <1>19 DEF Arrive
  <2>2. rx' \in Seq(Words)
    <3>1. UNCHANGED rx \/ rx' = Append(rx, Head(bus))
      BY <1>19 DEF Arrive
    <3> DEFINE w == Head(bus)
    <3>2. rx \in Seq(Words) /\ w \in Words
      BY <1>0, <2>1
    <3> HIDE DEF w
    <3>3. Append(rx, w) \in Seq(Words)
      BY <3>2, AppendProperties
    <3> QED
      BY <3>1, <3>2, <3>3 DEF w
  <2>3. UNCHANGED <<door, asked, buf, phase, at, time, sensors, served>> /\ harmed' \subseteq {"lost", "cut"}
    BY <1>0, <1>19 DEF Arrive
  <2> QED
    BY <2>1, <2>2, <2>3 DEF Typed, TypeOK, time, sensors
<1>20. CASE UNCHANGED vars
  BY <1>0, <1>1, <1>20 DEF vars, outside
<1> QED
  BY <1>7, <1>8, <1>9, <1>10, <1>11, <1>12, <1>13, <1>14, <1>15, <1>16, <1>17, <1>18, <1>19, <1>20,
     ReadTyped DEF Next, Sketch

(* The variables have their types, and the command buffer never holds more *)
(* than it has room for.                                                   *)
THEOREM TypeCorrect == Spec => []TypeOK
<1>1. Typed /\ [Next]_vars => Typed'
  BY TypeStep
<1>2. Typed => TypeOK
  BY DEF Typed
<1> QED
  BY TypeInit, <1>1, <1>2, PTL DEF Spec

--------------------------------------------------------------------------------
(* Debouncing *)

(* A door that the last poll found not as reported was found so; where a   *)
(* poll has it read again, by two polls at least.  The first door is not   *)
(* looked at late, and its age is never more than the time that passed.    *)
Settling ==
  /\ \A s \in Slots : prev[s] # doorClosed[s] => found[s] >= 1
  /\ phase = "recheck" => prev[at] # doorClosed[at] /\ found[at] = 2
  /\ phase = "recheck" /\ at = 0 => steady[0] = Debounce
  /\ phase = "poll" /\ at = 0 => late = 0
  /\ steady[0] >= UpTo(Debounce, age[0] + late)

SettlingInv == Typed /\ Settling

LEMMA SettlingInit == Init => SettlingInv
<1> SUFFICES ASSUME Init PROVE SettlingInv
  OBVIOUS
<1>1. /\ phase = "loop" /\ late = 0 /\ prev = doorClosed
      /\ age = [s \in Slots |-> Debounce] /\ steady = [s \in Slots |-> Debounce]
  BY DEF Init
<1>2. 0 \in Slots
  BY BoundsAssumption DEF Slots
<1>3. steady[0] >= UpTo(Debounce, age[0] + late)
  BY <1>1, <1>2 DEF UpTo, Debounce
<1> QED
  BY <1>1, <1>3, TypeInit DEF SettlingInv, Settling

(* The time that passes makes steady and the age or late longer alike.     *)
LEMMA PassSettles ==
  ASSUME Typed, Settling, NEW d \in 0..4, Pass(d)
  PROVE  /\ age'[0] = UpTo(Debounce, age[0] + late + d) /\ late' = 0
            => steady'[0] >= UpTo(Debounce, age'[0] + late')
         /\ age'[0] = age[0] /\ late' = UpTo(Debounce, late + d)
            => steady'[0] >= UpTo(Debounce, age'[0] + late')
<1>1. 0 \in Slots
  BY BoundsAssumption DEF Slots
<1>2. /\ steady[0] \in 0..2 /\ age[0] \in 0..2 /\ late \in 0..2
      /\ steady[0] >= UpTo(2, age[0] + late)
  BY <1>1 DEF Typed, TypeOK, Settling, Debounce
<1>3. steady'[0] = UpTo(2, steady[0] + d)
  BY <1>1 DEF Pass, Debounce
<1> QED
  BY <1>2, <1>3 DEF UpTo, Debounce

LEMMA SettlingStep == SettlingInv /\ [Next]_vars => SettlingInv'
<1> SUFFICES ASSUME Typed, Settling, [Next]_vars PROVE Settling'
  BY TypeStep DEF SettlingInv
<1>1. 0 \in Slots /\ NumSlots \in Nat \ {0} /\ Slots = 0..(NumSlots - 1)
  BY BoundsAssumption DEF Slots
<1>2. /\ age \in [Slots -> 0..Debounce] /\ steady \in [Slots -> 0..Debounce]
      /\ found \in [Slots -> 0..2] /\ late \in 0..Debounce /\ at \in 0..NumSlots
      /\ prev \in [Slots -> BOOLEAN] /\ doorClosed \in [Slots -> BOOLEAN] /\ door \in [Slots -> BOOLEAN]
      /\ phase \in {"recheck", "event"} => at \in Slots
      /\ phase \in {"loop", "pulse", "reply"} => at = 0 /\ late = 0
  BY DEF Typed, TypeOK
<1>3. /\ \A s \in Slots : prev[s] # doorClosed[s] => found[s] >= 1
      /\ phase = "recheck" => prev[at] # doorClosed[at] /\ found[at] = 2
      /\ phase = "recheck" /\ at = 0 => steady[0] = Debounce
      /\ phase = "poll" /\ at = 0 => late = 0
      /\ steady[0] >= UpTo(Debounce, age[0] + late)
  BY DEF Settling
<1>4. age[0] \in 0..2 /\ steady[0] \in 0..2 /\ late \in 0..2 /\ Debounce = 2
  BY <1>1, <1>2 DEF Debounce
(* Nothing of the doors changes.                                           *)
<1>5. ASSUME UNCHANGED <<sensors, age, steady, late, at>>,
             phase' = phase \/ phase' \notin {"poll", "recheck"}
      PROVE  Settling'
  BY <1>3, <1>5 DEF Settling, sensors
(* The sketch was busy, and is not in a poll or still in it.               *)
<1>6. ASSUME UNCHANGED sensors, phase' \notin {"poll", "recheck"},
             steady'[0] >= UpTo(Debounce, age'[0] + late')
      PROVE  Settling'
  BY <1>3, <1>6 DEF Settling, sensors
<1>7. CASE Idle \/ PulseEnds \/ ReplySent
  <2>1. PICK d \in 0..4 : Pass(d) /\ age' = Aged(d) /\ late' = late /\ late = 0
    <3>1. CASE Idle
      BY <1>2, <3>1 DEF Idle
    <3>2. CASE PulseEnds
      BY <1>2, <3>2 DEF PulseEnds, Pulse
    <3>3. CASE ReplySent
      BY <1>2, <3>3 DEF ReplySent, Transmission
    <3> QED
      BY <1>7, <3>1, <3>2, <3>3
  <2>2. age'[0] = UpTo(Debounce, age[0] + late + d)
    BY <1>1, <1>4, <2>1 DEF Aged
  <2>3. steady'[0] >= UpTo(Debounce, age'[0] + late')
    BY <2>1, <2>2, PassSettles
  <2>4. UNCHANGED sensors /\ phase' \notin {"poll", "recheck"}
    BY <1>7 DEF Idle, PulseEnds, ReplySent
  <2> QED
    BY <1>6, <2>3, <2>4
<1>8. CASE AliveSent
  <2>1. Pass(3) /\ age' = Aged(late + 3) /\ late' = 0
    BY <1>8 DEF AliveSent, Transmission
  <2>2. age'[0] = UpTo(Debounce, age[0] + late + 3)
    BY <1>1, <1>4, <2>1 DEF Aged
  <2>3. steady'[0] >= UpTo(Debounce, age'[0] + late')
    BY <2>1, <2>2, PassSettles
  <2> QED
    BY <1>6, <1>8, <2>3 DEF AliveSent
<1>9. CASE Poll
  BY <1>2, <1>3, <1>9 DEF Poll, Settling, sensors
<1>10. CASE Look
  <2>1. /\ phase = "poll" /\ at < NumSlots
        /\ age' = [age EXCEPT ![at] = Since] /\ prev' = [prev EXCEPT ![at] = door[at]]
        /\ steady' = [steady EXCEPT ![at] = IF Changed THEN 0 ELSE @]
        /\ found' = [found EXCEPT ![at] = IF door[at] = doorClosed[at] THEN 0 ELSE UpTo(2, @ + 1)]
        /\ UNCHANGED <<late, doorClosed>>
    BY <1>10 DEF Look, Remember
  <2>2. at \in Slots
    BY <1>1, <1>2, <2>1
  <2>3. found[at] \in 0..2 /\ (door[at] # doorClosed[at] => found'[at] = UpTo(2, found[at] + 1))
    BY <1>2, <2>1, <2>2
  <2>4. door[at] # doorClosed[at] => found'[at] \in {1, 2} /\ (found[at] >= 1 => found'[at] = 2)
    BY <2>3 DEF UpTo
  <2>5. \A s \in Slots : prev'[s] # doorClosed'[s] => found'[s] >= 1
    <3> SUFFICES ASSUME NEW s \in Slots, prev'[s] # doorClosed'[s] PROVE found'[s] >= 1
      OBVIOUS
    <3>1. CASE s = at
      BY <1>2, <2>1, <2>2, <2>4, <3>1
    <3>2. CASE s # at
      BY <1>2, <1>3, <2>1, <2>2, <3>2
    <3> QED
      BY <3>1, <3>2
  <2>6. steady'[0] >= UpTo(Debounce, age'[0] + late')
    <3>1. CASE at # 0
      BY <1>1, <1>2, <1>3, <2>1, <3>1
    <3>2. CASE at = 0 /\ Changed
      <4>1. age'[0] = 0 /\ steady'[0] = 0 /\ late' = 0
        BY <1>1, <1>2, <1>3, <2>1, <3>2 DEF Since
      <4> QED
        BY <4>1 DEF UpTo, Debounce
    <3>3. CASE at = 0 /\ ~Changed
      <4>1. age'[0] = age[0] /\ steady'[0] = steady[0] /\ late' = late
        BY <1>1, <1>2, <2>1, <3>3 DEF Since
      <4> QED
        BY <1>3, <4>1
    <3> QED
      BY <3>1, <3>2, <3>3
  <2>7. CASE phase' = "recheck"
    <3>1. Since >= Debounce /\ door[at] # doorClosed[at] /\ UNCHANGED at
      BY <1>10, <2>1, <2>7 DEF Look
    <3>2. ~Changed /\ age[at] >= Debounce
      BY <1>4, <3>1 DEF Since
    <3>3. prev[at] # doorClosed[at]
      BY <3>1, <3>2 DEF Changed
    <3>4. prev'[at'] # doorClosed'[at'] /\ found'[at'] = 2
      BY <1>2, <1>3, <2>1, <2>2, <2>4, <3>1, <3>3
    <3>5. at' = 0 => steady'[0] = Debounce
      <4> SUFFICES ASSUME at = 0 PROVE steady'[0] = Debounce
        BY <3>1
      <4>1. late = 0 /\ age[0] = 2 /\ steady'[0] = steady[0]
        BY <1>1, <1>2, <1>3, <1>4, <2>1, <3>2
      <4> QED
        BY <1>3, <1>4, <4>1 DEF UpTo
    <3> QED
      BY <2>5, <2>6, <2>7, <3>4, <3>5 DEF Settling
  <2>8. CASE phase' # "recheck"
    <3>1. at' = at + 1 /\ phase' = "poll"
      BY <1>10, <2>1, <2>8 DEF Look
    <3>2. at' # 0
      BY <1>1, <2>2, <3>1
    <3> QED
      BY <2>5, <2>6, <3>1, <3>2 DEF Settling
  <2> QED
    BY <2>7, <2>8
<1>11. CASE LookAgain
  <2>1. /\ phase = "recheck" /\ at \in Slots /\ Pass(1) /\ late' = UpTo(Debounce, late + 1)
        /\ UNCHANGED <<age, prev>>
        /\ \/ /\ doorClosed' = [doorClosed EXCEPT ![at] = ~@] /\ found' = [found EXCEPT ![at] = 0]
              /\ phase' = "event"
           \/ phase' = "poll" /\ at' = at + 1 /\ UNCHANGED <<doorClosed, found>>
    BY <1>2, <1>11 DEF LookAgain, Recheck
  <2>2. steady'[0] >= UpTo(Debounce, age'[0] + late')
    BY <2>1, PassSettles
  <2>3. \A s \in Slots : prev'[s] # doorClosed'[s] => found'[s] >= 1
    <3> SUFFICES ASSUME NEW s \in Slots, prev'[s] # doorClosed'[s] PROVE found'[s] >= 1
      OBVIOUS
    <3>1. CASE s = at /\ phase' = "event"
      BY <1>2, <1>3, <2>1, <3>1
    <3>2. CASE s # at /\ phase' = "event"
      BY <1>2, <1>3, <2>1, <3>2
    <3>3. CASE phase' = "poll"
      BY <1>3, <2>1, <3>3
    <3> QED
      BY <2>1, <3>1, <3>2, <3>3
  <2>4. phase' = "poll" => at' # 0
    BY <1>1, <2>1
  <2>5. phase' # "recheck"
    BY <2>1
  <2> QED
    BY <2>2, <2>3, <2>4, <2>5 DEF Settling
<1>12. CASE EventSent
  <2>1. /\ at \in Slots /\ Pass(3) /\ late' = UpTo(Debounce, late + 3)
        /\ UNCHANGED <<age, sensors>> /\ phase' = "poll" /\ at' = at + 1
    BY <1>2, <1>12 DEF EventSent, Transmission
  <2>2. steady'[0] >= UpTo(Debounce, age'[0] + late')
    BY <2>1, PassSettles
  <2>3. at' # 0
    BY <1>1, <2>1
  <2> QED
    BY <1>3, <2>1, <2>2, <2>3 DEF Settling, sensors
<1>13. CASE PollEnds
  <2>1. CASE phase' = "alive"
    BY <1>5, <1>13, <2>1 DEF PollEnds
  <2>2. CASE phase' = "loop"
    <3>1. age' = Aged(late) /\ late' = 0 /\ UNCHANGED <<steady, sensors>>
      BY <1>13, <2>2 DEF PollEnds
    <3>2. age'[0] = UpTo(Debounce, age[0] + late)
      BY <1>1, <3>1 DEF Aged
    <3>3. steady'[0] >= UpTo(Debounce, age'[0] + late')
      BY <1>3, <1>4, <3>1, <3>2 DEF UpTo
    <3> QED
      BY <1>6, <2>2, <3>1, <3>3
  <2> QED
    BY <1>13, <2>1, <2>2 DEF PollEnds
<1>14. CASE ReadWord
  <2>1. phase = "loop" /\ UNCHANGED <<sensors, age, steady, late, at>>
    BY <1>14 DEF ReadWord
  <2>2. phase' \notin {"poll", "recheck"}
    <3>1. phase' = phase \/ Process(Kept)
      BY <1>14 DEF ReadWord
    <3>2. Process(Kept) => phase' \in {phase, "reply", "pulse"}
      BY Zenon DEF Process
    <3> QED
      BY <2>1, <3>1, <3>2
  <2> QED
    BY <1>5, <2>1, <2>2
<1>15. CASE Arrive \/ OtherSpeaks \/ (\E c \in Commands : CommandSent(c)) \/ \E s \in Slots : DoorMoves(s)
  BY <1>5, <1>15 DEF Arrive, OtherSpeaks, CommandSent, DoorMoves, time
<1>16. CASE UNCHANGED vars
  BY <1>5, <1>16 DEF vars, time
<1> QED
  BY <1>7, <1>8, <1>9, <1>10, <1>11, <1>12, <1>13, <1>14, <1>15, <1>16 DEF Next, Sketch

(* A door is reported only after two polls found it as it is read again,   *)
(* and the first door only after it was found so for DEBOUNCE_MS.          *)
THEOREM ReportsSettled == Spec => ReportsAreSettled
<1>1. SettlingInv /\ [Next]_vars
      => [\A s \in Slots : doorClosed'[s] # doorClosed[s] =>
            door[s] # doorClosed[s] /\ found[s] = 2 /\ (s = 0 => steady[s] = Debounce)]_vars
  <2> SUFFICES ASSUME Typed, Settling, Next, NEW s \in Slots, doorClosed'[s] # doorClosed[s]
               PROVE  door[s] # doorClosed[s] /\ found[s] = 2 /\ (s = 0 => steady[s] = Debounce)
    BY DEF SettlingInv
  <2>1. LookAgain
    <3>1. doorClosed' # doorClosed
      OBVIOUS
    <3>2. ~(Idle \/ ReadWord \/ PulseEnds \/ ReplySent \/ Poll)
      BY <3>1 DEF Idle, ReadWord, PulseEnds, ReplySent, Poll, sensors
    <3>3. ~(Look \/ EventSent \/ PollEnds \/ AliveSent)
      BY <3>1 DEF Look, EventSent, PollEnds, AliveSent, sensors
    <3>4. ~(Arrive \/ OtherSpeaks \/ (\E c \in Commands : CommandSent(c)) \/ \E r \in Slots : DoorMoves(r))
      BY <3>1 DEF Arrive, OtherSpeaks, CommandSent, DoorMoves, sensors
    <3> QED
      BY <3>2, <3>3, <3>4 DEF Next, Sketch
  <2>2. StillSo /\ phase = "recheck" /\ doorClosed' = [doorClosed EXCEPT ![at] = ~@]
    BY <2>1 DEF LookAgain
  <2>3. s = at
    BY <2>2 DEF Typed, TypeOK
  <2> QED
    BY <2>2, <2>3 DEF Settling, StillSo
<1> QED
  BY SettlingInit, SettlingStep, <1>1, PTL DEF Spec, ReportsAreSettled

--------------------------------------------------------------------------------
(* The stream of words *)

(* What follows what: lines are whole, one after the other.                *)
Fits(v, w) ==
  /\ v.k = "id" => w.k \in Ops \union {"PING"}
  /\ v.k \in Ops => w.k = "slot"
  /\ v.k \in {"PING", "slot", "json"} => w = End
  /\ v = End => w.k \in {"id", "json"}

WellFormed(q) ==
  /\ q \in Seq(Words)
  /\ \A i \in 1..Len(q) : IF i = Len(q) THEN q[i] = End ELSE Fits(q[i], q[i + 1])

(* Where a command for this slave begins, and what it says.                *)
Mine(q) == {i \in 1..Len(q) : q[i] = Word("id", Me)}
OrderAt(q, i) ==
  [to |-> Me, op |-> q[i + 1].k, slot |-> IF q[i + 1].k = "PING" THEN 0 ELSE q[i + 2].v]

(* The commands for this slave in q have these numbers among those in a.   *)
Numbered(q, no, a) ==
  /\ \A i \in Mine(q) : no[i] \in 1..Len(a) /\ a[no[i]] = OrderAt(q, i)
  /\ \A i, j \in Mine(q) : i < j => no[i] < no[j]

(* p is q without its first n words.                                       *)
Dropped(p, q, n) ==
  /\ p \in Seq(Words) /\ q \in Seq(Words) /\ n \in Nat
  /\ Len(q) = Len(p) + n /\ \A i \in 1..Len(p) : p[i] = q[i + n]

LEMMA DropIndex ==
  ASSUME NEW p, NEW q, NEW n, Dropped(p, q, n)
  PROVE  /\ Len(p) \in Nat /\ Len(q) \in Nat
         /\ \A i \in 1..Len(p) : i + n \in 1..Len(q) /\ p[i] = q[i + n]
         /\ \A j \in 1..Len(q) : j > n => j - n \in 1..Len(p) /\ p[j - n] = q[j]
<1> DEFINE k == Len(p)
           m == Len(q)
<1>1. k \in Nat /\ m \in Nat /\ n \in Nat /\ m = k + n /\ \A i \in 1..k : p[i] = q[i + n]
  BY DEF Dropped
<1> HIDE DEF k, m
<1>2. \A i \in 1..k : i + n \in 1..m
  BY <1>1
<1>3. ASSUME NEW j \in 1..m, j > n PROVE j - n \in 1..k /\ p[j - n] = q[j]
  <2>1. j - n \in 1..k /\ (j - n) + n = j
    BY <1>1, <1>3
  <2> QED
    BY <1>1, <2>1
<1> QED
  BY <1>1, <1>2, <1>3 DEF k, m

LEMMA DropFits ==
  ASSUME NEW p, NEW q, NEW n, Dropped(p, q, n), WellFormed(q)
  PROVE  WellFormed(p)
<1> SUFFICES ASSUME NEW i \in 1..Len(p)
             PROVE  IF i = Len(p) THEN p[i] = End ELSE Fits(p[i], p[i + 1])
  BY DEF WellFormed, Dropped
<1>1. /\ Len(p) \in Nat /\ Len(q) = Len(p) + n /\ n \in Nat
      /\ i + n \in 1..Len(q) /\ p[i] = q[i + n]
  BY DropIndex DEF Dropped
<1>2. CASE i = Len(p)
  <2>1. i + n = Len(q)
    BY <1>1, <1>2
  <2> QED
    BY <1>1, <1>2, <2>1 DEF WellFormed
<1>3. CASE i # Len(p)
  <2>1. i + n # Len(q) /\ i + 1 \in 1..Len(p) /\ (i + 1) + n = (i + n) + 1
    BY <1>1, <1>3
  <2>2. p[i + 1] = q[(i + 1) + n]
    BY <2>1, DropIndex
  <2>3. Fits(q[i + n], q[(i + n) + 1])
    BY <1>1, <2>1 DEF WellFormed
  <2> QED
    BY <1>1, <1>3, <2>1, <2>2, <2>3
<1> QED
  BY <1>2, <1>3

(* The words of one command.                                               *)
LEMMA MineOrder ==
  ASSUME NEW q, WellFormed(q), NEW i \in Mine(q)
  PROVE  /\ i \in 1..Len(q) /\ i + 1 \in 1..Len(q) /\ q[i + 1].k \in Ops \union {"PING"}
         /\ q[i + 1].k = "PING" => i + 2 \in 1..Len(q) /\ q[i + 2] = End
         /\ q[i + 1].k # "PING" =>
              /\ i + 2 \in 1..Len(q) /\ q[i + 2].k = "slot"
              /\ i + 3 \in 1..Len(q) /\ q[i + 3] = End
<1> DEFINE m == Len(q)
<1>1. i \in 1..m /\ q[i].k = "id" /\ m \in Nat
  <2>1. Me \in Nat
    BY BoundsAssumption
  <2> QED
    BY <2>1, WordForms DEF Mine, WellFormed
<1>2. /\ \A j \in 1..m : q[j] \in Words
      /\ \A j \in 1..m : IF j = m THEN q[j] = End ELSE Fits(q[j], q[j + 1])
  BY DEF WellFormed
<1> HIDE DEF m
<1>3. i # m /\ i + 1 \in 1..m /\ Fits(q[i], q[i + 1])
  <2>1. i # m
    BY <1>1, <1>2, WordForms
  <2> QED
    BY <1>1, <1>2, <2>1
<1>4. q[i + 1].k \in Ops \union {"PING"}
  BY <1>1, <1>3 DEF Fits
<1>5. i + 1 # m /\ i + 2 \in 1..m /\ Fits(q[i + 1], q[i + 2])
  <2>1. i + 1 # m
    BY <1>2, <1>3, <1>4, WordForms DEF Ops
  <2>2. (i + 1) + 1 = i + 2 /\ i + 2 \in 1..m
    BY <1>1, <1>3, <2>1
  <2>3. Fits(q[i + 1], q[(i + 1) + 1])
    BY <1>2, <1>3, <2>1
  <2> QED
    BY <2>1, <2>2, <2>3
<1>6. CASE q[i + 1].k = "PING"
  BY <1>1, <1>3, <1>4, <1>5, <1>6 DEF Fits, m
<1>7. CASE q[i + 1].k # "PING"
  <2>1. q[i + 2].k = "slot"
    BY <1>4, <1>5, <1>7 DEF Fits
  <2>2. i + 2 # m
    BY <1>2, <1>5, <2>1, WordForms
  <2>3. (i + 2) + 1 = i + 3 /\ i + 3 \in 1..m
    BY <1>1, <1>5, <2>2
  <2>4. Fits(q[i + 2], q[(i + 2) + 1])
    BY <1>2, <1>5, <2>2
  <2>5. q[i + 3] = End
    BY <2>1, <2>3, <2>4 DEF Fits
  <2> QED
    BY <1>1, <1>3, <1>4, <1>5, <1>7, <2>1, <2>3, <2>5 DEF m
<1> QED
  BY <1>6, <1>7

(* A shorter stream has the same commands.                                 *)
LEMMA DropMine ==
  ASSUME NEW p, NEW q, NEW n, Dropped(p, q, n), WellFormed(q)
  PROVE  /\ \A i \in Mine(p) : i + n \in Mine(q) /\ OrderAt(p, i) = OrderAt(q, i + n)
         /\ \A j \in Mine(q) : j > n => j - n \in Mine(p)
<1>1. ASSUME NEW i \in Mine(p) PROVE i + n \in Mine(q) /\ OrderAt(p, i) = OrderAt(q, i + n)
  <2>0. Len(p) \in Nat /\ n \in Nat /\ i \in 1..Len(p)
    BY DropIndex DEF Dropped, Mine
  <2>1. i + n \in Mine(q)
    BY <2>0, DropIndex DEF Mine
  <2>2. WellFormed(p)
    BY DropFits
  <2>3. i + 1 \in 1..Len(p) /\ i + 2 \in 1..Len(p)
    BY <2>2, MineOrder
  <2>4. p[i + 1] = q[(i + 1) + n] /\ p[i + 2] = q[(i + 2) + n]
    BY <2>3, DropIndex
  <2>5. (i + 1) + n = (i + n) + 1 /\ (i + 2) + n = (i + n) + 2
    BY <2>0
  <2> QED
    BY <2>1, <2>4, <2>5 DEF OrderAt
<1>2. ASSUME NEW j \in Mine(q), j > n PROVE j - n \in Mine(p)
  BY <1>2, DropIndex DEF Mine
<1> QED
  BY <1>1, <1>2

LEMMA DropNumbered ==
  ASSUME NEW p, NEW q, NEW n, Dropped(p, q, n), WellFormed(q), NEW no, NEW a, Numbered(q, no, a)
  PROVE  Numbered(p, [i \in Mine(p) |-> no[i + n]], a)
<1> DEFINE new == [i \in Mine(p) |-> no[i + n]]
<1>1. \A i \in Mine(p) : new[i] = no[i + n] /\ i + n \in Mine(q) /\ OrderAt(p, i) = OrderAt(q, i + n)
  BY DropMine
<1>2. \A i, j \in Mine(p) : i < j => i + n < j + n
  <2>1. n \in Nat /\ Mine(p) \subseteq Int
    BY DropIndex DEF Dropped, Mine
  <2> QED
    BY <2>1
<1> HIDE DEF new
<1>3. ASSUME NEW i \in Mine(p) PROVE new[i] \in 1..Len(a) /\ a[new[i]] = OrderAt(p, i)
  BY <1>1 DEF Numbered
<1>4. ASSUME NEW i \in Mine(p), NEW j \in Mine(p), i < j PROVE new[i] < new[j]
  BY <1>1, <1>2, <1>4 DEF Numbered
<1>5. Numbered(p, new, a)
  BY <1>3, <1>4 DEF Numbered
<1> QED
  BY <1>5 DEF new

(* A line at the end of the stream, which asks for what a' has more than a.*)
Line(l) ==
  /\ WellFormed(l) /\ l # <<>> /\ l[1].k \in {"id", "json"}
  /\ \A i \in 1..Len(l) : i # 1 => l[i].k # "id"

LEMMA LongerIndex ==
  ASSUME NEW q \in Seq(Words), NEW l \in Seq(Words), NEW p, p = q \o l
  PROVE  /\ p \in Seq(Words) /\ Len(p) = Len(q) + Len(l) /\ Len(q) \in Nat /\ Len(l) \in Nat
         /\ \A i \in 1..Len(q) : i \in 1..Len(p) /\ p[i] = q[i]
         /\ \A i \in 1..Len(l) : Len(q) + i \in 1..Len(p) /\ p[Len(q) + i] = l[i]
         /\ \A i \in 1..Len(p) : i \in 1..Len(q) \/ (i - Len(q) \in 1..Len(l) /\ p[i] = l[i - Len(q)])
<1> DEFINE m == Len(q)
           n == Len(l)
<1>1. /\ p \in Seq(Words) /\ Len(p) = m + n /\ m \in Nat /\ n \in Nat
      /\ \A i \in 1..(m + n) : p[i] = IF i <= m THEN q[i] ELSE l[i - m]
  BY ConcatProperties
<1> HIDE DEF m, n
<1>2. \A i \in 1..m : i \in 1..(m + n) /\ i <= m
  BY <1>1
<1>3. \A i \in 1..n : m + i \in 1..(m + n) /\ ~(m + i <= m) /\ (m + i) - m = i
  BY <1>1
<1>4. \A i \in 1..(m + n) : i \in 1..m \/ (i - m \in 1..n /\ ~(i <= m))
  BY <1>1
<1>5. \A i \in 1..n : m + i \in 1..Len(p) /\ p[m + i] = l[i]
  <2> SUFFICES ASSUME NEW i \in 1..n PROVE m + i \in 1..Len(p) /\ p[m + i] = l[i]
    OBVIOUS
  <2>1. m + i \in 1..(m + n) /\ ~(m + i <= m) /\ (m + i) - m = i
    BY <1>3
  <2> DEFINE k == m + i
  <2>2. p[k] = IF k <= m THEN q[k] ELSE l[k - m]
    BY <1>1, <2>1
  <2> QED
    BY <1>1, <2>1, <2>2
<1> QED
  BY <1>1, <1>2, <1>4, <1>5 DEF m, n

LEMMA LongerFits ==
  ASSUME NEW q, WellFormed(q), NEW l, Line(l), NEW p, p = q \o l
  PROVE  WellFormed(p)
<1>0. q \in Seq(Words) /\ l \in Seq(Words)
  BY DEF WellFormed, Line
<1> DEFINE m == Len(q)
           n == Len(l)
<1>1. /\ p \in Seq(Words) /\ Len(p) = m + n /\ m \in Nat /\ n \in Nat
      /\ \A i \in 1..m : p[i] = q[i]
      /\ \A i \in 1..n : p[m + i] = l[i]
      /\ \A i \in 1..(m + n) : i \in 1..m \/ (i - m \in 1..n /\ p[i] = l[i - m])
  BY <1>0, LongerIndex
<1>2. /\ \A i \in 1..m : IF i = m THEN q[i] = End ELSE Fits(q[i], q[i + 1])
      /\ \A i \in 1..n : IF i = n THEN l[i] = End ELSE Fits(l[i], l[i + 1])
      /\ n # 0 /\ l[1].k \in {"id", "json"}
  BY <1>0 DEF WellFormed, Line
<1> HIDE DEF m, n
<1> SUFFICES ASSUME NEW i \in 1..(m + n)
             PROVE  IF i = m + n THEN p[i] = End ELSE Fits(p[i], p[i + 1])
  BY <1>1 DEF WellFormed
<1>3. CASE i \in 1..m /\ i # m
  <2>1. i + 1 \in 1..m /\ i # m + n
    BY <1>1, <1>3
  <2> QED
    BY <1>1, <1>2, <1>3, <2>1
<1>4. CASE i = m
  <2>1. 1 \in 1..n /\ i # m + n /\ p[i + 1] = l[1] /\ p[i] = End
    <3>1. 1 \in 1..n /\ i # m + n /\ i \in 1..m
      BY <1>1, <1>2, <1>4
    <3>2. p[i] = q[i] /\ q[i] = End
      BY <1>1, <1>2, <1>4, <3>1
    <3> QED
      BY <1>1, <1>4, <3>1, <3>2
  <2>2. Fits(End, l[1])
    BY <1>2, WordForms DEF Fits, Ops
  <2> QED
    BY <2>1, <2>2
<1>5. CASE i \notin 1..m
  <2> DEFINE j == i - m
  <2>1. j \in 1..n /\ p[i] = l[j] /\ (j = n <=> i = m + n)
    BY <1>1, <1>5
  <2>2. ASSUME j # n PROVE p[i + 1] = l[j + 1]
    <3>1. j + 1 \in 1..n /\ m + (j + 1) = i + 1
      BY <1>1, <2>1, <2>2
    <3>2. p[m + (j + 1)] = l[j + 1]
      BY <1>1, <3>1
    <3> QED
      BY <3>1, <3>2
  <2> HIDE DEF j
  <2> QED
    BY <1>2, <2>1, <2>2
<1> QED
  BY <1>3, <1>4, <1>5

(* b is a with x after it.                                                 *)
AppendedTo(b, a, x) ==
  /\ Len(a) \in Nat /\ Len(b) = Len(a) + 1 /\ b[Len(a) + 1] = x
  /\ \A i \in 1..Len(a) : b[i] = a[i]

(* b has, after a, the command that q begins with, if it is for this slave.*)
Taken(b, a, q) ==
  IF 1 \in Mine(q) THEN AppendedTo(b, a, OrderAt(q, 1)) ELSE b = a

(* p has the commands of q, of length m, and then that of l.               *)
Joined(p, q, m, l) ==
  /\ m \in Nat /\ m = Len(q) /\ Mine(q) \subseteq 1..m
  /\ \A i \in Mine(q) : i \in Mine(p) /\ OrderAt(p, i) = OrderAt(q, i)
  /\ \A j \in Mine(p) : j \in Mine(q) \/ (j = m + 1 /\ 1 \in Mine(l))
  /\ 1 \in Mine(l) => m + 1 \in Mine(p) /\ OrderAt(p, m + 1) = OrderAt(l, 1)

LEMMA LongerMine ==
  ASSUME NEW q, WellFormed(q), NEW l, Line(l), NEW p, p = q \o l, NEW m, m = Len(q)
  PROVE  Joined(p, q, m, l)
<1>0. q \in Seq(Words) /\ l \in Seq(Words) /\ WellFormed(l)
  BY DEF WellFormed, Line
<1>1. /\ p \in Seq(Words) /\ Len(p) = m + Len(l) /\ m \in Nat /\ Len(l) \in Nat
      /\ \A i \in 1..m : i \in 1..Len(p) /\ p[i] = q[i]
      /\ \A i \in 1..Len(l) : m + i \in 1..Len(p) /\ p[m + i] = l[i]
      /\ \A i \in 1..Len(p) : i \in 1..m \/ (i - m \in 1..Len(l) /\ p[i] = l[i - m])
  BY <1>0, LongerIndex
<1>2. Mine(q) \subseteq 1..m
  BY DEF Mine
<1>3. ASSUME NEW i \in Mine(q) PROVE i \in Mine(p) /\ OrderAt(p, i) = OrderAt(q, i)
  <2>1. i \in Mine(p)
    BY <1>1 DEF Mine
  <2>2. i + 1 \in 1..m /\ i + 2 \in 1..m
    BY MineOrder
  <2>3. p[i + 1] = q[i + 1] /\ p[i + 2] = q[i + 2]
    BY <1>1, <2>2
  <2> QED
    BY <2>1, <2>3 DEF OrderAt
<1>4. ASSUME NEW j \in Mine(p), j \notin 1..m PROVE j = m + 1 /\ 1 \in Mine(l)
  <2>1. j - m \in 1..Len(l) /\ l[j - m] = Word("id", Me) /\ j \in Int
    BY <1>1, <1>4 DEF Mine
  <2>2. l[j - m].k = "id"
    BY <2>1, WordForms, BoundsAssumption
  <2>3. j - m = 1
    BY <2>1, <2>2 DEF Line
  <2>4. j = m + 1
    BY <1>1, <2>1, <2>3
  <2> QED
    BY <2>1, <2>3, <2>4 DEF Mine
<1>5. ASSUME NEW j \in Mine(p), j \in 1..m PROVE j \in Mine(q)
  BY <1>1, <1>5 DEF Mine
<1>6. ASSUME 1 \in Mine(l) PROVE m + 1 \in Mine(p) /\ OrderAt(p, m + 1) = OrderAt(l, 1)
  <2>1. 1 \in 1..Len(l) /\ l[1] = Word("id", Me)
    BY <1>6 DEF Mine
  <2>2. m + 1 \in Mine(p)
    BY <1>1, <2>1 DEF Mine
  <2>3. 1 + 1 \in 1..Len(l) /\ 1 + 2 \in 1..Len(l)
    BY <1>0, <1>6, MineOrder
  <2>4. p[m + (1 + 1)] = l[1 + 1] /\ p[m + (1 + 2)] = l[1 + 2]
    BY <1>1, <2>3
  <2>5. m + (1 + 1) = (m + 1) + 1 /\ m + (1 + 2) = (m + 1) + 2
    BY <1>1
  <2> QED
    BY <2>2, <2>4, <2>5 DEF OrderAt
<1> QED
  BY <1>1, <1>2, <1>3, <1>4, <1>5, <1>6 DEF Joined

(* The numbers after a line joined the stream.                             *)

Renumbered(p, q, no, n) == [j \in Mine(p) |-> IF j \in Mine(q) THEN no[j] ELSE n]

LEMMA LongerNumbered ==
  ASSUME NEW q, WellFormed(q), NEW l, Line(l), NEW p, p = q \o l,
         NEW a, NEW b, Len(a) \in Nat, Taken(b, a, l), NEW no, Numbered(q, no, a)
  PROVE  Numbered(p, Renumbered(p, q, no, Len(a) + 1), b)
<1> DEFINE new == Renumbered(p, q, no, Len(a) + 1)
           m == Len(q)
           n == Len(a)
<1>0. m = Len(q) /\ n \in Nat
  OBVIOUS
<1> HIDE DEF new, m
<1>1. /\ m \in Nat /\ n \in Nat /\ Mine(q) \subseteq 1..m
      /\ \A i \in Mine(q) : i \in Mine(p) /\ OrderAt(p, i) = OrderAt(q, i)
      /\ \A j \in Mine(p) : j \in Mine(q) \/ (j = m + 1 /\ 1 \in Mine(l))
      /\ 1 \in Mine(l) => m + 1 \in Mine(p) /\ OrderAt(p, m + 1) = OrderAt(l, 1)
  <2>1. Joined(p, q, m, l)
    BY <1>0, LongerMine, Zenon
  <2> QED
    BY <1>0, <2>1 DEF Joined
<1>2. \A j \in Mine(p) : new[j] = IF j \in Mine(q) THEN no[j] ELSE n + 1
  BY DEF Renumbered, new
<1>3. \A i \in Mine(q) : no[i] \in 1..n /\ a[no[i]] = OrderAt(q, i)
  BY DEF Numbered
<1>4. \A i, j \in Mine(q) : i < j => no[i] < no[j]
  BY DEF Numbered
<1>5. ASSUME NEW j \in Mine(p) PROVE new[j] \in 1..Len(b) /\ b[new[j]] = OrderAt(p, j)
  <2>1. CASE j \in Mine(q)
    <3>1. /\ new[j] = no[j] /\ no[j] \in 1..n /\ a[no[j]] = OrderAt(p, j)
      BY <1>1, <1>2, <1>3, <2>1
    <3>2. no[j] \in 1..Len(b) /\ b[no[j]] = a[no[j]]
      BY <1>1, <3>1 DEF Taken, AppendedTo
    <3> QED
      BY <3>1, <3>2
  <2>2. CASE j \notin Mine(q)
    <3>1. j = m + 1 /\ 1 \in Mine(l) /\ new[j] = n + 1 /\ OrderAt(p, j) = OrderAt(l, 1)
      BY <1>1, <1>2, <2>2
    <3>2. Len(b) = n + 1 /\ b[n + 1] = OrderAt(l, 1)
      BY <3>1 DEF Taken, AppendedTo
    <3> QED
      BY <1>1, <3>1, <3>2
  <2> QED
    BY <2>1, <2>2
<1>6. ASSUME NEW i \in Mine(p), NEW j \in Mine(p), i < j PROVE new[i] < new[j]
  <2>1. CASE j \in Mine(q)
    <3>1. i # m + 1
      BY <1>1, <1>6, <2>1
    <3>2. i \in Mine(q)
      BY <1>1, <3>1
    <3> QED
      BY <1>2, <1>4, <1>6, <2>1, <3>2
  <2>2. CASE j \notin Mine(q)
    <3>1. j = m + 1 /\ i # m + 1 /\ new[j] = n + 1
      BY <1>1, <1>2, <1>6, <2>2
    <3>2. i \in Mine(q) /\ new[i] = no[i] /\ no[i] \in 1..n
      BY <1>1, <1>2, <1>3, <3>1
    <3> QED
      BY <1>1, <3>1, <3>2
  <2> QED
    BY <2>1, <2>2
<1>7. Numbered(p, new, b)
  BY <1>5, <1>6 DEF Numbered
<1> QED
  BY <1>7 DEF new

--------------------------------------------------------------------------------
(* What was served, what is on its way, what was asked *)

Placed(s, a, place) ==
  /\ place \in [1..Len(s) -> 1..Len(a)]
  /\ \A i \in 1..Len(s) : s[i] = a[place[i]]
  /\ \A i, j \in 1..Len(s) : i < j => place[i] < place[j]

Before(s, q, place, no) == \A i \in 1..Len(s), j \in Mine(q) : place[i] < no[j]

(* The commands in s, and after them those in q, are some of those in a.   *)
Faithful(q, s, a) ==
  /\ WellFormed(q)
  /\ \E no, place : Numbered(q, no, a) /\ Placed(s, a, place) /\ Before(s, q, place, no)

Prefix(s, a) == Len(s) <= Len(a) /\ \A k \in 1..Len(s) : s[k] = a[k]

Rest(q, no, m, n) ==
  /\ \A i \in Mine(q) : no[i] > m
  /\ \A k \in (m + 1)..n : \E i \in Mine(q) : no[i] = k

Whole(q) == q # <<>> => q[1].k \in {"id", "json"}

(* The commands in s, and after them those in q, are all those in a.       *)
Complete(q, s, a) ==
  /\ Whole(q) /\ Prefix(s, a)
  /\ \E no : Numbered(q, no, a) /\ Rest(q, no, Len(s), Len(a))

LEMMA LineSent ==
  ASSUME NEW q, NEW l, Line(l), NEW p, p = q \o l, NEW s, Len(s) \in Nat,
         NEW a, NEW b, Len(a) \in Nat, Taken(b, a, l), Faithful(q, s, a)
  PROVE  Faithful(p, s, b) /\ (Complete(q, s, a) => Complete(p, s, b))
<1>0. WellFormed(q)
  BY DEF Faithful
<1> DEFINE m == Len(q)
           n == Len(a)
           k == Len(s)
<1>a. m = Len(q) /\ n = Len(a) /\ k = Len(s) /\ n \in Nat /\ k \in Nat
  OBVIOUS
<1> HIDE DEF m
<1>1. /\ m \in Nat /\ n \in Nat /\ k \in Nat /\ Mine(q) \subseteq 1..m
      /\ \A j \in Mine(q) : j \in Mine(p)
      /\ \A j \in Mine(p) : j \in Mine(q) \/ (j = m + 1 /\ 1 \in Mine(l))
      /\ 1 \in Mine(l) => m + 1 \in Mine(p) /\ m + 1 \notin Mine(q)
  <2>1. Joined(p, q, m, l)
    BY <1>0, <1>a, LongerMine, Zenon
  <2> QED
    BY <1>a, <2>1 DEF Joined
<1>2. n <= Len(b) /\ Len(b) \in Nat /\ (\A i \in 1..n : i \in 1..Len(b) /\ b[i] = a[i])
      /\ Len(b) = (IF 1 \in Mine(l) THEN n + 1 ELSE n)
  BY <1>1 DEF Taken, AppendedTo
<1>3. WellFormed(p)
  BY <1>0, LongerFits
<1>4. ASSUME NEW no, Numbered(q, no, a)
      PROVE  /\ \A j \in Mine(p) : Renumbered(p, q, no, n + 1)[j] = IF j \in Mine(q) THEN no[j] ELSE n + 1
             /\ \A j \in Mine(q) : no[j] \in 1..n
  BY <1>4 DEF Renumbered, Numbered
<1>5. Faithful(p, s, b)
  <2>1. PICK no, place : Numbered(q, no, a) /\ Placed(s, a, place) /\ Before(s, q, place, no)
    BY DEF Faithful
  <2> DEFINE new == Renumbered(p, q, no, n + 1)
  <2>2. Numbered(p, new, b)
    BY <1>0, <2>1, LongerNumbered
  <2>3. Placed(s, b, place)
    BY <1>1, <1>2, <2>1 DEF Placed
  <2>4. \A j \in Mine(p) : new[j] = IF j \in Mine(q) THEN no[j] ELSE n + 1
    BY <1>4, <2>1
  <2>5. \A i \in 1..k : place[i] \in 1..n
    BY <2>1 DEF Placed
  <2> HIDE DEF new
  <2>6. \A i \in 1..k, j \in Mine(p) : place[i] < new[j]
    BY <1>1, <2>1, <2>4, <2>5 DEF Before
  <2>7. Before(s, p, place, new)
    BY <2>6 DEF Before
  <2> QED
    BY <1>3, <2>2, <2>3, <2>7 DEF Faithful
<1>6. ASSUME Complete(q, s, a) PROVE Complete(p, s, b)
  <2>1. PICK no : Numbered(q, no, a) /\ Rest(q, no, k, n)
    BY <1>6 DEF Complete
  <2> DEFINE new == Renumbered(p, q, no, n + 1)
  <2>2. Numbered(p, new, b)
    BY <1>0, <2>1, LongerNumbered
  <2>3. \A j \in Mine(p) : new[j] = IF j \in Mine(q) THEN no[j] ELSE n + 1
    BY <1>4, <2>1
  <2> HIDE DEF new
  <2>4. k <= n /\ \A i \in 1..k : s[i] = a[i]
    BY <1>6 DEF Complete, Prefix
  <2>5. Prefix(s, b)
    BY <1>1, <1>2, <2>4 DEF Prefix
  <2>6. \A j \in Mine(p) : new[j] > k
    BY <1>1, <2>1, <2>3, <2>4 DEF Rest
  <2>7. ASSUME NEW i \in (k + 1)..Len(b) PROVE \E j \in Mine(p) : new[j] = i
    <3>1. CASE i <= n
      <4>1. i \in (k + 1)..n
        BY <1>1, <1>2, <3>1
      <4>2. PICK j \in Mine(q) : no[j] = i
        BY <2>1, <4>1 DEF Rest
      <4> QED
        BY <1>1, <2>3, <4>2
    <3>2. CASE ~(i <= n)
      <4>1. i = n + 1 /\ 1 \in Mine(l)
        BY <1>1, <1>2, <3>2
      <4> QED
        BY <1>1, <2>3, <4>1
    <3> QED
      BY <3>1, <3>2
  <2>8. Rest(p, new, k, Len(b))
    BY <2>6, <2>7 DEF Rest
  <2>9. Whole(p)
    <3>1. q \in Seq(Words) /\ l \in Seq(Words) /\ l # <<>> /\ l[1].k \in {"id", "json"}
      BY <1>0 DEF WellFormed, Line
    <3>2. CASE q = <<>>
      <4>1. p = l
        BY <3>1, <3>2, ConcatEmptySeq
      <4> QED
        BY <3>1, <4>1 DEF Whole
    <3>3. CASE q # <<>>
      <4>1. 1 \in 1..Len(q)
        BY <3>1, <3>3
      <4>2. p[1] = q[1]
        BY <3>1, <4>1, LongerIndex
      <4> QED
        BY <1>6, <3>3, <4>2 DEF Whole, Complete
    <3> QED
      BY <3>2, <3>3
  <2> QED
    BY <2>2, <2>5, <2>8, <2>9 DEF Complete
<1> QED
  BY <1>5, <1>6

LEMMA CutOff ==
  ASSUME NEW p, NEW q, NEW n, Dropped(p, q, n), NEW s, NEW a, Faithful(q, s, a)
  PROVE  Faithful(p, s, a)
<1>0. WellFormed(q)
  BY DEF Faithful
<1>1. PICK no, place : Numbered(q, no, a) /\ Placed(s, a, place) /\ Before(s, q, place, no)
  BY DEF Faithful
<1> DEFINE new == [i \in Mine(p) |-> no[i + n]]
<1>2. Numbered(p, new, a)
  BY <1>0, <1>1, DropNumbered
<1>3. \A i \in Mine(p) : new[i] = no[i + n]
  OBVIOUS
<1> HIDE DEF new
<1>4. \A i \in Mine(p) : i + n \in Mine(q)
  BY <1>0, DropMine
<1>5. Before(s, p, place, new)
  BY <1>1, <1>3, <1>4 DEF Before
<1>6. WellFormed(p)
  BY <1>0, DropFits
<1> QED
  BY <1>1, <1>2, <1>5, <1>6 DEF Faithful

(* p is q without its first line, of n words.                              *)
Ended(p, q, n) ==
  /\ Dropped(p, q, n) /\ n \in 1..Len(q) /\ q[n] = End
  /\ \A j \in Mine(q) : j = 1 \/ j > n

LEMMA EndedMine ==
  ASSUME NEW p, NEW q, NEW n, WellFormed(q), Ended(p, q, n),
         NEW no, NEW a, Numbered(q, no, a)
  PROVE  \E new : /\ Numbered(p, new, a)
                  /\ \A i \in Mine(p) : i + n \in Mine(q) /\ new[i] = no[i + n]
                  /\ \A j \in Mine(q) : j = 1 \/ (j - n \in Mine(p) /\ new[j - n] = no[j])
                  /\ 1 \in Mine(q) => \A i \in Mine(p) : no[1] < new[i]
<1> DEFINE new == [i \in Mine(p) |-> no[i + n]]
<1>0. Dropped(p, q, n) /\ n \in 1..Len(q)
  BY DEF Ended
<1>1. Numbered(p, new, a)
  BY <1>0, DropNumbered
<1>2. \A i \in Mine(p) : new[i] = no[i + n]
  OBVIOUS
<1> HIDE DEF new
<1>3. \A i \in Mine(p) : i + n \in Mine(q)
  BY <1>0, DropMine
<1>4. ASSUME NEW j \in Mine(q), j # 1 PROVE j - n \in Mine(p) /\ new[j - n] = no[j]
  <2>1. j > n
    BY <1>4 DEF Ended
  <2>2. j - n \in Mine(p)
    BY <1>0, <2>1, DropMine
  <2>3. (j - n) + n = j
    BY <1>0 DEF Mine
  <2> QED
    BY <1>2, <2>2, <2>3
<1>5. ASSUME 1 \in Mine(q), NEW i \in Mine(p) PROVE no[1] < new[i]
  <2>1. 1 < i + n
    BY <1>0 DEF Mine
  <2> QED
    BY <1>2, <1>3, <1>5, <2>1 DEF Numbered
<1> QED
  BY <1>1, <1>2, <1>3, <1>4, <1>5

LEMMA LineServed ==
  ASSUME NEW p, NEW q, NEW n, Ended(p, q, n), NEW s, NEW t, Len(s) \in Nat, Taken(t, s, q),
         NEW a, Len(a) \in Nat, Faithful(q, s, a)
  PROVE  Faithful(p, t, a) /\ (Complete(q, s, a) => Complete(p, t, a))
<1>0. WellFormed(q) /\ Dropped(p, q, n) /\ n \in 1..Len(q)
  BY DEF Faithful, Ended
<1> DEFINE k == Len(s)
<1>1. k \in Nat /\ k = Len(s)
  OBVIOUS
<1> HIDE DEF k
<1>2. WellFormed(p)
  BY <1>0, DropFits
<1>3. Faithful(p, t, a)
  <2>1. PICK no, place : Numbered(q, no, a) /\ Placed(s, a, place) /\ Before(s, q, place, no)
    BY DEF Faithful
  <2>2. PICK new : /\ Numbered(p, new, a)
                   /\ \A i \in Mine(p) : i + n \in Mine(q) /\ new[i] = no[i + n]
                   /\ \A j \in Mine(q) : j = 1 \/ (j - n \in Mine(p) /\ new[j - n] = no[j])
                   /\ 1 \in Mine(q) => \A i \in Mine(p) : no[1] < new[i]
    BY <1>0, <2>1, EndedMine
  <2>3. Before(s, p, place, new)
    BY <2>1, <2>2 DEF Before
  <2>4. CASE 1 \notin Mine(q)
    <3>1. t = s
      BY <2>4 DEF Taken
    <3> QED
      BY <1>2, <2>1, <2>2, <2>3, <3>1 DEF Faithful
  <2>5. CASE 1 \in Mine(q)
    <3> DEFINE r == [i \in 1..Len(t) |-> IF i \in 1..k THEN place[i] ELSE no[1]]
    <3>1. Len(t) = k + 1 /\ t[k + 1] = OrderAt(q, 1) /\ \A i \in 1..k : t[i] = s[i]
      BY <1>1, <2>5 DEF Taken, AppendedTo
    <3>2. no[1] \in 1..Len(a) /\ a[no[1]] = OrderAt(q, 1)
      BY <2>1, <2>5 DEF Numbered
    <3>3. /\ \A i \in 1..k : place[i] \in 1..Len(a) /\ place[i] < no[1] /\ s[i] = a[place[i]]
          /\ \A i, j \in 1..k : i < j => place[i] < place[j]
      BY <1>1, <2>1, <2>5 DEF Placed, Before
    <3>4. \A i \in 1..Len(t) : i \in 1..k \/ i = k + 1
      BY <1>1, <3>1
    <3>5. \A i \in 1..Len(t) : r[i] = IF i \in 1..k THEN place[i] ELSE no[1]
      OBVIOUS
    <3>6. r \in [1..Len(t) -> 1..Len(a)]
      BY <3>2, <3>3
    <3> HIDE DEF r
    <3>7. k + 1 \notin 1..k
      BY <1>1
    <3>8. \A i \in 1..Len(t) : t[i] = a[r[i]]
      BY <3>1, <3>2, <3>3, <3>4, <3>5, <3>7
    <3>9. ASSUME NEW i \in 1..Len(t), NEW j \in 1..Len(t), i < j PROVE r[i] < r[j]
      <4>1. i \in 1..k
        BY <1>1, <3>1, <3>9
      <4> QED
        BY <3>3, <3>4, <3>5, <3>9, <4>1
    <3>10. Placed(t, a, r)
      BY <3>6, <3>8, <3>9 DEF Placed
    <3>11. ASSUME NEW i \in 1..Len(t), NEW j \in Mine(p) PROVE r[i] < new[j]
      BY <1>1, <2>2, <2>3, <2>5, <3>5 DEF Before
    <3>12. Before(t, p, r, new)
      BY <3>11 DEF Before
    <3> QED
      BY <1>2, <2>2, <3>10, <3>12 DEF Faithful
  <2> QED
    BY <2>4, <2>5
<1>4. ASSUME Complete(q, s, a) PROVE Complete(p, t, a)
  <2>1. PICK no : Numbered(q, no, a) /\ Rest(q, no, k, Len(a))
    BY <1>1, <1>4 DEF Complete
  <2>2. PICK new : /\ Numbered(p, new, a)
                   /\ \A i \in Mine(p) : i + n \in Mine(q) /\ new[i] = no[i + n]
                   /\ \A j \in Mine(q) : j = 1 \/ (j - n \in Mine(p) /\ new[j - n] = no[j])
                   /\ 1 \in Mine(q) => \A i \in Mine(p) : no[1] < new[i]
    BY <1>0, <2>1, EndedMine
  <2>3. /\ \A i \in Mine(q) : no[i] > k
        /\ \A i \in (k + 1)..Len(a) : \E j \in Mine(q) : no[j] = i
        /\ \A j \in Mine(q) : no[j] \in 1..Len(a)
    BY <2>1 DEF Rest, Numbered
  <2>4. k <= Len(a) /\ \A i \in 1..k : s[i] = a[i]
    BY <1>1, <1>4 DEF Complete, Prefix
  <2>5. Whole(p)
    <3> SUFFICES ASSUME p # <<>> PROVE p[1].k \in {"id", "json"}
      BY DEF Whole
    <3>1. p \in Seq(Words) /\ Len(q) = Len(p) + n
      BY <1>0 DEF Dropped
    <3>2. 1 \in 1..Len(p)
      BY <3>1
    <3>3. p[1] = q[1 + n] /\ 1 + n \in 1..Len(q)
      BY <1>0, <3>2, DropIndex
    <3>4. n # Len(q) /\ 1 + n = n + 1
      BY <1>0, <3>1, <3>2
    <3>5. Fits(q[n], q[n + 1]) /\ q[n] = End
      BY <1>0, <3>4 DEF WellFormed, Ended
    <3> QED
      BY <3>3, <3>4, <3>5 DEF Fits
  <2>6. CASE 1 \notin Mine(q)
    <3>1. t = s
      BY <2>6 DEF Taken
    <3>2. \A i \in (k + 1)..Len(a) : \E j \in Mine(p) : new[j] = i
      BY <2>2, <2>3, <2>6
    <3>3. Rest(p, new, Len(t), Len(a))
      BY <1>1, <2>2, <2>3, <3>1, <3>2 DEF Rest
    <3> QED
      BY <1>4, <2>2, <2>5, <3>1, <3>3 DEF Complete
  <2>7. CASE 1 \in Mine(q)
    <3>1. Len(t) = k + 1 /\ t[k + 1] = OrderAt(q, 1) /\ \A i \in 1..k : t[i] = s[i]
      BY <1>1, <2>7 DEF Taken, AppendedTo
    <3>2. no[1] = k + 1 /\ k + 1 <= Len(a)
      <4>1. no[1] > k /\ no[1] \in 1..Len(a)
        BY <2>3, <2>7
      <4>2. k + 1 \in (k + 1)..Len(a)
        BY <1>1, <4>1
      <4>3. PICK j \in Mine(q) : no[j] = k + 1
        BY <2>3, <4>2
      <4>4. CASE j = 1
        BY <1>1, <4>1, <4>3, <4>4
      <4>5. CASE j # 1
        <5>1. j - n \in Mine(p) /\ new[j - n] = no[j] /\ no[1] < new[j - n]
          BY <2>2, <2>7, <4>5
        <5> QED
          BY <1>1, <4>1, <4>3, <5>1
      <4> QED
        BY <4>4, <4>5
    <3>3. a[k + 1] = OrderAt(q, 1)
      BY <2>1, <2>7, <3>2 DEF Numbered
    <3>4. Prefix(t, a)
      <4>1. \A i \in 1..(k + 1) : i \in 1..k \/ i = k + 1
        BY <1>1
      <4> QED
        BY <2>4, <3>1, <3>2, <3>3, <4>1 DEF Prefix
    <3>5. ASSUME NEW i \in (k + 2)..Len(a) PROVE \E j \in Mine(p) : new[j] = i
      <4>1. i \in (k + 1)..Len(a) /\ i # k + 1
        BY <1>1
      <4>2. PICK j \in Mine(q) : no[j] = i
        BY <2>3, <4>1
      <4>3. j # 1
        BY <3>2, <4>1, <4>2
      <4> QED
        BY <2>2, <4>2, <4>3
    <3>6. Rest(p, new, k + 1, Len(a))
      <4>1. (k + 1) + 1 = k + 2
        BY <1>1
      <4>2. \A i \in Mine(p) : new[i] > k + 1
        BY <2>2, <2>7, <3>2
      <4> QED
        BY <3>5, <4>1, <4>2 DEF Rest
    <3> QED
      BY <2>2, <2>5, <3>1, <3>4, <3>6 DEF Complete
  <2> QED
    BY <2>6, <2>7
<1> QED
  BY <1>3, <1>4

--------------------------------------------------------------------------------
(* A word that moves on *)

Associate(a, b, c) == (a \o b) \o c = a \o (b \o c)

LEMMA Associates == \A a, b, c \in Seq(Words) : Associate(a, b, c)
BY ConcatAssociative DEF Associate

LEMMA Joins == \A a, b \in Seq(Words) : a \o b \in Seq(Words)
BY ConcatProperties

Concat(p, q, l) ==
  /\ p \in Seq(Words) /\ Len(p) = Len(q) + Len(l) /\ Len(l) \in Nat
  /\ \A i \in 1..Len(q) : p[i] = q[i]
  /\ \A i \in 1..Len(l) : p[Len(q) + i] = l[i]

LEMMA Concatenated ==
  ASSUME NEW q \in Seq(Words), NEW l \in Seq(Words), NEW p, p = q \o l
  PROVE  Concat(p, q, l)
BY LongerIndex DEF Concat

LEMMA OneFirst ==
  ASSUME NEW r \in Seq(Words), NEW q \in Seq(Words), NEW t \in Seq(Words), NEW p, p = q \o t,
         Len(q) = 1, q[1] = r[1], Len(r) = Len(t) + 1, \A i \in 1..Len(t) : t[i] = r[i + 1]
  PROVE  r = p
<1>0. Concat(p, q, t)
  BY Concatenated, Zenon
<1>1. /\ p \in Seq(Words) /\ Len(p) = Len(q) + Len(t) /\ Len(t) \in Nat
      /\ \A i \in 1..Len(q) : p[i] = q[i]
      /\ \A i \in 1..Len(t) : p[Len(q) + i] = t[i]
  BY <1>0 DEF Concat
<1>2. ASSUME NEW i \in 1..Len(r) PROVE r[i] = p[i]
  <2>1. CASE i = 1
    BY <1>1, <2>1
  <2>2. CASE i # 1
    <3>1. i - 1 \in 1..Len(t) /\ (i - 1) + 1 = i /\ Len(q) + (i - 1) = i
      BY <1>1, <2>2
    <3>2. t[i - 1] = r[(i - 1) + 1] /\ p[Len(q) + (i - 1)] = t[i - 1]
      BY <1>1, <3>1
    <3> QED
      BY <3>1, <3>2
  <2> QED
    BY <2>1, <2>2
<1>3. Len(r) = Len(p)
  BY <1>1
<1> QED
  BY <1>1, <1>2, <1>3, SeqEqual

LEMMA HeadFirst ==
  ASSUME NEW r \in Seq(Words), r # <<>>
  PROVE  /\ Head(r) \in Words /\ Tail(r) \in Seq(Words) /\ <<Head(r)>> \in Seq(Words)
         /\ r = <<Head(r)>> \o Tail(r)
<1> DEFINE h == Head(r)
           t == Tail(r)
           q == <<h>>
<1>1. /\ h \in Words /\ t \in Seq(Words) /\ Len(t) = Len(r) - 1 /\ h = r[1]
      /\ Len(r) \in Nat /\ \A i \in 1..Len(t) : t[i] = r[i + 1]
  BY HeadTailProperties
<1>2. q \in Seq(Words) /\ Len(q) = 1 /\ q[1] = r[1]
  BY <1>1
<1> HIDE DEF h, t, q
<1>3. Len(r) = Len(t) + 1
  BY <1>1
<1>4. r = q \o t
  BY <1>1, <1>2, <1>3, OneFirst, Zenon
<1> QED
  BY <1>1, <1>2, <1>4 DEF h, t, q

(* b, r and x hold the words of a stream, whose first in r moves on.       *)
LEMMA Onward ==
  ASSUME NEW b \in Seq(Words), NEW r \in Seq(Words), NEW x \in Seq(Words), r # <<>>
  PROVE  /\ Append(b, Head(r)) \o (Tail(r) \o x) = b \o (r \o x)
         /\ <<Head(r)>> \o (Tail(r) \o x) = r \o x
<1> DEFINE h == <<Head(r)>>
           t == Tail(r)
<1>1. h \in Seq(Words) /\ t \in Seq(Words) /\ r = h \o t /\ Append(b, Head(r)) = b \o h
  BY HeadFirst, Appended
<1> HIDE DEF h, t
<1> DEFINE e == t \o x
<1>2. e \in Seq(Words)
  BY <1>1, Joins, Zenon
<1>3. Associate(h, t, x)
  BY <1>1, Associates, Zenon
<1>4. h \o e = r \o x
  BY <1>1, <1>3, Zenon DEF Associate
<1> HIDE DEF e
<1>5. Associate(b, h, e)
  BY <1>1, <1>2, Associates, Zenon
<1>6. (b \o h) \o e = b \o (r \o x)
  BY <1>4, <1>5, Zenon DEF Associate
<1> QED
  BY <1>1, <1>4, <1>6, Zenon DEF h, t, e

LEMMA Delivered ==
  ASSUME NEW r \in Seq(Words), NEW x \in Seq(Words), x # <<>>
  PROVE  Append(r, Head(x)) \o Tail(x) = r \o x
<1> DEFINE h == <<Head(x)>>
           t == Tail(x)
<1>1. h \in Seq(Words) /\ t \in Seq(Words) /\ x = h \o t /\ Append(r, Head(x)) = r \o h
  BY HeadFirst, Appended
<1> HIDE DEF h, t
<1>2. Associate(r, h, t)
  BY <1>1, Associates, Zenon
<1> QED
  BY <1>1, <1>2, Zenon DEF Associate, h, t

Starts(q, f) == q \in Seq(Words) /\ \A i \in 1..Len(f) : q[i] = f[i]

LEMMA FrontDropped ==
  ASSUME NEW f \in Seq(Words), NEW p \in Seq(Words), NEW q, q = f \o p
  PROVE  Dropped(p, q, Len(f)) /\ Starts(q, f)
<1>1. /\ q \in Seq(Words) /\ Len(q) = Len(f) + Len(p) /\ Len(f) \in Nat /\ Len(p) \in Nat
      /\ \A i \in 1..Len(f) : q[i] = f[i]
      /\ \A i \in 1..Len(p) : q[Len(f) + i] = p[i]
  BY LongerIndex
<1>2. \A i \in 1..Len(p) : Len(f) + i = i + Len(f)
  BY <1>1
<1>3. \A i \in 1..Len(p) : p[i] = q[i + Len(f)]
  BY <1>1, <1>2
<1> QED
  BY <1>1, <1>3 DEF Dropped, Starts

--------------------------------------------------------------------------------
(* The stream of the sketch *)

Stream == buf \o (rx \o bus)

LEMMA StreamTyped ==
  ASSUME Typed
  PROVE  Stream \in Seq(Words) /\ rx \o bus \in Seq(Words) /\ Len(served) \in Nat /\ Len(asked) \in Nat
<1>1. bus \in Seq(Words) /\ rx \in Seq(Words) /\ buf \in Seq(Words)
  BY DEF Typed
<1>2. rx \o bus \in Seq(Words)
  BY <1>1, Joins, Zenon
<1>3. buf \o (rx \o bus) \in Seq(Words)
  BY <1>1, <1>2, Joins, Zenon
<1>4. Len(served) \in Nat /\ Len(asked) \in Nat
  BY DEF Typed
<1> QED
  BY <1>2, <1>3, <1>4 DEF Stream

(* What a step does to the stream and to what was served.                  *)
Unmoved == UNCHANGED <<Stream, served, asked>>
Cut == \E n : Dropped(Stream', Stream, n) /\ UNCHANGED <<served, asked>> /\ harmed' # {}
Obeyed == \E n : Ended(Stream', Stream, n) /\ Taken(served', served, Stream) /\ UNCHANGED asked
Sent == \E l : Line(l) /\ Stream' = Stream \o l /\ Taken(asked', asked, l) /\ UNCHANGED served

(* The line in b is processed, which is the first of the stream q.         *)
LEMMA ProcessTaken ==
  ASSUME Typed, NEW q, WellFormed(q), NEW b \in Seq(Words), Process(b), b # <<>>,
         \A i \in 1..Len(b) : q[i] = b[i] /\ b[i] # End, q[Len(b) + 1] = End, Len(b) + 1 \in 1..Len(q)
  PROVE  Taken(served', served, q)
<1>1. 1 \in 1..Len(b) /\ 1 \in 1..Len(q) /\ q[1] = b[1] /\ Len(b) \in Nat /\ Len(q) \in Nat
  BY DEF WellFormed
<1>2. 1 \in Mine(q) <=> ForMe(b)
  BY <1>1 DEF Mine, ForMe
<1>3. CASE ~ForMe(b)
  <2>1. UNCHANGED served
    BY <1>3, Zenon DEF Process
  <2> QED
    BY <1>2, <1>3, <2>1 DEF Taken
<1>4. CASE ForMe(b)
  <2> DEFINE m == Len(b)
             x == OrderAt(q, 1)
  <2>0. m = Len(b) /\ x = OrderAt(q, 1) /\ m \in Nat
    BY <1>1
  <2> HIDE DEF m, x
  <2>1. /\ 1 + 1 = 2 /\ 1 + 2 = 3 /\ 1 + 3 = 4
        /\ 2 \in 1..Len(q) /\ q[2].k \in Ops \union {"PING"}
        /\ q[2].k = "PING" => 3 \in 1..Len(q) /\ q[3] = End
        /\ q[2].k # "PING" =>
             /\ 3 \in 1..Len(q) /\ q[3].k = "slot"
             /\ 4 \in 1..Len(q) /\ q[4] = End
    BY <1>2, <1>4, MineOrder
  <2>2. /\ q[m + 1].k = "end" /\ m >= 1
        /\ \A i \in 1..m : q[i] = b[i] /\ q[i].k # "end"
    <3>1. m >= 1 /\ \A i \in 1..m : i \in 1..Len(q)
      BY <1>1, <2>0
    <3>2. \A i \in 1..m : q[i] \in Words
      BY <3>1 DEF WellFormed
    <3> QED
      BY <2>0, <3>1, <3>2, WordForms, WordKinds
  <2>3. m # 1
    BY <2>1, <2>2 DEF Ops
  <2>4. 2 \in 1..m /\ b[2] = q[2]
    BY <2>0, <2>2, <2>3
  <2>5. ~(Len(b) > 1 /\ b[2].k = "id")
    BY <2>1, <2>4 DEF Ops
  <2>6. CASE q[2].k = "PING"
    <3>1. m = 2
      <4>1. CASE 3 \in 1..m
        BY <2>1, <2>2, <2>6, <4>1, WordForms
      <4> QED
        BY <2>0, <2>4, <4>1
    <3>2. IsPing(b)
      BY <2>0, <2>4, <2>6, <3>1 DEF IsPing
    <3>3. served' = Append(served, [to |-> Me, op |-> b[2].k, slot |-> 0])
      BY <1>4, <2>5, <3>2, Zenon DEF Process
    <3>4. x = [to |-> Me, op |-> b[2].k, slot |-> 0]
      BY <2>0, <2>1, <2>4, <2>6 DEF OrderAt
    <3>5. served \in Seq(Orders) /\ x \in Orders
      BY <2>1, <2>4, <3>4, BoundsAssumption DEF Typed, Orders
    <3>6. AppendedTo(served', served, x)
      BY <3>3, <3>4, <3>5, AppendProperties DEF AppendedTo
    <3> QED
      BY <1>2, <1>4, <2>0, <3>6 DEF Taken
  <2>7. CASE q[2].k # "PING"
    <3>1. m # 2
      BY <2>1, <2>2, <2>7
    <3>2. m = 3
      <4>1. CASE 4 \in 1..m
        BY <2>1, <2>2, <2>7, <4>1, WordForms
      <4> QED
        BY <2>0, <2>4, <3>1, <4>1
    <3>3. b[3] = q[3] /\ ~IsPing(b) /\ HasAction(b)
      BY <2>0, <2>1, <2>2, <2>4, <2>7, <3>2 DEF IsPing, HasAction
    <3>4. SlotIn(b) = b[3].v
      BY <2>0, <2>1, <2>7, <3>2, <3>3 DEF SlotIn
    <3>5. served' = Append(served, [to |-> Me, op |-> b[2].k, slot |-> SlotIn(b)])
      BY <1>4, <2>5, <3>3, Zenon DEF Process
    <3>6. x = [to |-> Me, op |-> b[2].k, slot |-> b[3].v]
      BY <2>0, <2>1, <2>4, <2>7, <3>3 DEF OrderAt
    <3>7. b[3].v \in Nat
      <4>1. b[3] \in Words
        <5>1. 3 \in 1..Len(b)
          BY <2>0, <3>2
        <5> QED
          BY <5>1
      <4> QED
        BY <4>1, WordKinds
    <3>8. served \in Seq(Orders) /\ x \in Orders
      BY <2>1, <2>4, <3>6, <3>7, BoundsAssumption DEF Typed, Orders
    <3>9. AppendedTo(served', served, x)
      BY <3>4, <3>5, <3>6, <3>8, AppendProperties DEF AppendedTo
    <3> QED
      BY <1>2, <1>4, <2>0, <3>9 DEF Taken
  <2> QED
    BY <2>6, <2>7
<1> QED
  BY <1>3, <1>4

(* A word is read: it joins the buffer, or ends the line in it, or finds   *)
(* its line cut off.                                                       *)
LEMMA ReadMoves ==
  ASSUME Typed, ReadWord, WellFormed(Stream)
  PROVE  (harmed' = harmed /\ (Unmoved \/ Obeyed)) \/ (harmed' = harmed \union {"cut"} /\ Cut)
<1> DEFINE q == Stream
           h == Head(rx)
           rest == Tail(rx) \o bus
           b == buf
           bh == Append(buf, Head(rx))
           n == Len(bh)
<1>1. /\ bus \in Seq(Words) /\ rx \in Seq(Words) /\ b \in Seq(Words) /\ rx # <<>>
      /\ UNCHANGED <<bus, asked>> /\ rx' = Tail(rx)
      /\ \A i \in 1..Len(b) : b[i] # End /\ (b[i] = Json => i = Len(b))
  BY DEF Typed, TypeOK, ReadWord, outside
<1>2. h \in Words /\ Tail(rx) \in Seq(Words) /\ <<h>> \in Seq(Words)
  BY <1>1, HeadFirst
<1>3. rest \in Seq(Words) /\ rx \o bus \in Seq(Words)
  BY <1>1, <1>2, Joins, Zenon
<1>4. bh \o rest = q /\ <<h>> \o rest = rx \o bus /\ q = b \o (rx \o bus)
  BY <1>1, Onward, Zenon DEF Stream
<1>5. OneMore(bh, b, h)
  BY <1>1, <1>2, Appended
<1>6. Stream' = buf' \o rest
  BY <1>1 DEF Stream
<1>7. WellFormed(q) /\ q \in Seq(Words)
  BY DEF WellFormed
<1>8. h # End =>
        /\ harmed' = (IF Kept = b THEN harmed ELSE harmed \union {"cut"})
        /\ buf' = Stored(Kept, h) /\ UNCHANGED served
  BY DEF ReadWord
<1>9. h = End =>
        /\ harmed' = (IF Kept = b THEN harmed ELSE harmed \union {"cut"})
        /\ IF Kept = <<>> THEN buf' = <<>> /\ UNCHANGED served ELSE Process(Kept) /\ buf' = <<>>
  BY DEF ReadWord, After
<1>10. Kept = b \/ (Kept = <<>> /\ b # <<>>)
  BY DEF Kept
<1>11. <<>> \o rest = rest
  BY <1>3, ConcatEmptySeq
<1> HIDE DEF h, rest, b, bh, q
<1>12. /\ bh \in Seq(Words) /\ Len(b) \in Nat /\ n = Len(b) + 1 /\ bh[n] = h
       /\ \A i \in 1..Len(b) : bh[i] = b[i]
  BY <1>1, <1>5 DEF OneMore
<1>13. Dropped(rest, q, n) /\ (\A i \in 1..n : q[i] = bh[i]) /\ Len(q) = Len(rest) + n /\ Len(rest) \in Nat
  <2>1. Dropped(rest, q, Len(bh)) /\ Starts(q, bh)
    BY <1>3, <1>4, <1>12, FrontDropped, Zenon
  <2> QED
    BY <1>3, <2>1 DEF Dropped, Starts
<1>14. q[n] = h /\ n \in 1..Len(q) /\ \A i \in 1..Len(b) : q[i] = b[i]
  BY <1>12, <1>13
<1>15. CASE Kept # b
  <2>1. Kept = <<>> /\ harmed' = harmed \union {"cut"} /\ UNCHANGED served
    BY <1>8, <1>9, <1>10, <1>15
  <2>2. CASE h = End
    <3>1. Stream' = rest
      BY <1>6, <1>9, <1>11, <2>1, <2>2
    <3>2. Dropped(Stream', Stream, n)
      BY <1>13, <3>1 DEF q
    <3> QED
      BY <1>1, <2>1, <3>2 DEF Cut
  <2>3. CASE h # End
    <3>1. buf' = <<h>>
      <4>1. Json \notin ToSet(<<>>)
        BY DEF ToSet
      <4> QED
        BY <1>2, <1>8, <2>1, <2>3, <4>1 DEF Stored
    <3>2. Stream' = rx \o bus
      BY <1>4, <1>6, <3>1, Zenon
    <3>3. Dropped(rx \o bus, q, Len(b))
      BY <1>1, <1>3, <1>4, FrontDropped, Zenon
    <3>4. Dropped(Stream', Stream, Len(b))
      BY <3>2, <3>3 DEF q
    <3> QED
      BY <1>1, <2>1, <3>4 DEF Cut
  <2> QED
    BY <2>2, <2>3
<1>16. CASE Kept = b /\ h # End
  <2>1. ASSUME Json \in ToSet(b) PROVE FALSE
    <3>1. PICK i \in 1..Len(b) : b[i] = Json
      BY <2>1 DEF ToSet
    <3>2. i = Len(b) /\ i + 1 = n /\ i \in 1..Len(q) /\ i # Len(q) /\ q[i] = Json
      BY <1>1, <1>12, <1>14, <3>1
    <3>3. Fits(q[i], q[i + 1])
      BY <1>7, <3>2 DEF WellFormed
    <3>4. h = End
      BY <1>14, <3>2, <3>3, WordForms DEF Fits
    <3> QED
      BY <1>16, <3>4
  <2>2. buf' = bh
    BY <1>8, <1>16, <2>1 DEF Stored, b, bh, h
  <2>3. Stream' = Stream
    BY <1>4, <1>6, <2>2 DEF q
  <2>4. Unmoved /\ harmed' = harmed
    BY <1>1, <1>8, <1>16, <2>3 DEF Unmoved
  <2> QED
    BY <2>4
<1>17. CASE Kept = b /\ h = End
  <2>1. harmed' = harmed /\ buf' = <<>>
    BY <1>9, <1>17
  <2>2. Stream' = rest
    BY <1>6, <1>11, <2>1, Zenon
  <2>3. ASSUME NEW j \in Mine(q), j # 1 PROVE j > n
    <3>1. j \in 1..Len(q) /\ q[j].k = "id" /\ Len(q) \in Nat
      BY <1>7, WordForms, BoundsAssumption DEF Mine, WellFormed
    <3> DEFINE i == j - 1
    <3>2. i \in 1..Len(q) /\ i # Len(q) /\ i + 1 = j
      BY <2>3, <3>1
    <3> HIDE DEF i
    <3>3. Fits(q[i], q[j]) /\ q[i] \in Words
      BY <1>7, <3>2 DEF WellFormed
    <3>4. q[i] = End
      BY <3>1, <3>3, WordKinds, WordForms DEF Fits, Ops
    <3>5. i \notin 1..Len(b)
      BY <1>1, <1>14, <3>4
    <3> QED
      BY <1>12, <3>1, <3>2, <3>5
  <2>4. Ended(Stream', Stream, n)
    BY <1>13, <1>14, <1>17, <2>2, <2>3 DEF Ended, q
  <2>5. Taken(served', served, q)
    <3>1. CASE b = <<>>
      <4>1. UNCHANGED served /\ n = 1 /\ q[1] = End
        BY <1>9, <1>12, <1>14, <1>17, <3>1
      <4>2. 1 \notin Mine(q)
        BY <4>1, WordForms, BoundsAssumption DEF Mine
      <4> QED
        BY <4>1, <4>2 DEF Taken
    <3>2. CASE b # <<>>
      <4>1. Process(b)
        BY <1>9, <1>17, <3>2, Zenon
      <4> QED
        BY <1>1, <1>7, <1>12, <1>14, <1>17, <3>2, <4>1, ProcessTaken
    <3> QED
      BY <3>1, <3>2
  <2>6. Obeyed
    BY <1>1, <2>4, <2>5 DEF Obeyed, q
  <2> QED
    BY <2>1, <2>6
<1> QED
  BY <1>10, <1>15, <1>16, <1>17

(* A line that is sent while the bus is quiet joins the stream.            *)
LEMMA LineJoins ==
  ASSUME Typed, NEW l \in Seq(Words), bus = <<>>, bus' = l, UNCHANGED <<rx, buf>>
  PROVE  Stream' = Stream \o l
<1>1. rx \in Seq(Words) /\ buf \in Seq(Words) /\ rx \o <<>> = rx
  BY ConcatEmptySeq DEF Typed
<1>2. Stream = buf \o rx /\ Stream' = buf \o (rx \o l)
  BY <1>1, Zenon DEF Stream
<1>3. Associate(buf, rx, l)
  BY <1>1, Associates, Zenon
<1> QED
  BY <1>2, <1>3, Zenon DEF Associate

LEMMA CommandLine ==
  ASSUME NEW c \in Commands, NEW l, l = WordsOf(c)
  PROVE  /\ Line(l) /\ l \in Seq(Words)
         /\ 1 \in Mine(l) <=> c.to = Me
         /\ c.to = Me => OrderAt(l, 1) = c
<1>1. /\ l \in Seq(Words) /\ c.to \in Nat /\ c.slot \in Nat
      /\ c.op \in Ops \union {"PING"}
      /\ l[1] = Word("id", c.to) /\ l[2] = Word(c.op, 0)
      /\ c.op = "PING" => Len(l) = 3 /\ l[3] = End /\ c.slot = 0
      /\ c.op # "PING" => Len(l) = 4 /\ l[3] = Word("slot", c.slot) /\ l[4] = End
  BY LineOf
<1>2. /\ l[1].k = "id" /\ l[1].v = c.to /\ l[2].k = c.op
      /\ c.op # "PING" => l[3].k = "slot" /\ l[3].v = c.slot
  BY <1>1, WordForms
<1>3. Fits(l[1], l[2])
  BY <1>1, <1>2, WordForms DEF Fits, Ops
<1>4. CASE c.op = "PING"
  <2>0. Len(l) = 3 /\ l[3] = End
    BY <1>1, <1>4
  <2>1. \A i \in 1..Len(l) : i = 1 \/ i = 2 \/ i = 3
    <3>1. \A i \in 1..3 : i = 1 \/ i = 2 \/ i = 3
      OBVIOUS
    <3> QED
      BY <2>0, <3>1
  <2>2. Fits(l[2], l[3])
    BY <1>1, <1>2, <1>4, WordForms DEF Fits, Ops
  <2>3. \A i \in 1..Len(l) : IF i = Len(l) THEN l[i] = End ELSE Fits(l[i], l[i + 1])
    <3>1. 1 + 1 = 2 /\ 2 + 1 = 3 /\ 1 # 3 /\ 2 # 3
      OBVIOUS
    <3> QED
      BY <1>3, <2>0, <2>1, <2>2, <3>1
  <2>4. \A i \in 1..Len(l) : i # 1 => l[i].k # "id"
    BY <1>1, <1>2, <1>4, <2>1, WordForms
  <2>5. Line(l)
    <3>1. l # <<>> /\ l[1].k \in {"id", "json"}
      BY <1>2, <2>0
    <3> QED
      BY <1>1, <2>3, <2>4, <3>1 DEF Line, WellFormed
  <2>6. 1 \in Mine(l) <=> c.to = Me
    <3>1. 1 \in 1..Len(l)
      BY <2>0
    <3>2. Word("id", c.to) = Word("id", Me) <=> c.to = Me
      BY <1>1, WordForms, BoundsAssumption
    <3> QED
      BY <1>1, <3>1, <3>2 DEF Mine
  <2>7. c = [to |-> c.to, op |-> c.op, slot |-> c.slot]
    BY CommandsAssumption
  <2>8. c.to = Me => OrderAt(l, 1) = c
    <3>1. OrderAt(l, 1) = [to |-> Me, op |-> c.op, slot |-> 0]
      BY <1>2, <1>4 DEF OrderAt
    <3> QED
      BY <1>1, <1>4, <2>7, <3>1
  <2> QED
    BY <1>1, <2>5, <2>6, <2>8
<1>5. CASE c.op # "PING"
  <2>0. Len(l) = 4 /\ l[4] = End
    BY <1>1, <1>5
  <2>1. \A i \in 1..Len(l) : i = 1 \/ i = 2 \/ i = 3 \/ i = 4
    <3>1. \A i \in 1..4 : i = 1 \/ i = 2 \/ i = 3 \/ i = 4
      OBVIOUS
    <3> QED
      BY <2>0, <3>1
  <2>2. Fits(l[2], l[3]) /\ Fits(l[3], l[4])
    BY <1>1, <1>2, <1>5, WordForms DEF Fits, Ops
  <2>3. \A i \in 1..Len(l) : IF i = Len(l) THEN l[i] = End ELSE Fits(l[i], l[i + 1])
    <3>1. 1 + 1 = 2 /\ 2 + 1 = 3 /\ 3 + 1 = 4 /\ 1 # 4 /\ 2 # 4 /\ 3 # 4
      OBVIOUS
    <3> QED
      BY <1>3, <2>0, <2>1, <2>2, <3>1
  <2>4. \A i \in 1..Len(l) : i # 1 => l[i].k # "id"
    BY <1>1, <1>2, <1>5, <2>1, WordForms DEF Ops
  <2>5. Line(l)
    <3>1. l # <<>> /\ l[1].k \in {"id", "json"}
      BY <1>2, <2>0
    <3> QED
      BY <1>1, <2>3, <2>4, <3>1 DEF Line, WellFormed
  <2>6. 1 \in Mine(l) <=> c.to = Me
    <3>1. 1 \in 1..Len(l)
      BY <2>0
    <3>2. Word("id", c.to) = Word("id", Me) <=> c.to = Me
      BY <1>1, WordForms, BoundsAssumption
    <3> QED
      BY <1>1, <3>1, <3>2 DEF Mine
  <2>7. c = [to |-> c.to, op |-> c.op, slot |-> c.slot]
    BY CommandsAssumption
  <2>8. c.to = Me => OrderAt(l, 1) = c
    <3>1. OrderAt(l, 1) = [to |-> Me, op |-> c.op, slot |-> c.slot]
      BY <1>2, <1>5 DEF OrderAt
    <3> QED
      BY <2>7, <3>1
  <2> QED
    BY <1>1, <2>5, <2>6, <2>8
<1> QED
  BY <1>4, <1>5

(* Nothing else happens to the words, as long as none is lost.             *)
LEMMA StepMoves ==
  ASSUME Typed, [Next]_vars, "lost" \notin harmed', "lost" \notin harmed => WellFormed(Stream)
  PROVE  /\ harmed \subseteq harmed'
         /\ Unmoved \/ Cut \/ Obeyed \/ Sent
<1>1. ASSUME UNCHANGED <<bus, rx, buf, asked, served, harmed>>
      PROVE  harmed \subseteq harmed' /\ Unmoved
  BY <1>1 DEF Unmoved, Stream
<1>2. CASE ReadWord
  <2>1. harmed \subseteq harmed'
    BY <1>2 DEF ReadWord
  <2>2. (harmed' = harmed /\ (Unmoved \/ Obeyed)) \/ (harmed' = harmed \union {"cut"} /\ Cut)
    BY <1>2, <2>1, ReadMoves
  <2> QED
    BY <2>1, <2>2
<1>3. CASE Arrive
  <2>1. /\ UNCHANGED <<buf, asked, served, harmed>>
        /\ bus # <<>> /\ bus' = Tail(bus) /\ rx' = Append(rx, Head(bus))
    BY <1>3 DEF Arrive
  <2>2. rx' \o bus' = rx \o bus
    BY <2>1, Delivered DEF Typed
  <2>3. Unmoved
    BY <2>1, <2>2, Zenon DEF Unmoved, Stream
  <2> QED
    BY <2>1, <2>3
<1>4. CASE OtherSpeaks
  <2> DEFINE l == <<Json, End>>
  <2>1. /\ bus = <<>> /\ bus' = l /\ UNCHANGED <<rx, buf, asked, served, harmed>>
    BY <1>4 DEF OtherSpeaks
  <2>2. l \in Seq(Words) /\ Len(l) = 2 /\ l[1] = Json /\ l[2] = End
    BY WordForms
  <2> HIDE DEF l
  <2>3. Fits(Json, End)
    BY WordForms DEF Fits, Ops
  <2>4. \A i \in 1..Len(l) : i = 1 \/ i = 2
    BY <2>2
  <2>5. Line(l)
    <3>1. \A i \in 1..Len(l) : IF i = Len(l) THEN l[i] = End ELSE Fits(l[i], l[i + 1])
      <4>1. 1 + 1 = 2 /\ 1 # 2
        OBVIOUS
      <4> QED
        BY <2>2, <2>3, <2>4, <4>1
    <3>2. \A i \in 1..Len(l) : i # 1 => l[i].k # "id"
      BY <2>2, <2>4, WordForms
    <3>3. l # <<>> /\ l[1].k \in {"id", "json"}
      BY <2>2, WordForms
    <3> QED
      BY <2>2, <3>1, <3>2, <3>3 DEF Line, WellFormed
  <2>6. Taken(asked', asked, l)
    <3>1. 1 \notin Mine(l)
      BY <2>2, WordForms, BoundsAssumption DEF Mine
    <3> QED
      BY <2>1, <3>1 DEF Taken
  <2>7. Stream' = Stream \o l
    BY <2>1, <2>2, LineJoins
  <2>8. Sent
    BY <2>1, <2>5, <2>6, <2>7 DEF Sent
  <2> QED
    BY <2>1, <2>8
<1>5. ASSUME NEW c \in Commands, CommandSent(c) PROVE harmed \subseteq harmed' /\ Sent
  <2> DEFINE l == WordsOf(c)
  <2>1. /\ bus = <<>> /\ bus' = l /\ UNCHANGED <<rx, buf, served, harmed>>
        /\ asked' = IF c.to = Me THEN Append(asked, c) ELSE asked
    BY <1>5 DEF CommandSent
  <2>2. /\ Line(l) /\ l \in Seq(Words)
        /\ 1 \in Mine(l) <=> c.to = Me
        /\ c.to = Me => OrderAt(l, 1) = c
    BY CommandLine
  <2> HIDE DEF l
  <2>3. asked \in Seq(Commands)
    BY DEF Typed
  <2>4. AppendedTo(Append(asked, c), asked, c)
    BY <2>3, AppendProperties DEF AppendedTo
  <2>5. Taken(asked', asked, l)
    BY <2>1, <2>2, <2>4 DEF Taken
  <2>6. Stream' = Stream \o l
    BY <2>1, <2>2, LineJoins
  <2> QED
    BY <2>1, <2>2, <2>5, <2>6 DEF Sent
<1>6. CASE Idle \/ PulseEnds \/ ReplySent \/ Poll \/ Look \/ LookAgain \/ EventSent
  BY <1>1, <1>6 DEF Idle, PulseEnds, ReplySent, Poll, Look, LookAgain, EventSent, outside
<1>7. CASE PollEnds \/ AliveSent \/ UNCHANGED vars
  BY <1>1, <1>7 DEF PollEnds, AliveSent, vars, outside
<1>8. ASSUME NEW s \in Slots, DoorMoves(s) PROVE harmed \subseteq harmed' /\ Unmoved
  BY <1>1, <1>8 DEF DoorMoves
<1> QED
  BY <1>2, <1>3, <1>4, <1>5, <1>6, <1>7, <1>8 DEF Next, Sketch

(* The invariant of both properties.                                       *)
StreamInv ==
  /\ Typed
  /\ "lost" \notin harmed => Faithful(Stream, served, asked)
  /\ harmed = {} => Complete(Stream, served, asked)

LEMMA StreamInit == Init => StreamInv
<1> SUFFICES ASSUME Init PROVE StreamInv
  OBVIOUS
<1> DEFINE q == Stream
<1>1. bus = <<>> /\ rx = <<>> /\ buf = <<>> /\ asked = <<>> /\ served = <<>>
  BY DEF Init
<1>2. Typed
  BY TypeInit
<1>3. <<>> \in Seq(Words) /\ <<>> \o <<>> = <<>>
  BY ConcatEmptySeq
<1>4. q = <<>>
  BY <1>1, <1>3, Zenon DEF Stream
<1> HIDE DEF q
<1>5. Len(q) = 0 /\ q \in Seq(Words) /\ Len(served) = 0 /\ Len(asked) = 0
  BY <1>1, <1>4
<1>6. 1..0 = {} /\ Mine(q) = {}
  BY <1>5 DEF Mine
<1>7. WellFormed(q)
  BY <1>5, <1>6 DEF WellFormed
<1> DEFINE none == [i \in 1..0 |-> 1]
<1>8. none \in [1..Len(served) -> 1..Len(asked)]
  BY <1>5, <1>6
<1> HIDE DEF none
<1>9. Numbered(q, none, asked)
  BY <1>6 DEF Numbered
<1>10. Placed(served, asked, none) /\ Before(served, q, none, none)
  BY <1>5, <1>6, <1>8 DEF Placed, Before
<1>11. Faithful(q, served, asked)
  BY <1>7, <1>9, <1>10 DEF Faithful
<1>12. Complete(q, served, asked)
  <2>1. Rest(q, none, Len(served), Len(asked))
    BY <1>5, <1>6 DEF Rest
  <2>2. Prefix(served, asked) /\ Whole(q)
    BY <1>4, <1>5, <1>6 DEF Prefix, Whole
  <2> QED
    BY <1>9, <2>1, <2>2 DEF Complete
<1> QED
  BY <1>2, <1>11, <1>12 DEF StreamInv, q

LEMMA StreamStep == StreamInv /\ [Next]_vars => StreamInv'
<1> SUFFICES ASSUME StreamInv, [Next]_vars PROVE StreamInv'
  OBVIOUS
<1>1. Typed /\ Typed'
  BY TypeStep DEF StreamInv
<1>2. Len(served) \in Nat /\ Len(asked) \in Nat
  BY <1>1, StreamTyped
<1>3. ASSUME "lost" \notin harmed'
      PROVE  /\ Faithful(Stream', served', asked')
             /\ harmed' = {} => Complete(Stream', served', asked')
  <2>1. ("lost" \notin harmed => WellFormed(Stream))
    BY DEF StreamInv, Faithful
  <2>2. harmed \subseteq harmed' /\ (Unmoved \/ Cut \/ Obeyed \/ Sent)
    BY <1>1, <1>3, <2>1, StepMoves
  <2>3. /\ Faithful(Stream, served, asked)
        /\ harmed' = {} => Complete(Stream, served, asked)
    BY <1>3, <2>2 DEF StreamInv
  <2>4. CASE Unmoved
    BY <2>3, <2>4 DEF Unmoved
  <2>5. CASE Cut
    <3>1. PICK n : Dropped(Stream', Stream, n) /\ UNCHANGED <<served, asked>> /\ harmed' # {}
      BY <2>5 DEF Cut
    <3>2. Faithful(Stream', served, asked)
      BY <2>3, <3>1, CutOff
    <3> QED
      BY <3>1, <3>2
  <2>6. CASE Obeyed
    <3>1. PICK n : Ended(Stream', Stream, n) /\ Taken(served', served, Stream) /\ UNCHANGED asked
      BY <2>6 DEF Obeyed
    <3>2. /\ Faithful(Stream', served', asked)
          /\ Complete(Stream, served, asked) => Complete(Stream', served', asked)
      BY <1>2, <2>3, <3>1, LineServed
    <3> QED
      BY <2>3, <3>1, <3>2
  <2>7. CASE Sent
    <3>1. PICK l : Line(l) /\ Stream' = Stream \o l /\ Taken(asked', asked, l) /\ UNCHANGED served
      BY <2>7 DEF Sent
    <3>2. /\ Faithful(Stream', served, asked')
          /\ Complete(Stream, served, asked) => Complete(Stream', served, asked')
      BY <1>2, <2>3, <3>1, LineSent
    <3> QED
      BY <2>3, <3>1, <3>2
  <2> QED
    BY <2>2, <2>4, <2>5, <2>6, <2>7
<1>4. harmed' = {} => "lost" \notin harmed'
  OBVIOUS
<1> QED
  BY <1>1, <1>3, <1>4 DEF StreamInv

(* As long as no word is lost, the sketch obeys nothing but what it was    *)
(* told, in the order in which it was told and once.                       *)
THEOREM ObeysInOrder == Spec => []DoesAsAsked
<1>1. StreamInv => DoesAsAsked
  <2> SUFFICES ASSUME StreamInv, "lost" \notin harmed PROVE Subsequence(served, asked)
    BY DEF DoesAsAsked
  <2>1. PICK no, place : Placed(served, asked, place)
    BY DEF StreamInv, Faithful
  <2> QED
    BY <2>1, Zenon DEF Placed, Subsequence
<1> QED
  BY StreamInit, StreamStep, <1>1, PTL DEF Spec

(* And when no gap cuts a line off either, at rest it has obeyed it all.   *)
THEOREM ObeysAll == Spec => []DoesAllAsked
<1>1. StreamInv => DoesAllAsked
  <2> SUFFICES ASSUME StreamInv, rx = <<>>, bus = <<>>, harmed = {} PROVE served = asked
    BY DEF DoesAllAsked
  <2>1. /\ buf \in Seq(Words) /\ \A i \in 1..Len(buf) : buf[i] # End
        /\ served \in Seq(Orders) /\ asked \in Seq(Commands)
    BY DEF StreamInv, Typed, Orders
  <2>2. Stream = buf
    <3>1. <<>> \o <<>> = <<>> /\ buf \o <<>> = buf
      BY <2>1, ConcatEmptySeq
    <3> QED
      BY <3>1, Zenon DEF Stream
  <2>3. WellFormed(buf) /\ Complete(buf, served, asked)
    BY <2>2 DEF StreamInv, Faithful
  <2>4. Len(buf) = 0
    <3>1. Len(buf) \in Nat
      BY <2>1
    <3>2. CASE Len(buf) # 0
      <4>1. Len(buf) \in 1..Len(buf)
        BY <3>1, <3>2
      <4> QED
        BY <2>1, <2>3, <4>1 DEF WellFormed
    <3> QED
      BY <3>2
  <2>5. Mine(buf) = {}
    BY <2>4 DEF Mine
  <2>6. PICK no : Rest(buf, no, Len(served), Len(asked))
    BY <2>3 DEF Complete
  <2>7. Len(served) <= Len(asked) /\ \A k \in 1..Len(served) : served[k] = asked[k]
    BY <2>3 DEF Complete, Prefix
  <2>8. \A k \in (Len(served) + 1)..Len(asked) : FALSE
    BY <2>5, <2>6 DEF Rest
  <2>9. Len(served) = Len(asked)
    <3>1. Len(served) \in Nat /\ Len(asked) \in Nat
      BY <2>1
    <3>2. CASE Len(served) < Len(asked)
      <4>1. Len(asked) \in (Len(served) + 1)..Len(asked)
        BY <3>1, <3>2
      <4> QED
        BY <2>8, <4>1
    <3> QED
      BY <2>7, <3>1, <3>2
  <2>10. Commands \subseteq Orders
    BY CommandsAssumption DEF Orders
  <2>11. asked \in Seq(Orders)
    BY <2>1, <2>10
  <2> QED
    BY <2>1, <2>7, <2>9, <2>11, SeqEqual
<1> QED
  BY StreamInit, StreamStep, <1>1, PTL DEF Spec
================================================================================
