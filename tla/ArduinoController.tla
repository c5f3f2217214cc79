--------------------------- MODULE ArduinoController ---------------------------
(***************************************************************************)
(* The sketch of one cabinet's Arduino                                     *)
(* (src/arduino/locker_controller/locker_controller.ino): one loop that    *)
(* reads commands from the bus, polls and debounces the doors, and sends   *)
(* ALIVE beats.  Whatever takes time blocks it.  Meanwhile words that      *)
(* arrive wait in the receive buffer of SoftwareSerial, which is deaf      *)
(* while the sketch sends; JSON of another slave, or many commands, may    *)
(* fill its 64 bytes, unless the loop is reading.                          *)
(*                                                                         *)
(* Time counts in units of SENSOR_POLL_MS, 100 ms, and only as long as     *)
(* something compares it.  A line needs less than a unit on the bus.  What *)
(* is read is words rather than characters: the address "S2:", an action,  *)
(* a digit, PING, JSON of another slave, the end of the line.  A word that *)
(* finds no room is lost as a whole.                                       *)
(***************************************************************************)
EXTENDS Naturals, Sequences, SequencesExt

CONSTANTS NumSlots,      \* NUM_SLOTS
          Me,            \* SLAVE_ID
          Commands,      \* [to, op, slot] records that the gateway sends
          RxWords,       \* words that the receive buffer has room for in any case
          MaxLines       \* bound: lines on the bus

Ops == {"T", "O", "C"}

(* A PING is about no slot.                                                *)
ASSUME CommandsAssumption ==
  Commands \subseteq [to : Nat, op : Ops, slot : Nat] \union [to : Nat, op : {"PING"}, slot : {0}]
ASSUME BoundsAssumption == /\ NumSlots \in Nat \ {0} /\ {Me, RxWords, MaxLines} \subseteq Nat

Slots == 0..(NumSlots - 1)

(* DEBOUNCE_MS, the 200 ms after which a command is given up, and how long *)
(* the sketch is busy; a pulse takes longer, which nothing notices.        *)
Debounce == 2
Gap == 2
Recheck == 1
Transmission == 3
Pulse == 4

VARIABLES bus,         \* words of the line on the bus, still to arrive
          rx,          \* receive buffer of SoftwareSerial
          buf,         \* cmdBuffer up to cmdIndex
          phase,       \* what the sketch is doing
          at,          \* the slot the poll looks at, NumSlots when through
          late,        \* time since the poll took the time
          due,         \* whether SENSOR_POLL_MS have passed
          quiet,       \* time since lastCharTime, up to Gap + 1; 0 with buf empty
          age,         \* time since lastDebounce, up to Debounce
          prev, doorClosed,     \* prevDoorClosed, doorClosed
          door,        \* the sensors: TRUE for a closed door
          lines,       \* how many so far
          found,       \* history: successive polls that found a door not as
                       \* reported, up to 2
          steady,      \* history: real time since a poll last found another
                       \* door state than the one before, up to Debounce
          asked, served,        \* history: commands for this slave, in order
          harmed       \* history: "lost" words, commands "cut" by the gap

time == <<late, due, quiet, age, steady>>
sensors == <<prev, doorClosed, found>>
outside == <<bus, door, lines, asked>>
vars == <<outside, rx, buf, phase, at, time, sensors, served, harmed>>

Word(k, v) == [k |-> k, v |-> v]
End == Word("end", 0)
Json == Word("json", 0)

Init == /\ bus = <<>> /\ rx = <<>> /\ buf = <<>>
        /\ phase = "loop" /\ at = 0
        /\ late = 0 /\ due = FALSE /\ quiet = 0
        /\ age = [s \in Slots |-> Debounce]
        /\ door \in [Slots -> BOOLEAN]
        /\ prev = door /\ doorClosed = door
        /\ found = [s \in Slots |-> 0] /\ steady = [s \in Slots |-> Debounce]
        /\ lines = 0
        /\ asked = <<>> /\ served = <<>> /\ harmed = {}

--------------------------------------------------------------------------------
(* Time *)

UpTo(max, n) == IF n < max THEN n ELSE max

(* d units pass; the ages of the doors follow when no poll is on.          *)
Pass(d) ==
  /\ bus = <<>>
  /\ quiet' = IF buf = <<>> THEN 0 ELSE UpTo(Gap + 1, quiet + d)
  /\ due' = TRUE
  /\ steady' = [s \in Slots |-> UpTo(Debounce, steady[s] + d)]

Aged(d) == [s \in Slots |-> UpTo(Debounce, age[s] + d)]

(* The loop turns without anything to do until the next poll.              *)
Idle ==
  /\ phase = "loop" /\ rx = <<>> /\ ~due
  /\ Pass(1)
  /\ age' = Aged(1)
  /\ UNCHANGED <<outside, rx, buf, phase, at, late, sensors, served, harmed>>

--------------------------------------------------------------------------------
(* Bus and doors *)

WordsOf(c) == <<Word("id", c.to), Word(c.op, 0)>>
                \o (IF c.op = "PING" THEN <<>> ELSE <<Word("slot", c.slot)>>) \o <<End>>

CommandSent(c) ==
  /\ bus = <<>> /\ lines < MaxLines
  /\ bus' = WordsOf(c)
  /\ lines' = lines + 1
  /\ asked' = IF c.to = Me THEN Append(asked, c) ELSE asked
  /\ UNCHANGED <<door, rx, buf, phase, at, time, sensors, served, harmed>>

(* Another slave answers, or reports something.                            *)
OtherSpeaks ==
  /\ bus = <<>> /\ lines < MaxLines
  /\ bus' = <<Json, End>>
  /\ lines' = lines + 1
  /\ UNCHANGED <<door, asked, rx, buf, phase, at, time, sensors, served, harmed>>

Sending == phase \in {"event", "alive", "reply"}
MayBeFull == phase # "loop" /\ (Json \in ToSet(rx) \/ Len(rx) >= RxWords)

(* Sending begins with text for the console, during which it is not deaf.  *)
Arrive ==
  /\ bus # <<>>
  /\ bus' = Tail(bus)
  /\ \/ (Sending \/ MayBeFull)
        /\ harmed' = harmed \union {"lost"} /\ UNCHANGED rx
     \/ rx' = Append(rx, Head(bus)) /\ UNCHANGED harmed
  /\ UNCHANGED <<door, lines, asked, buf, phase, at, time, sensors, served>>

(* Springs, users, bounces.                                                *)
DoorMoves(s) ==
  /\ door' = [door EXCEPT ![s] = ~@]
  /\ UNCHANGED <<bus, lines, asked, rx, buf, phase, at, time, sensors, served,
                 harmed>>

--------------------------------------------------------------------------------
(* Commands *)

(* atoi of what follows the action: what is not a number is 0.             *)
SlotIn(b) ==
  IF b[3].k # "slot" THEN 0
  ELSE IF Len(b) > 3 /\ b[4].k = "slot" THEN 10 * b[3].v + b[4].v
  ELSE b[3].v

(* Mistake: the address is not compared.                                   *)
ForAnyone(b) == b[1].k = "id"

ForMe(b) == b[1] = Word("id", Me)
IsPing(b) == Len(b) = 2 /\ b[2].k = "PING"
HasAction(b) == Len(b) > 2 /\ b[2].k \in Ops

(* processCommand: the answer to PING and to a slot that does not exist is *)
(* sent at once, a lock is switched first.  Other lines are ignored, but   *)
(* the number of an address in the place of the slot is looked at.         *)
Process(b) ==
  IF ForMe(b) /\ Len(b) > 1 /\ b[2].k = "id"
  THEN phase' = (IF b[2].v < NumSlots THEN phase ELSE "reply") /\ UNCHANGED served
  ELSE IF ForMe(b) /\ (IsPing(b) \/ HasAction(b))
  THEN LET slot == IF IsPing(b) THEN 0 ELSE SlotIn(b)
       IN  /\ served' = Append(served, [to |-> Me, op |-> b[2].k, slot |-> slot])
           /\ phase' = IF IsPing(b) \/ slot >= NumSlots THEN "reply" ELSE "pulse"
  ELSE UNCHANGED <<served, phase>>

(* Mistake: the size of cmdBuffer is not looked at.                        *)
StoredAnyway(b, w) == Append(b, w)

(* JSON fills cmdBuffer, whose excess is dropped.                          *)
Stored(b, w) == IF Json \in ToSet(b) THEN b ELSE Append(b, w)

(* Mistake: cmdIndex is not reset after a line that was ignored.           *)
IfObeyed(b) == IF ForMe(b) THEN <<>> ELSE b

(* cmdBuffer after its line was processed.                                 *)
After(b) == <<>>

(* After too long a silence the old command is over.                       *)
Kept == IF quiet > Gap THEN <<>> ELSE buf

ReadWord ==
  /\ phase = "loop" /\ rx # <<>>
  /\ rx' = Tail(rx)
  /\ quiet' = 0
  /\ harmed' = IF Kept = buf THEN harmed ELSE harmed \union {"cut"}
  /\ IF Head(rx) # End
     THEN buf' = Stored(Kept, Head(rx)) /\ UNCHANGED <<served, phase>>
     ELSE IF Kept = <<>> THEN buf' = Kept /\ UNCHANGED <<served, phase>>
     ELSE Process(Kept) /\ buf' = After(Kept)
  /\ UNCHANGED <<outside, at, late, due, age, steady, sensors>>

(* testSlot, openSlot and closeSlot wait and read the sensor.              *)
PulseEnds ==
  /\ phase = "pulse"
  /\ Pass(Pulse)
  /\ age' = Aged(Pulse)
  /\ phase' = "reply"
  /\ UNCHANGED <<outside, rx, buf, at, late, sensors, served, harmed>>

ReplySent ==
  /\ phase = "reply"
  /\ Pass(Transmission)
  /\ age' = Aged(Transmission)
  /\ phase' = "loop"
  /\ UNCHANGED <<outside, rx, buf, at, late, sensors, served, harmed>>

--------------------------------------------------------------------------------
(* pollMagneticSensors: all its comparisons use the time it began at *)

Poll ==
  /\ phase = "loop" /\ rx = <<>> /\ due
  /\ phase' = "poll"
  /\ at' = 0 /\ late' = 0 /\ due' = FALSE
  /\ UNCHANGED <<outside, rx, buf, quiet, age, steady, sensors, served, harmed>>

(* Mistake: a change resets the debounce timer and is not remembered.      *)
ForgetLook == prev

Remember == [prev EXCEPT ![at] = door[at]]

Changed == door[at] # prev[at]

(* Mistake: a change does not reset the debounce timer.                    *)
EverSince == age[at]

Since == IF Changed THEN 0 ELSE age[at]

Look ==
  /\ phase = "poll" /\ at < NumSlots
  /\ age' = [age EXCEPT ![at] = Since]
  /\ prev' = Remember
  /\ steady' = [steady EXCEPT ![at] = IF Changed THEN 0 ELSE @]
  /\ found' = [found EXCEPT ![at] = IF door[at] = doorClosed[at] THEN 0 ELSE UpTo(2, @ + 1)]
  /\ IF Since >= Debounce /\ door[at] # doorClosed[at]
     THEN phase' = "recheck" /\ UNCHANGED at
     ELSE at' = at + 1 /\ UNCHANGED phase
  /\ UNCHANGED <<outside, rx, buf, late, due, quiet, doorClosed, served, harmed>>

(* The door is still as the poll found it: not as it was reported.         *)
StillSo == door[at] # doorClosed[at]

LookAgain ==
  /\ phase = "recheck"
  /\ Pass(Recheck)
  /\ late' = UpTo(Debounce, late + Recheck)
  /\ IF StillSo
     THEN /\ doorClosed' = [doorClosed EXCEPT ![at] = ~@]
          /\ found' = [found EXCEPT ![at] = 0]
          /\ phase' = "event" /\ UNCHANGED at
     ELSE phase' = "poll" /\ at' = at + 1 /\ UNCHANGED <<doorClosed, found>>
  /\ UNCHANGED <<outside, rx, buf, age, prev, served, harmed>>

EventSent ==
  /\ phase = "event"
  /\ Pass(Transmission)
  /\ late' = UpTo(Debounce, late + Transmission)
  /\ phase' = "poll" /\ at' = at + 1
  /\ UNCHANGED <<outside, rx, buf, age, sensors, served, harmed>>

(* HEARTBEAT_INTERVAL may be over.                                         *)
PollEnds ==
  /\ phase = "poll" /\ at = NumSlots
  /\ \/ phase' = "alive" /\ UNCHANGED <<at, late, age>>
     \/ phase' = "loop" /\ at' = 0 /\ age' = Aged(late) /\ late' = 0
  /\ UNCHANGED <<outside, rx, buf, due, quiet, steady, sensors, served, harmed>>

AliveSent ==
  /\ phase = "alive"
  /\ Pass(Transmission)
  /\ phase' = "loop" /\ at' = 0
  /\ age' = Aged(late + Transmission) /\ late' = 0
  /\ UNCHANGED <<outside, rx, buf, sensors, served, harmed>>

--------------------------------------------------------------------------------
Sketch == \/ Idle \/ ReadWord \/ PulseEnds \/ ReplySent
          \/ Poll \/ Look \/ LookAgain \/ EventSent \/ PollEnds \/ AliveSent

Next == \/ Sketch \/ Arrive \/ OtherSpeaks
        \/ \E c \in Commands : CommandSent(c)
        \/ \E s \in Slots : DoorMoves(s)

(* The processor runs and the bus delivers.                                *)
Spec == Init /\ [][Next]_vars /\ WF_vars(Sketch) /\ WF_vars(Arrive)

--------------------------------------------------------------------------------
(* Properties *)

(* The variables keep their types, the command buffer does not overflow,   *)
(* and while the sketch sends or waits inside a poll there is a slot it is *)
(* about.                                                                  *)
TypeOK ==
  /\ phase \in {"loop", "poll", "recheck", "event", "alive", "pulse", "reply"}
  /\ at \in 0..NumSlots
  /\ \A i \in 1..Len(buf) : buf[i] = Json => i = Len(buf)
  /\ phase \in {"recheck", "event"} => at \in Slots
  /\ phase \in {"loop", "pulse", "reply"} => at = 0 /\ late = 0
  /\ due \in BOOLEAN
  /\ quiet \in 0..(Gap + 1)
  /\ {age, steady} \subseteq [Slots -> 0..Debounce] /\ found \in [Slots -> 0..2]
  /\ {prev, doorClosed, door} \subseteq [Slots -> BOOLEAN]
  /\ harmed \subseteq {"lost", "cut"}

Subsequence(s, t) ==
  \E place \in [1..Len(s) -> 1..Len(t)] :
    /\ \A i \in 1..Len(s) : s[i] = t[place[i]]
    /\ \A i, j \in 1..Len(s) : i < j => place[i] < place[j]

(* What the sketch does is what it was told to, in order and once, however *)
(* often it is blocked and its commands are cut off by the gap, as long as *)
(* no word was lost on the way: a command with its digit missing may open  *)
(* slot 0.                                                                 *)
DoesAsAsked == "lost" \notin harmed => Subsequence(served, asked)

(* And it does everything it was told to, unless the report of a door or   *)
(* an ALIVE beat in the middle of a command made a gap in it.              *)
DoesAllAsked ==
  (phase = "loop" /\ rx = <<>> /\ bus = <<>> /\ harmed = {}) => served = asked

(* A door is reported only when two polls at least, one after the other,   *)
(* found it as it is now read again, and the first door, which a poll      *)
(* looks at at once, only when it was found so for DEBOUNCE_MS: a bounce   *)
(* between two polls is no report, whatever blocked the sketch between.    *)
(* The other doors may be looked at long after the time the poll took, and *)
(* a change found then is reported by the next poll, whether or not it was *)
(* "stable through the debounce" as the comment at the comparison says.    *)
ReportsAreSettled ==
  [][\A s \in Slots : doorClosed'[s] # doorClosed[s] =>
       door[s] # doorClosed[s] /\ found[s] = 2 /\ (s = 0 => steady[s] = Debounce)]_vars

(* A door that comes to rest is at last reported as it is, however it      *)
(* bounced before, and whatever else the sketch was busy with.             *)
EventsCatchUp ==
  \A s \in Slots, closed \in BOOLEAN :
    <>[](door[s] = closed) => <>[](doorClosed[s] = closed)
================================================================================
