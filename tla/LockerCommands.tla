----------------------------- MODULE LockerCommands -----------------------------
(***************************************************************************)
(* LockerService (src/services/locker_service.py) at work for one cabinet  *)
(* and its Arduino: open and close commands handled one after the other in *)
(* the MQTT thread, door events handled in the serial listener's thread,   *)
(* and the map of locker states that both write and the heartbeats report. *)
(*                                                                         *)
(* The serial line is what CommandService promises; SerialLink implements  *)
(* it.  The gateway's own messages to command/close come back to it when   *)
(* it has subscribed to them: main.py does so for the cabinets it loads at *)
(* startup, a setup for none.                                              *)
(***************************************************************************)
EXTENDS Naturals, Sequences

CONSTANTS Slots,         \* the slots that commands are about
          Fitted,        \* those the Arduino has, below NUM_SLOTS
          None,          \* Python's None
          MaxCommands,   \* bound: commands sent by the backend
          MaxOpenings,   \* bound: times a door opens
          MaxNoise       \* bound: ALIVE lines, and lines and commands lost

ASSUME BoundsAssumption == /\ Fitted \subseteq Slots
                           /\ {MaxCommands, MaxOpenings, MaxNoise} \subseteq Nat

VARIABLES inbox,       \* commands the broker will deliver, oldest first
          paho,        \* the MQTT thread: "idle", "calling" or "updating"
          cmd,         \* the command it handles
          phase, result, heard, used,   \* the serial call, see CommandService
          listener,    \* the listener thread: "idle", "event" or "updating"
          ev,          \* the door event it handles
          hw,          \* heartbeat._locker_states of the cabinet
          configured,  \* whether the cabinet is in cabinet_state
          hearsClose,  \* whether command/close is subscribed to
          todo,        \* commands in the Arduino's receive buffer
          wire,        \* lines on their way to the gateway, oldest first
          door,        \* the doors
          doorClosed,  \* the Arduino's debounced view of them
          sent, opened,                 \* commands sent, doors opened so far
          noise, spoken,                \* ALIVE lines and losses, lines so far
          accepted, answered,           \* commands accepted, results published
          published,   \* the result published, until the state is updated
          guessed,     \* history: slots whose hw is not from their own sensor
          missed,      \* history: slots with a move the gateway was not told of
          told,        \* history: per slot, the last door event in hw
          overtaken    \* history: slots whose hw is from a reply older than that

serial == <<phase, result, heard, used>>
gateway == <<inbox, paho, cmd, listener, ev, hw, configured, hearsClose>>
cabinet == <<todo, wire, door, doorClosed, opened, noise, spoken>>
traces == <<guessed, missed, told, overtaken>>
history == <<accepted, answered, published, traces>>
vars == <<gateway, serial, cabinet, sent, history>>

Paho == "paho"
Command == [op : {"open", "close"}, slot : Slots \union {None}]

ASSUME NoneAssumption == None \notin Slots \union Command

(* A line from the Arduino, or an outcome the gateway makes up, with the   *)
(* fields the handlers read: result == "OK", and the door, closed when the *)
(* field is missing.  The numbers are not in the code: n counts the lines, *)
(* of is the accepted command a reply answers.                             *)
Line(kind, slot, ok, closed, of) ==
  [kind |-> kind, slot |-> slot, ok |-> ok, closed |-> closed, of |-> of,
   n |-> spoken + 1]
TimedOut == [kind |-> "FAIL", slot |-> None, ok |-> FALSE, closed |-> TRUE, of |-> 0,
             n |-> 0]

Serial == INSTANCE CommandService
            WITH Callers <- {Paho}, Message <- {}, Failure <- {TimedOut}

Init == /\ inbox = <<>>
        /\ paho = "idle" /\ cmd = None
        /\ Serial!Init
        /\ listener = "idle" /\ ev = None
        /\ hw = [s \in Slots |-> "CLOSING"]
        /\ configured = TRUE /\ hearsClose \in BOOLEAN
        /\ todo = <<>> /\ wire = <<>>
        /\ door = [s \in Fitted |-> "closed"]
        /\ doorClosed = [s \in Fitted |-> TRUE]
        /\ sent = 0 /\ opened = 0 /\ noise = 0 /\ spoken = 0
        /\ accepted = 0 /\ answered = 0
        /\ published = None
        /\ guessed = {} /\ missed = {}
        /\ told = [s \in Slots |-> 0] /\ overtaken = {}

--------------------------------------------------------------------------------
(* The backend and the setup-clearing thread *)

(* A command is published; one without slotIndex is possible.  QoS 1 may   *)
(* deliver a command twice: the second delivery is one more command.       *)
BackendSends(op, slot) ==
  /\ sent < MaxCommands
  /\ sent' = sent + 1
  /\ inbox' = Append(inbox, [op |-> op, slot |-> slot])
  /\ UNCHANGED <<paho, cmd, listener, ev, hw, configured, hearsClose, serial, cabinet,
                 history>>

(* do_clear removes the cabinet; the map of states is not cleared.         *)
ClearSetup ==
  /\ configured
  /\ configured' = FALSE
  /\ UNCHANGED <<inbox, paho, cmd, listener, ev, hw, hearsClose, serial, cabinet,
                 sent, history>>

--------------------------------------------------------------------------------
(* The MQTT thread *)

(* Unknown cabinet or no slotIndex: the handler returns.                   *)
Reject ==
  /\ paho = "idle"
  /\ inbox # <<>>
  /\ ~configured \/ Head(inbox).slot = None
  /\ inbox' = Tail(inbox)
  /\ UNCHANGED <<paho, cmd, listener, ev, hw, configured, hearsClose, serial,
                 cabinet, sent, history>>

(* The state an open command sets before it asks the Arduino; close sets   *)
(* none.                                                                   *)
Optimistic(c) == IF c.op = "open" THEN [hw EXCEPT ![c.slot] = "OPENING"] ELSE hw

(* The command is accepted and open_slot or close_slot called.             *)
Accept ==
  /\ paho = "idle"
  /\ inbox # <<>>
  /\ LET c == Head(inbox) IN
       /\ configured /\ c.slot # None
       /\ cmd' = c
       /\ hw' = Optimistic(c)
       /\ todo' = Append(todo, [op |-> c.op, slot |-> c.slot, id |-> accepted + 1])
  /\ inbox' = Tail(inbox)
  /\ paho' = "calling"
  /\ Serial!Begin(Paho)
  /\ accepted' = accepted + 1
  /\ UNCHANGED <<listener, ev, configured, hearsClose, wire, door, doorClosed,
                 opened, noise, spoken, sent, answered, published, traces>>

(* The serial call ends, as CommandService allows.                         *)
CallReturns ==
  /\ paho = "calling"
  /\ Serial!Succeed(Paho) \/ Serial!Fail(Paho)
  /\ UNCHANGED <<gateway, cabinet, sent, history>>

Success(op, r) == r.ok /\ (op = "open" <=> ~r.closed)

(* Mistake: a reply without a door field counts as an open door.           *)
StateOpenUnlessFailed(op, r) == IF r.ok THEN "OPENING" ELSE "CLOSED"

(* The state a handler derives from the reply: for open, OPENING only on   *)
(* success; for close, what the door field says.                           *)
StateAfter(op, r) ==
  IF (op = "open" /\ ~Success(op, r)) \/ r.closed THEN "CLOSING" ELSE "OPENING"

(* Mistakes: the handler returns without a result when the serial call     *)
(* failed; a close result published to the command's own topic; after a    *)
(* failure is published the handler goes on to publish a result.           *)
PublishOnlyReplies(r) ==
  /\ answered' = IF r = TimedOut THEN answered ELSE answered + 1
  /\ UNCHANGED inbox
PublishToCommandTopic(r) ==
  /\ answered' = answered + 1
  /\ inbox' = IF cmd.op = "close" THEN Append(inbox, cmd) ELSE inbox
PublishTwiceOnFailure(r) ==
  answered' = (IF r = TimedOut THEN answered + 2 ELSE answered + 1) /\ UNCHANGED inbox

PublishResult(r) == answered' = answered + 1 /\ UNCHANGED inbox

(* The result (and, for open, the ack after it) is published.              *)
Publish ==
  /\ paho = "calling"
  /\ phase[Paho] = "done"
  /\ LET r == result[Paho] IN
       /\ PublishResult(r)
       /\ published' = [op |-> cmd.op, slot |-> cmd.slot,
                        status |-> IF Success(cmd.op, r) THEN "SUCCESS" ELSE "FAILED",
                        hwState |-> StateAfter(cmd.op, r)]
  /\ paho' = "updating"
  /\ UNCHANGED <<cmd, listener, ev, hw, configured, hearsClose, serial, cabinet,
                 sent, accepted, traces>>

(* Then the state goes to the heartbeat, over whatever the listener wrote  *)
(* meanwhile.                                                              *)
Update ==
  /\ paho = "updating"
  /\ hw' = [hw EXCEPT ![cmd.slot] = published.hwState]
  /\ guessed' = IF result[Paho].of = accepted
                THEN guessed \ {cmd.slot} ELSE guessed \union {cmd.slot}
  /\ overtaken' = IF result[Paho].n <= told[cmd.slot]
                  THEN overtaken \union {cmd.slot} ELSE overtaken \ {cmd.slot}
  /\ paho' = "idle"
  /\ cmd' = None
  /\ published' = None
  /\ Serial!End(Paho)
  /\ UNCHANGED <<inbox, listener, ev, configured, hearsClose, cabinet, sent,
                 accepted, answered, missed, told>>

--------------------------------------------------------------------------------
(* The listener thread *)

(* A reply or an ALIVE line reaches the call in progress, if there is one. *)
ListenerAccepts ==
  /\ listener = "idle"
  /\ wire # <<>>
  /\ Head(wire).kind # "event"
  /\ Serial!Accept(Head(wire))
  /\ wire' = Tail(wire)
  /\ UNCHANGED <<gateway, todo, door, doorClosed, opened, noise, spoken, sent,
                 history>>

(* handle_door_event begins, or returns when no cabinet has this slave.    *)
ListenerTakesEvent ==
  /\ listener = "idle"
  /\ wire # <<>>
  /\ Head(wire).kind = "event"
  /\ wire' = Tail(wire)
  /\ IF configured
     THEN listener' = "event" /\ ev' = Head(wire)
     ELSE UNCHANGED <<listener, ev>>
  /\ UNCHANGED <<inbox, paho, cmd, hw, configured, hearsClose, serial, todo, door,
                 doorClosed, opened, noise, spoken, sent, history>>

(* Mistake: no close command after a door event.                           *)
NoCloseCommand(e) == UNCHANGED inbox

(* The close command published after DOOR_CLOSED.                          *)
CloseCommand(e) ==
  inbox' = IF e.closed /\ hearsClose
           THEN Append(inbox, [op |-> "close", slot |-> e.slot]) ELSE inbox

(* The status and, for a closed door, the close command are published.     *)
ListenerPublishes ==
  /\ listener = "event"
  /\ CloseCommand(ev)
  /\ listener' = "updating"
  /\ UNCHANGED <<paho, cmd, ev, hw, configured, hearsClose, serial, cabinet, sent,
                 history>>

ListenerUpdates ==
  /\ listener = "updating"
  /\ hw' = [hw EXCEPT ![ev.slot] = IF ev.closed THEN "CLOSING" ELSE "OPENING"]
  /\ guessed' = guessed \ {ev.slot}
  /\ told' = [told EXCEPT ![ev.slot] = ev.n]
  /\ overtaken' = overtaken \ {ev.slot}
  /\ listener' = "idle"
  /\ ev' = None
  /\ UNCHANGED <<inbox, paho, cmd, configured, hearsClose, serial, cabinet, sent,
                 accepted, answered, published, missed>>

--------------------------------------------------------------------------------
(* The Arduino and the doors *)

Says(line) == wire' = Append(wire, line) /\ spoken' = spoken + 1

(* openSlot pulses the relay, waits and reads the sensor; closeSlot only   *)
(* reads it.  Nothing else is sent in between, and the door opens on its   *)
(* own: in time or not (DoorOpens).  Other slots are refused, with a door  *)
(* field that says open.                                                   *)
Execute ==
  /\ todo # <<>>
  /\ LET c == Head(todo) IN
       \/ /\ c.slot \in Fitted
          /\ Says(Line("reply", c.slot, TRUE, door[c.slot] = "closed", c.id))
       \/ /\ c.slot \notin Fitted
          /\ Says(Line("reply", c.slot, FALSE, FALSE, c.id))
  /\ todo' = Tail(todo)
  /\ UNCHANGED <<gateway, serial, door, doorClosed, opened, noise, sent, history>>

Noticed(s) == doorClosed[s] = (door[s] = "closed")

(* A move that undoes one not yet noticed leaves both untold.              *)
Moves(s) ==
  /\ missed' = IF Noticed(s) THEN missed ELSE missed \union {s}
  /\ UNCHANGED <<gateway, serial, todo, wire, doorClosed, noise, spoken, sent,
                 accepted, answered, published, guessed, told, overtaken>>

(* The spring pushes the door open during the pulse, late, or when it is   *)
(* no longer jammed; a setup tests the slot; someone has a key.            *)
DoorOpens(s) ==
  /\ door[s] = "closed" /\ opened < MaxOpenings
  /\ door' = [door EXCEPT ![s] = "open"]
  /\ opened' = opened + 1
  /\ Moves(s)

UserShuts(s) ==
  /\ door[s] = "open"
  /\ door' = [door EXCEPT ![s] = "closed"]
  /\ UNCHANGED opened
  /\ Moves(s)

(* The sensor poll finds a door other than it remembers it.                *)
ReportDoor(s) ==
  /\ ~Noticed(s)
  /\ doorClosed' = [doorClosed EXCEPT ![s] = ~@]
  /\ Says(Line("event", s, TRUE, ~doorClosed[s], 0))
  /\ UNCHANGED <<gateway, serial, todo, door, opened, noise, sent, history>>

ReportAlive ==
  /\ noise < MaxNoise
  /\ noise' = noise + 1
  /\ Says(Line("ALIVE", None, TRUE, TRUE, 0))
  /\ UNCHANGED <<gateway, serial, todo, door, doorClosed, opened, sent, history>>

(* The bus loses a command, a reply or an event.                           *)
LoseCommand ==
  /\ noise < MaxNoise
  /\ noise' = noise + 1
  /\ todo # <<>>
  /\ todo' = Tail(todo)
  /\ UNCHANGED <<gateway, serial, wire, door, doorClosed, opened, spoken, sent,
                 history>>

LoseLine ==
  /\ noise < MaxNoise
  /\ noise' = noise + 1
  /\ wire # <<>>
  /\ wire' = Tail(wire)
  /\ missed' = IF Head(wire).kind = "event" THEN missed \union {Head(wire).slot}
               ELSE missed
  /\ UNCHANGED <<gateway, serial, todo, door, doorClosed, opened, spoken, sent,
                 accepted, answered, published, guessed, told, overtaken>>

--------------------------------------------------------------------------------
Next == \/ \E op \in {"open", "close"}, s \in Slots \union {None} : BackendSends(op, s)
        \/ ClearSetup
        \/ Reject \/ Accept \/ CallReturns \/ Publish \/ Update
        \/ ListenerAccepts \/ ListenerTakesEvent \/ ListenerPublishes \/ ListenerUpdates
        \/ Execute \/ ReportAlive \/ LoseCommand \/ LoseLine
        \/ \E s \in Fitted : DoorOpens(s) \/ UserShuts(s) \/ ReportDoor(s)

Spec == Init /\ [][Next]_vars

--------------------------------------------------------------------------------
(* Properties *)

(* The variables keep their types.                                         *)
TypeOK ==
  /\ inbox \in Seq(Command)
  /\ paho \in {"idle", "calling", "updating"}
  /\ cmd \in Command \union {None}
  /\ cmd = None <=> paho = "idle"
  /\ listener \in {"idle", "event", "updating"}
  /\ hw \in [Slots -> {"OPENING", "CLOSING"}]
  /\ door \in [Fitted -> {"open", "closed"}]
  /\ doorClosed \in [Fitted -> BOOLEAN]
  /\ {guessed, overtaken} \subseteq SUBSET Slots /\ missed \subseteq Fitted
  /\ told \in [Slots -> 0..spoken]
  /\ {configured, hearsClose} \subseteq BOOLEAN

(* Nothing is left to do: no command, line, handler or unreported door.    *)
Settled == /\ inbox = <<>> /\ todo = <<>> /\ wire = <<>>
           /\ paho = "idle" /\ listener = "idle"
           /\ \A s \in Fitted : Noticed(s)

(* Once everything has settled, the state the heartbeats report for a slot *)
(* is that of its door, unless the last word about it was not from its own *)
(* sensor (a timeout, an ALIVE line, another slot's reply, a lost event).  *)
(* One thing else goes wrong, when a handler writes what its reply said    *)
(* over a door event that came after it: an open door then stays reported  *)
(* closed.  A closed door does not stay reported open where command/close  *)
(* is heard, since the close command after it puts it right.               *)
StateFollowsDoor ==
  (Settled /\ configured) =>
    \A s \in Fitted \ (guessed \union missed) :
      /\ door[s] = "open" => hw[s] = "OPENING" \/ s \in overtaken
      /\ door[s] = "closed" => hw[s] = "CLOSING" \/ (s \in overtaken /\ ~hearsClose)

(* Every command that was accepted has had its result ("BE waits for       *)
(* this") once everything has settled, whatever the serial call returned.  *)
AllAnswered == Settled => answered = accepted

(* The gateway handles one command at most for each that the backend sent  *)
(* and for each time a door was opened: the close commands that follow door*)
(* events do not feed on the results and events they cause themselves.     *)
NoChatter == accepted + Len(inbox) <= sent + opened

(* One result for each accepted command, after it was accepted, and none   *)
(* for anything else: what the simulator promises for its commands too.    *)
Contract == INSTANCE OpenContract WITH Commands <- 1..(MaxCommands + MaxOpenings),
              waiting <- (answered + 1)..accepted, answered <- 1..answered
KeepsContract == Contract!Spec
================================================================================
