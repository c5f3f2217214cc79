------------------------------- MODULE SerialLink -------------------------------
(***************************************************************************)
(* SerialManager (src/infracstructure/serial_manager.py): the threads that *)
(* send a command over RS485 and wait, the listener thread that reads the  *)
(* port, the one-place mailbox through which they meet, and the Arduino    *)
(* slaves at the other end of the line.                                    *)
(*                                                                         *)
(* _send_and_wait is not serialised: the MQTT thread, the setup thread and *)
(* the discovery threads may be inside it at the same time.  A command is  *)
(* reduced to its slave, its kind and a number, a line from a slave to its *)
(* kind, its slave and a number; neither number exists in the code, where  *)
(* a line is matched by its slave only.                                    *)
(***************************************************************************)
EXTENDS Naturals, Sequences

CONSTANTS Callers,      \* the threads that call _send_and_wait
          Slaves,       \* the slave ids on the bus
          Commands,     \* the kinds of command: PING and the slot commands
          None,         \* Python's None
          MaxCalls,     \* bound: calls made in a behaviour
          MaxMessages   \* bound: lines sent by the slaves in a behaviour

VARIABLES pc,        \* where each caller is in _send_and_wait
          call,      \* the command of each caller
          outcome,   \* what the call of each caller is about to return
          waiting,   \* self._waiting_for_slave
          data,      \* self._response_data
          event,     \* the flag of self._response_event
          inHand,    \* the line the listener has matched and not stored yet
          wire,      \* the lines received and not yet handled, oldest first
          todo,      \* per slave, the commands in its receive buffer
          link,      \* the state of self._ser
          issued,    \* number of calls made so far
          spoken,    \* number of lines the slaves have sent so far
          heard,     \* history: lines stored since a call in progress began
          used       \* history: lines that were returned to a caller

rendezvous == <<waiting, data, event>>
history == <<heard, used>>
vars == <<pc, call, outcome, waiting, data, event, inHand, wire, todo, link,
          issued, spoken, heard, used>>

Message == [kind : {"reply", "ALIVE", "DOOR"}, slave : Slaves,
            n : 1..MaxMessages, of : 0..MaxCalls]
TimeoutReply == [kind |-> "TIMEOUT"]
SerialError == [kind |-> "SERIAL_ERROR"]
Failure == {TimeoutReply, SerialError}
Call == [slave : Slaves, cmd : Commands, id : 1..MaxCalls]
InFlight == {"armed", "sent", "waiting", "woken"}

ASSUME NoneAssumption == None \notin Slaves \union Message \union Failure \union Call
ASSUME BoundsAssumption == MaxCalls \in Nat /\ MaxMessages \in Nat

Init == /\ pc = [c \in Callers |-> "idle"]
        /\ call = [c \in Callers |-> None]
        /\ outcome = [c \in Callers |-> None]
        /\ waiting = None
        /\ data = None
        /\ event = FALSE
        /\ inHand = None
        /\ wire = <<>>
        /\ todo = [s \in Slaves |-> <<>>]
        /\ link = "up"
        /\ issued = 0
        /\ spoken = 0
        /\ heard = [c \in Callers |-> {}]
        /\ used = {}

--------------------------------------------------------------------------------
(* The callers: _send_and_wait *)

(* Mistakes: the event is cleared and the mailbox is not, or neither is.   *)
ClearEventOnly == event' = FALSE /\ UNCHANGED data
ClearNothing == UNCHANGED <<data, event>>

(* "Clear previous response".                                              *)
ClearMailbox == data' = None /\ event' = FALSE

(* The first critical section: the mailbox is cleared and the slave        *)
(* registered, whatever another caller registered before.                  *)
Arm(c, s, cmd) ==
  /\ pc[c] = "idle"
  /\ issued < MaxCalls
  /\ issued' = issued + 1
  /\ call' = [call EXCEPT ![c] = [slave |-> s, cmd |-> cmd, id |-> issued + 1]]
  /\ pc' = [pc EXCEPT ![c] = "armed"]
  /\ ClearMailbox
  /\ waiting' = s
  /\ UNCHANGED <<outcome, inHand, wire, todo, link, spoken, history>>

(* The command is written; it reaches the slave while the line works, and  *)
(* nothing is written while there is no port.                              *)
Send(c) ==
  /\ pc[c] = "armed"
  /\ link # "closed"
  /\ todo' = IF link \in {"up", "opening"}
             THEN [todo EXCEPT ![call[c].slave] = Append(@, call[c].id)]
             ELSE todo
  /\ pc' = [pc EXCEPT ![c] = "sent"]
  /\ UNCHANGED <<call, outcome, rendezvous, inHand, wire, link, issued, spoken,
                 history>>

(* write() raises: the port is gone, or was set to None after the test.    *)
WriteFails(c) ==
  /\ pc[c] = "armed"
  /\ link \in {"broken", "down", "closed"}
  /\ outcome' = [outcome EXCEPT ![c] = SerialError]
  /\ pc' = [pc EXCEPT ![c] = "leaving"]
  /\ UNCHANGED <<call, rendezvous, inHand, wire, todo, link, issued, spoken,
                 history>>

(* Event.wait: it returns at once when the flag is set.                    *)
Await(c) ==
  /\ pc[c] = "sent"
  /\ pc' = [pc EXCEPT ![c] = IF event THEN "woken" ELSE "waiting"]
  /\ UNCHANGED <<call, outcome, rendezvous, inHand, wire, todo, link, issued,
                 spoken, history>>

(* Mistakes: an empty mailbox is returned, a reply is not taken out.       *)
ReplyOrNone == data
LeaveDataInPlace == UNCHANGED data

(* What the mailbox holds; a caller that finds it empty reports a timeout. *)
Reply == IF data = None THEN TimeoutReply ELSE data
TakeData == data' = None

(* The second critical section: the reply is taken out of the mailbox.     *)
(* The event stays set.                                                    *)
Take(c) ==
  /\ pc[c] = "woken"
  /\ outcome' = [outcome EXCEPT ![c] = Reply]
  /\ used' = IF data = None THEN used ELSE used \union {data}
  /\ TakeData
  /\ pc' = [pc EXCEPT ![c] = "leaving"]
  /\ UNCHANGED <<call, waiting, event, inHand, wire, todo, link, issued, spoken,
                 heard>>

(* A mistake: Event.wait without a timeout.                                *)
NeverTimesOut(c) == FALSE /\ UNCHANGED vars

(* Event.wait gives up.                                                    *)
TimeOut(c) ==
  /\ pc[c] = "waiting"
  /\ outcome' = [outcome EXCEPT ![c] = TimeoutReply]
  /\ pc' = [pc EXCEPT ![c] = "leaving"]
  /\ UNCHANGED <<call, rendezvous, inHand, wire, todo, link, issued, spoken,
                 history>>

(* A mistake: the registration is removed on the normal path only.         *)
UnregisterOnReply(c) ==
  waiting' = IF outcome[c] \in Message THEN None ELSE waiting

Unregister(c) == waiting' = None

(* The finally clause: the registration is removed, even when it is by now *)
(* that of another caller, and the outcome is returned.                    *)
Leave(c) ==
  /\ pc[c] = "leaving"
  /\ Unregister(c)
  /\ pc' = [pc EXCEPT ![c] = "idle"]
  /\ call' = [call EXCEPT ![c] = None]
  /\ outcome' = [outcome EXCEPT ![c] = None]
  /\ heard' = [heard EXCEPT ![c] = {}]
  /\ UNCHANGED <<data, event, inHand, wire, todo, link, issued, spoken, used>>

CallerStep(c) == \/ Send(c) \/ WriteFails(c) \/ Await(c)
                 \/ Take(c) \/ TimeOut(c) \/ Leave(c)

--------------------------------------------------------------------------------
(* The listener thread: _listener_loop and _handle_incoming_json *)

(* A reply or an ALIVE event, and a call registered for its slave.         *)
Matches(m) == m.kind # "DOOR" /\ waiting = m.slave

(* The listener takes the next line; outside the lock it finds that the    *)
(* line is for the registered slave.                                       *)
ListenerMatches ==
  /\ inHand = None
  /\ link \in {"up", "broken"}
  /\ wire # <<>>
  /\ Matches(Head(wire))
  /\ inHand' = Head(wire)
  /\ wire' = Tail(wire)
  /\ UNCHANGED <<pc, call, outcome, rendezvous, todo, link, issued, spoken,
                 history>>

(* The next line is dropped here: a door event goes to its callback, a     *)
(* line nobody is registered for goes nowhere.                             *)
ListenerIgnores ==
  /\ inHand = None
  /\ link \in {"up", "broken"}
  /\ wire # <<>>
  /\ ~Matches(Head(wire))
  /\ wire' = Tail(wire)
  /\ UNCHANGED <<pc, call, outcome, rendezvous, inHand, todo, link, issued,
                 spoken, history>>

(* Later, under the lock, the line is stored over whatever the mailbox     *)
(* held, and set() notifies every caller inside Event.wait.                *)
ListenerStores ==
  /\ inHand # None
  /\ data' = inHand
  /\ event' = TRUE
  /\ inHand' = None
  /\ pc' = [c \in Callers |-> IF pc[c] = "waiting" THEN "woken" ELSE pc[c]]
  /\ heard' = [c \in Callers |-> IF pc[c] \in InFlight
                                 THEN heard[c] \union {inHand} ELSE heard[c]]
  /\ UNCHANGED <<call, outcome, waiting, wire, todo, link, issued, spoken, used>>

--------------------------------------------------------------------------------
(* The slaves: the sketch of src/arduino, as the gateway sees it *)

Says(kind, s, id) ==
  /\ spoken < MaxMessages
  /\ spoken' = spoken + 1
  /\ wire' = Append(wire, [kind |-> kind, slave |-> s, n |-> spoken + 1, of |-> id])

(* A slave executes the oldest command of its buffer and answers, possibly *)
(* long after the caller gave up.                                          *)
SlaveAnswers(s) ==
  /\ todo[s] # <<>>
  /\ link \in {"up", "opening"}
  /\ Says("reply", s, Head(todo[s]))
  /\ todo' = [todo EXCEPT ![s] = Tail(@)]
  /\ UNCHANGED <<pc, call, outcome, rendezvous, inHand, link, issued, history>>

(* The command or its answer is garbled on the bus, or the line is cut.    *)
CommandLost(s) ==
  /\ todo[s] # <<>>
  /\ todo' = [todo EXCEPT ![s] = Tail(@)]
  /\ UNCHANGED <<pc, call, outcome, rendezvous, inHand, wire, link, issued,
                 spoken, history>>

(* A slave speaks on its own: its ALIVE beat or a door event.              *)
SlaveReports(s) ==
  /\ link \in {"up", "opening"}
  /\ \E kind \in {"ALIVE", "DOOR"} : Says(kind, s, 0)
  /\ UNCHANGED <<pc, call, outcome, rendezvous, inHand, todo, link, issued,
                 history>>

--------------------------------------------------------------------------------
(* The port *)

(* The adapter is unplugged: _ser is still set, reads and writes fail.     *)
Break ==
  /\ link \in {"up", "opening"}
  /\ link' = "broken"
  /\ UNCHANGED <<pc, call, outcome, rendezvous, inHand, wire, todo, issued,
                 spoken, history>>

(* The listener's read raises: _handle_fatal_error closes the port.        *)
ListenerFails ==
  /\ link = "broken"
  /\ inHand = None
  /\ wire' = <<>>
  /\ link' = "down"
  /\ UNCHANGED <<pc, call, outcome, rendezvous, inHand, todo, issued, spoken,
                 history>>

(* _attempt_reconnect opens the port again; the adapter may or may not     *)
(* reset the slaves.  Callers can write from here on.                      *)
Reopen ==
  /\ link = "down"
  /\ link' = "opening"
  /\ todo' \in {todo, [s \in Slaves |-> <<>>]}
  /\ UNCHANGED <<pc, call, outcome, rendezvous, inHand, wire, issued, spoken,
                 history>>

(* Two seconds later it discards what was received meanwhile.  The         *)
(* discovery it starts in a thread of its own is one of the callers.       *)
ResetInput ==
  /\ link = "opening"
  /\ link' = "up"
  /\ wire' = <<>>
  /\ UNCHANGED <<pc, call, outcome, rendezvous, inHand, todo, issued, spoken,
                 history>>

(* close(), when the process ends: the listener stops, the port is closed. *)
Close ==
  /\ link # "closed"
  /\ link' = "closed"
  /\ UNCHANGED <<pc, call, outcome, rendezvous, inHand, wire, todo, issued,
                 spoken, history>>

--------------------------------------------------------------------------------
Next == \/ \E c \in Callers, s \in Slaves, cmd \in Commands : Arm(c, s, cmd)
        \/ \E c \in Callers : CallerStep(c)
        \/ ListenerMatches \/ ListenerIgnores \/ ListenerStores
        \/ \E s \in Slaves : SlaveAnswers(s) \/ CommandLost(s) \/ SlaveReports(s)
        \/ Break \/ ListenerFails \/ Reopen \/ ResetInput \/ Close

Spec == Init /\ [][Next]_vars

(* A thread inside _send_and_wait is scheduled again and again: Event.wait *)
(* has a timeout and the lock is held for a few assignments only.  Nothing *)
(* is assumed of the slaves, the line or the listener.                     *)
FairSpec == Spec /\ \A c \in Callers : WF_vars(CallerStep(c))

--------------------------------------------------------------------------------
(* Properties *)

(* The variables keep their types; a caller has a command exactly while it *)
(* is inside _send_and_wait and something to return exactly as it leaves.  *)
TypeOK ==
  /\ pc \in [Callers -> InFlight \union {"idle", "leaving"}]
  /\ call \in [Callers -> Call \union {None}]
  /\ outcome \in [Callers -> Message \union Failure \union {None}]
  /\ waiting \in Slaves \union {None}
  /\ data \in Message \union {None}
  /\ event \in BOOLEAN
  /\ inHand \in Message \union {None}
  /\ wire \in Seq(Message)
  /\ todo \in [Slaves -> Seq(1..MaxCalls)]
  /\ link \in {"up", "broken", "down", "opening", "closed"}
  /\ issued \in 0..MaxCalls
  /\ spoken \in 0..MaxMessages
  /\ heard \in [Callers -> SUBSET Message]
  /\ used \subseteq Message
  /\ \A c \in Callers : /\ call[c] = None <=> pc[c] = "idle"
                        /\ outcome[c] = None <=> pc[c] # "leaving"

(* No caller sleeps while a line lies in the mailbox: whoever is still     *)
(* inside Event.wait has been notified of it, although callers clear the   *)
(* event under each other's feet and nobody clears it after taking.        *)
NoSleepOnReply == data # None => \A c \in Callers : pc[c] # "waiting"

(* When no command is in progress the listener is registered for nobody,   *)
(* so that a line that comes between calls is never kept for a later one   *)
(* at the check; every way out of _send_and_wait goes through the finally. *)
Released == (\A c \in Callers : pc[c] = "idle") => waiting = None

(* Lines are returned to callers in the order the slaves sent them, and    *)
(* none is returned twice, to the same caller or to two, however the       *)
(* callers' critical sections and the listener's two steps interleave.     *)
Hands(c) == outcome'[c] # outcome[c] /\ outcome'[c] \in Message
InOrderAtMostOnce ==
  [][\A c \in Callers : Hands(c) => \A m \in used : m.n < outcome'[c].n]_vars

(* The module implements what CommandService promises to the callers: in   *)
(* particular no line stored before a call began is returned by it.        *)
Phase(c) == CASE pc[c] = "idle" -> "idle"
              [] pc[c] = "leaving" -> "done"
              [] OTHER -> "calling"
Promise == INSTANCE CommandService WITH phase <- [c \in Callers |-> Phase(c)],
                                        result <- outcome
ImplementsCommandService == Promise!Spec

(* Every call returns, whatever the slaves, the line and the other callers *)
(* do: no caller can be left inside Event.wait.                            *)
EveryCallReturns == \A c \in Callers : pc[c] # "idle" ~> pc[c] = "idle"

(* The comment on the flush before a write says it is there "to ensure we  *)
(* don't read old data": a reply a call returns answers that very call.    *)
ReplyAnswersItsCommand ==
  \A c \in Callers : (outcome[c] \in Message /\ outcome[c].kind = "reply")
                        => outcome[c].of = call[c].id

(* The comment on ALIVE events says they count as a response to PING: a    *)
(* call that returns one had sent a PING.                                  *)
AliveConfirmsPing ==
  \A c \in Callers : (outcome[c] \in Message /\ outcome[c].kind = "ALIVE")
                        => call[c].cmd = "PING"
================================================================================
