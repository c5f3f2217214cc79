# Verification of the smart-locker gateway

This directory holds TLA+ models of the gateway in `src/` (a Python process on a
Raspberry Pi that connects locker cabinets, driven by Arduino boards on an RS485
line, to an MQTT backend), the TLC configurations that check them and proofs that
TLAPS checks. Every definition is translated from the source at the lines that
`PROJECT.json` ("map") gives for it.

## 1. The system

| Component | State | Operations | Talks to |
|---|---|---|---|
| `SerialManager` (`infracstructure/serial_manager.py`) | port, receive buffer, one-place mailbox (`_response_data`), `threading.Event`, `_waiting_for_slave` | `test_slot`, `open_slot`, `close_slot`, `scan_slaves` (all through `_send_and_wait`), listener loop, reconnection, `close` | Arduino over RS485; callback to LockerService |
| `LockerService` (`services/locker_service.py`) | none of its own | open, close, setup, clear-setup and discovery commands; `handle_door_event`; `_on_setup_complete` | serial, MQTT, heartbeat map, cabinet state |
| `SetupHandler` (`services/setup_handler.py`) | `_is_running` | `handle`, `_run_setup` in a thread | serial, MQTT, cabinet state |
| `CabinetState`, `DatabaseManager` (`infracstructure/`) | location and cabinets in memory, in a JSON file and in PostgreSQL; lockers in memory and PostgreSQL | save location, cabinet, lockers; clear; load | – |
| `HeartbeatService` (`services/heartbeat_service.py`) | thread, `_running`, `_locker_states` | start, stop, update, publish | MQTT, cabinet state |
| `DiscoveryService` (`services/discovery_service.py`) | – | scan and report | serial, MQTT |
| `MQTTClientWrapper` (`infracstructure/mqtt_client.py`) | connection, subscriptions at the broker | connect, subscribe, publish, callbacks | broker |
| configuration API (`infracstructure/config_api.py`) | – | read and write settings, clear | cabinet state, database |
| Arduino sketch (`arduino/`) | command buffer, debounced doors, relays | PING, test, open, close; door events; ALIVE | RS485 |
| kiosk and admin screens (`ui/`) | screen, history, order, timers | log in, choose a box, pay, unlock | backend, configuration API |
| demo simulator (`simulate_demo_cabinet.py`) | cabinets it knows, threads and timers | open commands, heartbeats, door reports | broker |

Four kinds of thread share this state without a common lock: the MQTT thread
(one command after the other, blocked while a serial call lasts), the serial
listener (which runs the door-event handler), setup, clear and discovery threads
started per command, and the heartbeat.

What is hard, and what makes each part correct:

* **Rendezvous on the serial line.** Several threads arm the same mailbox; the
  listener compares the slave outside the lock and stores inside it; the event is
  never cleared by who took the reply. *Wanted:* a reply is handed over at most
  once, in order, during the call; nobody sleeps on a reply; every call returns.
* **Two writers of a locker's state.** The open handler writes the state seconds
  after the reply it took it from; the listener writes it from door events.
  *Wanted:* states settle on the doors, and every command is answered.
* **Three copies of the configuration.** Memory, file and tables are written one
  after the other, errors are swallowed, and the process may die in between.
  *Wanted:* a save or clear is all or nothing across a crash; copies agree at rest.
* **Setups and clears in threads.** *Wanted:* a flag that comes down whatever happens.
* **Reports of a setup and a scan**, taken from calls that share the line, that time
  out, and for layouts with gaps. *Wanted:* what is reported is what the hardware did,
  and door events carry the locker ids of the last setup.
* **Subscriptions and the heartbeat's life** across reconnections, setups, clears.
* **The sketch**: two bounded buffers, debouncing, seconds of blocking. *Wanted:* it
  does what it was told, in order and once, and its reports are true and catch up.
* **The kiosk**: timers and answers that outlive the customer they were for. *Wanted:*
  nothing is left for the next customer, and what is unlocked is what was ordered.
* **The simulator**: a thread and a timer per command across lost connections.

`PROJECT.json` lists the hazards with their lines, and the property that covers
each or the reason why none does yet.

## 2. The modules

| Module | Models | Uses |
|---|---|---|
| `CommandService` | what `SerialManager` promises its callers | – |
| `SerialLink` | `SerialManager`, the slaves, the port | implements `CommandService` |
| `SerialLinkProofs` | theorems about `SerialLink` | `SerialLink`, TLAPS |
| `LockerCommands` | open, close, door events, heartbeat map, Arduino, doors | builds on `CommandService` |
| `LockerCommandsProofs` | theorems about `LockerCommands` | `LockerCommands`, TLAPS |
| `CabinetState` | memory, file, tables, setups and clears, crashes | – |
| `CabinetStateProofs` | theorems about `CabinetState` | `CabinetState`, TLAPS |
| `MCCabinetState` | symmetry for TLC | `CabinetState` |
| `Subscriptions` | connection, subscriptions, life of the heartbeat, start and shutdown | – |
| `MCSubscriptions` | a gateway at work, for TLC | `Subscriptions` |
| `SubscriptionsProofs` | theorems about `Subscriptions` | `Subscriptions`, TLAPS |
| `Provisioning` | the tests and reports of a setup, locker ids, the scan of a discovery | builds on `CommandService` |
| `ProvisioningProofs` | theorems about `Provisioning` | `Provisioning`, TLAPS |
| `MCProvisioning` | layouts for TLC | `Provisioning` |
| `OpenContract` | what the backend may rely on when it sends a command | – |
| `DemoCabinet` | the demo simulator | implements `OpenContract`, as `LockerCommands` does |
| `DemoCabinetProofs` | theorems about `DemoCabinet` | `DemoCabinet`, TLAPS |
| `ArduinoController` | the sketch of one cabinet | – |
| `ArduinoControllerProofs` | theorems about `ArduinoController` | `ArduinoController`, TLAPS |
| `MCArduinoController` | commands for TLC | `ArduinoController` |
| `Kiosk` | the screens of the kiosk, requests, polls and countdowns | – |
| `KioskProofs` | theorems about `Kiosk` | `Kiosk`, TLAPS |

How they fit together: `SerialLink` implements `CommandService`, and what the gateway
does with serial calls (`LockerCommands`, `Provisioning`) is built on `CommandService`
alone. `ArduinoController` looks closer at the slave of those modules: `ReportsAreSettled`
and `EventsCatchUp` are what their door events take for granted. `LockerCommands` and
`DemoCabinet` both implement `OpenContract`, the gateway with one handler at a time and
a timeout, the simulator with a thread per command.

### CommandService and SerialLink

`CommandService` is the abstract view: a call begins, hears the lines accepted
while it lasts, and ends with one of them that nobody was given, or with a failure.
It does not promise that the line answers the command; the code does not either.

`SerialLink` splits `_send_and_wait` where other threads can come in between: the
first critical section (`Arm`), the write (`Send`, `WriteFails`), `Event.wait`
(`Await`, `TimeOut`, and the notification in `ListenerStores`), the second critical
section (`Take`), the `finally` clause (`Leave`). The listener's comparison
(`ListenerMatches`, `ListenerIgnores`) and its store (`ListenerStores`) are separate
steps because the comparison is made outside the lock. The port breaks, is closed
by the listener, reopened (callers write again) and, two seconds later, its input
is discarded; the slaves may or may not be reset. Slaves answer at any time, lose
commands and speak on their own. `call.id`, `line.n` and `line.of` are numbers that
the code does not have; the history variables `heard` and `used` say what a caller
could have been given and what was given.

A line from a slave is in one of three kinds, since the listener distinguishes no
more: a reply, an ALIVE event (stored like a reply), a door event (never stored).

### LockerCommands

One cabinet. The serial call is an instance of `CommandService` with the MQTT thread
as its only caller. `Accept` is the handler up to the serial call, `Publish` the
evaluation of the result and its publication, `Update` the write to the heartbeat's
map; `ListenerTakesEvent`, `ListenerPublishes` and `ListenerUpdates` are the three
parts of `handle_door_event`. The Arduino executes commands in order, each with an
answer taken from the door's sensor, or refused for a slot that is not `Fitted`; a door
opens at any time (`DoorOpens`: on the pulse, after the sensor was read, when it is no
longer jammed, or with a key), users shut doors, and the debounced poll reports a door
that differs from what it remembers. `hearsClose` says whether the gateway receives its
own close commands: it does after a start with cabinets and does not after a fresh
setup, and the model begins with either. A command without `slotIndex` and an unknown
cabinet are rejected.

### CabinetState

A thread is the list of steps it has still to take, and each step is one assignment,
one system call or one transaction: the operations of `cabinet_state.py` appear as
`SaveLocation`, `SaveCabinet`, `SaveLockers`, `ClearSteps` and a setup
(`SetupSteps`) as their concatenation in the order of `_run_setup`. `Check` carries the
cabinets still to come: it stands for the slot tests of the first one and the early
return of `save_cabinet`, and puts the saves that follow from them in front of the rest. `Build`, `OpenFile` and
`Dump` are `_save_to_json`: the file is truncated when opened, a thread that has a
removed file open writes to nothing, and two threads that have it open may leave it
torn. Errors of database and file are swallowed as in the code. The two assignments of
`clear` are two steps (`ForgetLocation`, `ForgetCabinets`), and so are the use of the
location and the store of the cabinet in `save_cabinet` (`CabinetData`, `SetCabinet`).
`StartFromFile` and `StartFromRows` are `load`, with reads that may fail, followed by the
log of the cabinets in `main.py`, which needs keys that rows do not have. `Found` is what
a start would load at this moment, and `Promise` keeps, when an operation begins, what a
start may find until the next one does.

### Subscriptions

Threads are lists of steps here too, and memory is reduced to what `is_configured`
and the subscriptions need: whether there is a location, and the cabinets. `MainSteps`
is `main.py` from the connection on; a setup goes through its cabinets and calls
`_on_setup_complete` (`CabinetSteps`: subscribe to the open command, start the
heartbeat); a clear by the backend forgets and stops the heartbeat, a clear by the
API only forgets. `HeartbeatStart` and `HeartbeatStop` are split at every read and write
of `_running` and `_thread`; heartbeat threads look at the flag (`LoopLooks`) and publish
(`LoopPublished`). The session is clean, as it is by default in paho: `Lost` empties
`subs`, and `Connected` subscribes to the three topics of the gateway, which the guard
`conn = "on"` of `Setup` and `Clear` stands for. A subscription made between CONNECT and
its acknowledgement counts, one made without a socket does not. `mishaps` remembers
what the properties must leave out.

### Provisioning

`SetupHandler` and `DiscoveryService` as threads that call one serial link, an instance
of `CommandService` with two callers: whatever `CommandService` allows happens to them.
The setup thread is `Begin`, `Prune` (bulk setups clear), `Locate`, then per slot `Skip`,
or `Test` and `Evaluate`, then `Publish` (which raises on a slot without row or column),
`SaveCabinet` and `SaveLockers` (which raises on a slot without id or label). `Refuse`
is the single setup with too many slots. A layout is a sequence of slot numbers, as
integers, as texts or missing: `int()` makes tests of texts possible, and `_lockers` is
keyed by what the backend sent, so door events do not find them. `lockers` holds, for
each slot, the number of the setup that its locker id comes from. `Clear` is the clear
of the backend or of the API, at any time. The scan is `Discover`, `Ping`, `Note`,
`Report`. The listener knows one slave to wait for, the one set by the call that began
last, and a finished call sets none: `ListenerTakes` allows every case. `Execute` is the
Arduino with its queue of commands; `Stray` is any other line, an ALIVE beat or the
answer to an open command.

### OpenContract and DemoCabinet

`OpenContract` is the abstract view of the backend: each command taken up is answered
once at most, and nothing else is answered. The gateway does not take up a command
without slot or for an unknown cabinet; the simulator takes up all.

`DemoCabinet` has one action per piece of a thread that others can observe: `_on_message`
is `Message` (the set of known cabinets changes under its lock), `Learn` (the heartbeat
of a new one) and `StartReply`; a reply thread is `Reply`, `ReportOpen` and, in its
timer, `ReportClosed`; the heartbeat thread takes a `Snapshot` and goes through it with
`Beat`. The network thread runs one callback at a time. Results are kept by paho without
a connection, reports and heartbeats are dropped by the code. When the process is
stopped the timers, which are not daemons, still run.

### ArduinoController

The sketch is one loop. `ReadWord` is the first `while`, with the 200 ms gap (`Kept`),
the full command buffer (`Stored`) and `processCommand` (`Process`); `PulseEnds` and
`ReplySent` are what a command blocks for; `Poll`, `Look`, `LookAgain`, `EventSent`,
`PollEnds` and `AliveSent` are `pollMagneticSensors`, whose comparisons all use the time
it began at (`late` is how old that time is). What arrives meanwhile waits in the
receive buffer of SoftwareSerial (`Arrive`), which hears nothing while the sketch sends
and may overflow on JSON of another slave, or on more than `RxWords` words, while the
loop does not read (`MayBeFull`). Words stand for characters:
address, action, digits, PING, JSON, end of line; what `atoi` makes of words in the
wrong place is in `SlotIn` and `Process`. Time counts in units of 100 ms and only where
something compares it, up to the largest value that is compared. Whether a minute has
passed since the last ALIVE is left open (`PollEnds`). Two history variables measure what
the sketch does not: `found` counts the polls in a row that found a door other than
reported, `steady` the real time since a poll found a door changed.

### Kiosk

Requests are in flight until they are answered or refused, in any order and at any later
time. A request remembers what JavaScript closures capture (`Request`): customer, order,
box and payment screen of the render in which it began. `fresh` says whether the screen
that asked is still there: `setLoading` of a screen that is gone has no effect, `go` and
`showSuccess` have. The actions after an `await` continue the request (`Paid`,
`CheckedOut`, `Unlocked`, `Confirmed`). `polls` are the running payment intervals,
`timers` the running countdowns, of which the code knows the last (`pollRef`, `cdRef`).
`Walk` is every button that only navigates: back buttons go back in the history and
reset nothing, all others go home and reset everything. The PIN screen is not in the
model, because nothing navigates to it.

## 3. The runs

| Run | Bounds | Shows |
|---|---|---|
| `serial_link` | 2 callers, 2 slaves, 2 calls, 2 lines | type, no sleeping on a reply, registration released, in order and at most once, implements `CommandService`, every call returns |
| `serial_stale_reply` (violation) | 1 caller, 1 slave, 2 calls, 2 lines | a late answer is returned as the answer to the next command |
| `serial_alive` (violation) | 1 caller, 1 slave, 1 call, 1 line | an ALIVE beat ends an open command with OK |
| `locker_commands` | 2 slots, 1 of them fitted, 2 commands, 1 opening, 1 loss or ALIVE line | states settle on the doors but for late writes over events, all commands answered, no chatter, keeps `OpenContract` |
| `cabinet_state` | 2 threads, 2 locations, 2 cabinets, 2 jobs, 1 crash, 2 faults | atomic across crashes, copies agree, flag comes down |
| `cabinet_recovery` (violation) | 1 crash | a start on recovered rows fails, every time |
| `subscriptions` | 2 job threads, 1 cabinet, 2 jobs, 1 loss | cabinets can be opened, the heartbeat follows, every thread ends |
| `subscriptions_reconnect` (violation) | 1 cabinet, subscribed at the start, 1 job, 1 loss | no open command after a reconnection |
| `provisioning` | 4 layouts of up to 2 slots, 2 setups; 3 tests, pings and stray lines in all | COMPLETED means opened, details match progress, events name the last setup, reported slaves exist, threads end |
| `demo_cabinet` | 2 cabinets, 2 boxes, 3 messages, 1 loss | keeps `OpenContract`, what is known is announced, no door left open, every command answered |
| `arduino` | 2 slots, 4 commands, 2 lines, doors moving at will until the second | does as asked and all that was asked, reports are settled and catch up |
| `kiosk` | 2 boxes, 2 customers, 5 requests | home is blank, order fits, polls and countdowns end with their screens |

**Bounds.** In `serial_link` two calls and two lines are what the hazards need: two
callers inside `_send_and_wait` at once, a line stored for the wrong one, a line
held by the listener across a timeout and a new registration. A third call adds
no new relation between callers, and the theorems hold for any number. In
`locker_commands` two commands and the close command after a door event give up to
three serial calls; one opening may come in time, late or without a command; one loss
is enough for a timeout, and timeouts need no loss at all. The slot that is not fitted
is there for its refusals: slots meet only in the one serial call.
In `cabinet_state` two jobs overlap in every way two can, a bulk setup clears first,
and two cabinets make a setup that saves one and skips the other; two faults let file
and rows drift apart and then a removal, a write or a read fail.
In `subscriptions` two jobs overlap each other, the start and the shutdown, and up to
three heartbeat threads are started; cabinets are subscribed independently of each
other, and the invariants were also checked with two (2.4 million states).
In `provisioning` two setups are what stale locker ids and late answers need, and the
four layouts have a gap, a text for a number, a slot that the Arduino lacks, missing
places and missing ids; the limit of one slot makes both the refusal and the unlimited
bulk setup happen. In `demo_cabinet` three open commands overlap on one box around a
loss. In `arduino` two lines are a command and what it can merge with, or two commands
of which the second arrives while the first blocks; `RxWords` is 6, so that the second
may or may not find room. It has two slots, since what one door is looked at late for is
the report of the one before. Doors move at will around the first line; when the second is
sent, they have come to rest closed (`DoorsRest`, an action constraint that stops no step
of the sketch), so what blocks the loop around two commands are pulses, answers and ALIVE
beats. With one slot that moves at will around two lines the invariants were checked too
(2 million states). In `kiosk` five requests take one customer through log-in, order, payment and
poll, and a second one into the first one's late answers; a second poll in flight needs
six, with which TLC found no violation in its first six million states, so what the
properties say of it rests on their theorems; `SuccessEnds`, which has none, is checked
for five.

**Deadlock** is not checked (`CHECK_DEADLOCK FALSE`): with its calls, lines, commands,
jobs and requests used up, each system rests.

**Conditions in the properties.** `StateFollowsDoor` leaves out slots whose last word
was made up (timeout, ALIVE, another slot's reply: `guessed`) or whose move was never
told (`missed`: shut again within the debounce, or an event lost); both sets are
history variables, and the run reaches states in which they are empty after
commands and events of every kind. A handler that writes over a younger door event
(`overtaken`) leaves an open door reported closed: an open command finds the door closed,
the result is published, the door springs open, its event sets OPENING, and the write of
`locker_service.py:239` sets CLOSING again. TLC finds this when `overtaken` is taken out of
the property, which says that nothing else goes wrong. A
closed door it leaves reported open is put right by the gateway's own close command,
where that is heard; where it is not (`hearsClose`), the property promises nothing for
such a slot. `CrashAtomic` is about operations that run alone (`allowed` is empty after
an overlap), whatever file and rows held when they began. A start whose reads
fail finds nothing or a location alone, which is why the property is about starts that can
read the file or the rows.
What `TypeOK` says of the location holds without overlapping jobs only: beside a clear,
`save_cabinet` passes its test on line 82 and stores a cabinet on line 97 for a location
that is forgotten, which TLC finds when `~overlapped` is taken out.
`Agreement` leaves out overlapping threads, swallowed errors and more than one
location, which a setup without clear can leave in the table and of which
`get_location` takes any. In `Subscriptions` a lost connection, a setup that ended by
an exception, overlapping jobs and a `join` that timed out are left out where the
property fails because of them: overlapping starts leave two heartbeat threads, and a
clear that stops the heartbeat after another thread's setup leaves none; with jobs one
after the other the heartbeat is right. `Reachable` holds for overlapping jobs too.
`CompletedMeansOpened` is about setups during which nothing else is heard on the line
(`trusted`): an ALIVE beat or another command's answer without a closed door passes a
test, as `serial_alive` shows. The meaning of the door field in it is the sketch's, true
for closed; `tests/test_setup_logic.py:32-54` contradicts it: the test answers with door
False for a door that is jammed and expects JAMMED, where the code reports that the door
opened. `DetailsMatchProgress` ends at the first slot without a
number, from which on the code shifts the results. `EventsNameLastSetup` leaves out a
setup that has not stored its lockers yet, or died on them (`unsaved`). `DoorsEndClosed`
leaves out boxes with a report that found no connection. `DoesAsAsked` requires that no
word was lost: with the digit of `S2:T0` lost and the next line appended, `atoi` reads 0
and slot 0 is switched. `DoesAllAsked` leaves out commands cut by the gap as well, which
happens whenever a report of a door falls into a command. `ReportsAreSettled` has the
whole debounce for the first door only: the others may be looked at long after the time
the poll took, and are then reported early, which TLC finds when it is said of all. `OrderFits` and `PollsOwned`
name the kinds of answers (`stale`) that break them when they come after their screen:
TLC finds a violation when any one of them is taken out of the condition.

**Fairness.** `serial_link` has weak fairness of each caller's own steps.
`Event.wait` has a timeout, the lock is held for a few assignments, and the write
returns or raises, so a thread in `_send_and_wait` keeps going. Nothing is assumed of
the listener, the slaves or the line. `Arm` is not fair: nobody has to call.
`subscriptions` has weak fairness of every started thread's steps and of the heartbeat's
look at the flag after a sleep of one second; a publication may hang, the network need
not return, and no job and no signal has to come.
`provisioning` has weak fairness of the setup thread and of the scan: their calls return
(`EveryCallReturns`), the rest is computation. `demo_cabinet` has it for callbacks that
have begun, reply threads and timers, and for nothing of the network. `arduino` has it
for the loop, which never stops, and for words that are on the bus. `kiosk` has it for
the countdown, an interval of the browser, and assumes nothing of the customer, the
polls and the backend. `EventsCatchUp` has the assumption that the door comes to rest
in its formula.

### What the violated properties say

1. *Stale replies.* `serial_manager.py:426` says the flush keeps old data out; it is
   commented out, and only the slave is compared.
2. *ALIVE.* Line 352 makes an ALIVE event a response to PING; the code makes it a
   response to whatever waits.
3. *Recovery.* `cabinet_state.py:108` promises to load from the database; `main.py:81`
   then reads a key that rows do not have, at every start.
4. *Reconnection.* `mqtt_client.py:65` announces that the client reconnects; it does, and
   what the startup subscribed for the cabinets is not subscribed again.

## 4. The proofs

Eight modules of theorems, one beside each module they are about. Every invariant and
every refinement that a run checks is the conclusion of a theorem, for any sets and any
bounds. What the theorems assume is named in the modules: that `None` is none of the
values it stands beside (`NoneAssumption`, `SlotsAssumption`), that bounds are naturals
(`BoundsAssumption`), that a layout is a sequence of entries (`LayoutsAssumption`), that
a missing, an empty and a torn file are not documents (`FileAssumption`), that a PING for
the sketch is about no slot (`CommandsAssumption`), that the
simulator is started with cabinets of its own (`CabinetsAssumption`). TLC evaluates all of
them in the runs. No theorem has a hypothesis besides.

| Module | Theorems |
|---|---|
| `SerialLinkProofs` | types, `InOrderAtMostOnce`, `NoSleepOnReply`, `Released`, implements `CommandService` |
| `LockerCommandsProofs` | types, `AllAnswered`, `StateFollowsDoor`, `NoChatter`, implements `OpenContract` |
| `CabinetStateProofs` | types, `FlagReleased`, `CrashAtomic`, `Agreement` |
| `SubscriptionsProofs` | types, `Reachable`, `HeartbeatFollows` |
| `ProvisioningProofs` | types, `ReportedExist`, `EventsNameLastSetup`, `DetailsMatchProgress`, `CompletedMeansOpened` |
| `DemoCabinetProofs` | types, `KnownAreOnline`, `DoorsEndClosed`, implements `OpenContract` |
| `ArduinoControllerProofs` | types, `ReportsAreSettled`, `DoesAsAsked`, `DoesAllAsked` |
| `KioskProofs` | types, `HomeIsBlank`, `PollsOwned`, `OrderFits` |

Few of these properties are inductive; the strengthenings say why they hold.

* **SerialLink.** The order of replies follows from `Ordered`: the lines on their way
  are numbered in the order wire, listener's hand, mailbox, and what was used is older
  than all of them. Every action moves the oldest line one place forward or drops it.
  That nobody sleeps on a reply follows from `Announced`: while a line lies in the
  mailbox the event is set, no caller is inside `Event.wait`, and every call in
  progress has heard the line. `Implements` combines both: a step of `Take` with a
  reply is `Succeed` because the reply was heard by the call (`Announced`) and is newer
  than everything used (`Ordered`).
* **LockerCommands.** `OnePending`: the command in the serial call is the only one
  without a result. `StateFollowsDoor` needs three facts. The last event on its way about
  a slot says what the Arduino remembers of its door (`LastWord`). A reply that no later
  event has overtaken says what the Arduino remembers of the door, or a later event is on
  its way or will be (`Fresh`; lines are handled in the order of their numbers, `Ordered`,
  and the answered command is the one in work, `Numbered`, `InWork`); behind one that was
  overtaken by the closing of the door a close command follows where it is heard
  (`Followed`). And something on its way will write the slot's state (`Coming`), or the
  state is what the Arduino remembers, or it is a late write's, which the close command
  that follows puts right (`Right`). For `NoChatter`, every command of the backend pays
  for itself and every opening of a door for the close command after it (`Paid`): the
  coin passes from the opened door (`Ajar`) to the event that it was closed and to the
  close command. The bound is what the refinement of `OpenContract` needs: its commands
  are the numbers up to those of the backend and of the openings together.
* **CabinetState.** A thread's list of steps is well formed (`Work`): a dump follows an
  open and an open a build, nothing follows a setup's `finish`, and whatever may raise
  has it at the end. `ListInv` says so of all threads, and that a document about to be
  written has been built (`Built`); the flag and the contents of the file follow. That
  no cabinet is remembered without a location needs that nobody else is at work (`Alone`):
  then what memory holds or a thread is about to write is coherent but between the two
  assignments of a clear (`Placed`). `CrashAtomic` is about such a thread too, and about
  rows that fit each other (`RowsOK`), while file and rows may differ as they like: at
  each step of its list what a start would find in either is one of the states that were
  promised when the operation began (`FindsAllowed`), because what it is about to write is
  one of them (`Writes`), and a torn file is passed over for rows that are (`Midway`). For
  `Agreement` the same stages (`Stage`) say how far file and rows have come up to memory,
  and that all of them have when the list is empty (`AgreeInv`).
* **Subscriptions.** `Sound` describes the lists of all threads: steps are linked in the
  order of the code (`Linked`), a cabinet is saved before it is subscribed (`SaveFirst`),
  a list that serves the connection ends as it began (`Serves`), one that stops something
  finishes it (`Finishes`). `Reachable` follows from `ReachInv`: every configured cabinet
  is subscribed, or the step that subscribes it is in somebody's list (`Pending`). For
  `HeartbeatFollows` at most one list is at work (`Alone`), and `BeatInv` says, for each
  place in it (`Stage`), which of flag, thread and memory have changed and what is still
  due (`Due`).
* **Provisioning.** Every line is from the slave there is, and so is what the scan has
  found (`LinesAreHere`, `FoundAreHere`). What is stored as `lockers` is what the backend
  was told (`StoresWhatWasTold`). Results fall behind the layout with the first gap and
  never before it (`GapsShift`, `Matched`), which is why the details repeat the progress
  up to there. `CompletedMeansOpened` holds because a trusted setup without a failure so
  far has used up the lines of its earlier tests (`Clean`): each test has one command, one
  line or one line heard (`OneAnswer`), so its answer is its own. A late answer needs a
  timeout before it, and the timeout has failed a test.
* **ArduinoController.** The words in the command buffer, in the receive buffer and on the
  bus form one stream of well-formed lines, of which the first may have lost its front.
  A word that moves on leaves the stream as it is, a line cut by the gap drops its front
  (`Cut`), a processed line drops the first one and serves it (`Obeyed`), a new one is
  appended (`Sent`). The commands obeyed and those still in the stream are numbered among
  the ones asked, in order (`Faithful`), and when nothing was cut they are all of them
  (`Complete`). `ReportsAreSettled` follows from what each poll leaves behind (`Settling`):
  a door that it found other than reported was counted, and the age of the first door,
  which is looked at with a fresh time, never exceeds the time that really passed, since
  both grow by the same amounts. The proof needed a fact about the commands that the model had left open, a
  PING without slot (`CommandsAssumption`), and a definition of `SlotIn` by cases that do
  not overlap.
* **DemoCabinet.** Commands have numbers of messages that came, and one in delivery has a
  new one (`Numbered`), so no two threads act for the same command; a thread in its delay
  acts for a command that still waits (`DelayedWait`); a box reported open has a timer left
  (`OpenHasTimer`).
* **Kiosk.** `Traced`: whoever logged in, chose or ordered something has a screen in the
  history that cannot be left by going back. The home screen is the first of the history
  and nowhere else in it, so nothing is left over once it is reached. What is still the
  payment screen's own is there only while that screen is (`RequestsTyped`). `OrderFits`
  rests on what a request knows: while its screen still waits for it, what it captured is
  what the kiosk shows today (`FreshInv`), and an order can be paid only where the last
  screen that no back button leaves is the payment screen of that order (`OrderInv`). The
  success screen was shown by a request for this customer (`ShownInv`).

**Only model-checked.** Liveness under fairness is out of the prover's reach:
`EveryCallReturns`, `EveryThreadFinishes`, `ThreadsEnd`, `EveryCommandAnswered`,
`EventsCatchUp`, `SuccessEnds`. So are the violated properties, of course: TLC gives the
counterexamples. Nothing else that a run checks is left without a theorem.

## 5. Plan

The parts that carry the program's logic are modelled, and their safety is proved. What
can still be added is proof:

1. What liveness rests on without fairness: that a thread which has not ended always has a
   step that is enabled, as invariants.
2. That the calls in `LockerCommands` and `Provisioning` are behaviours of
   `CommandService` with the lines of their Arduino as its messages.

## 6. Not modelled

Time (pauses, intervals and baud rate appear only as "may happen at any moment"),
JSON and topic texts, logging, the tables of logs and settings, the simulation mode of
`SerialManager` (constant replies), the GPIO driver that is constructed and never
called, the look of the screens, and the bench scripts. The endpoints of the
configuration API other than the clear read or write single settings, which the admin
screen shows. One of them, `MAX_CABINETS`, is loaded again when it is written; it is
only the default end of a discovery, and in `Provisioning` the range of a discovery is
arbitrary. Settings of the connection take effect at the next start. The USB console
of the sketch, the kiosk's promotions, its box management dialog and its refresh of the
list of boxes change no state that the properties are about. Access control and the
contents of orders belong to the backend, which is not in this repository.

## 7. Running

    tlc -config SerialLink.cfg SerialLink.tla
    tlc -config CabinetState.cfg MCCabinetState.tla
    tlc -config Subscriptions.cfg Subscriptions.tla
    tlc -config Provisioning.cfg MCProvisioning.tla
    tlc -config ArduinoController.cfg MCArduinoController.tla
    tlapm SerialLinkProofs.tla
    tlapm LockerCommandsProofs.tla
    tlapm CabinetStateProofs.tla
    tlapm SubscriptionsProofs.tla
    tlapm ProvisioningProofs.tla
    tlapm ArduinoControllerProofs.tla
    tlapm DemoCabinetProofs.tla
    tlapm KioskProofs.tla

The module and the configuration of every run are in `PROJECT.json`.
