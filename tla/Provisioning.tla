------------------------------ MODULE Provisioning ------------------------------
(***************************************************************************)
(* How a gateway and a cabinet are provisioned: a setup thread tests the   *)
(* slots of a layout one by one, reports and then stores what it was given *)
(* (src/services/setup_handler.py), while a discovery thread may be        *)
(* scanning the bus (src/services/discovery_service.py) and a clear may    *)
(* come at any time.  Both threads call the same SerialManager, which      *)
(* promises them what CommandService says and no more.                     *)
(*                                                                         *)
(* One cabinet, on the slave Here; one setup at a time and one scan at a   *)
(* time.  File and tables are in CabinetState; here is the memory.         *)
(***************************************************************************)
EXTENDS Naturals, Sequences

CONSTANTS Slots,        \* the slot numbers that occur
          Wired,        \* those the Arduino has
          None,
          Layouts,      \* the layouts of the setup commands
          MaxSlots,     \* MAX_SLOTS
          MaxCabinets,  \* settings.MAX_CABINETS, the range of a scan
          Here,         \* the slave that exists
          MaxSetups,    \* bound: setup commands
          MaxWork       \* bound: slots in layouts, slaves to scan and stray lines

(* A slot of a layout has its number as an integer or as a text, or none   *)
(* that can be used.  Rows and columns, or ids and labels, may be missing  *)
(* from the slots of a layout.                                             *)
Entry == [slot : Slots \union {None}, text : BOOLEAN]

ASSUME SlotsAssumption == None \notin Slots /\ Wired \subseteq Slots
ASSUME LayoutsAssumption ==
         \A l \in Layouts :
           /\ l.slots \in Seq(Entry) /\ l.places \in BOOLEAN /\ l.ids \in BOOLEAN
           /\ \A i, j \in DOMAIN l.slots :
                l.slots[i].slot = l.slots[j].slot => i = j \/ l.slots[i].slot = None
ASSUME BoundsAssumption ==
         /\ {MaxSlots, MaxCabinets, MaxSetups, MaxWork} \subseteq Nat
         /\ Here \in 1..MaxCabinets

VARIABLES stage,       \* the setup thread's place in _run_setup
          layout,     \* its command
          at,          \* the slot of the layout it is at
          results,     \* the results so far: whether each test passed
          progress,    \* the progress messages published
          published,   \* the result published
          location, known,   \* memory: _location, and the cabinet in _cabinets
          lockers,     \* memory: per slot, the setup whose locker id _lockers holds
          scan,        \* the discovery thread: "idle", "next" or "calling"
          sid, end, found,   \* its loop
          report,      \* the slaves in the last discovery report
          phase, result, heard, used,   \* the serial calls, see CommandService
          todo,        \* commands in the Arduino's receive buffer
          wire,        \* lines on their way to the gateway
          setups, work, spoken,  \* how many so far
          told,        \* the last setup reported as other than FAILED, its layout
          unsaved,     \* history: that setup has not stored its lockers
          opened,      \* history: doors that opened in the tests of this setup
          trusted      \* history: nothing else was heard on the line during it

setupVars == <<stage, layout, at, results, progress, published>>
memory == <<location, known, lockers>>
scanVars == <<scan, sid, end, found, report>>
serial == <<phase, result, heard, used>>
cabinet == <<todo, wire, spoken>>
counters == <<setups, work>>
history == <<told, unsaved, opened, trusted>>
vars == <<setupVars, memory, scanVars, serial, cabinet, counters, history>>

(* A line, or an outcome made up by the gateway, with the fields that are  *)
(* read: result == "OK", and the door, taken for open when it is missing.  *)
(* The numbers are not in the code: n counts the lines.                    *)
Line(kind, ok, closed) ==
  [kind |-> kind, slave |-> Here, ok |-> ok, closed |-> closed, n |-> spoken + 1]
TimedOut == [kind |-> "timeout", slave |-> 0, ok |-> FALSE, closed |-> FALSE, n |-> 0]

Serial == INSTANCE CommandService
            WITH Callers <- {"setup", "discovery"}, Message <- {}, Failure <- {TimedOut}

NoLockers == [s \in Slots |-> 0]
NoSetup == [n |-> 0, slots |-> <<>>]

Init == /\ stage = "idle" /\ layout = None /\ at = 0
        /\ results = <<>> /\ progress = <<>> /\ published = None
        /\ location = FALSE /\ known = FALSE /\ lockers = NoLockers
        /\ scan = "idle" /\ sid = 0 /\ end = 0 /\ found = {} /\ report = {}
        /\ Serial!Init
        /\ todo = <<>> /\ wire = <<>> /\ spoken = 0
        /\ setups = 0 /\ work = 0
        /\ told = NoSetup /\ unsaved = FALSE /\ opened = {} /\ trusted = TRUE

--------------------------------------------------------------------------------
(* The setup command *)

(* handle: a single setup with too many slots is answered at once.         *)
Refuse(l) ==
  /\ stage = "idle" /\ setups < MaxSetups
  /\ Len(l.slots) > MaxSlots
  /\ setups' = setups + 1
  /\ published' = [status |-> "FAILED", details |-> <<>>, of |-> l]
  /\ UNCHANGED <<stage, layout, at, results, progress, memory, scanVars, serial,
                 cabinet, work, history>>

Usable(slots) == SelectSeq(slots, LAMBDA e : e.slot # None)

(* handle starts a thread.  A bulk setup is not checked for its slots.     *)
Begin(l, b) ==
  /\ stage = "idle" /\ setups < MaxSetups
  /\ b \/ Len(l.slots) <= MaxSlots
  /\ work' = work + Len(Usable(l.slots)) /\ work' <= MaxWork
  /\ stage' = (IF b THEN "prune" ELSE "locate")
  /\ layout' = l /\ at' = 0
  /\ results' = <<>> /\ progress' = <<>> /\ published' = None
  /\ setups' = setups + 1
  /\ opened' = {}
  /\ trusted' = (scan = "idle" /\ todo = <<>> /\ wire = <<>>)
  /\ UNCHANGED <<memory, scanVars, serial, cabinet, told, unsaved>>

(* clear: _location and _cabinets are emptied, _lockers is not touched.    *)
Forget == location' = FALSE /\ known' = FALSE /\ UNCHANGED lockers

Prune ==
  /\ stage = "prune"
  /\ Forget
  /\ stage' = "locate"
  /\ UNCHANGED <<layout, at, results, progress, published, scanVars, serial,
                 cabinet, counters, history>>

Locate ==
  /\ stage = "locate"
  /\ location' = TRUE
  /\ stage' = "next" /\ at' = 1
  /\ UNCHANGED <<layout, results, progress, published, known, lockers, scanVars,
                 serial, cabinet, counters, history>>

(* Mistake: a slot without a number is not passed over.                    *)
StayThere == UNCHANGED at

PassOver == at' = at + 1

(* A slot without a usable number gets no test, no message and no result.  *)
Skip ==
  /\ stage = "next" /\ at <= Len(layout.slots)
  /\ layout.slots[at].slot = None
  /\ PassOver
  /\ UNCHANGED <<stage, layout, results, progress, published, memory, scanVars,
                 serial, cabinet, counters, history>>

(* test_slot is called.                                                    *)
Test ==
  /\ stage = "next" /\ at <= Len(layout.slots)
  /\ layout.slots[at].slot # None
  /\ Serial!Begin("setup")
  /\ todo' = Append(todo, [op |-> "T", slot |-> layout.slots[at].slot])
  /\ stage' = "calling"
  /\ UNCHANGED <<layout, at, results, progress, published, memory, scanVars,
                 wire, spoken, counters, history>>

(* Mistake: the door is looked at before the result, and a timeout has no  *)
(* door.                                                                   *)
PassedByDoor(r) == ~r.closed

(* A test passes when it was answered with OK and the door is not closed.  *)
Passed(r) == r.ok /\ ~r.closed

(* Mistake: a failed test leaves no result behind.                         *)
RecordPasses(pass) == results' = IF pass THEN Append(results, pass) ELSE results

Record(pass) == results' = Append(results, pass)

(* The test is evaluated and its progress published.                       *)
Evaluate ==
  /\ stage = "calling" /\ phase["setup"] = "done"
  /\ LET pass == Passed(result["setup"]) IN
       /\ Record(pass)
       /\ progress' = Append(progress, [slot |-> layout.slots[at].slot, pass |-> pass])
  /\ Serial!End("setup")
  /\ stage' = "next" /\ at' = at + 1
  /\ UNCHANGED <<layout, published, memory, scanVars, cabinet, counters, history>>

(* The list of details is the layout zipped with the results.              *)
Details == [i \in DOMAIN results |-> [slot |-> layout.slots[i].slot, pass |-> results[i]]]

Failed == \E i \in DOMAIN results : ~results[i]
Status == IF ~Failed THEN "COMPLETED"
          ELSE IF \E i \in DOMAIN results : results[i] THEN "PARTIAL" ELSE "FAILED"

(* Mistake: the cabinet is stored whatever the tests said.                 *)
AlwaysSaved == TRUE

(* Only a cabinet with a slot that works, or without failures, is stored.  *)
Saved == Status # "FAILED"

(* The result is published, or a slot without row and column raises.       *)
Publish ==
  /\ stage = "next" /\ at > Len(layout.slots)
  /\ IF layout.places \/ results = <<>>
     THEN /\ published' = [status |-> Status, details |-> Details, of |-> layout]
          /\ IF Status # "FAILED"
             THEN told' = [n |-> setups, slots |-> layout.slots] /\ unsaved' = TRUE
             ELSE UNCHANGED <<told, unsaved>>
          /\ stage' = IF Saved THEN "save" ELSE "idle"
     ELSE stage' = "idle" /\ UNCHANGED <<published, told, unsaved>>
  /\ UNCHANGED <<layout, at, results, progress, memory, scanVars, serial, cabinet,
                 counters, opened, trusted>>

(* save_cabinet returns when a clear has taken the location away.          *)
SaveCabinet ==
  /\ stage = "save"
  /\ known' = (known \/ location)
  /\ stage' = "lockers"
  /\ UNCHANGED <<layout, at, results, progress, published, location, lockers,
                 scanVars, serial, cabinet, counters, history>>

(* The numbers by which door events will ask: a text is not found.         *)
Numbers(slots) == {slots[i].slot : i \in {j \in DOMAIN slots : ~slots[j].text}}
IdsOf(setup) == [s \in Slots |-> IF s \in Numbers(setup.slots) THEN setup.n ELSE 0]

(* Mistake: save_lockers adds to the lockers that are there.               *)
Merged == [s \in Slots |-> IF s \in Numbers(layout.slots) THEN setups ELSE lockers[s]]

Replaced == IdsOf([n |-> setups, slots |-> layout.slots])

(* save_lockers replaces the lockers of the cabinet; a slot without id or  *)
(* label raises before that.                                               *)
SaveLockers ==
  /\ stage = "lockers"
  /\ IF layout.ids \/ layout.slots = <<>>
     THEN lockers' = Replaced /\ unsaved' = FALSE
     ELSE UNCHANGED <<lockers, unsaved>>
  /\ stage' = "idle"
  /\ UNCHANGED <<layout, at, results, progress, published, location, known,
                 scanVars, serial, cabinet, counters, told, opened, trusted>>

(* do_clear, or the clear of the configuration API, in a thread of its own. *)
Clear ==
  /\ location
  /\ Forget
  /\ UNCHANGED <<setupVars, scanVars, serial, cabinet, counters, history>>

(* What handle_door_event puts in the status of a slot: the setup its      *)
(* locker id is from, 0 for an unknown locker.                             *)
LockerId(slot) == lockers[slot]

--------------------------------------------------------------------------------
(* The discovery command *)

(* A thread scans the slaves up to the number in the command.              *)
Discover(max) ==
  /\ scan = "idle" /\ work + max <= MaxWork
  /\ work' = work + max
  /\ scan' = "next" /\ sid' = 1 /\ end' = max /\ found' = {}
  /\ trusted' = FALSE /\ opened' = {}
  /\ UNCHANGED <<setupVars, memory, report, serial, cabinet, setups, told,
                 unsaved>>

(* PING reaches the slave it is for, if there is one.                      *)
Ping ==
  /\ scan = "next" /\ sid <= end
  /\ Serial!Begin("discovery")
  /\ todo' = IF sid = Here THEN Append(todo, [op |-> "PING", slot |-> None]) ELSE todo
  /\ scan' = "calling"
  /\ UNCHANGED <<setupVars, memory, sid, end, found, report, wire, spoken, counters,
                 history>>

(* Mistake: whatever is OK counts as the answer of the slave asked.        *)
AcceptedIfOk(r) == r.ok

(* Only a line of the slave asked, or of none, counts.                     *)
Accepted(r) == r.ok /\ r.slave = sid

Note ==
  /\ scan = "calling" /\ phase["discovery"] = "done"
  /\ found' = IF Accepted(result["discovery"]) THEN found \union {sid} ELSE found
  /\ Serial!End("discovery")
  /\ scan' = "next" /\ sid' = sid + 1
  /\ UNCHANGED <<setupVars, memory, end, report, cabinet, counters, history>>

Report ==
  /\ scan = "next" /\ sid > end
  /\ report' = found
  /\ scan' = "idle" /\ sid' = 0 /\ end' = 0 /\ found' = {}
  /\ UNCHANGED <<setupVars, memory, serial, cabinet, counters, history>>

--------------------------------------------------------------------------------
(* The serial line and the Arduino *)

(* A call of either thread ends, as CommandService allows: whatever is     *)
(* lost on the bus looks like a call that fails and a line nobody waits for. *)
CallReturns(c) ==
  /\ Serial!Succeed(c) \/ Serial!Fail(c)
  /\ UNCHANGED <<setupVars, memory, scanVars, cabinet, counters, history>>

WaitsForHere == phase["setup"] = "calling" \/ (phase["discovery"] = "calling" /\ sid = Here)
WaitsForOther == phase["discovery"] = "calling" /\ sid # Here

(* The listener stores a line when it waits for the slave, and which slave *)
(* that is was set by the call that began last.                            *)
ListenerTakes ==
  /\ wire # <<>>
  /\ \/ WaitsForHere /\ Serial!Accept(Head(wire))
     \/ (~WaitsForHere \/ WaitsForOther) /\ UNCHANGED serial
  /\ wire' = Tail(wire)
  /\ UNCHANGED <<setupVars, memory, scanVars, todo, spoken, counters, history>>

Says(line) == wire' = Append(wire, line) /\ spoken' = spoken + 1

(* testSlot pulses the relay and reads the sensor: the door has sprung     *)
(* open or it is stuck.  A slot that the Arduino does not have, and PING.  *)
Execute ==
  /\ todo # <<>>
  /\ todo' = Tail(todo)
  /\ LET c == Head(todo) IN
       \/ c.op = "T" /\ c.slot \in Wired
          /\ \E closed \in BOOLEAN :
               /\ Says(Line("test", TRUE, closed))
               /\ opened' = IF closed \/ ~trusted THEN opened ELSE opened \union {c.slot}
       \/ c.op = "T" /\ c.slot \notin Wired
          /\ Says(Line("test", FALSE, FALSE)) /\ UNCHANGED opened
       \/ c.op = "PING" /\ Says(Line("pong", TRUE, FALSE)) /\ UNCHANGED opened
  /\ UNCHANGED <<setupVars, memory, scanVars, serial, counters, told, unsaved, trusted>>

(* An ALIVE beat, or the answer to an open or close command of the MQTT    *)
(* thread.                                                                 *)
Stray ==
  /\ work < MaxWork
  /\ work' = work + 1
  /\ \E closed \in BOOLEAN : Says(Line("stray", TRUE, closed))
  /\ trusted' = FALSE /\ opened' = {}
  /\ UNCHANGED <<setupVars, memory, scanVars, serial, todo, setups, told, unsaved>>

--------------------------------------------------------------------------------
SetupStep == \/ Prune \/ Locate \/ Skip \/ Test \/ CallReturns("setup") \/ Evaluate
             \/ Publish \/ SaveCabinet \/ SaveLockers
ScanStep == Ping \/ CallReturns("discovery") \/ Note \/ Report

Next == \/ \E l \in Layouts : Refuse(l) \/ \E b \in BOOLEAN : Begin(l, b)
        \/ \E max \in 1..MaxCabinets : Discover(max)
        \/ SetupStep \/ ScanStep
        \/ Clear \/ ListenerTakes \/ Execute \/ Stray

(* A call returns (EveryCallReturns of SerialLink), and threads run on.    *)
Spec == Init /\ [][Next]_vars /\ WF_vars(SetupStep) /\ WF_vars(ScanStep)

--------------------------------------------------------------------------------
(* Properties *)

(* The variables keep their types.                                         *)
TypeOK ==
  /\ stage \in {"idle", "prune", "locate", "next", "calling", "save", "lockers"}
  /\ layout \in Layouts \union {None}
  /\ results \in Seq(BOOLEAN)
  /\ progress \in Seq([slot : Slots, pass : BOOLEAN])
  /\ {location, known, unsaved, trusted} \subseteq BOOLEAN
  /\ lockers \in [Slots -> 0..MaxSetups]
  /\ scan \in {"idle", "next", "calling"}
  /\ found \subseteq 1..MaxCabinets /\ report \subseteq 1..MaxCabinets
  /\ opened \subseteq Slots
  /\ known => told.n # 0

(* A cabinet reported COMPLETED has no door that failed its test: lost     *)
(* commands, lost answers and answers that come late, and are then taken   *)
(* for the answers to later tests, cannot make a stuck door pass.  That    *)
(* requires that nothing else is heard on the line: an ALIVE beat, the     *)
(* answer to a PING or to another command counts as a passed test.         *)
CompletedMeansOpened ==
  (trusted /\ published # None /\ published.status = "COMPLETED" /\ published.of = layout)
     => \A i \in DOMAIN layout.slots : layout.slots[i].slot \in opened \union {None}

(* The details of the result repeat what the progress messages said of the *)
(* same slots, up to the first slot of the layout without a number: from   *)
(* there on the results belong to later slots than they are reported for.  *)
DetailsMatchProgress ==
  published # None =>
    \A i \in DOMAIN published.details :
      (\A j \in 1..i : published.of.slots[j].slot # None)
         => published.details[i] = progress[i]

(* Door events of a known cabinet carry the locker ids of the last setup   *)
(* that the backend was told of as COMPLETED or PARTIAL, and no others,  *)
(* whichever setups and clears there were before, except while that setup  *)
(* has not stored them (or has died on it): clear leaves the old ids.      *)
EventsNameLastSetup ==
  (known /\ ~unsaved) => \A s \in Slots : LockerId(s) = IdsOf(told)[s]

(* A discovery report lists slaves that exist, although the answers that   *)
(* are meant for a setup at work may end the calls of the scan.            *)
ReportedExist == report \subseteq {Here}

(* Setups and scans end, whatever is lost, skipped or refused.             *)
ThreadsEnd == /\ stage # "idle" ~> stage = "idle"
              /\ scan # "idle" ~> scan = "idle"
================================================================================
