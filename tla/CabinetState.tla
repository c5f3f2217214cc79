------------------------------ MODULE CabinetState ------------------------------
(***************************************************************************)
(* What the gateway remembers of its location and cabinets: CabinetState   *)
(* (src/infracstructure/cabinet_state.py) in memory, its JSON file and its *)
(* rows in PostgreSQL, written without a lock by the threads that run a    *)
(* setup (src/services/setup_handler.py) or a clear, and read back by the  *)
(* process that main.py starts after a crash.                              *)
(*                                                                         *)
(* A thread is the list of steps it still has to take, each of them one    *)
(* assignment, one system call or one database transaction.                *)
(***************************************************************************)
EXTENDS FiniteSets, SequencesExt

CONSTANTS Threads,      \* setup threads, do_clear threads, the API's thread
          Locations, Cabinets,
          None,         \* Python's None, and no file
          Empty, Torn,  \* a file just truncated, one that cannot be parsed
          MaxJobs,      \* bound: setups and clears
          MaxCrashes,   \* bound: crashes
          MaxFaults     \* bound: database and file errors, bad payloads

ASSUME NoneAssumption == None \notin Locations /\ Cardinality({None, Empty, Torn}) = 3
ASSUME BoundsAssumption == {MaxJobs, MaxCrashes, MaxFaults} \subseteq Nat

VARIABLES status,    \* the process: "up", "down", or "failed" when it started
          todo,      \* per thread, the steps it still has to take
          local,     \* per thread, the location of its cabinet or what it will dump
          writing,   \* the threads that have the JSON file open
          memory,    \* _location and _cabinets
          mapped,    \* the cabinets in _lockers
          running,   \* setup_handler._is_running
          json,      \* the JSON file: a state, Empty, Torn or None
          db,        \* the tables locations, cabinets and lockers
          jobs, crashes, faults,   \* how many so far
          overlapped,              \* history: two threads were at work at once
          allowed    \* history: what a start may find; {}: nothing was promised

disk == <<json, db>>
threads == <<todo, local, writing>>
counters == <<jobs, crashes, faults>>
vars == <<status, threads, memory, mapped, running, disk, counters, overlapped,
          allowed>>

State == [loc : Locations \union {None}, cabs : [Cabinets -> Locations \union {None}]]
NoCabinets == [c \in Cabinets |-> None]
Blank == [loc |-> None, cabs |-> NoCabinets]
Listed(cabs) == {c \in Cabinets : cabs[c] # None}

\* What cannot be parsed is no state.
ASSUME FileAssumption == {None, Empty, Torn} \intersect State = {}

--------------------------------------------------------------------------------
(* The operations as lists of steps *)

Do(what, x) == [do |-> what, x |-> x]

(* Mistake: clear leaves the rows.                                         *)
ClearFileOnly ==
  <<Do("forget_location", None), Do("forget_cabinets", None), Do("unlink", None)>>

SaveJson == <<Do("build", None), Do("open", None), Do("dump", None)>>
ClearSteps == <<Do("forget_location", None), Do("forget_cabinets", None),
                Do("unlink", None), Do("clear_rows", None)>>
SaveLocation(l) == <<Do("set_location", l), Do("location_row", l)>> \o SaveJson
SaveCabinet(c) == <<Do("cabinet_data", c), Do("set_cabinet", c), Do("cabinet_row", c)>>
                    \o SaveJson
SaveLockers(c) == <<Do("locker_rows", c), Do("set_lockers", c)>>

CheckCabinets(cs) == IF cs = <<>> THEN <<>> ELSE <<Do("check", cs)>>

(* _run_setup: a bulk setup clears first; then the location, and for every *)
(* cabinet its test (in "check"), its cabinet and its lockers.             *)
SetupSteps(bulk, l, cs) ==
  <<Do("start", None)>> \o (IF bulk THEN ClearSteps ELSE <<>>) \o SaveLocation(l)
    \o CheckCabinets(cs) \o <<Do("finish", None)>>

CabinetLists == {cs \in UNION {[1..n -> Cabinets] : n \in 0..Cardinality(Cabinets)} :
                   IsInjective(cs)}

Idle(t) == todo[t] = <<>>
InSetup(t) == ~Idle(t) /\ Last(todo[t]).do = "finish"

(* Thread t takes its next step, a "what".                                 *)
At(t, what) == status = "up" /\ ~Idle(t) /\ Head(todo[t]).do = what
On(t) == Head(todo[t]).x
Step(t) == todo' = [todo EXCEPT ![t] = Tail(@)]

(* Mistake: no finally clause.                                             *)
JustStop(t) == todo' = [todo EXCEPT ![t] = <<>>]

(* An exception: the setup goes to its finally clause.                     *)
Abort(t) == todo' = [todo EXCEPT ![t] = <<Last(@)>>]

Fault == faults < MaxFaults /\ faults' = faults + 1

--------------------------------------------------------------------------------
(* What a start would find *)

WithLockers(s, lockers) ==
  [loc |-> s.loc, cabs |-> s.cabs, lockers |-> lockers \intersect Listed(s.cabs)]
Present == WithLockers(memory, mapped)

Readable == json \notin {None, Empty, Torn}

(* LIMIT 1 without an order: any row of the table of locations.            *)
FromRows == IF db.locs = {} THEN {Blank}
            ELSE {[loc |-> l, cabs |-> db.cabs] : l \in db.locs}

(* Mistake: the database is not read when the file exists but is torn.     *)
FoundInFileOnly ==
  {WithLockers(s, db.lockers) : s \in IF Readable THEN {json}
                                      ELSE IF json = None THEN FromRows ELSE {Blank}}

(* load: the file when it can be parsed, else the rows; lockers from rows. *)
Found == {WithLockers(s, db.lockers) : s \in IF Readable THEN {json} ELSE FromRows}

(* What the file and the rows hold, either of which a start may read.      *)
Stored == (IF Readable THEN {json} ELSE {}) \union FromRows

(* An operation begins that would turn what memory or rows hold into one   *)
(* of results, and the rows of lockers into lockers.  Until the next one   *)
(* begins a start may find what was stored, or a result of the operation,  *)
(* with the lockers of before or after it.                                 *)
Promise(results, lockers) ==
  allowed' = IF overlapped THEN {}
             ELSE {WithLockers(s, ls) : s \in Stored \union results,
                                        ls \in {db.lockers, lockers}}

--------------------------------------------------------------------------------
(* Jobs *)

(* The MQTT thread starts a setup thread unless the flag says that one is  *)
(* at work; the thread has yet to set the flag.  A bulk setup has any      *)
(* number of cabinets, any other setup has one.                            *)
Setup(t) ==
  /\ status = "up" /\ Idle(t) /\ jobs < MaxJobs
  /\ ~running
  /\ \E bulk \in BOOLEAN, l \in Locations, cs \in CabinetLists :
       /\ bulk \/ Len(cs) = 1
       /\ todo' = [todo EXCEPT ![t] = SetupSteps(bulk, l, cs)]
  /\ jobs' = jobs + 1
  /\ overlapped' = (overlapped \/ \E u \in Threads : ~Idle(u))
  /\ UNCHANGED <<status, local, writing, memory, mapped, running, disk, crashes,
                 faults, allowed>>

(* clear() is called by a thread of its own or by the configuration API.   *)
Clear(t) ==
  /\ status = "up" /\ Idle(t) /\ jobs < MaxJobs
  /\ todo' = [todo EXCEPT ![t] = ClearSteps]
  /\ jobs' = jobs + 1
  /\ overlapped' = (overlapped \/ \E u \in Threads : ~Idle(u))
  /\ UNCHANGED <<status, local, writing, memory, mapped, running, disk, crashes,
                 faults, allowed>>

Start(t) ==
  /\ At(t, "start")
  /\ running' = TRUE
  /\ Step(t)
  /\ UNCHANGED <<status, local, writing, memory, mapped, disk, counters, overlapped,
                 allowed>>

(* finally: the flag is reset, even when another setup is still at work.   *)
Finish(t) ==
  /\ At(t, "finish")
  /\ running' = FALSE
  /\ Step(t)
  /\ UNCHANGED <<status, local, writing, memory, mapped, disk, counters, overlapped,
                 allowed>>

--------------------------------------------------------------------------------
(* clear *)

(* Mistake: the cabinets stay when the location goes.                      *)
KeepCabinets == UNCHANGED memory

(* clear assigns the location, then the cabinets; _lockers is not touched. *)
ForgetLocation(t) ==
  /\ At(t, "forget_location")
  /\ memory' = [memory EXCEPT !.loc = None]
  /\ Promise({Blank}, {})
  /\ Step(t)
  /\ UNCHANGED <<status, local, writing, mapped, running, disk, counters, overlapped>>

DropCabinets == memory' = [memory EXCEPT !.cabs = NoCabinets]

ForgetCabinets(t) ==
  /\ At(t, "forget_cabinets")
  /\ DropCabinets
  /\ Step(t)
  /\ UNCHANGED <<status, local, writing, mapped, running, disk, counters, overlapped,
                 allowed>>

(* A thread that has the file open goes on writing to no file.             *)
Unlink(t) ==
  /\ At(t, "unlink")
  /\ \/ json' = None /\ writing' = {} /\ UNCHANGED faults
     \/ json # None /\ Fault /\ UNCHANGED <<json, writing>>
  /\ Step(t)
  /\ UNCHANGED <<status, local, memory, mapped, running, db, jobs, crashes,
                 overlapped, allowed>>

NoRows == [locs |-> {}, cabs |-> NoCabinets, lockers |-> {}]

ClearRows(t) ==
  /\ At(t, "clear_rows")
  /\ \/ db' = NoRows /\ UNCHANGED faults
     \/ Fault /\ UNCHANGED db
  /\ Step(t)
  /\ UNCHANGED <<status, local, writing, memory, mapped, running, json, jobs,
                 crashes, overlapped, allowed>>

--------------------------------------------------------------------------------
(* save_location, save_cabinet and save_lockers *)

SetLocation(t) ==
  /\ At(t, "set_location")
  /\ memory' = [memory EXCEPT !.loc = On(t)]
  /\ Promise({[s EXCEPT !.loc = On(t)] : s \in FromRows \union {memory}}, db.lockers)
  /\ Step(t)
  /\ UNCHANGED <<status, local, writing, mapped, running, disk, counters, overlapped>>

LocationRow(t) ==
  /\ At(t, "location_row")
  /\ \/ db' = [db EXCEPT !.locs = @ \union {On(t)}] /\ UNCHANGED faults
     \/ Fault /\ UNCHANGED db
  /\ Step(t)
  /\ UNCHANGED <<status, local, writing, memory, mapped, running, json, jobs,
                 crashes, overlapped, allowed>>

(* The slots of the next cabinet were tested: when all failed it is not    *)
(* saved, and when there is no location save_cabinet returns and           *)
(* save_lockers runs.                                                      *)
Check(t) ==
  /\ At(t, "check")
  /\ \E steps \in {<<>>, SaveLockers(Head(On(t))),
                   SaveCabinet(Head(On(t))) \o SaveLockers(Head(On(t)))} :
       /\ Len(steps) = 2 => memory.loc = None
       /\ Len(steps) > 2 => memory.loc # None
       /\ todo' = [todo EXCEPT ![t] = steps \o CheckCabinets(Tail(On(t))) \o Tail(@)]
  /\ UNCHANGED <<status, local, writing, memory, mapped, running, disk, counters,
                 overlapped, allowed>>

(* The location checked may be gone when its id is read: TypeError.        *)
CabinetData(t) ==
  /\ At(t, "cabinet_data")
  /\ IF memory.loc = None
     THEN Abort(t) /\ UNCHANGED local
     ELSE Step(t) /\ local' = [local EXCEPT ![t] = memory.loc]
  /\ UNCHANGED <<status, writing, memory, mapped, running, disk, counters, overlapped,
                 allowed>>

(* By now the location may have been forgotten.                            *)
SetCabinet(t) ==
  /\ At(t, "set_cabinet")
  /\ memory' = [memory EXCEPT !.cabs[On(t)] = local[t]]
  /\ Promise({[s EXCEPT !.cabs[On(t)] = local[t]] : s \in FromRows \union {memory}},
             db.lockers)
  /\ Step(t)
  /\ UNCHANGED <<status, local, writing, mapped, running, disk, counters, overlapped>>

(* The row refers to its location: without it the insert is refused.       *)
CabinetRow(t) ==
  /\ At(t, "cabinet_row")
  /\ \/ local[t] \in db.locs /\ db' = [db EXCEPT !.cabs[On(t)] = local[t]] /\ UNCHANGED faults
     \/ local[t] \notin db.locs /\ UNCHANGED <<db, faults>>
     \/ Fault /\ UNCHANGED db
  /\ Step(t)
  /\ UNCHANGED <<status, local, writing, memory, mapped, running, json, jobs,
                 crashes, overlapped, allowed>>

LockersAfter(t) == db.lockers \union ({On(t)} \intersect Listed(db.cabs))

(* Rows that refer to no cabinet are refused; a payload without ids raises *)
(* KeyError, which rolls the transaction back and ends the setup.          *)
LockerRows(t) ==
  /\ At(t, "locker_rows")
  /\ \/ db' = [db EXCEPT !.lockers = LockersAfter(t)] /\ Step(t) /\ UNCHANGED faults
     \/ Fault /\ Step(t) /\ UNCHANGED db
     \/ Fault /\ Abort(t) /\ UNCHANGED db
  /\ Promise({}, LockersAfter(t))
  /\ UNCHANGED <<status, local, writing, memory, mapped, running, json, jobs,
                 crashes, overlapped>>

SetLockers(t) ==
  /\ At(t, "set_lockers")
  /\ mapped' = mapped \union {On(t)}
  /\ Step(t)
  /\ UNCHANGED <<status, local, writing, memory, running, disk, counters, overlapped,
                 allowed>>

--------------------------------------------------------------------------------
(* _save_to_json: build the document, open (and truncate) the file, dump *)

Build(t) ==
  /\ At(t, "build")
  /\ local' = [local EXCEPT ![t] = memory]
  /\ Step(t)
  /\ UNCHANGED <<status, writing, memory, mapped, running, disk, counters, overlapped,
                 allowed>>

OpenFile(t) ==
  /\ At(t, "open")
  /\ \/ json' = Empty /\ writing' = writing \union {t} /\ Step(t) /\ UNCHANGED faults
     \/ /\ Fault                             \* IOError: no dump either
        /\ todo' = [todo EXCEPT ![t] = Tail(Tail(@))]
        /\ UNCHANGED <<json, writing>>
  /\ UNCHANGED <<status, local, memory, mapped, running, db, jobs, crashes,
                 overlapped, allowed>>

(* A thread that dumps over what another one dumped after both had opened  *)
(* the file may leave the tail of it.                                      *)
Dump(t) ==
  /\ At(t, "dump")
  /\ IF t \in writing
     THEN \/ json' = local[t] /\ UNCHANGED faults
          \/ json # Empty /\ json' = Torn /\ UNCHANGED faults
          \/ Fault /\ json' = Torn
     ELSE UNCHANGED <<json, faults>>
  /\ writing' = writing \ {t}
  /\ Step(t)
  /\ UNCHANGED <<status, local, memory, mapped, running, db, jobs, crashes,
                 overlapped, allowed>>

--------------------------------------------------------------------------------
(* The process *)

Crash ==
  /\ status = "up" /\ crashes < MaxCrashes
  /\ status' = "down"
  /\ crashes' = crashes + 1
  /\ todo' = [t \in Threads |-> <<>>]
  /\ local' = [t \in Threads |-> None]
  /\ writing' = {}
  /\ memory' = Blank /\ mapped' = {} /\ running' = FALSE
  /\ UNCHANGED <<disk, jobs, faults, overlapped, allowed>>

(* The lockers of every cabinet that was read, unless a read fails.        *)
ReadLockers(v) ==
  \/ mapped' = WithLockers(v, db.lockers).lockers /\ UNCHANGED faults
  \/ Fault /\ mapped' \in SUBSET WithLockers(v, db.lockers).lockers

StartFromFile ==
  /\ status # "up"
  /\ Readable
  /\ memory' = json
  /\ ReadLockers(json)
  /\ status' = "up"
  /\ UNCHANGED <<threads, running, disk, jobs, crashes, overlapped, allowed>>

(* Without the file, or when it cannot be read, the rows are; when their   *)
(* read fails nothing was found.  main then logs the slaveId of each       *)
(* cabinet, a key that rows do not have: the start fails with KeyError.    *)
StartFromRows ==
  /\ status # "up"
  /\ \E v \in FromRows :
       \/ ~Readable /\ memory' = v /\ ReadLockers(v)
       \/ /\ Fault
          /\ memory' \in {v, [v EXCEPT !.cabs = NoCabinets], Blank}
          /\ mapped' \in SUBSET (db.lockers \intersect Listed(memory'.cabs))
  /\ status' = IF Listed(memory'.cabs) # {} THEN "failed" ELSE "up"
  /\ UNCHANGED <<threads, running, disk, jobs, crashes, overlapped, allowed>>

ThreadStep(t) ==
  \/ Start(t) \/ Finish(t)
  \/ ForgetLocation(t) \/ ForgetCabinets(t) \/ Unlink(t) \/ ClearRows(t)
  \/ SetLocation(t) \/ LocationRow(t)
  \/ Check(t) \/ CabinetData(t) \/ SetCabinet(t) \/ CabinetRow(t)
  \/ LockerRows(t) \/ SetLockers(t) \/ Build(t) \/ OpenFile(t) \/ Dump(t)

Init == /\ status = "up"
        /\ todo = [t \in Threads |-> <<>>]
        /\ local = [t \in Threads |-> None]
        /\ writing = {}
        /\ memory = Blank /\ mapped = {} /\ running = FALSE
        /\ json = None /\ db = NoRows
        /\ jobs = 0 /\ crashes = 0 /\ faults = 0
        /\ overlapped = FALSE /\ allowed = {}

Next == \/ \E t \in Threads : Setup(t) \/ Clear(t) \/ ThreadStep(t)
        \/ Crash \/ StartFromFile \/ StartFromRows

Spec == Init /\ [][Next]_vars

--------------------------------------------------------------------------------
(* Properties *)

(* The variables keep their types; and while no two threads have been at   *)
(* work at once there is no cabinet without a location, but for the moment *)
(* in which clear has forgotten the one and not yet the others.            *)
TypeOK ==
  /\ status \in {"up", "down", "failed"}
  /\ local \in [Threads -> State \union Locations \union {None}]
  /\ writing \subseteq Threads
  /\ memory \in State
  /\ mapped \subseteq Cabinets
  /\ running \in BOOLEAN
  /\ json \in State \union {Empty, Torn, None}
  /\ db \in [locs : SUBSET Locations, cabs : [Cabinets -> Locations \union {None}], lockers : SUBSET Cabinets]
  /\ (/\ ~overlapped /\ memory.loc = None
      /\ \A t \in Threads : ~At(t, "forget_cabinets")) => memory.cabs = NoCabinets

(* Whatever one store refused, wherever the file was truncated or removed  *)
(* and the process stopped, a start that can read the file or the rows     *)
(* finds what one of them held before the last operation, or the result of *)
(* that operation on what memory or rows held, with the lockers of before  *)
(* or after it: nothing half done and nothing older, also while the stores *)
(* have drifted apart.  When they agreed, that is the state before or the  *)
(* state after, or the state before without its lockers when a clear could *)
(* not remove the file.                                                    *)
CrashAtomic ==
  allowed # {} => /\ Found \subseteq allowed
                  /\ {WithLockers(s, db.lockers) : s \in FromRows} \subseteq allowed

Quiet == status = "up" /\ \A t \in Threads : Idle(t)

(* When no thread is at work, what a restart would find is what the memory *)
(* holds, whichever setups, clears and crashes came before, provided that  *)
(* no two of them were at work at once, no error was swallowed and there   *)
(* is one location only.                                                   *)
Agreement == (Quiet /\ ~overlapped /\ faults = 0 /\ Cardinality(db.locs) <= 1)
                => Found = {Present}

(* When no setup is at work the flag is down, however the setups ended:    *)
(* the gateway never refuses setup commands for good.                      *)
FlagReleased == (\A t \in Threads : ~InSetup(t)) => ~running

(* The docstring of load says that it loads from the file or the database: *)
(* a start that finds its state in the database succeeds.                  *)
RecoveryStarts == status # "failed"
================================================================================
