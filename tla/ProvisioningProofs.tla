---------------------------- MODULE ProvisioningProofs ----------------------------
(***************************************************************************)
(* Provisioning for any layouts, slots and bounds: what a discovery report *)
(* lists, whose locker ids door events carry, what the details of a setup  *)
(* result say, and what COMPLETED says of the doors.                       *)
(***************************************************************************)
EXTENDS Provisioning, TLAPS

Threads == {"setup", "discovery"}

--------------------------------------------------------------------------------
(* Discovery *)

Said == [kind : {"test", "pong", "stray"}, slave : {Here}, ok : BOOLEAN,
         closed : BOOLEAN, n : Nat]

(* Every line there is, and every line a call ended with, is from Here.    *)
LinesAreHere ==
  /\ spoken \in Nat /\ wire \in Seq(Said)
  /\ heard \in [Threads -> SUBSET Said]
  /\ phase \in [Threads -> {"idle", "calling", "done"}]
  /\ result \in [Threads -> Said \union {TimedOut, None}]
  /\ \A c \in Threads : phase[c] = "done" => result[c] \in Said \union {TimedOut}

FoundAreHere == found \subseteq {Here} /\ report \subseteq {Here}

LEMMA EmptySeq == ASSUME NEW S PROVE <<>> \in Seq(S)
OBVIOUS

LEMMA SaysHere ==
  ASSUME LinesAreHere, NEW kind \in {"test", "pong", "stray"}, NEW ok \in BOOLEAN,
         NEW closed \in BOOLEAN, Says(Line(kind, ok, closed))
  PROVE  wire' \in Seq(Said) /\ spoken' \in Nat
<1>1. Line(kind, ok, closed) \in Said
  BY DEF LinesAreHere, Line, Said
<1> QED
  BY <1>1 DEF Says, LinesAreHere

LEMMA LinesStep == LinesAreHere /\ [Next]_vars => LinesAreHere'
<1> SUFFICES ASSUME LinesAreHere, [Next]_vars PROVE LinesAreHere'
  OBVIOUS
<1>1. ASSUME NEW c \in Threads, Serial!Begin(c), UNCHANGED <<wire, spoken>>
      PROVE  LinesAreHere'
  BY <1>1 DEF Serial!Begin, LinesAreHere
<1>2. ASSUME NEW c \in Threads, Serial!End(c), UNCHANGED cabinet PROVE LinesAreHere'
  BY <1>2 DEF Serial!End, LinesAreHere, cabinet
<1>3. ASSUME NEW c \in Threads, CallReturns(c) PROVE LinesAreHere'
  <2>1. CASE Serial!Succeed(c)
    <3>1. PICK m \in heard[c] : result' = [result EXCEPT ![c] = m]
      BY <2>1 DEF Serial!Succeed
    <3>2. m \in Said
      BY <3>1 DEF LinesAreHere
    <3>3. phase' = [phase EXCEPT ![c] = "done"] /\ UNCHANGED <<heard, wire, spoken>>
      BY <1>3, <2>1 DEF CallReturns, cabinet, Serial!Succeed
    <3> QED
      BY <3>1, <3>2, <3>3 DEF LinesAreHere
  <2>2. CASE Serial!Fail(c)
    <3>1. /\ result' = [result EXCEPT ![c] = TimedOut]
          /\ phase' = [phase EXCEPT ![c] = "done"] /\ UNCHANGED <<heard, wire, spoken>>
      BY <1>3, <2>2 DEF CallReturns, cabinet, Serial!Fail
    <3> QED
      BY <3>1 DEF LinesAreHere
  <2> QED
    BY <1>3, <2>1, <2>2 DEF CallReturns
<1>4. CASE ListenerTakes
  <2>1. Head(wire) \in Said /\ Tail(wire) \in Seq(Said)
    BY <1>4 DEF ListenerTakes, LinesAreHere
  <2>2. wire' = Tail(wire) /\ spoken' = spoken
    BY <1>4 DEF ListenerTakes
  <2>3. heard' \in [Threads -> SUBSET Said] /\ UNCHANGED <<phase, result>>
    BY <1>4, <2>1 DEF ListenerTakes, LinesAreHere, serial, Serial!Accept, Threads
  <2> QED
    BY <2>1, <2>2, <2>3 DEF LinesAreHere
<1>5. CASE Execute \/ Stray
  <2>1. PICK kind \in {"test", "pong", "stray"}, ok \in BOOLEAN, closed \in BOOLEAN :
          Says(Line(kind, ok, closed))
    BY <1>5 DEF Execute, Stray
  <2>2. wire' \in Seq(Said) /\ spoken' \in Nat
    BY <2>1, SaysHere
  <2>3. UNCHANGED serial
    BY <1>5 DEF Execute, Stray
  <2> QED
    BY <2>2, <2>3 DEF LinesAreHere, serial
<1>6. ASSUME UNCHANGED <<serial, wire, spoken>> PROVE LinesAreHere'
  BY <1>6 DEF LinesAreHere, serial
<1>7. CASE SetupStep
  <2>1. CASE Prune \/ Locate \/ Skip \/ Publish \/ SaveCabinet \/ SaveLockers
    BY <1>6, <2>1 DEF Prune, Locate, Skip, Publish, SaveCabinet, SaveLockers, cabinet
  <2>2. CASE Test
    BY <1>1, <2>2 DEF Test, Threads
  <2>3. CASE CallReturns("setup")
    BY <1>3, <2>3 DEF Threads
  <2>4. CASE Evaluate
    BY <1>2, <2>4 DEF Evaluate, Threads
  <2> QED
    BY <1>7, <2>1, <2>2, <2>3, <2>4 DEF SetupStep
<1>8. CASE ScanStep
  <2>1. CASE Ping
    BY <1>1, <2>1 DEF Ping, Threads
  <2>2. CASE CallReturns("discovery")
    BY <1>3, <2>2 DEF Threads
  <2>3. CASE Note
    BY <1>2, <2>3 DEF Note, Threads
  <2>4. CASE Report
    BY <1>6, <2>4 DEF Report, cabinet
  <2> QED
    BY <1>8, <2>1, <2>2, <2>3, <2>4 DEF ScanStep
<1>9. CASE \/ \E l \in Layouts : Refuse(l) \/ \E b \in BOOLEAN : Begin(l, b)
           \/ \E max \in 1..MaxCabinets : Discover(max)
           \/ Clear \/ UNCHANGED vars
  BY <1>6, <1>9 DEF Refuse, Begin, Discover, Clear, vars, cabinet
<1> QED
  BY <1>4, <1>5, <1>7, <1>8, <1>9 DEF Next

LEMMA LinesInvariant == Spec => []LinesAreHere
<1>1. Init => LinesAreHere
  BY EmptySeq DEF Init, Serial!Init, LinesAreHere, Threads
<1> QED
  BY <1>1, LinesStep, PTL DEF Spec

LEMMA FoundInvariant == Spec => []FoundAreHere
<1>1. Init => FoundAreHere
  BY DEF Init, FoundAreHere
<1>2. LinesAreHere /\ FoundAreHere /\ [Next]_vars => FoundAreHere'
  <2> SUFFICES ASSUME LinesAreHere, FoundAreHere, [Next]_vars PROVE FoundAreHere'
    OBVIOUS
  <2>1. CASE Note
    <3> DEFINE r == result["discovery"]
    <3>1. r \in Said \union {TimedOut}
      BY <2>1 DEF Note, LinesAreHere, Threads
    <3>2. Accepted(r) => sid = Here
      <4>1. CASE r \in Said
        BY <4>1 DEF Said, Accepted
      <4>2. CASE r = TimedOut
        BY <4>2 DEF TimedOut, Accepted
      <4> QED
        BY <3>1, <4>1, <4>2
    <3>3. found' \subseteq found \union {Here} /\ report' = report
      BY <2>1, <3>2 DEF Note
    <3> QED
      BY <3>3 DEF FoundAreHere
  <2>2. CASE Report
    BY <2>2 DEF Report, FoundAreHere
  <2>3. CASE \E max \in 1..MaxCabinets : Discover(max)
    BY <2>3 DEF Discover, FoundAreHere
  <2>4. CASE \/ \E l \in Layouts : Refuse(l) \/ \E b \in BOOLEAN : Begin(l, b)
             \/ SetupStep \/ Ping \/ CallReturns("discovery")
             \/ Clear \/ ListenerTakes \/ Execute \/ Stray
             \/ UNCHANGED vars
    <3>1. UNCHANGED <<found, report>>
      BY <2>4 DEF Refuse, Begin, SetupStep, Prune, Locate, Skip, Test, CallReturns, Evaluate,
           Publish, SaveCabinet, SaveLockers, Ping, Clear, ListenerTakes, Execute, Stray,
           scanVars, vars
    <3> QED
      BY <3>1 DEF FoundAreHere
  <2> QED
    BY <2>1, <2>2, <2>3, <2>4 DEF Next, ScanStep
<1> QED
  BY <1>1, <1>2, LinesInvariant, PTL DEF Spec

(* A discovery report lists slaves that exist, for any range of the scan   *)
(* and whatever other lines end its calls.                                 *)
THEOREM ReportsExist == Spec => []ReportedExist
<1>1. FoundAreHere => ReportedExist
  BY DEF FoundAreHere, ReportedExist
<1> QED
  BY <1>1, FoundInvariant, PTL

--------------------------------------------------------------------------------
(* Locker ids *)

(* A setup that is about to store is the one the backend was told of, and  *)
(* what is stored is what it had been told of before.                      *)
Storing == stage \in {"save", "lockers"}
StoresWhatWasTold ==
  /\ Storing => told = [n |-> setups, slots |-> layout.slots] /\ unsaved
  /\ (~unsaved /\ told.n # 0) => lockers = IdsOf(told)
  /\ known => told.n # 0
  /\ setups \in Nat
  /\ stage # "idle" => setups > 0

LEMMA StoresInvariant == Spec => []StoresWhatWasTold
<1>1. Init => StoresWhatWasTold
  BY DEF Init, StoresWhatWasTold, Storing, NoSetup
<1>2. StoresWhatWasTold /\ [Next]_vars => StoresWhatWasTold'
  <2> SUFFICES ASSUME StoresWhatWasTold, [Next]_vars PROVE StoresWhatWasTold'
    OBVIOUS
  <2> USE DEF StoresWhatWasTold, Storing
  <2>1. ASSUME NEW l \in Layouts, Refuse(l) PROVE StoresWhatWasTold'
    BY <2>1 DEF Refuse, memory, history, IdsOf
  <2>2. ASSUME NEW l \in Layouts, NEW b \in BOOLEAN, Begin(l, b) PROVE StoresWhatWasTold'
    BY <2>2 DEF Begin, memory, IdsOf
  <2>3. CASE Prune
    BY <2>3 DEF Prune, Forget, counters, history, IdsOf
  <2>4. CASE Locate \/ Skip \/ Test \/ Evaluate
    BY <2>4 DEF Locate, Skip, Test, Evaluate, memory, counters, history, IdsOf
  <2>5. CASE Publish
    <3>1. CASE Status # "FAILED" /\ (layout.places \/ results = <<>>)
      <4>1. told' = [n |-> setups, slots |-> layout.slots] /\ unsaved' /\ setups > 0
        BY <2>5, <3>1 DEF Publish
      <4>2. told'.n # 0
        BY <4>1 DEF StoresWhatWasTold
      <4> QED
        BY <2>5, <4>1, <4>2 DEF Publish, memory, counters
    <3>2. CASE ~(Status # "FAILED" /\ (layout.places \/ results = <<>>))
      <4>1. stage' = "idle" /\ UNCHANGED <<told, unsaved>>
        BY <2>5, <3>2 DEF Publish, Saved
      <4> QED
        BY <2>5, <4>1 DEF Publish, memory, counters, IdsOf
    <3> QED
      BY <3>1, <3>2
  <2>6. CASE SaveCabinet
    <3>1. told.n # 0
      BY <2>6 DEF SaveCabinet
    <3> QED
      BY <2>6, <3>1 DEF SaveCabinet, counters, history, IdsOf
  <2>7. CASE SaveLockers
    <3>1. told = [n |-> setups, slots |-> layout.slots] /\ UNCHANGED told
      BY <2>7 DEF SaveLockers
    <3>2. lockers' = IdsOf(told) \/ unsaved'
      BY <2>7, <3>1 DEF SaveLockers, Replaced
    <3> QED
      BY <2>7, <3>1, <3>2 DEF SaveLockers, counters, IdsOf
  <2>8. CASE Clear
    BY <2>8 DEF Clear, Forget, setupVars, counters, history, IdsOf
  <2>9. CASE \/ \E max \in 1..MaxCabinets : Discover(max)
             \/ ScanStep \/ CallReturns("setup")
             \/ ListenerTakes \/ Execute \/ Stray
             \/ UNCHANGED vars
    <3>1. UNCHANGED <<setupVars, memory, setups, told, unsaved>>
      BY <2>9 DEF Discover, ScanStep, Ping, CallReturns, Note, Report, ListenerTakes,
           Execute, Stray, counters, history, vars
    <3> QED
      BY <3>1 DEF setupVars, memory, IdsOf
  <2> QED
    BY <2>1, <2>2, <2>3, <2>4, <2>5, <2>6, <2>7, <2>8, <2>9 DEF Next, SetupStep
<1> QED
  BY <1>1, <1>2, PTL DEF Spec

(* Door events of a known cabinet carry the ids of the last setup that the *)
(* backend was told of, for any sequence of setups and clears.             *)
THEOREM EventsNamed == Spec => []EventsNameLastSetup
<1>1. StoresWhatWasTold => EventsNameLastSetup
  BY DEF StoresWhatWasTold, EventsNameLastSetup, LockerId
<1> QED
  BY <1>1, StoresInvariant, PTL
--------------------------------------------------------------------------------
(* Details and progress *)

Testing == stage \in {"next", "calling"}
Beginning == stage \in {"prune", "locate"}

(* While there is no gap before it, the slot under test and its result     *)
(* have the same number; a gap shifts all later results.                   *)
SetupTyped ==
  /\ stage \in {"idle", "prune", "locate", "next", "calling", "save", "lockers"}
  /\ layout \in Layouts \union {None}
  /\ stage # "idle" => layout \in Layouts
  /\ results \in Seq(BOOLEAN)
  /\ progress \in Seq([slot : Slots, pass : BOOLEAN])
  /\ Len(progress) = Len(results)
  /\ at \in Nat
  /\ stage = "calling" => layout.slots[at].slot \in Slots
  /\ Beginning => results = <<>>
GapsShift ==
  Testing => /\ at > Len(results)
             /\ at > Len(results) + 1
                  => \E j \in 1..(Len(results) + 1) : layout.slots[j].slot = None
Matched ==
  \A i \in 1..Len(results) :
    (\A j \in 1..i : layout.slots[j].slot # None)
       => progress[i] = [slot |-> layout.slots[i].slot, pass |-> results[i]]
PublishedOnce ==
  /\ Beginning \/ Testing => published = None
  /\ published # None => \/ published.details = <<>>
                         \/ published.details = Details /\ published.of = layout
InStep == SetupTyped /\ GapsShift /\ Matched /\ PublishedOnce

LEMMA SlotsOfLayout ==
  ASSUME NEW l \in Layouts, NEW i \in 1..Len(l.slots), l.slots[i].slot # None
  PROVE  l.slots[i].slot \in Slots
<1>1. l.slots[i] \in Entry
  BY LayoutsAssumption
<1> QED
  BY <1>1 DEF Entry

LEMMA InStepStep == InStep /\ [Next]_vars => InStep'
<1> SUFFICES ASSUME InStep, [Next]_vars PROVE InStep'
  OBVIOUS
<1> USE DEF InStep
<1>1. ASSUME NEW l \in Layouts, Refuse(l) PROVE InStep'
  <2>1. published'.details = <<>> /\ UNCHANGED <<stage, layout, at, results, progress>>
    BY <1>1 DEF Refuse
  <2>2. stage = "idle"
    BY <1>1 DEF Refuse
  <2> QED
    BY <2>1, <2>2 DEF SetupTyped, GapsShift, Matched, PublishedOnce, Testing, Beginning
<1>2. ASSUME NEW l \in Layouts, NEW b \in BOOLEAN, Begin(l, b) PROVE InStep'
  <2>1. /\ stage' \in {"prune", "locate"} /\ layout' = l /\ at' = 0
        /\ results' = <<>> /\ progress' = <<>> /\ published' = None
    BY <1>2 DEF Begin
  <2> QED
    BY <2>1, EmptySeq DEF SetupTyped, GapsShift, Matched, PublishedOnce, Testing, Beginning
<1>3. CASE Prune \/ Locate
  <2>1. /\ Beginning /\ stage' \in {"locate", "next"}
        /\ at' \in {at, 1} /\ (stage' = "next" => at' = 1)
        /\ UNCHANGED <<layout, results, progress, published>>
    BY <1>3 DEF Prune, Locate, Beginning
  <2>2. results = <<>>
    BY <2>1 DEF SetupTyped
  <2> QED
    BY <2>1, <2>2 DEF SetupTyped, GapsShift, Matched, PublishedOnce, Testing, Beginning
<1>4. CASE Skip
  <2>1. /\ stage = "next" /\ layout.slots[at].slot = None /\ at' = at + 1
        /\ UNCHANGED <<stage, layout, results, progress, published>>
    BY <1>4 DEF Skip, PassOver
  <2>2. Len(results) \in Nat /\ at \in Nat
    BY DEF SetupTyped
  <2>3. at > Len(results)
    BY <2>1 DEF GapsShift, Testing
  <2>4. \E j \in 1..(Len(results) + 1) : layout.slots[j].slot = None
    <3>1. CASE at = Len(results) + 1
      BY <2>1, <2>2, <3>1
    <3>2. CASE at > Len(results) + 1
      BY <2>1, <3>2 DEF GapsShift, Testing
    <3> QED
      BY <2>2, <2>3, <3>1, <3>2
  <2>5. GapsShift'
    BY <2>1, <2>2, <2>3, <2>4 DEF GapsShift, Testing
  <2> QED
    BY <2>1, <2>2, <2>5 DEF SetupTyped, Matched, PublishedOnce, Details, Testing, Beginning
<1>5. CASE Test
  <2>1. /\ stage = "next" /\ stage' = "calling"
        /\ at \in 1..Len(layout.slots) /\ layout.slots[at].slot # None
        /\ UNCHANGED <<layout, at, results, progress, published>>
    <3>1. at > 0 /\ at \in Nat /\ layout \in Layouts
      BY <1>5 DEF Test, GapsShift, SetupTyped, Testing
    <3>2. layout.slots \in Seq(Entry)
      BY <3>1, LayoutsAssumption
    <3> QED
      BY <1>5, <3>1, <3>2 DEF Test
  <2>2. layout.slots[at].slot \in Slots
    BY <2>1, SlotsOfLayout DEF SetupTyped
  <2> QED
    BY <2>1, <2>2 DEF SetupTyped, GapsShift, Matched, PublishedOnce, Details, Testing,
         Beginning
<1>6. CASE Evaluate
  <2> DEFINE n == Len(results)
             pass == Passed(result["setup"])
             entry == [slot |-> layout.slots[at].slot, pass |-> pass]
  <2>1. /\ stage = "calling" /\ stage' = "next" /\ at' = at + 1
        /\ results' = Append(results, pass) /\ progress' = Append(progress, entry)
        /\ UNCHANGED <<layout, published>>
    BY <1>6 DEF Evaluate, Record
  <2>2. pass \in BOOLEAN
    BY DEF Passed
  <2>3. /\ n \in Nat /\ Len(progress) = n /\ at \in Nat /\ layout.slots[at].slot \in Slots
        /\ results \in Seq(BOOLEAN) /\ progress \in Seq([slot : Slots, pass : BOOLEAN])
    BY <2>1 DEF SetupTyped
  <2>4. entry \in [slot : Slots, pass : BOOLEAN]
    BY <2>2, <2>3
  <2> HIDE DEF pass, entry
  <2>5. /\ results' \in Seq(BOOLEAN) /\ Len(results') = n + 1 /\ results'[n + 1] = pass
        /\ \A i \in 1..n : results'[i] = results[i]
    BY <2>1, <2>2, <2>3
  <2>6. /\ progress' \in Seq([slot : Slots, pass : BOOLEAN]) /\ Len(progress') = n + 1
        /\ progress'[n + 1] = entry
        /\ \A i \in 1..n : progress'[i] = progress[i]
    BY <2>1, <2>3, <2>4
  <2>7. SetupTyped'
    BY <2>1, <2>3, <2>5, <2>6 DEF SetupTyped, Beginning
  <2>8. /\ at > n
        /\ at > n + 1 => \E j \in 1..(n + 1) : layout.slots[j].slot = None
    BY <2>1 DEF GapsShift, Testing
  <2>9. GapsShift'
    BY <2>1, <2>3, <2>5, <2>8 DEF GapsShift
  <2>10. Matched'
    <3> SUFFICES ASSUME NEW i \in 1..(n + 1),
                        \A j \in 1..i : layout.slots[j].slot # None
                 PROVE  progress'[i] = [slot |-> layout.slots[i].slot, pass |-> results'[i]]
      BY <2>1, <2>5 DEF Matched
    <3>1. CASE i \in 1..n
      BY <2>5, <2>6, <3>1 DEF Matched
    <3>2. CASE i = n + 1
      <4>1. at = n + 1
        BY <2>3, <2>8, <3>2
      <4> QED
        BY <2>5, <2>6, <3>2, <4>1 DEF entry
    <3> QED
      BY <2>3, <3>1, <3>2
  <2>11. PublishedOnce'
    BY <2>1 DEF PublishedOnce, Testing, Beginning
  <2> QED
    BY <2>7, <2>9, <2>10, <2>11
<1>7. CASE Publish
  <2>1. /\ stage = "next" /\ stage' \in {"save", "idle"}
        /\ UNCHANGED <<layout, at, results, progress>>
    BY <1>7 DEF Publish
  <2>2. published = None
    BY <2>1 DEF PublishedOnce, Testing
  <2>3. \/ published' = None
        \/ published'.details = Details /\ published'.of = layout
    BY <1>7, <2>2 DEF Publish
  <2>4. Details' = Details
    BY <2>1 DEF Details
  <2> QED
    BY <2>1, <2>3, <2>4 DEF SetupTyped, GapsShift, Matched, PublishedOnce, Testing, Beginning
<1>8. CASE SaveCabinet \/ SaveLockers
  <2>1. /\ stage' \in {"lockers", "idle"} /\ stage \in {"save", "lockers"}
        /\ UNCHANGED <<layout, at, results, progress, published>>
    BY <1>8 DEF SaveCabinet, SaveLockers
  <2> QED
    BY <2>1 DEF SetupTyped, GapsShift, Matched, PublishedOnce, Details, Testing, Beginning
<1>9. CASE \/ \E max \in 1..MaxCabinets : Discover(max)
           \/ ScanStep \/ CallReturns("setup")
           \/ Clear \/ ListenerTakes \/ Execute \/ Stray
           \/ UNCHANGED vars
  <2>1. UNCHANGED setupVars
    BY <1>9 DEF Discover, ScanStep, Ping, CallReturns, Note, Report, Clear, ListenerTakes,
         Execute, Stray, vars
  <2> QED
    BY <2>1 DEF setupVars, SetupTyped, GapsShift, Matched, PublishedOnce, Details, Testing,
         Beginning
<1> QED
  BY <1>1, <1>2, <1>3, <1>4, <1>5, <1>6, <1>7, <1>8, <1>9 DEF Next, SetupStep

LEMMA InStepInvariant == Spec => []InStep
<1>1. Init => InStep
  BY EmptySeq DEF Init, InStep, SetupTyped, GapsShift, Matched, PublishedOnce, Testing,
     Beginning
<1> QED
  BY <1>1, InStepStep, PTL DEF Spec

(* The details of a result repeat the progress messages up to the first    *)
(* slot without a number, for layouts of any length.                       *)
THEOREM DetailsRepeatProgress == Spec => []DetailsMatchProgress
<1>1. InStep => DetailsMatchProgress
  <2> SUFFICES ASSUME InStep, published # None,
                      NEW i \in DOMAIN published.details,
                      \A j \in 1..i : published.of.slots[j].slot # None
               PROVE  published.details[i] = progress[i]
    BY DEF DetailsMatchProgress
  <2>1. published.details = Details /\ published.of = layout
    BY DEF InStep, PublishedOnce
  <2>2. /\ i \in 1..Len(results)
        /\ Details[i] = [slot |-> layout.slots[i].slot, pass |-> results[i]]
    BY <2>1 DEF Details, InStep, SetupTyped
  <2> QED
    BY <2>1, <2>2 DEF InStep, Matched
<1> QED
  BY <1>1, InStepInvariant, PTL
--------------------------------------------------------------------------------
(* Types *)

ScanTyped == scan \in {"idle", "next", "calling"}
FlagsTyped == {location, known, unsaved, trusted} \subseteq BOOLEAN
NumbersTyped == /\ setups \in 0..MaxSetups
                /\ lockers \in [Slots -> 0..MaxSetups]
                /\ opened \subseteq Slots

LEMMA NumbersStep == StoresWhatWasTold /\ NumbersTyped /\ [Next]_vars => NumbersTyped'
<1> SUFFICES ASSUME StoresWhatWasTold, NumbersTyped, [Next]_vars PROVE NumbersTyped'
  OBVIOUS
<1> USE BoundsAssumption
<1>1. ASSUME NEW l \in Layouts, Refuse(l) \/ \E b \in BOOLEAN : Begin(l, b)
      PROVE  NumbersTyped'
  <2>1. /\ setups < MaxSetups /\ setups' = setups + 1 /\ lockers' = lockers
        /\ opened' \in {{}, opened}
    BY <1>1 DEF Refuse, Begin, memory, history
  <2> QED
    BY <2>1 DEF NumbersTyped
<1>2. CASE SaveLockers
  <2>1. lockers' = lockers \/ lockers' = [s \in Slots |-> IF s \in Numbers(layout.slots)
                                                          THEN setups ELSE 0]
    BY <1>2 DEF SaveLockers, Replaced, IdsOf
  <2>2. lockers' \in [Slots -> 0..MaxSetups]
    BY <2>1 DEF NumbersTyped
  <2> QED
    BY <1>2, <2>2 DEF SaveLockers, counters, NumbersTyped
<1>3. CASE Execute
  <2>1. opened' \subseteq opened \union Wired
    BY <1>3 DEF Execute
  <2> QED
    BY <1>3, <2>1, SlotsAssumption DEF Execute, memory, counters, NumbersTyped
<1>4. CASE \/ \E max \in 1..MaxCabinets : Discover(max)
           \/ Stray
  BY <1>4 DEF Discover, Stray, memory, NumbersTyped
<1>5. CASE \/ Prune \/ Locate \/ Skip \/ Test \/ CallReturns("setup") \/ Evaluate
           \/ Publish \/ SaveCabinet \/ ScanStep \/ Clear \/ ListenerTakes
           \/ UNCHANGED vars
  <2>1. UNCHANGED <<setups, lockers, opened>>
    BY <1>5 DEF Prune, Locate, Skip, Test, CallReturns, Evaluate, Publish, SaveCabinet,
         ScanStep, Ping, Note, Report, Clear, Forget, ListenerTakes, memory, counters,
         history, vars
  <2> QED
    BY <2>1 DEF NumbersTyped
<1> QED
  BY <1>1, <1>2, <1>3, <1>4, <1>5 DEF Next, SetupStep

LEMMA ScanStepTyped == ScanTyped /\ [Next]_vars => ScanTyped'
BY DEF ScanTyped, Next, Refuse, Begin, SetupStep, Prune, Locate, Skip, Test, CallReturns,
   Evaluate, Publish, SaveCabinet, SaveLockers, ScanStep, Discover, Ping, Note, Report,
   Clear, ListenerTakes, Execute, Stray, scanVars, vars

LEMMA FlagsStep == FlagsTyped /\ [Next]_vars => FlagsTyped'
<1> SUFFICES ASSUME FlagsTyped, [Next]_vars PROVE FlagsTyped'
  OBVIOUS
<1>1. location' \in {location, TRUE, FALSE}
  BY DEF Next, Refuse, Begin, SetupStep, Prune, Locate, Forget, Skip, Test, CallReturns,
     Evaluate, Publish, SaveCabinet, SaveLockers, ScanStep, Discover, Ping, Note, Report,
     Clear, ListenerTakes, Execute, Stray, memory, vars
<1>2. known' \in {known, (known \/ location), FALSE}
  BY DEF Next, Refuse, Begin, SetupStep, Prune, Locate, Forget, Skip, Test, CallReturns,
     Evaluate, Publish, SaveCabinet, SaveLockers, ScanStep, Discover, Ping, Note, Report,
     Clear, ListenerTakes, Execute, Stray, memory, vars
<1>3. unsaved' \in {unsaved, TRUE, FALSE}
  BY DEF Next, Refuse, Begin, SetupStep, Prune, Locate, Forget, Skip, Test, CallReturns,
     Evaluate, Publish, SaveCabinet, SaveLockers, ScanStep, Discover, Ping, Note, Report,
     Clear, ListenerTakes, Execute, Stray, history, vars
<1>4. trusted' \in {trusted, (scan = "idle" /\ todo = <<>> /\ wire = <<>>), FALSE}
  BY DEF Next, Refuse, Begin, SetupStep, Prune, Locate, Forget, Skip, Test, CallReturns,
     Evaluate, Publish, SaveCabinet, SaveLockers, ScanStep, Discover, Ping, Note, Report,
     Clear, ListenerTakes, Execute, Stray, history, vars
<1>5. {location', known', unsaved', trusted'} \subseteq BOOLEAN
  BY <1>1, <1>2, <1>3, <1>4 DEF FlagsTyped
<1> QED
  BY <1>5 DEF FlagsTyped

(* The variables keep their types, for any layouts, slots and bounds, and  *)
(* a known cabinet is one the backend was told of.                         *)
THEOREM TypeCorrect == Spec => []TypeOK
<1>1. Init => NumbersTyped /\ ScanTyped /\ FlagsTyped
  <2> SUFFICES ASSUME Init PROVE NumbersTyped /\ ScanTyped /\ FlagsTyped
    OBVIOUS
  <2>1. NumbersTyped
    BY BoundsAssumption DEF Init, NoLockers, NumbersTyped
  <2>2. ScanTyped
    BY DEF Init, ScanTyped
  <2>3. FlagsTyped
    BY DEF Init, FlagsTyped
  <2> QED
    BY <2>1, <2>2, <2>3
<1>2. InStep /\ FoundAreHere /\ StoresWhatWasTold /\ NumbersTyped /\ ScanTyped /\ FlagsTyped
        => TypeOK
  <2> SUFFICES ASSUME InStep, FoundAreHere, StoresWhatWasTold, NumbersTyped, ScanTyped,
                      FlagsTyped
               PROVE  TypeOK
    OBVIOUS
  <2>1. found \subseteq 1..MaxCabinets /\ report \subseteq 1..MaxCabinets
    BY BoundsAssumption DEF FoundAreHere
  <2>2. known => told.n # 0
    BY DEF StoresWhatWasTold
  <2>3. {location, known, unsaved, trusted} \subseteq BOOLEAN
    BY DEF FlagsTyped
  <2> QED
    BY <2>1, <2>2, <2>3 DEF TypeOK, InStep, SetupTyped, NumbersTyped, ScanTyped
<1> QED
  BY <1>1, <1>2, InStepInvariant, FoundInvariant, StoresInvariant, NumbersStep,
     ScanStepTyped, FlagsStep, PTL DEF Spec

--------------------------------------------------------------------------------
(* A cabinet reported COMPLETED *)

(* Each thread is in its call while its stage says so, and a call ends     *)
(* with a line it heard or in a timeout.                                   *)
CallsInStep ==
  /\ stage = "calling" <=> phase["setup"] # "idle"
  /\ scan = "calling" <=> phase["discovery"] # "idle"
  /\ \A c \in Threads : phase[c] = "idle" => heard[c] = {}
  /\ \A c \in Threads : phase[c] = "done" => result[c] \in heard[c] \union {TimedOut}

LEMMA CallsStep == LinesAreHere /\ CallsInStep /\ [Next]_vars => CallsInStep'
<1> SUFFICES ASSUME LinesAreHere, CallsInStep, [Next]_vars PROVE CallsInStep'
  OBVIOUS
<1>0. /\ heard \in [Threads -> SUBSET Said]
      /\ phase \in [Threads -> {"idle", "calling", "done"}]
      /\ result \in [Threads -> Said \union {TimedOut, None}]
  BY DEF LinesAreHere
<1>1. CASE Test
  <2>1. /\ phase["setup"] = "idle" /\ phase' = [phase EXCEPT !["setup"] = "calling"]
        /\ stage' = "calling" /\ UNCHANGED <<scan, heard, result>>
    BY <1>1 DEF Test, Serial!Begin, scanVars
  <2> QED
    BY <1>0, <2>1 DEF CallsInStep, Threads
<1>2. CASE Ping
  <2>1. /\ phase["discovery"] = "idle" /\ phase' = [phase EXCEPT !["discovery"] = "calling"]
        /\ scan' = "calling" /\ UNCHANGED <<stage, heard, result>>
    BY <1>2 DEF Ping, Serial!Begin, setupVars
  <2> QED
    BY <1>0, <2>1 DEF CallsInStep, Threads
<1>3. CASE Evaluate
  <2>1. /\ phase' = [phase EXCEPT !["setup"] = "idle"]
        /\ result' = [result EXCEPT !["setup"] = None]
        /\ heard' = [heard EXCEPT !["setup"] = {}]
        /\ stage' = "next" /\ UNCHANGED scan
    BY <1>3 DEF Evaluate, Serial!End, scanVars
  <2> QED
    BY <1>0, <2>1 DEF CallsInStep, Threads
<1>4. CASE Note
  <2>1. /\ phase' = [phase EXCEPT !["discovery"] = "idle"]
        /\ result' = [result EXCEPT !["discovery"] = None]
        /\ heard' = [heard EXCEPT !["discovery"] = {}]
        /\ scan' = "next" /\ UNCHANGED stage
    BY <1>4 DEF Note, Serial!End, setupVars
  <2> QED
    BY <1>0, <2>1 DEF CallsInStep, Threads
<1>5. ASSUME NEW c \in Threads, CallReturns(c) PROVE CallsInStep'
  <2>1. /\ phase[c] = "calling" /\ phase' = [phase EXCEPT ![c] = "done"]
        /\ UNCHANGED <<heard, stage, scan>>
    BY <1>5 DEF CallReturns, Serial!Succeed, Serial!Fail, setupVars, scanVars
  <2>2. PICK r \in heard[c] \union {TimedOut} : result' = [result EXCEPT ![c] = r]
    BY <1>5 DEF CallReturns, Serial!Succeed, Serial!Fail
  <2>3. /\ \A d \in Threads : d # c => phase'[d] = phase[d] /\ result'[d] = result[d]
        /\ phase'[c] = "done" /\ result'[c] = r
    BY <1>0, <2>1, <2>2
  <2> QED
    BY <2>1, <2>3 DEF CallsInStep, Threads, TimedOut
<1>6. CASE ListenerTakes
  <2>1. /\ UNCHANGED <<phase, result, stage, scan>>
        /\ \/ heard' = [c \in Threads |-> IF phase[c] = "calling"
                                          THEN heard[c] \union {Head(wire)} ELSE heard[c]]
           \/ heard' = heard
    BY <1>6 DEF ListenerTakes, Serial!Accept, serial, setupVars, scanVars, Threads
  <2>2. \A c \in Threads : phase[c] # "calling" => heard'[c] = heard[c]
    BY <2>1
  <2> QED
    BY <2>1, <2>2 DEF CallsInStep, TimedOut
<1>7. CASE Prune \/ Locate \/ Skip \/ Publish \/ SaveCabinet \/ SaveLockers
  <2>1. stage # "calling" /\ stage' # "calling" /\ UNCHANGED <<phase, heard, result, scan>>
    BY <1>7 DEF Prune, Locate, Skip, Publish, SaveCabinet, SaveLockers, serial, scanVars
  <2> QED
    BY <2>1 DEF CallsInStep, TimedOut
<1>8. CASE \/ Report
           \/ \E max \in 1..MaxCabinets : Discover(max)
  <2>1. scan # "calling" /\ scan' # "calling" /\ UNCHANGED <<phase, heard, result, stage>>
    BY <1>8 DEF Report, Discover, serial, setupVars
  <2> QED
    BY <2>1 DEF CallsInStep, TimedOut
<1>9. CASE \E l \in Layouts : Refuse(l) \/ \E b \in BOOLEAN : Begin(l, b)
  <2>1. stage # "calling" /\ stage' # "calling" /\ UNCHANGED <<phase, heard, result, scan>>
    BY <1>9 DEF Refuse, Begin, serial, scanVars
  <2> QED
    BY <2>1 DEF CallsInStep, TimedOut
<1>10. CASE Clear \/ Execute \/ Stray \/ UNCHANGED vars
  <2>1. UNCHANGED <<phase, heard, result, stage, scan>>
    BY <1>10 DEF Clear, Execute, Stray, vars, serial, setupVars, scanVars
  <2> QED
    BY <2>1 DEF CallsInStep, TimedOut
<1> QED
  BY <1>1, <1>2, <1>3, <1>4, <1>5, <1>6, <1>7, <1>8, <1>9, <1>10
     DEF Next, SetupStep, ScanStep, Threads

(* Nobody scans while the line is trusted.                                 *)
Quiet == trusted => scan = "idle"

LEMMA QuietStep == Quiet /\ [Next]_vars => Quiet'
<1> SUFFICES ASSUME Quiet, [Next]_vars PROVE Quiet'
  OBVIOUS
<1>1. CASE \/ \E l \in Layouts : \E b \in BOOLEAN : Begin(l, b)
           \/ \E max \in 1..MaxCabinets : Discover(max)
           \/ Stray
  BY <1>1 DEF Begin, Discover, Stray, scanVars, Quiet
<1>2. CASE ScanStep
  BY <1>2 DEF ScanStep, Ping, CallReturns, Note, Report, history, scanVars, Quiet
<1>3. CASE \/ \E l \in Layouts : Refuse(l)
           \/ SetupStep \/ Clear \/ ListenerTakes \/ Execute \/ UNCHANGED vars
  <2>1. UNCHANGED <<scan, trusted>>
    BY <1>3 DEF Refuse, SetupStep, Prune, Locate, Skip, Test, CallReturns, Evaluate, Publish,
         SaveCabinet, SaveLockers, Clear, ListenerTakes, Execute, vars, history, scanVars
  <2> QED
    BY <2>1 DEF Quiet
<1> QED
  BY <1>1, <1>2, <1>3 DEF Next

OpenedAt(i) == layout.slots[i].slot \in opened \union {None}
OpenedBefore(k) == \A i \in DOMAIN layout.slots : i < k => OpenedAt(i)

(* A line that says that the door under test is open tells the truth, and  *)
(* there is one command, one line or one line heard for the test, since    *)
(* the tests before it have used up theirs: a test whose answer would come *)
(* late has failed.                                                        *)
Truthful(l) == l.ok /\ ~l.closed => OpenedAt(at)
Asking == todo = <<[op |-> "T", slot |-> layout.slots[at].slot]>>
OneAnswer ==
  \/ Asking /\ wire = <<>> /\ heard["setup"] = {}
  \/ todo = <<>> /\ wire = <<>> /\ \A l \in heard["setup"] : Truthful(l)
  \/ /\ todo = <<>> /\ Len(wire) = 1 /\ Truthful(Head(wire))
     /\ heard["setup"] = {}
LineEmpty == todo = <<>> /\ wire = <<>>
CleanSoFar ==
  /\ Beginning \/ stage = "next" => LineEmpty
  /\ Testing => OpenedBefore(at)
  /\ stage = "calling" => OneAnswer
Clean == (trusted /\ ~Failed) => CleanSoFar

(* Doors that were seen open stay so in the history of a setup.            *)
LEMMA OpenedStays ==
  ASSUME opened \subseteq opened', layout' = layout
  PROVE  /\ \A i : OpenedAt(i) => OpenedAt(i)'
         /\ \A k : OpenedBefore(k) => OpenedBefore(k)'
BY DEF OpenedAt, OpenedBefore

LEMMA CleanStep ==
  LinesAreHere /\ CallsInStep /\ Quiet /\ InStep /\ Clean /\ [Next]_vars => Clean'
<1> SUFFICES ASSUME LinesAreHere, CallsInStep, Quiet, InStep, Clean, [Next]_vars,
                    trusted', ~Failed'
             PROVE  CleanSoFar'
  BY DEF Clean
<1>0. /\ results \in Seq(BOOLEAN) /\ wire \in Seq(Said)
      /\ heard \in [Threads -> SUBSET Said]
      /\ phase \in [Threads -> {"idle", "calling", "done"}]
  BY DEF InStep, SetupTyped, LinesAreHere
<1>1. ASSUME NEW l \in Layouts, NEW b \in BOOLEAN, Begin(l, b) PROVE CleanSoFar'
  <2>1. /\ stage' \in {"prune", "locate"} /\ todo = <<>> /\ wire = <<>>
        /\ UNCHANGED <<todo, wire>>
    BY <1>1 DEF Begin, cabinet
  <2> QED
    BY <2>1 DEF CleanSoFar, LineEmpty, Beginning, Testing
<1>2. CASE \/ \E max \in 1..MaxCabinets : Discover(max)
           \/ Stray
  BY <1>2 DEF Discover, Stray
<1>3. CASE ScanStep
  <2>1. trusted
    BY <1>3 DEF ScanStep, Ping, CallReturns, Note, Report, history
  <2>2. scan = "idle" /\ phase["discovery"] = "idle"
    BY <2>1 DEF Quiet, CallsInStep
  <2> QED
    BY <1>3, <2>2 DEF ScanStep, Ping, CallReturns, Serial!Succeed, Serial!Fail, Note, Report
<1>4. ASSUME \A l \in Layouts, b \in BOOLEAN : ~Begin(l, b),
             ~Stray, ~Evaluate, \A max \in 1..MaxCabinets : ~Discover(max)
      PROVE  trusted /\ CleanSoFar /\ layout' = layout
  <2>1. trusted' = trusted /\ results' = results /\ layout' = layout
    BY <1>4 DEF Next, Refuse, SetupStep, Prune, Locate, Skip, Test, CallReturns, Publish,
         SaveCabinet, SaveLockers, ScanStep, Ping, Note, Report, Clear, ListenerTakes,
         Execute, vars, history, setupVars
  <2>2. ~Failed
    BY <2>1 DEF Failed
  <2> QED
    BY <2>1, <2>2 DEF Clean
<1>5. CASE \E l \in Layouts : Refuse(l)
  <2>1. stage' = "idle"
    BY <1>5 DEF Refuse
  <2> QED
    BY <2>1 DEF CleanSoFar, Beginning, Testing
<1>6. CASE Prune \/ Locate
  <2>1. /\ Beginning /\ stage' \in {"locate", "next"} /\ (stage' = "next" => at' = 1)
        /\ UNCHANGED <<todo, wire, layout, opened>>
    BY <1>6 DEF Prune, Locate, Beginning, cabinet, history
  <2>2. trusted /\ CleanSoFar
    BY <1>4, <1>6, <2>1 DEF Begin, Stray, Discover, Evaluate, Beginning, Prune, Locate
  <2>3. stage' = "next" => OpenedBefore(at)'
    <3>1. ASSUME stage' = "next", NEW i \in DOMAIN layout.slots PROVE ~(i < 1)
      <4>1. layout \in Layouts
        BY <2>1 DEF InStep, SetupTyped, Beginning
      <4>2. layout.slots \in Seq(Entry)
        BY <4>1, LayoutsAssumption
      <4> QED
        BY <4>2
    <3> QED
      BY <2>1, <3>1 DEF OpenedBefore
  <2> QED
    BY <2>1, <2>2, <2>3 DEF CleanSoFar, LineEmpty, Beginning, Testing
<1>7. CASE Skip
  <2>1. /\ stage = "next" /\ layout.slots[at].slot = None /\ at' = at + 1
        /\ UNCHANGED <<stage, todo, wire, layout, opened, results, trusted>>
    BY <1>7 DEF Skip, PassOver, cabinet, history
  <2>2. CleanSoFar
    <3>1. ~Failed
      BY <2>1 DEF Failed
    <3> QED
      BY <2>1, <3>1 DEF Clean
  <2>3. OpenedBefore(at) /\ LineEmpty
    BY <2>1, <2>2 DEF CleanSoFar, Testing
  <2>4. OpenedBefore(at)'
    <3>1. layout \in Layouts /\ at \in Nat
      BY <2>1 DEF InStep, SetupTyped
    <3>2. layout.slots \in Seq(Entry)
      BY <3>1, LayoutsAssumption
    <3>3. \A i \in DOMAIN layout.slots : i < at + 1 => i < at \/ i = at
      BY <3>1, <3>2
    <3> QED
      BY <2>1, <2>3, <3>3 DEF OpenedBefore, OpenedAt
  <2> QED
    BY <2>1, <2>3, <2>4 DEF CleanSoFar, LineEmpty, Beginning, Testing
<1>8. CASE Test
  <2>1. /\ stage = "next" /\ stage' = "calling" /\ heard' = heard
        /\ todo' = Append(todo, [op |-> "T", slot |-> layout.slots[at].slot])
        /\ UNCHANGED <<layout, at, wire, opened, results, trusted>>
    BY <1>8 DEF Test, Serial!Begin, history
  <2>2. CleanSoFar
    <3>1. ~Failed
      BY <2>1 DEF Failed
    <3> QED
      BY <2>1, <3>1 DEF Clean
  <2>3. OpenedBefore(at) /\ LineEmpty
    BY <2>1, <2>2 DEF CleanSoFar, Testing
  <2>4. OpenedBefore(at)'
    BY <2>1, <2>3 DEF OpenedBefore, OpenedAt
  <2>5. heard["setup"] = {}
    BY <2>1 DEF CallsInStep, Threads
  <2>6. todo' = <<[op |-> "T", slot |-> layout.slots[at].slot]>>
    BY <2>1, <2>3 DEF LineEmpty
  <2>7. OneAnswer'
    BY <2>1, <2>3, <2>5, <2>6 DEF OneAnswer, Asking, LineEmpty
  <2> QED
    BY <2>1, <2>4, <2>7 DEF CleanSoFar, Beginning, Testing
<1>9. CASE CallReturns("setup") \/ Clear \/ UNCHANGED vars
  <2>1. UNCHANGED <<stage, layout, at, results, todo, wire, opened, trusted, heard>>
    BY <1>9 DEF CallReturns, Serial!Succeed, Serial!Fail, Clear, vars, setupVars, cabinet,
         history, serial
  <2>2. CleanSoFar
    <3>1. ~Failed
      BY <2>1 DEF Failed
    <3> QED
      BY <2>1, <3>1 DEF Clean
  <2> QED
    BY <2>1, <2>2 DEF CleanSoFar, LineEmpty, OpenedBefore, OpenedAt, OneAnswer, Asking,
         Truthful, Beginning, Testing
<1>10. CASE Evaluate
  <2> DEFINE pass == Passed(result["setup"])
  <2>1. /\ stage = "calling" /\ stage' = "next" /\ at' = at + 1 /\ phase["setup"] = "done"
        /\ results' = Append(results, pass)
        /\ UNCHANGED <<layout, todo, wire, opened, trusted>>
    BY <1>10 DEF Evaluate, Record, cabinet, history
  <2>2. pass \in BOOLEAN
    BY DEF Passed
  <2> HIDE DEF pass
  <2>3. pass /\ ~Failed
    <3>1. /\ Len(results) \in Nat /\ Len(results') = Len(results) + 1
          /\ results'[Len(results) + 1] = pass
          /\ \A i \in 1..Len(results) : results'[i] = results[i]
      BY <1>0, <2>1, <2>2
    <3>2. DOMAIN results = 1..Len(results) /\ DOMAIN results' = 1..(Len(results) + 1)
      BY <1>0, <2>1, <2>2, <3>1
    <3>3. \A i \in DOMAIN results' : results'[i]
      BY DEF Failed
    <3>4. pass
      BY <3>1, <3>2, <3>3
    <3>5. \A i \in DOMAIN results : results[i]
      BY <3>1, <3>2, <3>3
    <3> QED
      BY <3>4, <3>5 DEF Failed
  <2>4. OneAnswer /\ OpenedBefore(at)
    BY <2>1, <2>3 DEF Clean, CleanSoFar, Testing
  <2>5. result["setup"].ok /\ ~result["setup"].closed
    BY <2>3 DEF pass, Passed
  <2>6. result["setup"] \in heard["setup"]
    <3>1. result["setup"] \in heard["setup"] \union {TimedOut}
      BY <2>1 DEF CallsInStep, Threads
    <3> QED
      BY <2>5, <3>1 DEF TimedOut
  <2>7. LineEmpty /\ OpenedAt(at)
    BY <2>4, <2>5, <2>6 DEF OneAnswer, Truthful, LineEmpty
  <2>8. OpenedBefore(at)'
    <3>1. layout \in Layouts /\ at \in Nat
      BY <2>1 DEF InStep, SetupTyped
    <3>2. layout.slots \in Seq(Entry)
      BY <3>1, LayoutsAssumption
    <3>3. \A i \in DOMAIN layout.slots : i < at + 1 => i < at \/ i = at
      BY <3>1, <3>2
    <3> QED
      BY <2>1, <2>4, <2>7, <3>3 DEF OpenedBefore, OpenedAt
  <2> QED
    BY <2>1, <2>7, <2>8 DEF CleanSoFar, LineEmpty, Beginning, Testing
<1>11. CASE Publish \/ SaveCabinet \/ SaveLockers
  <2>1. stage' \in {"save", "lockers", "idle"}
    BY <1>11 DEF Publish, SaveCabinet, SaveLockers
  <2> QED
    BY <2>1 DEF CleanSoFar, Beginning, Testing
<1>12. CASE ListenerTakes
  <2>1. /\ wire # <<>> /\ wire' = Tail(wire)
        /\ heard' = [c \in Threads |-> IF phase[c] = "calling"
                                       THEN heard[c] \union {Head(wire)} ELSE heard[c]]
           \/ heard' = heard
        /\ UNCHANGED <<stage, layout, at, results, todo, opened, trusted>>
    BY <1>12 DEF ListenerTakes, Serial!Accept, serial, setupVars, history, Threads
  <2>2. CleanSoFar
    <3>1. ~Failed
      BY <2>1 DEF Failed
    <3> QED
      BY <2>1, <3>1 DEF Clean
  <2>3. ~LineEmpty
    BY <2>1 DEF LineEmpty
  <2>4. Testing => OpenedBefore(at)'
    BY <2>1, <2>2 DEF CleanSoFar, OpenedBefore, OpenedAt
  <2>5. ASSUME stage = "calling" PROVE OneAnswer'
    <3>1. todo = <<>> /\ Len(wire) = 1 /\ Truthful(Head(wire)) /\ heard["setup"] = {}
      BY <2>1, <2>2, <2>5 DEF CleanSoFar, OneAnswer
    <3>2. wire' = <<>> /\ Head(wire) \in Said
      BY <1>0, <2>1, <3>1
    <3>3. heard'["setup"] \in {{}, {Head(wire)}}
      BY <2>1, <3>1 DEF Threads
    <3>4. \A l \in heard'["setup"] : l = Head(wire)
      BY <3>3
    <3>5. \A l \in heard'["setup"] : l.ok /\ ~l.closed => OpenedAt(at)'
      BY <2>1, <3>1, <3>4 DEF Truthful, OpenedAt
    <3> QED
      BY <2>1, <3>1, <3>2, <3>5 DEF OneAnswer, Truthful
  <2> QED
    BY <2>1, <2>2, <2>3, <2>4, <2>5 DEF CleanSoFar, Beginning, Testing
<1>13. CASE Execute
  <2> DEFINE c == Head(todo)
  <2>1. /\ todo # <<>> /\ todo' = Tail(todo)
        /\ UNCHANGED <<stage, layout, at, results, trusted, heard>>
        /\ opened \subseteq opened'
    BY <1>13 DEF Execute, setupVars, serial
  <2>2. CleanSoFar /\ trusted
    <3>1. ~Failed
      BY <2>1 DEF Failed
    <3> QED
      BY <2>1, <3>1 DEF Clean
  <2>3. ~LineEmpty
    BY <2>1 DEF LineEmpty
  <2>4. Testing => OpenedBefore(at)'
    <3>1. Testing => OpenedBefore(at)
      BY <2>2 DEF CleanSoFar
    <3> QED
      BY <2>1, <3>1 DEF OpenedBefore, OpenedAt
  <2>5. ASSUME stage = "calling" PROVE OneAnswer'
    <3>1. Asking /\ wire = <<>> /\ heard["setup"] = {}
      BY <2>1, <2>2, <2>5 DEF CleanSoFar, OneAnswer
    <3>2. c.op = "T" /\ c.slot = layout.slots[at].slot /\ todo' = <<>>
      BY <2>1, <3>1 DEF Asking
    <3>3. PICK l : /\ wire' = Append(wire, l)
                   /\ l.ok /\ ~l.closed => c.slot \in opened'
      <4>1. CASE c.slot \in Wired
        <5>1. PICK closed \in BOOLEAN :
                /\ Says(Line("test", TRUE, closed))
                /\ opened' = IF closed \/ ~trusted THEN opened ELSE opened \union {c.slot}
          BY <1>13, <3>2, <4>1 DEF Execute
        <5> QED
          BY <2>2, <5>1 DEF Says, Line
      <4>2. CASE c.slot \notin Wired
        <5>1. Says(Line("test", FALSE, FALSE))
          BY <1>13, <3>2, <4>2 DEF Execute
        <5> QED
          BY <5>1 DEF Says, Line
      <4> QED
        BY <4>1, <4>2
    <3>4. wire' = <<l>>
      BY <3>1, <3>3
    <3>5. Len(wire') = 1 /\ Head(wire') = l
      BY <3>4
    <3>6. l.ok /\ ~l.closed => OpenedAt(at)'
      BY <2>1, <3>2, <3>3 DEF OpenedAt
    <3> QED
      BY <2>1, <3>1, <3>2, <3>5, <3>6 DEF OneAnswer, Truthful
  <2> QED
    BY <2>1, <2>2, <2>3, <2>4, <2>5 DEF CleanSoFar, Beginning, Testing
<1> QED
  BY <1>1, <1>2, <1>3, <1>5, <1>6, <1>7, <1>8, <1>9, <1>10, <1>11, <1>12, <1>13
     DEF Next, SetupStep

LEMMA CompletedStep ==
  /\ LinesAreHere /\ InStep /\ Clean /\ CompletedMeansOpened /\ [Next]_vars
  => CompletedMeansOpened'
<1> SUFFICES ASSUME LinesAreHere, InStep, Clean, CompletedMeansOpened, [Next]_vars,
                    trusted', published' # None, published'.status = "COMPLETED",
                    published'.of = layout'
             PROVE  \A i \in DOMAIN layout'.slots :
                      layout'.slots[i].slot \in opened' \union {None}
  BY DEF CompletedMeansOpened
<1>1. CASE \E l \in Layouts : Refuse(l) \/ \E b \in BOOLEAN : Begin(l, b)
  <2>1. \A l \in Layouts : ~Refuse(l)
    BY DEF Refuse
  <2>2. \A l \in Layouts, b \in BOOLEAN : ~Begin(l, b)
    BY DEF Begin
  <2> QED
    BY <1>1, <2>1, <2>2
<1>2. CASE \/ \E max \in 1..MaxCabinets : Discover(max)
           \/ Stray
  BY <1>2 DEF Discover, Stray
<1>3. CASE Publish
  <2>1. /\ stage = "next" /\ at > Len(layout.slots)
        /\ UNCHANGED <<layout, opened, trusted>>
    BY <1>3 DEF Publish
  <2>2. published = None
    BY <2>1 DEF InStep, PublishedOnce, Testing
  <2>3. published'.status = Status
    BY <1>3, <2>2 DEF Publish
  <2>4. ~Failed
    BY <2>3 DEF Status
  <2>5. OpenedBefore(at)
    BY <2>1, <2>4 DEF Clean, CleanSoFar, Testing
  <2>6. \A i \in DOMAIN layout.slots : i < at
    <3>1. layout \in Layouts /\ at \in Nat
      BY <2>1 DEF InStep, SetupTyped
    <3>2. layout.slots \in Seq(Entry)
      BY <3>1, LayoutsAssumption
    <3> QED
      BY <2>1, <3>1, <3>2
  <2> QED
    BY <2>1, <2>5, <2>6 DEF OpenedBefore, OpenedAt
<1>4. CASE \/ Prune \/ Locate \/ Skip \/ Test \/ CallReturns("setup") \/ Evaluate
           \/ SaveCabinet \/ SaveLockers \/ ScanStep
           \/ Clear \/ ListenerTakes \/ Execute \/ UNCHANGED vars
  <2>1. UNCHANGED <<published, layout, trusted>> /\ opened \subseteq opened'
    BY <1>4 DEF Prune, Locate, Skip, Test, CallReturns, Evaluate, SaveCabinet, SaveLockers,
         ScanStep, Ping, Note, Report, Clear, ListenerTakes, Execute, vars, setupVars, history
  <2> QED
    BY <2>1 DEF CompletedMeansOpened
<1> QED
  BY <1>1, <1>2, <1>3, <1>4 DEF Next, SetupStep

(* A cabinet reported COMPLETED has no door that failed its test, when     *)
(* nothing else is heard on the line, for layouts of any length and        *)
(* however many commands and answers are lost or come late.                *)
THEOREM CompletedOpened == Spec => []CompletedMeansOpened
<1>1. Init => CallsInStep /\ Quiet /\ Clean /\ CompletedMeansOpened
  <2> SUFFICES ASSUME Init PROVE CallsInStep /\ Quiet /\ Clean /\ CompletedMeansOpened
    OBVIOUS
  <2>1. /\ stage = "idle" /\ scan = "idle" /\ published = None
        /\ phase = [c \in Threads |-> "idle"] /\ heard = [c \in Threads |-> {}]
    BY DEF Init, Serial!Init, Threads
  <2> QED
    BY <2>1 DEF CallsInStep, Quiet, Clean, CleanSoFar, Beginning, Testing,
         CompletedMeansOpened, Threads
<1> QED
  BY <1>1, CallsStep, QuietStep, CleanStep, CompletedStep, LinesInvariant, InStepInvariant,
     PTL DEF Spec
================================================================================
