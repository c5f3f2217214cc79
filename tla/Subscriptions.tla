------------------------------ MODULE Subscriptions ------------------------------
(***************************************************************************)
(* What the gateway is subscribed to and whether its heartbeat beats: the  *)
(* connection to the broker (src/infracstructure/mqtt_client.py), start    *)
(* and stop of the heartbeat (src/services/heartbeat_service.py), and the  *)
(* threads that call them: main.py, setups, clears and the API's clear.    *)
(*                                                                         *)
(* As in CabinetState, a thread is the list of steps it still has to take. *)
(* The paho client has a clean session: what the broker knows of the       *)
(* subscriptions goes when the connection goes.                            *)
(***************************************************************************)
EXTENDS FiniteSets, SequencesExt

CONSTANTS Main,         \* the main thread
          Jobs,         \* setup threads, do_clear threads, the API's thread
          Cabinets,
          None,
          MaxJobs,      \* bound: setups and clears
          MaxLosses     \* bound: lost and refused connections

ASSUME MainAssumption == Main \notin Jobs
ASSUME BoundsAssumption == {MaxJobs, MaxLosses} \subseteq Nat

VARIABLES conn,       \* "off": never; "connecting", "on" or "lost"
          subs,       \* cabinets whose command/open the broker delivers
          todo,       \* per thread, the steps it still has to take
          located,    \* cabinet_state has a location
          cabs,       \* cabinet_state's cabinets
          settingUp,  \* setup_handler._is_running
          running,    \* heartbeat._running
          latest,     \* heartbeat._thread, 0 for Python's None
          loop,       \* the heartbeat threads so far: "waiting", "publishing", "ended"
          jobs, losses,
          mishaps     \* history: what the properties have to leave out

Threads == {Main} \union Jobs
memory == <<located, cabs>>
heartbeat == <<running, latest, loop>>
vars == <<conn, subs, todo, memory, settingUp, heartbeat, jobs, losses, mishaps>>

Configured == located /\ cabs # {}
Live == {l \in DOMAIN loop : loop[l] # "ended"}

--------------------------------------------------------------------------------
(* The operations as lists of steps *)

Do(what, x) == <<[do |-> what, x |-> x]>>

HeartbeatStart == Do("hb_check", None) \o Do("hb_set", None) \o Do("hb_spawn", None)

(* Mistake: stop lowers the flag and does not wait.                        *)
HeartbeatStopFlag == Do("hb_stop", None)
HeartbeatStop == Do("hb_stop", None) \o Do("hb_thread", None)

(* A clear by the backend also stops the heartbeat; the API's does not.    *)
ClearSteps == Do("forget", None) \o HeartbeatStop
ApiClearSteps == Do("forget", None)

(* One cabinet of a setup: its cabinet, its lockers, _on_setup_complete.   *)
CabinetSteps(c) == Do("save", c) \o Do("lockers", c) \o Do("subscribe", {c}) \o HeartbeatStart
SetupSteps(bulk, cs) ==
  Do("start", None) \o (IF bulk THEN Do("forget", None) ELSE <<>>) \o Do("locate", None)
    \o Do("cabinets", cs) \o Do("finish", None)

MainSteps == Do("connect", None) \o Do("ready", None) \o Do("serve", None)
               \o HeartbeatStop \o Do("mqtt_stop", None)

Idle(t) == todo[t] = <<>>
Up == ~Idle(Main)
Waiting(t) == Idle(t) \/ Head(todo[t]).do = "serve"

At(t, what) == Up /\ ~Idle(t) /\ Head(todo[t]).do = what
On(t) == Head(todo[t]).x
Continue(t, steps) == todo' = [todo EXCEPT ![t] = steps \o Tail(@)]
Step(t) == Continue(t, <<>>)

(* An exception: the setup goes to its finally clause.                     *)
Abort(t) == todo' = [todo EXCEPT ![t] = <<Last(@)>>]

(* The thread leaves the function it is in, which has n more steps.        *)
Return(t, n) == todo' = [todo EXCEPT ![t] = SubSeq(@, n + 2, Len(@))]

Overlap(t) == IF \E u \in Threads \ {t} : ~Waiting(u) THEN {"overlapped"} ELSE {}

--------------------------------------------------------------------------------
(* The connection *)

(* start: over TLS, else plain; when both fail nothing ever tries again.   *)
Connect ==
  /\ At(Main, "connect")
  /\ conn' \in {"connecting", "off"}
  /\ Step(Main)
  /\ UNCHANGED <<subs, memory, settingUp, heartbeat, jobs, losses, mishaps>>

(* _on_connect subscribes to setup, clear-setup and discovery: in "on",    *)
(* and there only, their commands arrive.                                  *)
Connected ==
  /\ Up /\ conn = "connecting"
  /\ conn' = "on"
  /\ UNCHANGED <<subs, todo, memory, settingUp, heartbeat, jobs, losses, mishaps>>

(* _on_disconnect, or _on_connect with another reason code.                *)
Lost ==
  /\ Up /\ conn \in {"connecting", "on"} /\ losses < MaxLosses
  /\ conn' = "lost" /\ subs' = {}
  /\ losses' = losses + 1
  /\ mishaps' = mishaps \union {"lost"}
  /\ UNCHANGED <<todo, memory, settingUp, heartbeat, jobs>>

(* The client's network thread connects again.                             *)
Reconnect ==
  /\ Up /\ conn = "lost"
  /\ conn' = "connecting"
  /\ UNCHANGED <<subs, todo, memory, settingUp, heartbeat, jobs, losses, mishaps>>

(* Mistake: subscribe only when is_connected, once the broker has answered.*)
IsConnected == conn = "on"

(* With a socket a SUBSCRIBE goes out, right behind a CONNECT at that.     *)
HasSocket == conn \in {"connecting", "on"}

(* Without a socket subscribe returns an error code that nobody reads.     *)
(* The cabinets of a list are taken one after the other.                   *)
Subscribe(t) ==
  /\ At(t, "subscribe")
  /\ IF On(t) = {} THEN Step(t) /\ UNCHANGED subs
     ELSE \E c \in On(t) :
            /\ subs' = IF HasSocket THEN subs \union {c} ELSE subs
            /\ Continue(t, Do("subscribe", On(t) \ {c}))
  /\ UNCHANGED <<conn, memory, settingUp, heartbeat, jobs, losses, mishaps>>

MqttStop ==
  /\ At(Main, "mqtt_stop")
  /\ conn' = "off" /\ subs' = {}
  /\ Step(Main)
  /\ UNCHANGED <<memory, settingUp, heartbeat, jobs, losses, mishaps>>

--------------------------------------------------------------------------------
(* main, and the jobs that come in *)

Ready ==
  /\ At(Main, "ready")
  /\ IF Configured
     THEN Continue(Main, Do("subscribe", cabs) \o HeartbeatStart)
     ELSE Step(Main)
  /\ UNCHANGED <<conn, subs, memory, settingUp, heartbeat, jobs, losses, mishaps>>

(* SIGINT or SIGTERM.                                                      *)
Signal ==
  /\ At(Main, "serve")
  /\ Step(Main)
  /\ mishaps' = mishaps \union Overlap(Main)
  /\ UNCHANGED <<conn, subs, memory, settingUp, heartbeat, jobs, losses>>

(* Thread t begins the job with these steps.                               *)
Begin(t, steps) ==
  /\ Up /\ Idle(t) /\ jobs < MaxJobs
  /\ todo' = [todo EXCEPT ![t] = steps]
  /\ jobs' = jobs + 1
  /\ mishaps' = mishaps \union Overlap(t)
  /\ UNCHANGED <<conn, subs, memory, settingUp, heartbeat, losses>>

(* A bulk setup has any number of cabinets, any other setup has one.       *)
Setup(t) ==
  /\ conn = "on" /\ ~settingUp
  /\ \E bulk \in BOOLEAN, cs \in SUBSET Cabinets :
       /\ ~bulk => Cardinality(cs) = 1
       /\ Begin(t, SetupSteps(bulk, cs))

Clear(t) == conn = "on" /\ Begin(t, ClearSteps)
ApiClear(t) == Begin(t, ApiClearSteps)

--------------------------------------------------------------------------------
(* A setup or a clear *)

Start(t) ==
  /\ At(t, "start")
  /\ settingUp' = TRUE
  /\ Step(t)
  /\ UNCHANGED <<conn, subs, memory, heartbeat, jobs, losses, mishaps>>

Finish(t) ==
  /\ At(t, "finish")
  /\ settingUp' = FALSE
  /\ Step(t)
  /\ UNCHANGED <<conn, subs, memory, heartbeat, jobs, losses, mishaps>>

(* Nothing is unsubscribed.                                                *)
Forget(t) ==
  /\ At(t, "forget")
  /\ located' = FALSE /\ cabs' = {}
  /\ Step(t)
  /\ UNCHANGED <<conn, subs, settingUp, heartbeat, jobs, losses, mishaps>>

Locate(t) ==
  /\ At(t, "locate")
  /\ located' = TRUE
  /\ Step(t)
  /\ UNCHANGED <<conn, subs, cabs, settingUp, heartbeat, jobs, losses, mishaps>>

(* The next cabinet of the list; not one whose slots all failed.           *)
NextCabinet(t) ==
  /\ At(t, "cabinets")
  /\ IF On(t) = {} THEN Step(t)
     ELSE \E c \in On(t), ok \in BOOLEAN :
            Continue(t, (IF ok THEN CabinetSteps(c) ELSE <<>>) \o Do("cabinets", On(t) \ {c}))
  /\ UNCHANGED <<conn, subs, memory, settingUp, heartbeat, jobs, losses, mishaps>>

(* Without a location save_cabinet returns, and the setup goes on.         *)
SaveCabinet(t) ==
  /\ At(t, "save")
  /\ cabs' = IF located THEN cabs \union {On(t)} ELSE cabs
  /\ Step(t)
  /\ UNCHANGED <<conn, subs, located, settingUp, heartbeat, jobs, losses, mishaps>>

(* A layout without ids raises KeyError, with the cabinet already saved.   *)
SaveLockers(t) ==
  /\ At(t, "lockers")
  /\ \/ Step(t) /\ UNCHANGED mishaps
     \/ Abort(t) /\ mishaps' = mishaps \union {"failed"}
  /\ UNCHANGED <<conn, subs, memory, settingUp, heartbeat, jobs, losses>>

--------------------------------------------------------------------------------
(* The heartbeat's start and stop *)

(* is_configured and _running are read one after the other; what a clear   *)
(* between the two would do, it does as well after both.                   *)
HeartbeatCheck(t) ==
  /\ At(t, "hb_check")
  /\ IF Configured /\ ~running THEN Step(t) ELSE Return(t, 2)
  /\ UNCHANGED <<conn, subs, memory, settingUp, heartbeat, jobs, losses, mishaps>>

HeartbeatSet(t) ==
  /\ At(t, "hb_set")
  /\ running' = TRUE
  /\ Step(t)
  /\ UNCHANGED <<conn, subs, memory, settingUp, latest, loop, jobs, losses, mishaps>>

(* Mistake: the thread is not kept.                                        *)
ThreadUnkept == UNCHANGED latest

ThreadKept == latest' = Len(loop')

HeartbeatSpawn(t) ==
  /\ At(t, "hb_spawn")
  /\ loop' = Append(loop, "waiting")
  /\ ThreadKept
  /\ Step(t)
  /\ UNCHANGED <<conn, subs, memory, settingUp, running, jobs, losses, mishaps>>

StopFlag(t) ==
  /\ At(t, "hb_stop")
  /\ running' = FALSE
  /\ Step(t)
  /\ UNCHANGED <<conn, subs, memory, settingUp, latest, loop, jobs, losses, mishaps>>

StopThread(t) ==
  /\ At(t, "hb_thread")
  /\ Continue(t, IF latest \in Live THEN Do("join", latest) ELSE <<>>)
  /\ UNCHANGED <<conn, subs, memory, settingUp, heartbeat, jobs, losses, mishaps>>

Join(t) ==
  /\ At(t, "join") /\ On(t) \notin Live
  /\ Step(t)
  /\ UNCHANGED <<conn, subs, memory, settingUp, heartbeat, jobs, losses, mishaps>>

(* Mistake: join without a timeout.                                        *)
JoinForever(t) == FALSE /\ UNCHANGED vars

(* Five seconds are enough for a thread that looks at a lowered flag every *)
(* second, not for one that is publishing or whose flag is up again.       *)
JoinTimesOut(t) ==
  /\ At(t, "join") /\ On(t) \in Live
  /\ running \/ loop[On(t)] = "publishing"
  /\ mishaps' = mishaps \union {"gave_up"}
  /\ Step(t)
  /\ UNCHANGED <<conn, subs, memory, settingUp, heartbeat, jobs, losses>>

--------------------------------------------------------------------------------
(* The heartbeat threads *)

(* _running, at the head of the loop and once a second of the interval.    *)
LoopLooks(l) ==
  /\ Up /\ loop[l] = "waiting"
  /\ loop' = [loop EXCEPT ![l] = IF running THEN "publishing" ELSE "ended"]
  /\ UNCHANGED <<conn, subs, todo, memory, settingUp, running, latest, jobs, losses, mishaps>>

(* One heartbeat per cabinet, or an exception that is logged.              *)
LoopPublished(l) ==
  /\ Up /\ loop[l] = "publishing"
  /\ loop' = [loop EXCEPT ![l] = "waiting"]
  /\ UNCHANGED <<conn, subs, todo, memory, settingUp, running, latest, jobs, losses, mishaps>>

JobStep(t) == \/ Start(t) \/ Finish(t) \/ Forget(t) \/ Locate(t) \/ NextCabinet(t)
              \/ SaveCabinet(t) \/ SaveLockers(t)
HeartbeatStep(t) == \/ HeartbeatCheck(t) \/ HeartbeatSet(t) \/ HeartbeatSpawn(t)
                    \/ StopFlag(t) \/ StopThread(t) \/ Join(t) \/ JoinTimesOut(t)
ThreadStep(t) == JobStep(t) \/ Subscribe(t) \/ HeartbeatStep(t)
MainStep == Connect \/ Ready \/ MqttStop
Network == Connected \/ Lost \/ Reconnect

Init == /\ conn = "off" /\ subs = {}
        /\ todo = [t \in Threads |-> IF t = Main THEN MainSteps ELSE <<>>]
        /\ located \in BOOLEAN
        /\ cabs \in SUBSET Cabinets /\ (~located => cabs = {})
        /\ settingUp = FALSE
        /\ running = FALSE /\ latest = 0 /\ loop = <<>>
        /\ jobs = 0 /\ losses = 0 /\ mishaps = {}

Next == \/ \E t \in Jobs : Setup(t) \/ Clear(t) \/ ApiClear(t)
        \/ \E t \in Threads : ThreadStep(t)
        \/ MainStep \/ Signal \/ Network
        \/ \E l \in DOMAIN loop : LoopLooks(l) \/ LoopPublished(l)

(* Threads run on, a sleep of a second ends; a publication may take any    *)
(* time, and the network need not come back.                               *)
Fairness == /\ \A t \in Threads : WF_vars(ThreadStep(t))
            /\ WF_vars(MainStep)
            /\ WF_vars(\E l \in DOMAIN loop : LoopLooks(l))

Spec == Init /\ [][Next]_vars /\ Fairness

--------------------------------------------------------------------------------
(* Properties *)

(* The variables keep their types, and a heartbeat thread that lives has   *)
(* been kept in _thread, where stop looks for it.                          *)
TypeOK ==
  /\ conn \in {"off", "connecting", "on", "lost"}
  /\ subs \subseteq Cabinets /\ cabs \subseteq Cabinets
  /\ located \in BOOLEAN /\ settingUp \in BOOLEAN /\ running \in BOOLEAN
  /\ loop \in Seq({"waiting", "publishing", "ended"})
  /\ latest \in 0..Len(loop)
  /\ mishaps \subseteq {"overlapped", "failed", "gave_up", "lost"}
  /\ Live # {} => latest # 0

(* The main thread serves and no job is at work.                           *)
Quiet == Up /\ \A t \in Threads : Waiting(t)

(* As long as the connection has lasted and no setup ended by an exception,*)
(* every configured cabinet can be opened from the backend: however many   *)
(* setups and clears overlapped each other and the start.                  *)
Reachable == (Quiet /\ conn = "on" /\ mishaps \intersect {"lost", "failed"} = {})
               => cabs \subseteq subs

(* When jobs came one after the other and every stop waited long enough,   *)
(* then at rest there is one heartbeat thread if the flag is up and none   *)
(* if it is down, and a gateway with cabinets has its flag up.             *)
HeartbeatFollows ==
  (Quiet /\ mishaps \intersect {"overlapped", "gave_up"} = {}) =>
    /\ Cardinality(Live) = IF running THEN 1 ELSE 0
    /\ Configured /\ "failed" \notin mishaps => running

(* Every setup, clear and stop ends, and so does the shutdown, even when   *)
(* the heartbeat thread hangs in a publication or was brought back to life.*)
EveryThreadFinishes == \A t \in Threads : []<>(Waiting(t) \/ ~Up)

(* _on_disconnect says "Unexpected disconnection. Will auto-reconnect...": *)
(* once connected again, the gateway serves its cabinets as before.        *)
OpenAfterReconnect == (Quiet /\ conn = "on" /\ mishaps \subseteq {"lost"})
                        => cabs \subseteq subs
================================================================================
