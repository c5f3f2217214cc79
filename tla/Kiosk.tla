--------------------------------- MODULE Kiosk ---------------------------------
(***************************************************************************)
(* The kiosk's screens (src/ui/src/screens/KioskScreen.jsx): a customer    *)
(* logs in, chooses a box, orders and pays it, and the kiosk unlocks it,   *)
(* or one enters a code.  Requests to the backend are answered at any time *)
(* later, in any order; an answer is handled with the values of the render *)
(* it was asked in, even when its screen is gone.  Payment polls and the   *)
(* countdown back to home are intervals.                                   *)
(***************************************************************************)
EXTENDS Naturals, Sequences

CONSTANTS Boxes, None,
          MaxSessions,   \* bound: customers served
          MaxRequests    \* bound: requests customers and polls begin with

ASSUME NoneAssumption == None \notin Boxes
ASSUME BoundsAssumption == {MaxSessions, MaxRequests} \subseteq Nat

VARIABLES screen, history,
          jwt,         \* the session whose customer is logged in, or 0
          box,         \* selectedBox
          order,       \* orderId, its PIN, who ordered it and which box
          pay,         \* loading and payUrl of the payment screen
          requests,    \* in flight
          polls,       \* running payment intervals
          timers,      \* running countdowns
          cdRef,       \* the countdown the kiosk knows
          shown,       \* the session the success screen is about
          session,     \* goes up whenever the kiosk goes home
          sent,        \* requests so far
          mounts,      \* payment screens so far
          stale        \* history: kinds of answers handled after their screen

view == <<screen, history, pay>>
data == <<jwt, box, order, shown>>
countdown == <<timers, cdRef>>
count == <<session, mounts>>
vars == <<view, data, requests, polls, countdown, count, sent, stale>>

NoPay == [loading |-> "", url |-> FALSE]

Init == /\ screen = "home" /\ history = <<"home">> /\ pay = NoPay
        /\ jwt = 0 /\ box = None /\ order = None /\ shown = 0
        /\ requests = {} /\ polls = {}
        /\ timers = {} /\ cdRef = 0
        /\ session = 1 /\ mounts = 0 /\ sent = 0 /\ stale = {}

--------------------------------------------------------------------------------
(* Screens *)

(* A request remembers the values of its render.                           *)
Request(kind) ==
  [kind |-> kind, id |-> sent + 1, fresh |-> TRUE, session |-> session,
   jwt |-> jwt, order |-> order, box |-> box, inst |-> mounts]

(* Mistake: the payment screen leaves its poll running when it goes.       *)
PollsGoOn(s) == {[p EXCEPT !.fresh = FALSE] : p \in polls}

(* A screen that goes clears its poll; what is in flight outlives it.      *)
PollsLeft(s) == IF s = screen THEN polls ELSE {p \in polls : ~p.fresh}
Outlived(s, rs) == IF s = screen THEN rs ELSE {[r EXCEPT !.fresh = FALSE] : r \in rs}

(* The kiosk shows s, with rs in flight.  A screen that is shown already   *)
(* stays as it is; the register screen asks at once.                       *)
Show(s, rs) ==
  /\ screen' = s
  /\ pay' = IF s = screen THEN pay ELSE NoPay
  /\ mounts' = IF s = "payment" /\ screen # s THEN mounts + 1 ELSE mounts
  /\ polls' = PollsLeft(s)
  /\ IF s = "register" /\ screen # s
     THEN requests' = Outlived(s, rs) \union {Request(s)} /\ sent' = sent + 1
     ELSE requests' = Outlived(s, rs) /\ UNCHANGED sent

Go(s, rs) == history' = Append(history, s) /\ Show(s, rs)

(* back: the history decides, and nothing is reset.                        *)
Back ==
  LET h == SubSeq(history, 1, Len(history) - 1) IN
    /\ Len(history) > 1
    /\ history' = h
    /\ Show(h[Len(h)], requests)
    /\ UNCHANGED <<data, countdown, session, stale>>

(* Mistake: the customer stays logged in.                                  *)
ResetButJwt == box' = None /\ order' = None /\ UNCHANGED <<jwt, shown>>

Reset == jwt' = 0 /\ box' = None /\ order' = None /\ UNCHANGED shown

GoHome ==
  /\ Reset
  /\ history' = <<"home">> /\ Show("home", requests)
  /\ timers' = timers \ {cdRef}
  /\ session' = session + 1
  /\ UNCHANGED <<cdRef, stale>>

(* Mistakes: the countdown that runs is not stopped; a countdown is not    *)
(* started when there was one before.                                      *)
AddCountdown == cdRef' = cdRef + 1 /\ timers' = timers \union {cdRef + 1}
FirstCountdown == IF cdRef = 0 THEN cdRef' = 1 /\ timers' = {1} ELSE UNCHANGED countdown

StartCountdown == cdRef' = cdRef + 1 /\ timers' = (timers \ {cdRef}) \union {cdRef + 1}

ShowSuccess(r) ==
  /\ shown' = r.session
  /\ Go("success", requests \ {r})
  /\ StartCountdown
  /\ UNCHANGED <<jwt, box, order, session>>

CountdownEnds(t) == t \in timers /\ GoHome

--------------------------------------------------------------------------------
(* What the customer does *)

(* Mistake: the header of the box selection goes one screen back.          *)
BackFromBoxes == {"otp", "order-info", "boxes"}

BackButtons == {"otp", "order-info"}

Walk == \/ /\ screen = "home" /\ session <= MaxSessions
           /\ \E s \in {"login", "staff"} : Go(s, requests)
           /\ UNCHANGED <<data, countdown, session, stale>>
        \/ /\ screen = "boxes" /\ box # None
           /\ Go("order-info", requests)
           /\ UNCHANGED <<data, countdown, session, stale>>
        \/ screen \in BackButtons /\ Back
        \/ screen \notin BackButtons \union {"home"} /\ GoHome

ChooseBox(b) ==
  /\ screen = "boxes"
  /\ box' = b
  /\ UNCHANGED <<view, jwt, order, shown, requests, polls, countdown, count, sent, stale>>

Begin(kind) ==
  /\ sent < MaxRequests
  /\ sent' = sent + 1
  /\ requests' = requests \union {Request(kind)}

(* The Enter key sends again while an answer is awaited.                   *)
Ask == /\ \/ screen = "login" /\ Begin("otp")
          \/ screen = "otp" /\ Begin("login")
          \/ screen = "staff" /\ Begin("code")
       /\ UNCHANGED <<view, data, polls, countdown, count, stale>>

(* The button does not.                                                    *)
Create ==
  /\ screen = "order-info" /\ box # None
  /\ ~\E r \in requests : r.kind = "create" /\ r.fresh
  /\ Begin("create")
  /\ UNCHANGED <<view, data, polls, countdown, count, stale>>

(* The payment buttons hinder only themselves.                             *)
Press(loading, kind) ==
  /\ screen = "payment" /\ pay.loading # loading
  /\ pay' = [pay EXCEPT !.loading = loading]
  /\ Begin(kind)
  /\ UNCHANGED <<screen, history, data, countdown, count, stale>>

PayOnline(method) == ~pay.url /\ Press(method, "pay") /\ UNCHANGED polls
SkipPay == ~pay.url /\ Press("skip", "checkout") /\ UNCHANGED polls

(* The poll pollRef holds in a payment screen, if there is one.            *)
Polling(inst) ==
  {p \in polls : p.inst = inst /\ \A q \in polls : q.inst = inst => q.id <= p.id}

OpenAfterPay ==
  /\ pay.url /\ Press("open", "unlock")
  /\ polls' = polls \ Polling(mounts)

--------------------------------------------------------------------------------
(* Polls and answers *)

Poll(p) ==
  /\ p \in polls /\ sent < MaxRequests
  /\ sent' = sent + 1
  /\ requests' = requests \union {[p EXCEPT !.kind = "status", !.id = sent + 1]}
  /\ UNCHANGED <<view, data, polls, countdown, count, stale>>

Handled(r) == stale' = IF r.fresh THEN stale ELSE stale \union {r.kind}

(* What was answered ends a button's wait only while its screen is there.  *)
Loading(r, state) == pay' = IF r.fresh THEN [pay EXCEPT !.loading = state] ELSE pay

(* A refusal or an error is shown on the screen that asked; a poll ignores *)
(* it.                                                                     *)
Refused(r) ==
  /\ r.kind # "checkout"
  /\ requests' = requests \ {r}
  /\ IF r.kind \in {"pay", "unlock", "confirm"} THEN Loading(r, "") ELSE UNCHANGED pay
  /\ UNCHANGED <<screen, history, data, polls, countdown, count, sent, stale>>

OtpSent(r) ==
  /\ r.kind = "otp"
  /\ Go("otp", requests \ {r})
  /\ Handled(r)
  /\ UNCHANGED <<data, countdown, session>>

LoggedIn(r) ==
  /\ r.kind \in {"login", "register"}
  /\ \/ /\ jwt' = r.session
        /\ Go("boxes", requests \ {r})
     \/ /\ r.kind = "login" /\ sent < MaxRequests
        /\ Go("register", requests \ {r})
        /\ UNCHANGED jwt
  /\ Handled(r)
  /\ UNCHANGED <<box, order, shown, countdown, session>>

Created(r) ==
  /\ r.kind = "create"
  /\ order' = [id |-> r.id, by |-> r.jwt, box |-> r.box]
  /\ Go("payment", requests \ {r})
  /\ Handled(r)
  /\ UNCHANGED <<jwt, box, shown, countdown, session>>

(* createPayment succeeded: the poll starts, screen or no screen.          *)
PaymentBegun(r) ==
  /\ r.kind = "pay"
  /\ polls' = (polls \ Polling(r.inst)) \union {[r EXCEPT !.kind = "poll"]}
  /\ pay' = IF r.fresh THEN [loading |-> "", url |-> TRUE] ELSE pay
  /\ requests' = requests \ {r}
  /\ Handled(r)
  /\ UNCHANGED <<screen, history, data, countdown, count, sent>>

(* The order is paid, or the cash checkout answered, no matter what: the   *)
(* box is unlocked.  Then the order is confirmed.                          *)
Continue(r, kind) == requests' = (requests \ {r}) \union {[r EXCEPT !.kind = kind]}

Paid(r) ==
  /\ r.kind = "status"
  /\ Continue(r, "unlock")
  /\ polls' = polls \ Polling(r.inst)
  /\ Loading(r, "open")
  /\ UNCHANGED <<screen, history, data, countdown, count, sent, stale>>

CheckedOut(r) ==
  /\ r.kind = "checkout"
  /\ Continue(r, "unlock")
  /\ UNCHANGED <<view, data, polls, countdown, count, sent, stale>>

Unlocked(r) ==
  /\ r.kind = "unlock"
  /\ Continue(r, "confirm")
  /\ UNCHANGED <<view, data, polls, countdown, count, sent, stale>>

Confirmed(r) ==
  /\ r.kind \in {"confirm", "code"}
  /\ ShowSuccess(r)
  /\ Handled(r)

Answered(r) == \/ Refused(r) \/ OtpSent(r) \/ LoggedIn(r) \/ Created(r) \/ PaymentBegun(r)
               \/ Paid(r) \/ CheckedOut(r) \/ Unlocked(r) \/ Confirmed(r)

--------------------------------------------------------------------------------
Next == \/ Walk \/ Ask \/ Create \/ SkipPay \/ OpenAfterPay
        \/ \E b \in Boxes : ChooseBox(b)
        \/ \E method \in {"MOMO", "VNPAY"} : PayOnline(method)
        \/ \E p \in polls : Poll(p)
        \/ \E r \in requests : Answered(r)
        \/ \E t \in timers : CountdownEnds(t)

(* Intervals fire; nothing is assumed of customers and the backend.        *)
Spec == Init /\ [][Next]_vars /\ WF_vars(\E t \in timers : CountdownEnds(t))

--------------------------------------------------------------------------------
(* Properties *)

(* The variables keep their types, and the one countdown that may run is   *)
(* the one the kiosk can stop, though several answers start one.           *)
TypeOK ==
  /\ screen \in {"home", "login", "otp", "register", "boxes", "order-info", "payment",
                 "success", "staff"}
  /\ history[1] = "home" /\ history[Len(history)] = screen
  /\ jwt \in 0..session /\ box \in Boxes \union {None}
  /\ pay.loading \in {"", "MOMO", "VNPAY", "skip", "open"}
  /\ screen # "payment" => pay = NoPay
  /\ timers \subseteq {cdRef}

(* On the home screen nobody is logged in and no box or order is left over *)
(* from anybody, however late answers come: what an answer sets, it also   *)
(* shows, and the one way home besides goHome, back from a code screen that*)
(* a late answer opened over the home screen, comes from a blank one.      *)
HomeIsBlank == screen = "home" => jwt = 0 /\ box = None /\ order = None

(* What the kiosk shows belongs to the customer before it and fits         *)
(* together, and it unlocks the box that was ordered, unless an answer     *)
(* that sets one of them came after its screen was left.                   *)
OrderFits ==
  stale \intersect {"login", "register", "create"} = {} =>
    /\ jwt \in {0, session}
    /\ screen = "payment" => order.by = jwt /\ order.box = box
    /\ screen = "success" /\ stale \intersect {"confirm", "code"} = {} => shown = session
    /\ \A r \in requests : r.kind = "unlock" => r.order.box = r.box

(* A payment screen has one poll at most, and none outlives its screen     *)
(* unless the payment was begun after the screen was left.                 *)
PollsOwned ==
  /\ \A p, q \in polls : p.inst = q.inst => p = q
  /\ "pay" \notin stale => \A p \in polls : p.fresh

(* The success screen goes by itself, also when another order follows.     *)
SuccessEnds == screen = "success" ~> screen # "success"
================================================================================
