------------------------------- MODULE KioskProofs -------------------------------
(***************************************************************************)
(* Kiosk for any set of boxes and any number of customers and requests:    *)
(* what is left over on the home screen, the countdown, the payment polls, *)
(* and that what is shown fits together.                                   *)
(***************************************************************************)
EXTENDS Kiosk, TLAPS

Screens == {"home", "login", "otp", "register", "boxes", "order-info", "payment",
            "success", "staff"}

(* Screens that are left for home only: back does not leave them.          *)
Fixed == Screens \ (BackButtons \union {"home"})

--------------------------------------------------------------------------------
(* The history of screens *)

(* Only the first screen of the history is home.                           *)
HistoryOK == /\ history \in Seq(Screens) /\ Len(history) > 0
             /\ history[Len(history)] = screen
             /\ \A i \in 1..Len(history) : history[i] = "home" <=> i = 1

(* Whoever set something has a screen in the history that cannot be left   *)
(* by going back.                                                          *)
Blank == jwt = 0 /\ box = None /\ order = None /\ timers = {}
Traced == Blank \/ \E i \in 1..Len(history) : history[i] \in Fixed

HistoryInv == HistoryOK /\ Traced /\ timers \subseteq {cdRef}

LEMMA GoKeepsHistory ==
  ASSUME HistoryOK, NEW s \in Screens \ {"home"}, NEW rs, Go(s, rs)
  PROVE  /\ HistoryOK'
         /\ Len(history') = Len(history) + 1 /\ history'[Len(history')] = s
         /\ \A i \in 1..Len(history) : history'[i] = history[i]
<1>1. history' = Append(history, s) /\ screen' = s
  BY DEF Go, Show
<1>2. history' \in Seq(Screens) /\ Len(history') = Len(history) + 1
  BY <1>1 DEF HistoryOK
<1>3. history'[Len(history')] = s /\ \A i \in 1..Len(history) : history'[i] = history[i]
  BY <1>1, <1>2 DEF HistoryOK
<1> QED
  BY <1>1, <1>2, <1>3 DEF HistoryOK

LEMMA GoKeepsTrace ==
  ASSUME HistoryOK, Traced, NEW s \in Screens \ {"home"}, NEW rs, Go(s, rs),
         s \in Fixed \/ UNCHANGED <<jwt, box, order, timers>>
  PROVE  HistoryOK' /\ Traced'
<1>1. /\ HistoryOK' /\ Len(history') = Len(history) + 1 /\ Len(history) \in Nat
      /\ history'[Len(history')] = s
      /\ \A i \in 1..Len(history) : history'[i] = history[i]
  BY GoKeepsHistory DEF HistoryOK
<1>2. CASE s \in Fixed
  BY <1>1, <1>2 DEF Traced
<1>3. CASE UNCHANGED <<jwt, box, order, timers>>
  BY <1>1, <1>3 DEF Traced, Blank
<1> QED
  BY <1>1, <1>2, <1>3

LEMMA BackKeepsTrace ==
  ASSUME HistoryOK, Traced, Back, screen \in BackButtons
  PROVE  HistoryOK' /\ Traced'
<1> DEFINE h == SubSeq(history, 1, Len(history) - 1)
<1>1. history' = h /\ screen' = h[Len(h)] /\ Len(history) > 1
  BY DEF Back, Show
<1>2. h \in Seq(Screens) /\ Len(h) = Len(history) - 1
        /\ \A i \in 1..Len(h) : h[i] = history[i]
  BY <1>1 DEF HistoryOK
<1>3. history[Len(history)] \notin Fixed
  BY DEF HistoryOK, Fixed
<1>4. HistoryOK'
  BY <1>1, <1>2 DEF HistoryOK
<1>5. Traced'
  BY <1>1, <1>2, <1>3 DEF Back, data, countdown, Traced, Blank, HistoryOK
<1> QED
  BY <1>4, <1>5

LEMMA HomeIsTraced ==
  ASSUME timers \subseteq {cdRef}, GoHome
  PROVE  HistoryInv'
<1>1. history' = <<"home">> /\ screen' = "home" /\ timers' = {} /\ cdRef' = cdRef
  BY DEF GoHome, Show
<1>2. HistoryOK'
  BY <1>1 DEF HistoryOK, Screens
<1>3. Traced'
  BY <1>1 DEF GoHome, Reset, Traced, Blank
<1> QED
  BY <1>1, <1>2, <1>3 DEF HistoryInv

LEMMA HistoryStep == HistoryInv /\ [Next]_vars => HistoryInv'
<1> SUFFICES ASSUME HistoryInv, [Next]_vars PROVE HistoryInv'
  OBVIOUS
<1> USE DEF HistoryInv
<1>1. CASE Walk
  <2>1. ASSUME NEW s \in {"login", "staff", "order-info"}, Go(s, requests),
               UNCHANGED <<data, countdown, session, stale>>
        PROVE  HistoryInv'
    BY <2>1, GoKeepsTrace DEF Screens, data, countdown
  <2>2. CASE screen \in BackButtons /\ Back
    BY <2>2, BackKeepsTrace DEF Back, countdown
  <2>3. CASE GoHome
    BY <2>3, HomeIsTraced
  <2> QED
    BY <1>1, <2>1, <2>2, <2>3 DEF Walk
<1>2. ASSUME NEW b \in Boxes, ChooseBox(b) PROVE HistoryInv'
  <2>1. \E i \in 1..Len(history) : history[i] \in Fixed
    BY <1>2 DEF ChooseBox, HistoryOK, Fixed, Screens, BackButtons
  <2> QED
    BY <1>2, <2>1 DEF ChooseBox, view, countdown, HistoryOK, Traced
<1>3. CASE \/ Ask \/ Create \/ SkipPay \/ OpenAfterPay
           \/ \E method \in {"MOMO", "VNPAY"} : PayOnline(method)
           \/ \E p \in polls : Poll(p)
           \/ UNCHANGED vars
  <2>1. UNCHANGED <<screen, history, data, countdown>>
    BY <1>3 DEF Ask, Create, SkipPay, OpenAfterPay, PayOnline, Press, Poll, vars, view
  <2> QED
    BY <2>1 DEF data, countdown, HistoryOK, Traced, Blank
<1>4. ASSUME NEW t \in timers, CountdownEnds(t) PROVE HistoryInv'
  BY <1>4, HomeIsTraced DEF CountdownEnds
<1>5. ASSUME NEW r \in requests, Answered(r) PROVE HistoryInv'
  <2>1. CASE Refused(r) \/ PaymentBegun(r) \/ Paid(r) \/ CheckedOut(r) \/ Unlocked(r)
    <3>1. UNCHANGED <<screen, history, data, countdown>>
      BY <2>1 DEF Refused, PaymentBegun, Paid, CheckedOut, Unlocked, view
    <3> QED
      BY <3>1 DEF data, countdown, HistoryOK, Traced, Blank
  <2>2. CASE OtpSent(r)
    BY <2>2, GoKeepsTrace DEF OtpSent, Screens, data, countdown
  <2>3. CASE LoggedIn(r)
    <3>1. PICK s \in {"boxes", "register"} : Go(s, requests \ {r})
      BY <2>3 DEF LoggedIn
    <3>2. s \in Fixed
      BY DEF Fixed, Screens, BackButtons
    <3> QED
      BY <2>3, <3>1, <3>2, GoKeepsTrace DEF LoggedIn, Screens, countdown
  <2>4. CASE Created(r)
    BY <2>4, GoKeepsTrace DEF Created, Screens, Fixed, BackButtons, countdown
  <2>5. CASE Confirmed(r)
    <3>1. timers' \subseteq {cdRef'}
      BY <2>5 DEF Confirmed, ShowSuccess, StartCountdown
    <3> QED
      BY <2>5, <3>1, GoKeepsTrace DEF Confirmed, ShowSuccess, Screens, Fixed, BackButtons
  <2> QED
    BY <1>5, <2>1, <2>2, <2>3, <2>4, <2>5 DEF Answered
<1> QED
  BY <1>1, <1>2, <1>3, <1>4, <1>5 DEF Next

LEMMA HistoryInvariant == Spec => []HistoryInv
<1>1. Init => HistoryInv
  BY DEF Init, HistoryInv, HistoryOK, Traced, Blank, Screens
<1> QED
  BY <1>1, HistoryStep, PTL DEF Spec

(* On the home screen nobody is logged in and no box or order is left      *)
(* over, for any number of customers and of answers that come late.        *)
THEOREM NothingLeftAtHome == Spec => []HomeIsBlank
<1>1. HistoryInv => HomeIsBlank
  <2> SUFFICES ASSUME HistoryInv, screen = "home" PROVE Blank
    BY DEF HomeIsBlank, Blank
  <2>1. Len(history) = 1 /\ history[1] = "home"
    <3>1. Len(history) \in 1..Len(history)
      BY DEF HistoryInv, HistoryOK
    <3>2. history[Len(history)] = "home"
      BY DEF HistoryInv, HistoryOK
    <3> QED
      BY <3>1, <3>2 DEF HistoryInv, HistoryOK
  <2> QED
    BY <2>1 DEF HistoryInv, Traced, Fixed
<1> QED
  BY <1>1, HistoryInvariant, PTL
--------------------------------------------------------------------------------
(* Types *)

PayKinds == {"pay", "checkout", "unlock", "confirm", "status", "poll"}
Kinds == PayKinds \union {"otp", "login", "register", "code", "create"}
Orders == [id : Nat, by : Nat, box : Boxes \union {None}] \union {None}
Requests == [kind : Kinds, id : Nat, fresh : BOOLEAN, session : Nat, jwt : Nat,
             order : Orders, box : Boxes \union {None}, inst : Nat]

NumbersTyped == session \in Nat /\ sent \in Nat /\ mounts \in Nat /\ jwt \in 0..session
ChoicesTyped == screen \in Screens /\ box \in Boxes \union {None} /\ order \in Orders
PayTyped == /\ pay \in [loading : {"", "MOMO", "VNPAY", "skip", "open"}, url : BOOLEAN]
            /\ screen # "payment" => pay = NoPay
DataTyped == NumbersTyped /\ ChoicesTyped /\ PayTyped

(* What the payment screen asked and what is still its own is there only   *)
(* while the screen is.                                                    *)
RequestsTyped ==
  /\ requests \subseteq Requests /\ polls \subseteq Requests
  /\ \A r \in requests \union polls : r.session <= session
  /\ \A p \in polls : p.kind = "poll"
  /\ \A r \in requests \union polls : r.fresh /\ r.kind \in PayKinds => screen = "payment"
  /\ \A p, q \in polls : p.inst = q.inst => p = q

Typed == DataTyped /\ RequestsTyped

LEMMA RequestTyped ==
  ASSUME Typed, NEW kind \in Kinds
  PROVE  Request(kind) \in Requests /\ Request(kind).session = session
BY DEF Typed, DataTyped, NumbersTyped, ChoicesTyped, Request, Requests

LEMMA Renamed ==
  ASSUME NEW r \in Requests, NEW kind \in Kinds
  PROVE  /\ [r EXCEPT !.kind = kind] \in Requests
         /\ [r EXCEPT !.kind = kind].kind = kind
         /\ [r EXCEPT !.kind = kind].id = r.id
         /\ [r EXCEPT !.kind = kind].fresh = r.fresh
         /\ [r EXCEPT !.kind = kind].session = r.session
         /\ [r EXCEPT !.kind = kind].inst = r.inst
BY DEF Requests

LEMMA StatusTyped ==
  ASSUME NEW p \in Requests, NEW id \in Nat
  PROVE  /\ [p EXCEPT !.kind = "status", !.id = id] \in Requests
         /\ [p EXCEPT !.kind = "status", !.id = id].kind = "status"
         /\ [p EXCEPT !.kind = "status", !.id = id].fresh = p.fresh
         /\ [p EXCEPT !.kind = "status", !.id = id].session = p.session
BY DEF Requests, Kinds, PayKinds

LEMMA RequestNumbers == \A r \in Requests : r.session \in Nat /\ r.jwt \in Nat /\ r.id \in Nat
BY DEF Requests

LEMMA LoadingTyped ==
  ASSUME PayTyped, NEW r, NEW state \in {"", "open"}, Loading(r, state),
         r.fresh => screen = "payment", screen' = screen
  PROVE  PayTyped'
<1>1. CASE r.fresh
  <2>1. pay' = [pay EXCEPT !.loading = state]
    BY <1>1, Zenon DEF Loading
  <2> QED
    BY <1>1, <2>1 DEF PayTyped
<1>2. CASE ~r.fresh
  <2>1. pay' = pay
    BY <1>2, Zenon DEF Loading
  <2> QED
    BY <2>1 DEF PayTyped
<1> QED
  BY <1>1, <1>2

LEMMA OutlivedTyped ==
  ASSUME NEW r \in Requests
  PROVE  /\ [r EXCEPT !.fresh = FALSE] \in Requests
         /\ [r EXCEPT !.fresh = FALSE].fresh = FALSE
         /\ [r EXCEPT !.fresh = FALSE].session = r.session
BY DEF Requests

LEMMA ShowKeepsTypes ==
  ASSUME Typed, NEW s \in Screens, NEW rs, rs \subseteq requests, Show(s, rs),
         session' \in Nat, session <= session', jwt' \in 0..session',
         box' \in Boxes \union {None}, order' \in Orders
  PROVE  Typed'
<1>1. DataTyped'
  <2>1. NumbersTyped'
    <3>1. mounts' \in Nat /\ sent' \in Nat
      BY DEF Show, Typed, DataTyped, NumbersTyped
    <3> QED
      BY <3>1 DEF NumbersTyped
  <2>2. ChoicesTyped'
    BY DEF Show, ChoicesTyped
  <2>3. PayTyped'
    BY DEF Show, Typed, DataTyped, NumbersTyped, ChoicesTyped, PayTyped, PayTyped, NoPay
  <2> QED
    BY <2>1, <2>2, <2>3 DEF DataTyped
<1>2. CASE s = screen
  <2>1. screen' = screen /\ requests' = rs /\ polls' = polls
    BY <1>2 DEF Show, PollsLeft, Outlived
  <2>2. \A r \in requests \union polls : r.session <= session'
    BY RequestNumbers DEF Typed, DataTyped, NumbersTyped, RequestsTyped
  <2>3. RequestsTyped'
    BY <2>1, <2>2 DEF Typed, RequestsTyped
  <2> QED
    BY <1>1, <2>3 DEF Typed
<1>3. CASE s # screen
  <2> DEFINE old == {[r EXCEPT !.fresh = FALSE] : r \in rs}
  <2>1. requests' = old \/ (s = "register" /\ requests' = old \union {Request(s)})
    <3>1. Outlived(s, rs) = old
      BY <1>3 DEF Outlived
    <3> HIDE DEF old
    <3> QED
      BY <1>3, <3>1 DEF Show
  <2>2. polls' = {p \in polls : ~p.fresh}
    BY <1>3 DEF Show, PollsLeft
  <2>3. \A r \in old : r \in Requests /\ ~r.fresh /\ r.session <= session
    <3>1. \A r \in rs : r \in Requests /\ r.session <= session
      BY DEF Typed, RequestsTyped
    <3>2. \A r \in rs : /\ [r EXCEPT !.fresh = FALSE] \in Requests
                        /\ ~[r EXCEPT !.fresh = FALSE].fresh
                        /\ [r EXCEPT !.fresh = FALSE].session = r.session
      BY <3>1, OutlivedTyped
    <3> QED
      BY <3>1, <3>2
  <2>4. s = "register" => /\ Request(s) \in Requests /\ Request(s).session = session
                         /\ Request(s).kind \notin PayKinds
    BY RequestTyped DEF Kinds, PayKinds, Request
  <2>5. \A r \in requests' : /\ r \in Requests /\ r.session <= session'
                             /\ ~(r.fresh /\ r.kind \in PayKinds)
    BY <2>1, <2>3, <2>4, RequestNumbers DEF Typed, DataTyped, NumbersTyped
  <2>6. \A p \in polls' : p \in polls /\ p \in Requests /\ ~p.fresh /\ p.session <= session'
    BY <2>2, RequestNumbers DEF Typed, DataTyped, NumbersTyped, RequestsTyped
  <2>7. RequestsTyped'
    BY <2>5, <2>6 DEF Typed, RequestsTyped
  <2> QED
    BY <1>1, <2>7 DEF Typed
<1> QED
  BY <1>2, <1>3

LEMMA BeginKeepsTypes ==
  ASSUME Typed, NEW kind \in Kinds, kind \in PayKinds => screen = "payment", Begin(kind),
         UNCHANGED <<screen, session>>, polls' \subseteq polls
  PROVE  RequestsTyped' /\ sent' \in Nat
<1>1. requests' = requests \union {Request(kind)} /\ sent' = sent + 1
  BY DEF Begin
<1>2. Request(kind) \in Requests /\ Request(kind).session = session /\ Request(kind).kind = kind
  BY RequestTyped DEF Request
<1>3. sent' \in Nat /\ session <= session
  BY <1>1 DEF Typed, DataTyped, NumbersTyped
<1> QED
  BY <1>1, <1>2, <1>3 DEF Typed, RequestsTyped

LEMMA TypeStep == HistoryInv /\ Typed /\ [Next]_vars => Typed'
<1> SUFFICES ASSUME HistoryInv, Typed, [Next]_vars PROVE Typed'
  OBVIOUS
<1>1. ASSUME GoHome PROVE Typed'
  <2>1. /\ Show("home", requests) /\ session' \in Nat /\ session <= session'
        /\ jwt' \in 0..session' /\ box' \in Boxes \union {None} /\ order' \in Orders
    BY <1>1 DEF GoHome, Reset, Typed, DataTyped, NumbersTyped, Orders
  <2> QED
    BY <2>1, ShowKeepsTypes DEF Screens
<1>2. ASSUME NEW s \in Screens, NEW rs \in SUBSET requests, Show(s, rs),
             UNCHANGED <<box, order, session>>, jwt' \in 0..session
      PROVE  Typed'
  <2>1. /\ session' \in Nat /\ session <= session' /\ jwt' \in 0..session'
        /\ box' \in Boxes \union {None} /\ order' \in Orders
    BY <1>2 DEF Typed, DataTyped, NumbersTyped, ChoicesTyped
  <2> QED
    BY <1>2, <2>1, ShowKeepsTypes
<1>3. jwt \in 0..session
  BY DEF Typed, DataTyped, NumbersTyped
<1>4. CASE Walk
  <2>1. ASSUME NEW s \in {"login", "staff", "order-info"}, Go(s, requests),
               UNCHANGED <<data, countdown, session, stale>>
        PROVE  Typed'
    BY <1>2, <1>3, <2>1 DEF Go, Screens, data
  <2>2. CASE Back
    <3> DEFINE h == SubSeq(history, 1, Len(history) - 1)
    <3>1. Show(h[Len(h)], requests) /\ UNCHANGED <<data, session>> /\ Len(history) > 1
      BY <2>2 DEF Back
    <3>2. h[Len(h)] \in Screens
      BY <3>1 DEF HistoryInv, HistoryOK
    <3> QED
      BY <1>2, <1>3, <3>1, <3>2 DEF data
  <2> QED
    BY <1>1, <1>4, <2>1, <2>2 DEF Walk
<1>5. ASSUME NEW b \in Boxes, ChooseBox(b) PROVE Typed'
  BY <1>5 DEF ChooseBox, view, count, Typed, DataTyped, NumbersTyped, ChoicesTyped, PayTyped, RequestsTyped
<1>6. CASE Ask \/ Create
  <2>1. PICK kind \in {"otp", "login", "code", "create"} :
          Begin(kind) /\ UNCHANGED <<view, data, polls, countdown, count, stale>>
    BY <1>6 DEF Ask, Create
  <2>2. RequestsTyped' /\ sent' \in Nat
    BY <2>1, BeginKeepsTypes DEF Kinds, PayKinds, view, count
  <2> QED
    BY <2>1, <2>2 DEF Typed, DataTyped, NumbersTyped, ChoicesTyped, PayTyped, view, data, count
<1>7. CASE SkipPay \/ OpenAfterPay \/ \E method \in {"MOMO", "VNPAY"} : PayOnline(method)
  <2>1. PICK kind \in PayKinds, loading \in {"MOMO", "VNPAY", "skip", "open"} :
          Press(loading, kind) /\ polls' \subseteq polls
    BY <1>7 DEF SkipPay, OpenAfterPay, PayOnline, PayKinds
  <2>2. RequestsTyped' /\ sent' \in Nat
    BY <2>1, BeginKeepsTypes DEF Press, Kinds, count
  <2> QED
    BY <2>1, <2>2 DEF Press, Typed, DataTyped, NumbersTyped, ChoicesTyped, PayTyped, data, count
<1>8. ASSUME NEW p \in polls, Poll(p) PROVE Typed'
  <2> DEFINE r == [p EXCEPT !.kind = "status", !.id = sent + 1]
  <2>1. p \in Requests /\ p.kind = "poll" /\ sent + 1 \in Nat
    BY DEF Typed, DataTyped, NumbersTyped, RequestsTyped
  <2>2. /\ r \in Requests /\ r.session = p.session /\ r.fresh = p.fresh
        /\ r.kind = "status"
    BY <2>1, StatusTyped
  <2>3. p.fresh => screen = "payment"
    BY <2>1 DEF Typed, RequestsTyped, PayKinds
  <2>4. requests' = requests \union {r}
    BY <1>8 DEF Poll
  <2> QED
    BY <1>8, <2>1, <2>2, <2>3, <2>4 DEF Poll, Typed, DataTyped, NumbersTyped, ChoicesTyped, PayTyped, RequestsTyped, view, data, count
<1>9. ASSUME NEW t \in timers, CountdownEnds(t) PROVE Typed'
  BY <1>1, <1>9 DEF CountdownEnds
<1>10. ASSUME NEW r \in requests, Answered(r) PROVE Typed'
  <2>1. /\ r \in Requests /\ r.session <= session
        /\ r.fresh /\ r.kind \in PayKinds => screen = "payment"
    BY DEF Typed, RequestsTyped
  <2>2. CASE Refused(r)
    <3>1. PayTyped'
      <4>1. CASE r.kind \in {"pay", "unlock", "confirm"}
        <5>1. r.fresh => screen = "payment"
          BY <2>1, <4>1 DEF PayKinds
        <5>2. Loading(r, "") /\ screen' = screen
          BY <2>2, <4>1 DEF Refused
        <5> QED
          BY <5>1, <5>2, LoadingTyped DEF Typed, DataTyped
      <4>2. CASE r.kind \notin {"pay", "unlock", "confirm"}
        <5>1. UNCHANGED <<pay, screen>>
          BY <2>2, <4>2 DEF Refused
        <5> QED
          BY <5>1 DEF Typed, DataTyped, PayTyped
      <4> QED
        BY <4>1, <4>2
    <3>2. UNCHANGED <<screen, data, polls, count, sent>> /\ requests' \subseteq requests
      BY <2>2 DEF Refused
    <3> QED
      BY <3>1, <3>2 DEF Typed, DataTyped, NumbersTyped, ChoicesTyped, RequestsTyped, data, count
  <2>3. CASE OtpSent(r)
    BY <1>2, <1>3, <2>3 DEF OtpSent, Go, Screens, data
  <2>4. CASE LoggedIn(r)
    <3>1. jwt' \in 0..session
      BY <1>3, <2>1, <2>4 DEF LoggedIn, Requests
    <3> QED
      BY <1>2, <2>4, <3>1 DEF LoggedIn, Go, Screens
  <2>5. CASE Created(r)
    <3>1. order' \in Orders
      BY <2>1, <2>5 DEF Created, Orders, Requests
    <3>2. Show("payment", requests \ {r}) /\ UNCHANGED <<jwt, box, session>>
      BY <2>5 DEF Created, Go
    <3>3. /\ session' \in Nat /\ session <= session' /\ jwt' \in 0..session'
          /\ box' \in Boxes \union {None}
      BY <3>2 DEF Typed, DataTyped, NumbersTyped, ChoicesTyped
    <3> QED
      BY <3>1, <3>2, <3>3, ShowKeepsTypes DEF Screens
  <2>6. CASE PaymentBegun(r)
    <3> DEFINE p == [r EXCEPT !.kind = "poll"]
    <3>1. polls' = (polls \ Polling(r.inst)) \union {p} /\ requests' = requests \ {r}
      BY <2>6 DEF PaymentBegun
    <3>2. /\ p \in Requests /\ p.kind = "poll" /\ p.fresh = r.fresh /\ p.inst = r.inst
          /\ p.session = r.session
      BY <2>1, Renamed DEF Kinds, PayKinds
    <3>3. \A q \in polls : q.inst = r.inst => q \in Polling(r.inst)
      BY DEF Polling, Typed, RequestsTyped, Requests
    <3>4. r.fresh => screen = "payment"
      BY <2>1, <2>6 DEF PaymentBegun, PayKinds
    <3>5. UNCHANGED <<screen, history, data, count, sent>>
      BY <2>6 DEF PaymentBegun
    <3>6. \A q \in polls' : (q \in polls /\ q.inst # r.inst) \/ q = p
      BY <3>1, <3>3
    <3>7. RequestsTyped'
      BY <2>1, <3>1, <3>2, <3>4, <3>5, <3>6 DEF Typed, RequestsTyped, count
    <3>8. DataTyped'
      BY <2>6, <3>4, <3>5 DEF PaymentBegun, Typed, DataTyped, NumbersTyped, ChoicesTyped, PayTyped, data, count
    <3> QED
      BY <3>7, <3>8 DEF Typed
  <2>7. CASE Paid(r) \/ CheckedOut(r) \/ Unlocked(r)
    <3>1. PICK kind \in {"unlock", "confirm"} :
            /\ requests' = (requests \ {r}) \union {[r EXCEPT !.kind = kind]}
            /\ r.kind \in PayKinds
      BY <2>7 DEF Paid, CheckedOut, Unlocked, Continue, PayKinds
    <3> DEFINE next == [r EXCEPT !.kind = kind]
    <3>2. /\ next \in Requests /\ next.fresh = r.fresh /\ next.session = r.session
      BY <2>1, Renamed DEF Kinds, PayKinds
    <3>3. polls' \subseteq polls /\ UNCHANGED <<screen, data, count, sent>>
      BY <2>7 DEF Paid, CheckedOut, Unlocked, view
    <3>4. RequestsTyped'
      BY <2>1, <3>1, <3>2, <3>3 DEF Typed, RequestsTyped, count
    <3>5. PayTyped'
      <4>1. r.fresh => screen = "payment"
        BY <2>1, <3>1
      <4>2. CASE Paid(r)
        <5>1. Loading(r, "open") /\ screen' = screen
          BY <4>2 DEF Paid
        <5> QED
          BY <4>1, <5>1, LoadingTyped DEF Typed, DataTyped
      <4>3. CASE CheckedOut(r) \/ Unlocked(r)
        BY <4>3 DEF CheckedOut, Unlocked, view, Typed, DataTyped, PayTyped
      <4> QED
        BY <2>7, <4>2, <4>3
    <3>6. DataTyped'
      BY <3>3, <3>5 DEF Typed, DataTyped, NumbersTyped, ChoicesTyped, data, count
    <3> QED
      BY <3>4, <3>6 DEF Typed
  <2>8. CASE Confirmed(r)
    BY <1>2, <1>3, <2>8 DEF Confirmed, ShowSuccess, Go, Screens
  <2> QED
    BY <1>10, <2>2, <2>3, <2>4, <2>5, <2>6, <2>7, <2>8 DEF Answered
<1>11. CASE UNCHANGED vars
  BY <1>11 DEF vars, view, data, count, Typed, DataTyped, NumbersTyped, ChoicesTyped, PayTyped, RequestsTyped
<1> QED
  BY <1>4, <1>5, <1>6, <1>7, <1>8, <1>9, <1>10, <1>11 DEF Next

LEMMA TypedInvariant == Spec => []Typed
<1>1. Init => Typed
  <2> SUFFICES ASSUME Init PROVE Typed
    OBVIOUS
  <2>1. NumbersTyped
    BY DEF Init, NumbersTyped
  <2>2. ChoicesTyped
    BY DEF Init, ChoicesTyped, Screens, Orders
  <2>3. PayTyped
    BY DEF Init, PayTyped, NoPay
  <2>4. RequestsTyped
    BY DEF Init, RequestsTyped
  <2> QED
    BY <2>1, <2>2, <2>3, <2>4 DEF Typed, DataTyped
<1> QED
  BY <1>1, TypeStep, HistoryInvariant, PTL DEF Spec

(* The variables keep their types, and the one countdown that may run is   *)
(* the one the kiosk can stop, however many answers start one.             *)
THEOREM TypeCorrect == Spec => []TypeOK
<1>1. HistoryInv /\ Typed => TypeOK
  <2> SUFFICES ASSUME HistoryInv, Typed PROVE TypeOK
    OBVIOUS
  <2>1. history[1] = "home" /\ history[Len(history)] = screen
    BY DEF HistoryInv, HistoryOK
  <2> QED
    BY <2>1 DEF HistoryInv, Typed, DataTyped, NumbersTyped, ChoicesTyped, PayTyped, TypeOK, Screens
<1> QED
  BY <1>1, HistoryInvariant, TypedInvariant, PTL
--------------------------------------------------------------------------------
(* Payment polls *)

PollsFresh == "pay" \notin stale => \A p \in polls : p.fresh

LEMMA ShowKeepsPollsFresh ==
  ASSUME PollsFresh, NEW s, NEW rs, Show(s, rs), stale \subseteq stale'
  PROVE  PollsFresh'
<1>1. CASE s = screen
  BY <1>1 DEF Show, PollsLeft, PollsFresh
<1>2. CASE s # screen
  <2>1. polls' = {p \in polls : ~p.fresh}
    BY <1>2 DEF Show, PollsLeft
  <2> QED
    BY <2>1 DEF PollsFresh
<1> QED
  BY <1>1, <1>2

LEMMA PollsFreshStep == Typed /\ PollsFresh /\ [Next]_vars => PollsFresh'
<1> SUFFICES ASSUME Typed, PollsFresh, [Next]_vars PROVE PollsFresh'
  OBVIOUS
<1>1. CASE Walk
  <2>1. PICK s : Show(s, requests)
    BY <1>1 DEF Walk, Back, GoHome, Go
  <2>2. stale' = stale
    BY <1>1 DEF Walk, Back, GoHome
  <2> QED
    BY <2>1, <2>2, ShowKeepsPollsFresh
<1>2. CASE \/ Ask \/ Create \/ SkipPay \/ OpenAfterPay
           \/ \E b \in Boxes : ChooseBox(b)
           \/ \E method \in {"MOMO", "VNPAY"} : PayOnline(method)
           \/ \E p \in polls : Poll(p)
           \/ UNCHANGED vars
  <2>1. polls' \subseteq polls /\ stale' = stale
    BY <1>2 DEF Ask, Create, SkipPay, OpenAfterPay, ChooseBox, PayOnline, Press, Poll, vars
  <2> QED
    BY <2>1 DEF PollsFresh
<1>3. ASSUME NEW t \in timers, CountdownEnds(t) PROVE PollsFresh'
  BY <1>3, ShowKeepsPollsFresh DEF CountdownEnds, GoHome
<1>4. ASSUME NEW r \in requests, Answered(r) PROVE PollsFresh'
  <2>1. CASE Refused(r) \/ Paid(r) \/ CheckedOut(r) \/ Unlocked(r)
    <3>1. polls' \subseteq polls /\ stale' = stale
      BY <2>1 DEF Refused, Paid, CheckedOut, Unlocked
    <3> QED
      BY <3>1 DEF PollsFresh
  <2>2. CASE OtpSent(r) \/ LoggedIn(r) \/ Created(r) \/ Confirmed(r)
    <3>1. PICK s : Show(s, requests \ {r})
      BY <2>2 DEF OtpSent, LoggedIn, Created, Confirmed, ShowSuccess, Go
    <3>2. stale \subseteq stale'
      BY <2>2 DEF OtpSent, LoggedIn, Created, Confirmed, Handled
    <3> QED
      BY <3>1, <3>2, ShowKeepsPollsFresh
  <2>3. CASE PaymentBegun(r)
    <3>1. polls' \subseteq polls \union {[r EXCEPT !.kind = "poll"]}
      BY <2>3 DEF PaymentBegun
    <3>2. [r EXCEPT !.kind = "poll"].fresh = r.fresh
      BY Renamed DEF Kinds, PayKinds, Typed, RequestsTyped
    <3>3. stale' = (IF r.fresh THEN stale ELSE stale \union {"pay"})
      BY <2>3 DEF PaymentBegun, Handled
    <3>4. CASE r.fresh
      BY <3>1, <3>2, <3>3, <3>4 DEF PollsFresh
    <3>5. CASE ~r.fresh
      BY <3>3, <3>5 DEF PollsFresh
    <3> QED
      BY <3>4, <3>5
  <2> QED
    BY <1>4, <2>1, <2>2, <2>3 DEF Answered
<1> QED
  BY <1>1, <1>2, <1>3, <1>4 DEF Next

(* A payment screen has one poll at most, and none outlives its screen     *)
(* unless the payment was begun after the screen was left, for any number  *)
(* of payments.                                                            *)
THEOREM PollsHaveOwners == Spec => []PollsOwned
<1>1. Init => PollsFresh
  BY DEF Init, PollsFresh
<1>2. Typed /\ PollsFresh => PollsOwned
  BY DEF Typed, RequestsTyped, PollsFresh, PollsOwned
<1> QED
  BY <1>1, <1>2, PollsFreshStep, TypedInvariant, PTL DEF Spec
--------------------------------------------------------------------------------
(* What fits together *)

(* The screen that asks for it.                                            *)
OnScreen(kind, s) ==
  /\ kind = "otp" => s = "login"
  /\ kind = "login" => s = "otp"
  /\ kind = "register" => s = "register"
  /\ kind = "code" => s = "staff"
  /\ kind = "create" => s = "order-info"
  /\ kind \in PayKinds => s = "payment"

(* A request that its screen still waits for has the values of now.        *)
FreshFits(r) ==
  r.fresh => /\ r.session = session /\ OnScreen(r.kind, screen)
             /\ r.kind = "create" => r.jwt = jwt /\ r.box = box

FreshInv == \A r \in requests \union polls : FreshFits(r)

LEMMA NotFreshAtHome ==
  ASSUME Typed, FreshInv, NEW r \in requests \union polls, r.fresh
  PROVE  screen # "home"
<1>1. r.kind \in Kinds /\ OnScreen(r.kind, screen)
  BY DEF Typed, RequestsTyped, Requests, FreshInv, FreshFits
<1> QED
  BY <1>1 DEF OnScreen, Kinds

(* Fields that a copy of a request keeps.                                  *)
Copied(q, r, kind, fresh) ==
  /\ q.kind = kind /\ q.fresh = fresh
  /\ q.session = r.session /\ q.jwt = r.jwt /\ q.order = r.order /\ q.box = r.box

LEMMA Copies ==
  ASSUME NEW r \in Requests
  PROVE  /\ \A kind : Copied([r EXCEPT !.kind = kind], r, kind, r.fresh)
         /\ \A kind, id : Copied([r EXCEPT !.kind = kind, !.id = id], r, kind, r.fresh)
         /\ Copied([r EXCEPT !.fresh = FALSE], r, r.kind, FALSE)
BY DEF Requests, Copied

LEMMA RequestNow ==
  ASSUME NEW kind
  PROVE  /\ Request(kind).kind = kind /\ Request(kind).fresh /\ Request(kind).session = session
         /\ Request(kind).jwt = jwt /\ Request(kind).order = order /\ Request(kind).box = box
BY DEF Request

(* What the requests and polls are after the kiosk showed a screen.        *)
LEMMA ShowCopies ==
  ASSUME Typed, NEW s, NEW rs, rs \subseteq requests, Show(s, rs)
  PROVE  /\ \A q \in requests' :
              \/ s = screen /\ q \in requests
              \/ \E r \in requests : Copied(q, r, r.kind, FALSE)
              \/ s = "register" /\ screen # s /\ q = Request(s)
         /\ \A p \in polls' : p \in polls /\ (s = screen \/ ~p.fresh)
<1>1. \A p \in polls' : p \in polls /\ (s = screen \/ ~p.fresh)
  BY DEF Show, PollsLeft
<1>2. CASE s = screen
  BY <1>1, <1>2 DEF Show, Outlived
<1>3. CASE s # screen
  <2> DEFINE old == {[r EXCEPT !.fresh = FALSE] : r \in rs}
  <2>1. requests' = old \/ (s = "register" /\ requests' = old \union {Request(s)})
    <3>1. Outlived(s, rs) = old
      BY <1>3 DEF Outlived
    <3> HIDE DEF old
    <3> QED
      BY <1>3, <3>1 DEF Show
  <2>2. \A q \in old : \E r \in requests : Copied(q, r, r.kind, FALSE)
    <3>1. \A r \in rs : r \in requests /\ r \in Requests
      BY DEF Typed, RequestsTyped
    <3>2. \A r \in rs : Copied([r EXCEPT !.fresh = FALSE], r, r.kind, FALSE)
      BY <3>1, Copies
    <3> QED
      BY <3>1, <3>2
  <2> HIDE DEF old
  <2> QED
    BY <1>1, <1>3, <2>1, <2>2
<1> QED
  BY <1>2, <1>3

LEMMA ShowKeepsFresh ==
  ASSUME Typed, FreshInv, NEW s \in Screens, NEW rs, rs \subseteq requests, Show(s, rs),
         session' = session \/ s = "home",
         s = "order-info" => UNCHANGED <<jwt, box>>
  PROVE  FreshInv'
<1>0. screen' = s
  BY DEF Show
<1>1. /\ \A q \in requests' :
           \/ s = screen /\ q \in requests
           \/ \E r \in requests : Copied(q, r, r.kind, FALSE)
           \/ s = "register" /\ screen # s /\ q = Request(s)
      /\ \A p \in polls' : p \in polls /\ (s = screen \/ ~p.fresh)
  BY ShowCopies
<1>2. ASSUME s = screen, NEW q \in requests \union polls PROVE FreshFits(q)'
  <2>1. SUFFICES ASSUME q.fresh
                 PROVE  /\ q.session = session' /\ OnScreen(q.kind, screen')
                        /\ q.kind = "create" => q.jwt = jwt' /\ q.box = box'
    BY DEF FreshFits
  <2>2. s # "home"
    BY <1>2, <2>1, NotFreshAtHome
  <2>3. /\ q.session = session /\ OnScreen(q.kind, screen)
        /\ q.kind = "create" => q.jwt = jwt /\ q.box = box
    BY <2>1 DEF FreshInv, FreshFits
  <2>4. q.kind = "create" => s = "order-info"
    BY <1>2, <2>3 DEF OnScreen
  <2> QED
    BY <1>0, <1>2, <2>2, <2>3, <2>4
<1>3. ASSUME NEW q \in requests' \union polls', ~q.fresh PROVE FreshFits(q)'
  BY <1>3 DEF FreshFits
<1>4. ASSUME s = "register", NEW q, q = Request(s) PROVE FreshFits(q)'
  <2>1. q.session = session /\ q.kind = "register"
    BY <1>4, RequestNow
  <2>2. OnScreen("register", "register")
    BY DEF OnScreen, PayKinds
  <2>3. session' = session /\ screen' = "register"
    BY <1>0, <1>4
  <2> QED
    BY <2>1, <2>2, <2>3 DEF FreshFits
<1>5. ASSUME NEW q \in requests' PROVE FreshFits(q)'
  <2>1. CASE s = screen /\ q \in requests
    BY <1>2, <2>1
  <2>2. CASE \E r \in requests : Copied(q, r, r.kind, FALSE)
    <3>1. ~q.fresh
      BY <2>2 DEF Copied
    <3> QED
      BY <1>3, <3>1
  <2>3. CASE s = "register" /\ q = Request(s)
    BY <1>4, <2>3
  <2> QED
    BY <1>1, <2>1, <2>2, <2>3
<1>6. ASSUME NEW q \in polls' PROVE FreshFits(q)'
  BY <1>1, <1>2, <1>3
<1> QED
  BY <1>5, <1>6 DEF FreshInv

LEMMA FreshStep == Typed /\ HistoryInv /\ FreshInv /\ [Next]_vars => FreshInv'
<1> SUFFICES ASSUME Typed, HistoryInv, FreshInv, [Next]_vars PROVE FreshInv'
  OBVIOUS
<1>1. ASSUME NEW s \in Screens, Show(s, requests), UNCHANGED <<jwt, box, session>>
      PROVE  FreshInv'
  BY <1>1, ShowKeepsFresh
<1>2. CASE GoHome
  BY <1>2, ShowKeepsFresh DEF GoHome, Screens
<1>3. CASE Walk
  <2>1. ASSUME NEW s \in {"login", "staff", "order-info"}, Go(s, requests),
               UNCHANGED <<data, countdown, session, stale>>
        PROVE  FreshInv'
    BY <1>1, <2>1 DEF Go, Screens, data
  <2>2. CASE Back
    <3> DEFINE h == SubSeq(history, 1, Len(history) - 1)
    <3>1. Show(h[Len(h)], requests) /\ UNCHANGED <<data, session>> /\ Len(history) > 1
      BY <2>2 DEF Back
    <3>2. h[Len(h)] \in Screens
      BY <3>1 DEF HistoryInv, HistoryOK
    <3> QED
      BY <1>1, <3>1, <3>2 DEF data
  <2> QED
    BY <1>2, <1>3, <2>1, <2>2 DEF Walk
(* One request more, and nothing that the others depend on changes.        *)
<1>4. ASSUME UNCHANGED <<screen, jwt, session>>, UNCHANGED box \/ screen = "boxes",
             polls' \subseteq polls, NEW kind, kind \in PayKinds => screen = "payment",
             requests' \subseteq requests \union {Request(kind)}, OnScreen(kind, screen)
      PROVE  FreshInv'
  <2>1. ASSUME NEW q \in requests \union polls PROVE FreshFits(q)'
    <3>1. q.fresh => /\ q.session = session /\ OnScreen(q.kind, screen)
                     /\ q.kind = "create" => q.jwt = jwt /\ q.box = box
      BY DEF FreshInv, FreshFits
    <3>2. OnScreen("create", screen) => screen # "boxes"
      BY DEF OnScreen
    <3> QED
      BY <1>4, <3>1, <3>2 DEF FreshFits
  <2>2. ASSUME NEW q, q = Request(kind), UNCHANGED box PROVE FreshFits(q)'
    <3>1. q.kind = kind /\ q.session = session /\ q.jwt = jwt /\ q.box = box
      BY <2>2, RequestNow
    <3> QED
      BY <1>4, <2>2, <3>1 DEF FreshFits
  <2>3. ASSUME NEW q, q = Request(kind), screen = "boxes" PROVE FreshFits(q)'
    <3>1. q.kind = kind /\ q.session = session
      BY <2>3, RequestNow
    <3>2. kind # "create"
      BY <1>4, <2>3 DEF OnScreen
    <3> QED
      BY <1>4, <3>1, <3>2 DEF FreshFits
  <2> QED
    BY <1>4, <2>1, <2>2, <2>3 DEF FreshInv
<1>5. CASE \/ \E b \in Boxes : ChooseBox(b)
           \/ \E r \in requests : Refused(r)
           \/ UNCHANGED vars
  <2>1. /\ UNCHANGED <<screen, jwt, session, polls>> /\ requests' \subseteq requests
        /\ UNCHANGED box \/ screen = "boxes"
    BY <1>5 DEF ChooseBox, Refused, vars, view, data, count
  <2>2. ASSUME NEW q \in requests \union polls PROVE FreshFits(q)'
    <3>1. q.fresh => /\ q.session = session /\ OnScreen(q.kind, screen)
                     /\ q.kind = "create" => q.jwt = jwt /\ q.box = box
      BY DEF FreshInv, FreshFits
    <3>2. OnScreen("create", screen) => screen # "boxes"
      BY DEF OnScreen
    <3> QED
      BY <2>1, <3>1, <3>2 DEF FreshFits
  <2> QED
    BY <2>1, <2>2 DEF FreshInv
<1>6. CASE Ask \/ Create
  <2>1. PICK kind \in {"otp", "login", "code", "create"} :
          Begin(kind) /\ OnScreen(kind, screen) /\ UNCHANGED <<view, data, polls, countdown, count, stale>>
    BY <1>6 DEF Ask, Create, OnScreen, PayKinds
  <2>2. kind \notin PayKinds
    BY DEF PayKinds
  <2> QED
    BY <1>4, <2>1, <2>2 DEF Begin, view, data, count
<1>7. CASE SkipPay \/ OpenAfterPay \/ \E method \in {"MOMO", "VNPAY"} : PayOnline(method)
  <2>1. PICK kind \in {"checkout", "unlock", "pay"}, loading \in {"MOMO", "VNPAY", "skip", "open"} :
          Press(loading, kind) /\ polls' \subseteq polls
    BY <1>7 DEF SkipPay, OpenAfterPay, PayOnline
  <2>2. screen = "payment" /\ OnScreen(kind, screen)
    BY <2>1 DEF Press, OnScreen
  <2> QED
    BY <1>4, <2>1, <2>2 DEF Press, Begin, data, count
(* A request or a poll goes on under another name.                         *)
<1>8. ASSUME NEW r \in requests \union polls, r.kind \in PayKinds, NEW q, NEW kind \in PayKinds,
             Copied(q, r, kind, r.fresh), UNCHANGED <<screen, jwt, box, session>>,
             requests' \subseteq requests \union {q}, polls' \subseteq polls \union {q}
      PROVE  FreshInv'
  <2>1. ASSUME NEW p \in requests \union polls PROVE FreshFits(p)'
    BY <1>8 DEF FreshInv, FreshFits
  <2>2. FreshFits(q)'
    <3>1. r.fresh => r.session = session /\ OnScreen(r.kind, screen)
      BY DEF FreshInv, FreshFits
    <3>2. r.fresh => OnScreen(kind, screen) /\ kind # "create"
      BY <1>8, <3>1 DEF OnScreen, PayKinds
    <3> QED
      BY <1>8, <3>1, <3>2 DEF Copied, FreshFits
  <2> QED
    BY <1>8, <2>1, <2>2 DEF FreshInv
<1>9. ASSUME NEW p \in polls, Poll(p) PROVE FreshInv'
  <2> DEFINE q == [p EXCEPT !.kind = "status", !.id = sent + 1]
  <2>1. p \in Requests /\ p.kind = "poll"
    BY DEF Typed, RequestsTyped
  <2>2. Copied(q, p, "status", p.fresh)
    BY <2>1, Copies
  <2>3. requests' = requests \union {q} /\ UNCHANGED <<view, data, polls, count>>
    BY <1>9 DEF Poll
  <2> HIDE DEF q
  <2> QED
    BY <1>8, <2>1, <2>2, <2>3 DEF view, data, count, PayKinds
<1>10. ASSUME NEW t \in timers, CountdownEnds(t) PROVE FreshInv'
  BY <1>2, <1>10 DEF CountdownEnds
<1>11. ASSUME NEW r \in requests, Answered(r) PROVE FreshInv'
  <2>1. r \in Requests
    BY DEF Typed, RequestsTyped
  <2>2. CASE OtpSent(r) \/ LoggedIn(r) \/ Created(r) \/ Confirmed(r)
    <3>1. PICK s \in Screens \ {"home", "order-info"} : Show(s, requests \ {r})
      BY <2>2 DEF OtpSent, LoggedIn, Created, Confirmed, ShowSuccess, Go, Screens
    <3>2. session' = session
      BY <2>2 DEF OtpSent, LoggedIn, Created, Confirmed, ShowSuccess
    <3> QED
      BY <3>1, <3>2, ShowKeepsFresh
  <2>3. CASE PaymentBegun(r)
    <3> DEFINE q == [r EXCEPT !.kind = "poll"]
    <3>1. Copied(q, r, "poll", r.fresh)
      BY <2>1, Copies
    <3>2. /\ r.kind = "pay" /\ requests' \subseteq requests
          /\ polls' = (polls \ Polling(r.inst)) \union {q}
          /\ UNCHANGED <<screen, data, count>>
      BY <2>3 DEF PaymentBegun
    <3> HIDE DEF q
    <3> QED
      BY <1>8, <3>1, <3>2 DEF data, count, PayKinds
  <2>4. CASE Paid(r) \/ CheckedOut(r) \/ Unlocked(r)
    <3>1. PICK kind \in {"unlock", "confirm"} :
            /\ requests' = (requests \ {r}) \union {[r EXCEPT !.kind = kind]}
            /\ r.kind \in PayKinds
      BY <2>4 DEF Paid, CheckedOut, Unlocked, Continue, PayKinds
    <3> DEFINE q == [r EXCEPT !.kind = kind]
    <3>2. Copied(q, r, kind, r.fresh)
      BY <2>1, Copies
    <3>3. polls' \subseteq polls /\ UNCHANGED <<screen, data, count>>
      BY <2>4 DEF Paid, CheckedOut, Unlocked, view
    <3>4. requests' = (requests \ {r}) \union {q}
      BY <3>1
    <3> HIDE DEF q
    <3> QED
      BY <1>8, <3>1, <3>2, <3>3, <3>4 DEF data, count, PayKinds
  <2> QED
    BY <1>5, <1>11, <2>2, <2>3, <2>4 DEF Answered
<1> QED
  BY <1>3, <1>5, <1>6, <1>7, <1>9, <1>10, <1>11 DEF Next

--------------------------------------------------------------------------------
(* The order on the payment screen *)

Good == stale \intersect {"login", "register", "create"} = {}

(* Screen i of the history is a payment that nothing but back buttons are  *)
(* above.                                                                  *)
Paying(i, h) ==
  /\ i \in 1..Len(h) /\ h[i] = "payment"
  /\ \A j \in 1..Len(h) : j > i => h[j] \notin Fixed

OrderShown == \A i \in Nat : Paying(i, history) => order.by = jwt /\ order.box = box

PaidFits == \A r \in requests \union polls : r.kind \in PayKinds => r.order.box = r.box

OrderInv == Good => jwt \in {0, session} /\ OrderShown /\ PaidFits

LEMMA NotPaying ==
  ASSUME HistoryOK, screen \in Fixed \ {"payment"}
  PROVE  \A i \in Nat : ~Paying(i, history)
<1> SUFFICES ASSUME NEW i \in Nat, Paying(i, history) PROVE FALSE
  OBVIOUS
<1>1. Len(history) \in 1..Len(history) /\ history[Len(history)] = screen
  BY DEF HistoryOK
<1>2. i # Len(history)
  BY <1>1 DEF Paying, Fixed
<1>3. Len(history) > i
  BY <1>1, <1>2 DEF Paying
<1> QED
  BY <1>1, <1>3 DEF Paying

LEMMA PayingNow ==
  ASSUME HistoryOK, screen = "payment", OrderShown
  PROVE  order.by = jwt /\ order.box = box
<1>1. Len(history) \in 1..Len(history) /\ history[Len(history)] = screen /\ Len(history) \in Nat
  BY DEF HistoryOK
<1>2. Paying(Len(history), history)
  BY <1>1 DEF Paying
<1> QED
  BY <1>1, <1>2 DEF OrderShown

LEMMA GoNotPaying ==
  ASSUME HistoryOK, NEW s \in Screens \ {"home"}, NEW rs, Go(s, rs), NEW i \in Nat, Paying(i, history')
  PROVE  IF i = Len(history') THEN s = "payment" ELSE s \notin Fixed /\ Paying(i, history)
<1>1. /\ Len(history') = Len(history) + 1 /\ history'[Len(history')] = s
      /\ \A j \in 1..Len(history) : history'[j] = history[j]
      /\ Len(history) \in Nat
  BY GoKeepsHistory DEF HistoryOK
<1>2. CASE i = Len(history')
  BY <1>1, <1>2 DEF Paying
<1>3. CASE i # Len(history')
  <2>1. Len(history') \in 1..Len(history') /\ Len(history') > i
    BY <1>1, <1>3 DEF Paying
  <2>2. s \notin Fixed
    BY <1>1, <2>1 DEF Paying
  <2>3. i \in 1..Len(history) /\ \A j \in 1..Len(history) : j \in 1..Len(history')
    BY <1>1, <2>1 DEF Paying
  <2>4. Paying(i, history)
    BY <1>1, <2>3 DEF Paying
  <2> QED
    BY <1>3, <2>2, <2>4
<1> QED
  BY <1>2, <1>3

(* Payments on the way keep the order they are about.                      *)
LEMMA ShowKeepsPaid ==
  ASSUME Typed, PaidFits, NEW s, NEW rs, rs \subseteq requests, Show(s, rs)
  PROVE  PaidFits'
<1>1. /\ \A q \in requests' :
           \/ s = screen /\ q \in requests
           \/ \E r \in requests : Copied(q, r, r.kind, FALSE)
           \/ s = "register" /\ screen # s /\ q = Request(s)
      /\ \A p \in polls' : p \in polls /\ (s = screen \/ ~p.fresh)
  BY ShowCopies
<1>2. Request("register").kind \notin PayKinds
  BY RequestNow DEF PayKinds
<1>3. ASSUME NEW q \in requests', q.kind \in PayKinds PROVE q.order.box = q.box
  <2>1. CASE q \in requests
    BY <1>3, <2>1 DEF PaidFits
  <2>2. CASE \E r \in requests : Copied(q, r, r.kind, FALSE)
    BY <1>3, <2>2 DEF PaidFits, Copied
  <2> QED
    BY <1>1, <1>2, <1>3, <2>1, <2>2
<1> QED
  BY <1>1, <1>3 DEF PaidFits

LEMMA OrderStep == HistoryInv /\ Typed /\ FreshInv /\ OrderInv /\ [Next]_vars => OrderInv'
<1> SUFFICES ASSUME HistoryInv, Typed, FreshInv, OrderInv, [Next]_vars, Good' PROVE OrderInv'
  BY DEF OrderInv
<1>0. stale \subseteq stale'
  BY DEF Next, Walk, Back, GoHome, ChooseBox, Ask, Create, SkipPay, OpenAfterPay, PayOnline, Press, Poll,
     CountdownEnds, Answered, Refused, OtpSent, LoggedIn, Created, PaymentBegun, Paid, CheckedOut,
     Unlocked, Confirmed, Handled, vars
<1>1. jwt \in {0, session} /\ OrderShown /\ PaidFits /\ HistoryOK
  BY <1>0 DEF OrderInv, Good, HistoryInv
<1>2. ASSUME GoHome PROVE OrderInv'
  <2>1. jwt' = 0 /\ history' = <<"home">> /\ Show("home", requests)
    BY <1>2 DEF GoHome, Reset
  <2>2. PaidFits'
    BY <1>1, <2>1, ShowKeepsPaid
  <2>3. OrderShown'
    BY <2>1 DEF OrderShown, Paying
  <2> QED
    BY <2>1, <2>2, <2>3 DEF OrderInv
<1>3. ASSUME NEW s \in Screens \ {"home", "payment"}, NEW rs \in SUBSET requests, Go(s, rs),
             UNCHANGED <<box, order, session>>, UNCHANGED jwt \/ (s \in Fixed /\ jwt' = session)
      PROVE  OrderInv'
  <2>1. PaidFits'
    BY <1>1, <1>3, ShowKeepsPaid DEF Go
  <2>2. ASSUME NEW i \in Nat, Paying(i, history') PROVE s \notin Fixed /\ Paying(i, history)
    BY <1>1, <1>3, <2>2, GoNotPaying
  <2>3. OrderShown'
    BY <1>1, <1>3, <2>2 DEF OrderShown
  <2> QED
    BY <1>1, <1>3, <2>1, <2>3 DEF OrderInv
<1>4. CASE Walk
  <2>1. ASSUME NEW s \in {"login", "staff", "order-info"}, Go(s, requests),
               UNCHANGED <<data, countdown, session, stale>>
        PROVE  OrderInv'
    BY <1>3, <2>1 DEF Screens, data
  <2>2. CASE screen \in BackButtons /\ Back
    <3> DEFINE h == SubSeq(history, 1, Len(history) - 1)
    <3>1. history' = h /\ Show(h[Len(h)], requests) /\ UNCHANGED <<data, session>> /\ Len(history) > 1
      BY <2>2 DEF Back
    <3>2. Len(h) = Len(history) - 1 /\ (\A i \in 1..Len(h) : h[i] = history[i]) /\ Len(history) \in Nat
      BY <1>1, <3>1 DEF HistoryOK
    <3>3. history[Len(history)] \notin Fixed
      BY <1>1, <2>2 DEF HistoryOK, Fixed
    <3>4. ASSUME NEW i \in Nat, Paying(i, h) PROVE Paying(i, history)
      <4> HIDE DEF h
      <4>1. i \in 1..Len(history) /\ history[i] = "payment"
        BY <3>2, <3>4 DEF Paying
      <4>2. \A j \in 1..Len(history) : j \in 1..Len(h) \/ j = Len(history)
        BY <3>2
      <4>3. \A j \in 1..Len(history) : j > i => history[j] \notin Fixed
        BY <3>2, <3>3, <3>4, <4>2 DEF Paying
      <4> QED
        BY <4>1, <4>3 DEF Paying
    <3>5. PaidFits'
      BY <1>1, <3>1, ShowKeepsPaid
    <3> HIDE DEF h
    <3>6. UNCHANGED <<jwt, order, box, session>>
      BY <3>1 DEF data
    <3>7. OrderShown'
      BY <1>1, <3>1, <3>4, <3>6 DEF OrderShown
    <3> QED
      BY <1>1, <3>5, <3>6, <3>7 DEF OrderInv
  <2> QED
    BY <1>2, <1>4, <2>1, <2>2 DEF Walk
<1>5. ASSUME NEW b \in Boxes, ChooseBox(b) PROVE OrderInv'
  <2>1. UNCHANGED <<jwt, order, session, history, requests, polls>> /\ screen = "boxes"
    BY <1>5 DEF ChooseBox, view, count
  <2>2. \A i \in Nat : ~Paying(i, history)
    BY <1>1, <2>1, NotPaying DEF Fixed, Screens, BackButtons
  <2> QED
    BY <1>1, <2>1, <2>2 DEF OrderInv, OrderShown, PaidFits
(* The screens and the data stay.                                          *)
<1>6. ASSUME UNCHANGED <<history, jwt, order, box, session>>, PaidFits' PROVE OrderInv'
  BY <1>1, <1>6 DEF OrderInv, OrderShown
<1>7. ASSUME UNCHANGED <<history, data, count>>, polls' \subseteq polls, requests' \subseteq requests
      PROVE  OrderInv'
  BY <1>1, <1>6, <1>7 DEF PaidFits, data, count
<1>8. CASE (\E r \in requests : Refused(r)) \/ UNCHANGED vars
  BY <1>7, <1>8 DEF Refused, vars, view
<1>9. ASSUME UNCHANGED <<history, data, count>>, polls' \subseteq polls,
             NEW kind, kind \in PayKinds => screen = "payment",
             requests' = requests \union {Request(kind)}
      PROVE  OrderInv'
  <2>1. /\ Request(kind).kind = kind /\ Request(kind).order = order /\ Request(kind).box = box
    BY RequestNow
  <2>2. kind \in PayKinds => order.box = box
    BY <1>1, <1>9, PayingNow
  <2>3. ASSUME NEW r \in requests' \union polls', r.kind \in PayKinds PROVE r.order.box = r.box
    <3>1. CASE r \in requests \union polls
      BY <1>1, <2>3, <3>1 DEF PaidFits
    <3>2. CASE r = Request(kind)
      BY <2>1, <2>2, <2>3, <3>2
    <3> QED
      BY <1>9, <3>1, <3>2
  <2> QED
    BY <1>6, <1>9, <2>3 DEF PaidFits, data, count
<1>10. CASE Ask \/ Create
  <2>1. PICK kind \in {"otp", "login", "code", "create"} :
          Begin(kind) /\ UNCHANGED <<view, data, polls, countdown, count, stale>>
    BY <1>10 DEF Ask, Create
  <2>2. kind \notin PayKinds
    BY DEF PayKinds
  <2> QED
    BY <1>9, <2>1, <2>2 DEF Begin, view
<1>11. CASE SkipPay \/ OpenAfterPay \/ \E method \in {"MOMO", "VNPAY"} : PayOnline(method)
  <2>1. PICK kind, loading : Press(loading, kind) /\ polls' \subseteq polls
    BY <1>11 DEF SkipPay, OpenAfterPay, PayOnline
  <2> QED
    BY <1>9, <2>1 DEF Press, Begin, count
<1>12. ASSUME NEW r \in requests \union polls, r.kind \in PayKinds, NEW q, NEW kind \in PayKinds,
              Copied(q, r, kind, r.fresh), UNCHANGED <<history, data, count>>,
              requests' \subseteq requests \union {q}, polls' \subseteq polls \union {q}
       PROVE  OrderInv'
  <2>1. q.order.box = q.box
    BY <1>1, <1>12 DEF PaidFits, Copied
  <2>2. PaidFits'
    BY <1>1, <1>12, <2>1 DEF PaidFits
  <2> QED
    BY <1>6, <1>12, <2>2 DEF data, count
<1>13. ASSUME NEW p \in polls, Poll(p) PROVE OrderInv'
  <2> DEFINE q == [p EXCEPT !.kind = "status", !.id = sent + 1]
  <2>1. p \in Requests /\ p.kind = "poll"
    BY DEF Typed, RequestsTyped
  <2>2. Copied(q, p, "status", p.fresh)
    BY <2>1, Copies
  <2>3. requests' = requests \union {q} /\ UNCHANGED <<view, data, polls, count>>
    BY <1>13 DEF Poll
  <2> HIDE DEF q
  <2> QED
    BY <1>12, <2>1, <2>2, <2>3 DEF view, PayKinds
<1>14. ASSUME NEW t \in timers, CountdownEnds(t) PROVE OrderInv'
  BY <1>2, <1>14 DEF CountdownEnds
<1>15. ASSUME NEW r \in requests, Answered(r) PROVE OrderInv'
  <2>1. r \in Requests /\ FreshFits(r)
    BY DEF Typed, RequestsTyped, FreshInv
  <2>2. Handled(r) /\ r.kind \in {"login", "register", "create"} => r.fresh
    BY DEF Handled, Good
  <2>3. CASE OtpSent(r)
    BY <1>3, <2>3 DEF OtpSent, Screens, data
  <2>4. CASE LoggedIn(r)
    <3>1. r.session = session
      BY <2>1, <2>2, <2>4 DEF LoggedIn, FreshFits
    <3>2. PICK s \in {"boxes", "register"} :
            Go(s, requests \ {r}) /\ (UNCHANGED jwt \/ jwt' = r.session)
      BY <2>4 DEF LoggedIn
    <3>3. s \in Fixed /\ s \in Screens \ {"home", "payment"}
      BY DEF Fixed, Screens, BackButtons
    <3>4. UNCHANGED <<box, order, session>>
      BY <2>4 DEF LoggedIn
    <3> QED
      BY <1>3, <3>1, <3>2, <3>3, <3>4
  <2>5. CASE Created(r)
    <3>1. r.jwt = jwt /\ r.box = box
      BY <2>1, <2>2, <2>5 DEF Created, FreshFits
    <3>2. /\ order'.by = r.jwt /\ order'.box = r.box /\ Go("payment", requests \ {r})
          /\ UNCHANGED <<jwt, box, session>>
      BY <2>5 DEF Created
    <3>3. OrderShown'
      BY <3>1, <3>2 DEF OrderShown
    <3>4. PaidFits'
      BY <1>1, <3>2, ShowKeepsPaid DEF Go
    <3> QED
      BY <1>1, <3>2, <3>3, <3>4 DEF OrderInv
  <2>6. CASE Confirmed(r)
    BY <1>3, <2>6 DEF Confirmed, ShowSuccess, Screens
  <2>7. CASE PaymentBegun(r)
    <3> DEFINE q == [r EXCEPT !.kind = "poll"]
    <3>1. Copied(q, r, "poll", r.fresh)
      BY <2>1, Copies
    <3>2. /\ r.kind = "pay" /\ requests' \subseteq requests
          /\ polls' = (polls \ Polling(r.inst)) \union {q}
          /\ UNCHANGED <<history, data, count>>
      BY <2>7 DEF PaymentBegun
    <3> HIDE DEF q
    <3> QED
      BY <1>12, <3>1, <3>2 DEF PayKinds
  <2>8. CASE Paid(r) \/ CheckedOut(r) \/ Unlocked(r)
    <3>1. PICK kind \in {"unlock", "confirm"} :
            /\ requests' = (requests \ {r}) \union {[r EXCEPT !.kind = kind]}
            /\ r.kind \in PayKinds
      BY <2>8 DEF Paid, CheckedOut, Unlocked, Continue, PayKinds
    <3> DEFINE q == [r EXCEPT !.kind = kind]
    <3>2. Copied(q, r, kind, r.fresh)
      BY <2>1, Copies
    <3>3. polls' \subseteq polls /\ UNCHANGED <<history, data, count>>
      BY <2>8 DEF Paid, CheckedOut, Unlocked, view
    <3>4. requests' = (requests \ {r}) \union {q}
      BY <3>1
    <3> HIDE DEF q
    <3> QED
      BY <1>12, <3>1, <3>2, <3>3, <3>4 DEF PayKinds
  <2> QED
    BY <1>8, <1>15, <2>3, <2>4, <2>5, <2>6, <2>7, <2>8 DEF Answered
<1> QED
  BY <1>4, <1>5, <1>8, <1>10, <1>11, <1>13, <1>14, <1>15 DEF Next

--------------------------------------------------------------------------------
(* The success screen *)

ShownInv ==
  stale \intersect {"confirm", "code"} = {} =>
    \A i \in 1..Len(history) : history[i] = "success" => shown = session

LEMMA ShownStep == HistoryInv /\ FreshInv /\ ShownInv /\ [Next]_vars => ShownInv'
<1> SUFFICES ASSUME HistoryInv, FreshInv, ShownInv, [Next]_vars,
                    stale' \intersect {"confirm", "code"} = {}
             PROVE  ShownInv'
  BY DEF ShownInv
<1>0. stale \subseteq stale'
  BY DEF Next, Walk, Back, GoHome, ChooseBox, Ask, Create, SkipPay, OpenAfterPay, PayOnline, Press, Poll,
     CountdownEnds, Answered, Refused, OtpSent, LoggedIn, Created, PaymentBegun, Paid, CheckedOut,
     Unlocked, Confirmed, Handled, vars
<1>1. HistoryOK /\ \A i \in 1..Len(history) : history[i] = "success" => shown = session
  BY <1>0 DEF ShownInv, HistoryInv
<1>2. ASSUME GoHome PROVE ShownInv'
  BY <1>2 DEF GoHome, ShownInv
<1>3. ASSUME NEW s \in Screens \ {"home", "success"}, NEW rs, Go(s, rs), UNCHANGED <<shown, session>>
      PROVE  ShownInv'
  BY <1>1, <1>3, GoKeepsHistory DEF ShownInv, HistoryOK
<1>4. ASSUME UNCHANGED <<history, shown, session>> PROVE ShownInv'
  BY <1>1, <1>4 DEF ShownInv
<1>5. CASE Walk
  <2>1. ASSUME NEW s \in {"login", "staff", "order-info"}, Go(s, requests),
               UNCHANGED <<data, countdown, session, stale>>
        PROVE  ShownInv'
    BY <1>3, <2>1 DEF Screens, data
  <2>2. CASE Back
    <3> DEFINE h == SubSeq(history, 1, Len(history) - 1)
    <3>1. history' = h /\ UNCHANGED <<shown, session>> /\ Len(history) > 1
      BY <2>2 DEF Back, data
    <3>2. Len(h) = Len(history) - 1 /\ (\A i \in 1..Len(h) : h[i] = history[i]) /\ Len(history) \in Nat
      BY <1>1, <3>1 DEF HistoryOK
    <3> HIDE DEF h
    <3> QED
      BY <1>1, <3>1, <3>2 DEF ShownInv
  <2> QED
    BY <1>2, <1>5, <2>1, <2>2 DEF Walk
<1>6. CASE \/ Ask \/ Create \/ SkipPay \/ OpenAfterPay
           \/ \E b \in Boxes : ChooseBox(b)
           \/ \E method \in {"MOMO", "VNPAY"} : PayOnline(method)
           \/ \E p \in polls : Poll(p)
           \/ UNCHANGED vars
  BY <1>4, <1>6 DEF Ask, Create, SkipPay, OpenAfterPay, ChooseBox, PayOnline, Press, Poll, vars, view, data, count
<1>7. ASSUME NEW t \in timers, CountdownEnds(t) PROVE ShownInv'
  BY <1>2, <1>7 DEF CountdownEnds
<1>8. ASSUME NEW r \in requests, Answered(r) PROVE ShownInv'
  <2>1. CASE Refused(r) \/ PaymentBegun(r) \/ Paid(r) \/ CheckedOut(r) \/ Unlocked(r)
    BY <1>4, <2>1 DEF Refused, PaymentBegun, Paid, CheckedOut, Unlocked, view, data, count
  <2>2. CASE OtpSent(r) \/ LoggedIn(r) \/ Created(r)
    <3>1. PICK s \in Screens \ {"home", "success"} : Go(s, requests \ {r})
      BY <2>2 DEF OtpSent, LoggedIn, Created, Screens
    <3>2. UNCHANGED <<shown, session>>
      BY <2>2 DEF OtpSent, LoggedIn, Created, data
    <3> QED
      BY <1>3, <3>1, <3>2
  <2>3. CASE Confirmed(r)
    <3>1. r.fresh
      BY <2>3 DEF Confirmed, Handled
    <3>2. r.session = session
      BY <3>1 DEF FreshInv, FreshFits
    <3>3. shown' = r.session /\ session' = session
      BY <2>3 DEF Confirmed, ShowSuccess
    <3> QED
      BY <3>2, <3>3 DEF ShownInv
  <2> QED
    BY <1>8, <2>1, <2>2, <2>3 DEF Answered
<1> QED
  BY <1>5, <1>6, <1>7, <1>8 DEF Next

(* What the kiosk shows belongs to the customer before it and fits         *)
(* together, and the box that is unlocked is the one that was ordered,     *)
(* unless an answer that sets one of them came after its screen was left,  *)
(* for any number of customers, requests and screens on top of each other. *)
THEOREM WhatIsShownFits == Spec => []OrderFits
<1>1. Init => FreshInv /\ OrderInv /\ ShownInv
  BY DEF Init, FreshInv, OrderInv, OrderShown, PaidFits, Paying, ShownInv
<1>2. HistoryInv /\ OrderInv /\ ShownInv => OrderFits
  <2> SUFFICES ASSUME HistoryInv, OrderInv, ShownInv, Good
               PROVE  /\ jwt \in {0, session}
                      /\ screen = "payment" => order.by = jwt /\ order.box = box
                      /\ screen = "success" /\ stale \intersect {"confirm", "code"} = {} => shown = session
                      /\ \A r \in requests : r.kind = "unlock" => r.order.box = r.box
    BY DEF OrderFits, Good
  <2>1. jwt \in {0, session} /\ OrderShown /\ PaidFits /\ HistoryOK
    BY DEF OrderInv, HistoryInv
  <2>2. screen = "payment" => order.by = jwt /\ order.box = box
    BY <2>1, PayingNow
  <2>3. screen = "success" /\ stale \intersect {"confirm", "code"} = {} => shown = session
    <3>1. Len(history) \in 1..Len(history) /\ history[Len(history)] = screen
      BY <2>1 DEF HistoryOK
    <3> QED
      BY <3>1 DEF ShownInv
  <2>4. \A r \in requests : r.kind = "unlock" => r.order.box = r.box
    BY <2>1 DEF PaidFits, PayKinds
  <2> QED
    BY <2>1, <2>2, <2>3, <2>4
<1> QED
  BY <1>1, <1>2, HistoryInvariant, TypedInvariant, FreshStep, OrderStep, ShownStep, PTL DEF Spec
================================================================================
