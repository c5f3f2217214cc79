------------------------- MODULE SubscriptionsProofs -------------------------
(***************************************************************************)
(* Proofs about Subscriptions, for any jobs and cabinets and any bounds.   *)
(* A thread's list of steps is what is left of an operation; from that, a  *)
(* cabinet that is not subscribed to will be, by some thread, however they *)
(* overlap; and, one thread at a time, the heartbeat's flag and its thread *)
(* are as the thread that starts or stops it is about to leave them.       *)
(***************************************************************************)
EXTENDS Subscriptions, SequenceTheorems, FiniteSetTheorems, TLAPS

Plain == {"connect", "ready", "serve", "mqtt_stop", "start", "finish", "forget", "locate",
          "hb_check", "hb_set", "hb_spawn", "hb_stop", "hb_thread"}

Record(what, x) == [do |-> what, x |-> x]
Steps ==
  [do : Plain, x : {None}] \union [do : {"save", "lockers"}, x : Cabinets]
    \union [do : {"subscribe", "cabinets"}, x : SUBSET Cabinets] \union [do : {"join"}, x : Nat]

(* Steps that another one has to follow.                                   *)
Inner == {"connect", "hb_check", "hb_set", "hb_stop"}

(* In the main thread's list, before and after it serves.                  *)
BeforeServe == {"connect", "ready", "subscribe", "hb_check", "hb_set", "hb_spawn"}
AfterServe == {"hb_stop", "hb_thread", "mqtt_stop"}

(* A step of kind b comes after a step of kind a.                          *)
Follows(a, b) ==
  /\ a = "connect" => b = "ready"
  /\ b = "hb_set" <=> a = "hb_check"
  /\ b = "hb_spawn" <=> a = "hb_set"
  /\ b = "hb_thread" <=> a = "hb_stop"
  /\ b = "hb_stop" => a \in {"forget", "serve"}
  /\ a # "finish" /\ b # "join"

Kinds(q) == {q[i].do : i \in 1..Len(q)}
Subscribes(q, c) == \E i \in 1..Len(q) : q[i].do = "subscribe" /\ c \in q[i].x

Linked(q) ==
  /\ \A i \in 1..Len(q) : i + 1 \in 1..Len(q) => Follows(q[i].do, q[i + 1].do)
  /\ q # <<>> => q[Len(q)].do \notin Inner

(* Whoever saves a cabinet subscribes to it and starts the heartbeat.      *)
SaveFirst(q) ==
  \A i \in 1..Len(q) : q[i].do = "save" =>
    /\ \E j \in 1..Len(q) : j > i /\ q[j].do = "subscribe" /\ q[i].x \in q[j].x
    /\ \E j \in 1..Len(q) : j > i /\ q[j].do = "hb_check"

Serves(q) ==
  \A i, j \in 1..Len(q) : i < j =>
    /\ q[i].do = "serve" => q[j].do \in AfterServe
    /\ q[j].do = "serve" => q[i].do \in BeforeServe

(* A setup finishes, and that is its last step.                            *)
OfSetup == {"cabinets", "save", "lockers"}
Finishes(q) == Kinds(q) \intersect OfSetup # {} => "finish" \in Kinds(q)

(* What a thread may still have to do.                                     *)
Sound(q) == q \in Seq(Steps) /\ Linked(q) /\ SaveFirst(q) /\ Serves(q) /\ Finishes(q)

--------------------------------------------------------------------------------
(* The lists of the operations are sound *)

LEMMA Empty == Sound(<<>>) /\ Kinds(<<>>) = {} /\ \A c : ~Subscribes(<<>>, c)
BY DEF Sound, Linked, SaveFirst, Serves, Finishes, Kinds, Subscribes

(* A step w may come before the list r.                                    *)
Leads(w, x, r) ==
  /\ IF r = <<>> THEN w \notin Inner ELSE Follows(w, r[1].do)
  /\ w = "save" => Subscribes(r, x) /\ "hb_check" \in Kinds(r)
  /\ w = "serve" => Kinds(r) \subseteq AfterServe
  /\ "serve" \in Kinds(r) => w \in BeforeServe
  /\ w \in OfSetup => "finish" \in Kinds(r)

(* q is the step w, with its argument x, and then the list r.              *)
Led(q, w, x, r) ==
  /\ Sound(q) /\ q # <<>> /\ q[1].do = w /\ Kinds(q) = {w} \union Kinds(r)
  /\ w # "subscribe" => \A c : Subscribes(q, c) <=> Subscribes(r, c)
  /\ w = "subscribe" => \A c : Subscribes(q, c) <=> c \in x \/ Subscribes(r, c)

LEMMA InFront ==
  ASSUME NEW r, Sound(r), NEW w, NEW x, Record(w, x) \in Steps, Leads(w, x, r)
  PROVE  Led(Do(w, x) \o r, w, x, r)
<1> DEFINE q == Do(w, x) \o r
<1>0. /\ IF r = <<>> THEN w \notin Inner ELSE Follows(w, r[1].do)
      /\ w = "save" => Subscribes(r, x) /\ "hb_check" \in Kinds(r)
      /\ w = "serve" => Kinds(r) \subseteq AfterServe
      /\ "serve" \in Kinds(r) => w \in BeforeServe
      /\ w \in OfSetup => "finish" \in Kinds(r)
  BY DEF Leads
<1> DEFINE a == Record(w, x)
           n == Len(r)
<1>1. a.do = w /\ a.x = x /\ a \in Steps /\ r \in Seq(Steps) /\ q = <<a>> \o r
  BY DEF Record, Do, Sound
<1> HIDE DEF a
<1>2. /\ q \in Seq(Steps) /\ n \in Nat /\ Len(q) = n + 1 /\ q[1] = a
      /\ \A i \in 1..n : q[i + 1] = r[i] /\ i + 1 \in 1..Len(q)
  BY <1>1
<1> HIDE DEF q
<1>3. q # <<>> /\ 1 \in 1..Len(q)
  BY <1>2
<1>4. \A i \in 1..Len(q) : i = 1 \/ (i - 1 \in 1..n /\ q[i] = r[i - 1])
  <2> SUFFICES ASSUME NEW i \in 1..Len(q), i # 1 PROVE i - 1 \in 1..n /\ q[i] = r[i - 1]
    OBVIOUS
  <2>1. i - 1 \in 1..n /\ (i - 1) + 1 = i
    BY <1>2
  <2> QED
    BY <1>2, <2>1
<1>5. r = <<>> <=> n = 0
  BY <1>1
<1> HIDE DEF n
<1>6. Kinds(q) = {w} \union Kinds(r)
  <2>1. \A i \in 1..Len(q) : q[i].do \in {w} \union Kinds(r)
    BY <1>1, <1>2, <1>4 DEF Kinds, n
  <2>2. \A k \in Kinds(r) : k \in Kinds(q)
    BY <1>2 DEF Kinds, n
  <2> QED
    BY <1>1, <1>2, <1>3, <2>1, <2>2 DEF Kinds
<1>7. \A c : Subscribes(q, c) <=> (w = "subscribe" /\ c \in x) \/ Subscribes(r, c)
  <2>1. ASSUME NEW c, Subscribes(q, c) PROVE (w = "subscribe" /\ c \in x) \/ Subscribes(r, c)
    BY <1>1, <1>2, <1>4, <2>1 DEF Subscribes, n
  <2>2. ASSUME NEW c, Subscribes(r, c) PROVE Subscribes(q, c)
    BY <1>2, <2>2 DEF Subscribes, n
  <2> QED
    BY <1>1, <1>2, <1>3, <2>1, <2>2 DEF Subscribes
<1>8. Linked(q)
  <2>1. ASSUME NEW i \in 1..Len(q), i + 1 \in 1..Len(q) PROVE Follows(q[i].do, q[i + 1].do)
    <3>1. CASE i = 1
      <4>1. n # 0 /\ q[2] = r[1]
        <5>1. n # 0
          BY <1>2, <2>1, <3>1
        <5>2. 1 \in 1..n /\ 1 + 1 = 2
          BY <1>2, <5>1
        <5> QED
          BY <1>2, <5>1, <5>2
      <4> QED
        BY <1>0, <1>1, <1>2, <1>5, <3>1, <4>1
    <3>2. CASE i # 1
      <4>1. /\ i - 1 \in 1..n /\ (i - 1) + 1 \in 1..n
            /\ q[i] = r[i - 1] /\ q[i + 1] = r[(i - 1) + 1]
        <5>1. i - 1 \in 1..n /\ (i - 1) + 1 = i /\ (i + 1) - 1 = i /\ i + 1 # 1 /\ i \in 1..n
          BY <1>2, <2>1, <3>2
        <5> QED
          BY <1>4, <2>1, <3>2, <5>1
      <4> QED
        BY <4>1 DEF Sound, Linked, n
    <3> QED
      BY <3>1, <3>2
  <2>2. q[Len(q)].do \notin Inner
    <3>1. CASE n = 0
      BY <1>0, <1>1, <1>2, <1>5, <3>1
    <3>2. CASE n # 0
      <4>1. n \in 1..n /\ q[n + 1] = r[n] /\ r # <<>>
        BY <1>2, <1>5, <3>2
      <4> QED
        BY <1>2, <4>1 DEF Sound, Linked, n
    <3> QED
      BY <3>1, <3>2
  <2> QED
    BY <2>1, <2>2 DEF Linked
<1>9. SaveFirst(q)
  <2> SUFFICES ASSUME NEW i \in 1..Len(q), q[i].do = "save"
               PROVE  /\ \E j \in 1..Len(q) : j > i /\ q[j].do = "subscribe" /\ q[i].x \in q[j].x
                      /\ \E j \in 1..Len(q) : j > i /\ q[j].do = "hb_check"
    BY DEF SaveFirst
  <2>1. CASE i = 1
    <3>1. PICK j \in 1..n : r[j].do = "subscribe" /\ x \in r[j].x
      BY <1>0, <1>1, <1>2, <2>1 DEF Subscribes, n
    <3>2. PICK k \in 1..n : r[k].do = "hb_check"
      BY <1>0, <1>1, <1>2, <2>1 DEF Kinds, n
    <3>3. j + 1 > 1 /\ k + 1 > 1
      <4>1. n \in Nat
        BY <1>2
      <4> QED
        BY <4>1
    <3> QED
      BY <1>1, <1>2, <2>1, <3>1, <3>2, <3>3
  <2>2. CASE i # 1
    <3>1. i - 1 \in 1..n /\ q[i] = r[i - 1]
      BY <1>4, <2>2
    <3>2. PICK j \in 1..n : j > i - 1 /\ r[j].do = "subscribe" /\ q[i].x \in r[j].x
      BY <3>1 DEF Sound, SaveFirst, n
    <3>3. PICK k \in 1..n : k > i - 1 /\ r[k].do = "hb_check"
      BY <3>1 DEF Sound, SaveFirst, n
    <3>4. j + 1 > i /\ k + 1 > i
      BY <1>2, <3>2, <3>3
    <3> QED
      BY <1>2, <3>2, <3>3, <3>4
  <2> QED
    BY <2>1, <2>2
<1>10. Serves(q)
  <2> SUFFICES ASSUME NEW i \in 1..Len(q), NEW j \in 1..Len(q), i < j
               PROVE  /\ q[i].do = "serve" => q[j].do \in AfterServe
                      /\ q[j].do = "serve" => q[i].do \in BeforeServe
    BY DEF Serves
  <2>1. j - 1 \in 1..n /\ q[j] = r[j - 1]
    BY <1>2, <1>4
  <2>2. CASE i = 1
    BY <1>0, <1>1, <1>2, <2>1, <2>2 DEF Kinds, n
  <2>3. CASE i # 1
    <3>1. i - 1 \in 1..n /\ q[i] = r[i - 1] /\ i - 1 < j - 1
      BY <1>2, <1>4, <2>3
    <3> QED
      BY <2>1, <3>1 DEF Sound, Serves, n
  <2> QED
    BY <2>2, <2>3
<1>11. Finishes(q)
  BY <1>0, <1>6 DEF Sound, Finishes
<1> QED
  BY <1>1, <1>2, <1>3, <1>6, <1>7, <1>8, <1>9, <1>10, <1>11 DEF Sound, Led, q

(* A list without its first k steps.                                       *)
LEMMA Shorter ==
  ASSUME NEW q, Sound(q), NEW k \in Nat, NEW r \in Seq(Steps), Len(q) = Len(r) + k,
         \A i \in 1..Len(r) : r[i] = q[i + k]
  PROVE  /\ Sound(r) /\ Kinds(r) \subseteq Kinds(q)
         /\ \A c : Subscribes(r, c) => Subscribes(q, c)
<1> DEFINE n == Len(r)
           m == Len(q)
<1>1. n \in Nat /\ m \in Nat /\ m = n + k
  BY DEF Sound
<1>2. \A i \in 1..n : i + k \in 1..m /\ r[i] = q[i + k]
  BY <1>1
<1>3. r # <<>> <=> n # 0
  OBVIOUS
<1>a. q # <<>> <=> m # 0
  BY DEF Sound
<1> HIDE DEF n, m
<1>4. Kinds(r) \subseteq Kinds(q) /\ \A c : Subscribes(r, c) => Subscribes(q, c)
  BY <1>2 DEF Kinds, Subscribes, n, m
<1>5. Linked(r)
  <2>1. ASSUME NEW i \in 1..n, i + 1 \in 1..n PROVE Follows(r[i].do, r[i + 1].do)
    <3>1. /\ i + k \in 1..m /\ (i + k) + 1 \in 1..m /\ r[i] = q[i + k]
          /\ r[i + 1] = q[(i + k) + 1]
      <4>1. (i + 1) + k = (i + k) + 1
        OBVIOUS
      <4> QED
        BY <1>2, <2>1, <4>1
    <3> QED
      BY <3>1 DEF Sound, Linked, m
  <2>2. ASSUME r # <<>> PROVE r[n].do \notin Inner
    <3>1. n \in 1..n /\ r[n] = q[m] /\ m # 0
      <4>1. n \in 1..n
        BY <1>1, <1>3, <2>2
      <4> QED
        BY <1>1, <1>2, <4>1
    <3> QED
      BY <1>a, <3>1 DEF Sound, Linked, m
  <2> QED
    BY <2>1, <2>2 DEF Linked, n
<1>6. \A j \in 1..m, i \in 1..n : j > i + k => j - k \in 1..n /\ q[j] = r[j - k] /\ j - k > i
  <2> SUFFICES ASSUME NEW j \in 1..m, NEW i \in 1..n, j > i + k
               PROVE  j - k \in 1..n /\ q[j] = r[j - k] /\ j - k > i
    OBVIOUS
  <2>1. j - k \in 1..n /\ (j - k) + k = j /\ j - k > i
    BY <1>1
  <2> QED
    BY <1>2, <2>1
<1>7. SaveFirst(r)
  <2> SUFFICES ASSUME NEW i \in 1..n, r[i].do = "save"
               PROVE  /\ \E j \in 1..n : j > i /\ r[j].do = "subscribe" /\ r[i].x \in r[j].x
                      /\ \E j \in 1..n : j > i /\ r[j].do = "hb_check"
    BY DEF SaveFirst, n
  <2>1. i + k \in 1..m /\ q[i + k] = r[i]
    BY <1>2
  <2>2. /\ \E j \in 1..m : j > i + k /\ q[j].do = "subscribe" /\ r[i].x \in q[j].x
        /\ \E j \in 1..m : j > i + k /\ q[j].do = "hb_check"
    BY <2>1 DEF Sound, SaveFirst, m
  <2> QED
    BY <1>6, <2>2
<1>8. Serves(r)
  <2> SUFFICES ASSUME NEW i \in 1..n, NEW j \in 1..n, i < j
               PROVE  /\ r[i].do = "serve" => r[j].do \in AfterServe
                      /\ r[j].do = "serve" => r[i].do \in BeforeServe
    BY DEF Serves, n
  <2>1. i + k \in 1..m /\ j + k \in 1..m /\ i + k < j + k /\ r[i] = q[i + k] /\ r[j] = q[j + k]
    BY <1>2
  <2> QED
    BY <2>1 DEF Sound, Serves, m
<1>9. Finishes(r)
  <2> SUFFICES ASSUME Kinds(r) \intersect OfSetup # {} PROVE "finish" \in Kinds(r)
    BY DEF Finishes
  <2>1. n \in 1..n
    <3>1. n # 0
      BY DEF Kinds, n
    <3> QED
      BY <1>1, <3>1
  <2>2. "finish" \in Kinds(q)
    BY <1>4 DEF Sound, Finishes
  <2>3. PICK i \in 1..m : q[i].do = "finish"
    BY <2>2 DEF Kinds, m
  <2>4. i + 1 \notin 1..m
    BY <2>3 DEF Sound, Linked, Follows, m
  <2>5. i = n + k
    BY <1>1, <2>4
  <2> QED
    BY <1>2, <2>1, <2>3, <2>5 DEF Kinds, n
<1> QED
  BY <1>4, <1>5, <1>7, <1>8, <1>9 DEF Sound

(* A setup ends with finish.                                               *)
LEMMA FinishLast ==
  ASSUME NEW q, Sound(q), Kinds(q) \intersect OfSetup # {}
  PROVE  q # <<>> /\ Last(q).do = "finish"
<1> DEFINE m == Len(q)
<1>1. m \in Nat /\ (q # <<>> <=> m # 0)
  BY DEF Sound
<1>2. "finish" \in Kinds(q)
  BY DEF Sound, Finishes
<1> HIDE DEF m
<1>3. PICK i \in 1..m : q[i].do = "finish"
  BY <1>2 DEF Kinds, m
<1>4. i + 1 \notin 1..m
  BY <1>3 DEF Sound, Linked, Follows, m
<1>5. i = m /\ m # 0
  BY <1>1, <1>4
<1> QED
  BY <1>1, <1>3, <1>5 DEF Last, m

LEMMA Nonempty ==
  ASSUME NEW r \in Seq(Steps)
  PROVE  /\ r # <<>> => Head(r) = r[1] /\ Len(r) > 0 /\ r[1] \in Steps
         /\ r = <<>> => Len(r) = 0
OBVIOUS

(* What a thread with the list q leaves when it takes its first step.      *)
Leaves(q, r) ==
  /\ Sound(r) /\ Head(q) = q[1] /\ Head(q) \in Steps
  /\ Kinds(q) = {Head(q).do} \union Kinds(r)
  /\ IF r = <<>> THEN Head(q).do \notin Inner
     ELSE Head(r) = r[1] /\ r[1] \in Steps /\ Follows(Head(q).do, r[1].do)
  /\ \A c : Subscribes(q, c) => (Head(q).do = "subscribe" /\ c \in Head(q).x) \/ Subscribes(r, c)
  /\ Head(q).do = "save" => Subscribes(r, Head(q).x) /\ "hb_check" \in Kinds(r)
  /\ Head(q).do = "serve" => Kinds(r) \subseteq AfterServe
  /\ "serve" \in Kinds(r) => Head(q).do \in BeforeServe
  /\ Head(q).do \in OfSetup => "finish" \in Kinds(r)

LEMMA Tails ==
  ASSUME NEW q, Sound(q), q # <<>>
  PROVE  Leaves(q, Tail(q))
<1> DEFINE r == Tail(q)
           n == Len(r)
           m == Len(q)
<1>1. /\ q \in Seq(Steps) /\ r \in Seq(Steps) /\ n \in Nat /\ m = n + 1
      /\ Head(q) = q[1] /\ 1 \in 1..m /\ \A i \in 1..n : r[i] = q[i + 1]
  BY DEF Sound
<1> HIDE DEF r
<1>2. (r # <<>> => Head(r) = r[1] /\ n > 0 /\ r[1] \in Steps) /\ (r = <<>> => n = 0)
  BY <1>1, Nonempty
<1> HIDE DEF n, m
<1>3. Sound(r)
  <2>1. Len(q) = Len(r) + 1 /\ \A i \in 1..Len(r) : r[i] = q[i + 1]
    BY <1>1 DEF n, m
  <2> QED
    BY <1>1, <2>1, Shorter
<1>4. /\ \A i \in 1..n : i + 1 \in 1..m /\ r[i] = q[i + 1] /\ 1 < i + 1
      /\ \A i \in 1..m : i = 1 \/ (i - 1 \in 1..n /\ q[i] = r[i - 1])
  <2>1. ASSUME NEW i \in 1..m, i # 1 PROVE i - 1 \in 1..n /\ q[i] = r[i - 1]
    <3>1. i - 1 \in 1..n /\ (i - 1) + 1 = i
      BY <1>1, <2>1
    <3> QED
      BY <1>1, <3>1
  <2>2. \A i \in 1..n : i + 1 \in 1..m /\ 1 < i + 1
    BY <1>1
  <2> QED
    BY <1>1, <2>1, <2>2
<1>5. Kinds(q) = {Head(q).do} \union Kinds(r)
  <2>1. \A i \in 1..m : q[i].do \in {Head(q).do} \union {r[j].do : j \in 1..n}
    BY <1>1, <1>4
  <2>2. \A k \in Kinds(r) : k \in Kinds(q)
    <3>1. ASSUME NEW i \in 1..n PROVE r[i].do \in Kinds(q)
      <4>1. i + 1 \in 1..m /\ r[i] = q[i + 1]
        BY <1>4
      <4> QED
        BY <4>1 DEF Kinds, m
    <3> QED
      BY <3>1 DEF Kinds, n
  <2>3. Head(q).do \in Kinds(q)
    BY <1>1 DEF Kinds, m
  <2> QED
    BY <2>1, <2>2, <2>3 DEF Kinds, n, m
<1>6. ASSUME NEW c, Subscribes(q, c)
      PROVE  (Head(q).do = "subscribe" /\ c \in Head(q).x) \/ Subscribes(r, c)
  BY <1>1, <1>4, <1>6 DEF Subscribes, n, m
<1>7. ASSUME Head(q).do = "save" PROVE Subscribes(r, Head(q).x) /\ "hb_check" \in Kinds(r)
  <2>1. /\ \E j \in 1..m : j > 1 /\ q[j].do = "subscribe" /\ Head(q).x \in q[j].x
        /\ \E j \in 1..m : j > 1 /\ q[j].do = "hb_check"
    BY <1>1, <1>7 DEF Sound, SaveFirst, m
  <2>2. ASSUME NEW j \in 1..m, j > 1 PROVE j - 1 \in 1..n /\ q[j] = r[j - 1]
    <3>1. j # 1
      BY <2>2
    <3> QED
      BY <1>4, <3>1
  <2>3. \E j \in 1..n : r[j].do = "subscribe" /\ Head(q).x \in r[j].x
    BY <2>1, <2>2
  <2>4. \E j \in 1..n : r[j].do = "hb_check"
    BY <2>1, <2>2
  <2> QED
    BY <2>3, <2>4 DEF Subscribes, Kinds, n
<1>8. ASSUME NEW i \in 1..n
      PROVE  /\ Head(q).do = "serve" => r[i].do \in AfterServe
             /\ r[i].do = "serve" => Head(q).do \in BeforeServe
  BY <1>1, <1>4 DEF Sound, Serves, m
<1>9. IF r = <<>> THEN Head(q).do \notin Inner
      ELSE Head(r) = r[1] /\ r[1] \in Steps /\ Follows(Head(q).do, r[1].do)
  <2>1. CASE r = <<>>
    <3>1. m = 1 /\ q[m].do \notin Inner
      BY <1>1, <1>2, <2>1 DEF Sound, Linked, m
    <3> QED
      BY <1>1, <2>1, <3>1
  <2>2. CASE r # <<>>
    <3>1. 1 \in 1..n /\ 1 + 1 \in 1..m /\ q[1 + 1] = r[1]
      <4>1. 1 \in 1..n
        BY <1>1, <1>2, <2>2
      <4> QED
        BY <1>4, <4>1
    <3> QED
      BY <1>1, <1>2, <2>2, <3>1 DEF Sound, Linked, m
  <2> QED
    BY <2>1, <2>2
<1>10. /\ Head(q).do = "serve" => Kinds(r) \subseteq AfterServe
       /\ "serve" \in Kinds(r) => Head(q).do \in BeforeServe
  BY <1>8 DEF Kinds, n
<1>11. Head(q) = q[1] /\ Head(q) \in Steps
  BY <1>1
<1>12. Head(q).do \in OfSetup => "finish" \in Kinds(r)
  BY <1>5 DEF Sound, Finishes, OfSetup
<1>13. Leaves(q, r)
  BY <1>3, <1>5, <1>6, <1>7, <1>9, <1>10, <1>11, <1>12 DEF Leaves
<1> QED
  BY <1>13 DEF r

LEMMA Lasts ==
  ASSUME NEW q, Sound(q), q # <<>>
  PROVE  /\ Sound(<<Last(q)>>) /\ Kinds(<<Last(q)>>) \subseteq Kinds(q)
         /\ \A c : Subscribes(<<Last(q)>>, c) => Subscribes(q, c)
<1> DEFINE n == Len(q)
           r == <<Last(q)>>
<1>1. n \in Nat /\ n > 0 /\ Last(q) = q[n] /\ q \in Seq(Steps)
  BY DEF Sound, Last
<1>2. r \in Seq(Steps) /\ Len(r) = 1 /\ r[1] = q[n]
  BY <1>1
<1>3. n - 1 \in Nat /\ n = 1 + (n - 1)
  BY <1>1
<1> HIDE DEF r, n
<1>4. \A i \in 1..Len(r) : r[i] = q[i + (n - 1)]
  BY <1>2, <1>3
<1>5. Len(q) = Len(r) + (n - 1)
  BY <1>1, <1>2, <1>3 DEF n
<1>6. Sound(r) /\ Kinds(r) \subseteq Kinds(q) /\ \A c : Subscribes(r, c) => Subscribes(q, c)
  BY <1>2, <1>3, <1>4, <1>5, Shorter
<1> QED
  BY <1>6 DEF r

(* A list that does not begin inside a start or a stop.                    *)
Fresh(q) ==
  /\ Sound(q)
  /\ q # <<>> => q[1].do \notin {"hb_set", "hb_spawn", "hb_stop", "hb_thread", "join"}

(* start returns at once.                                                  *)
LEMMA Skipped ==
  ASSUME NEW q, Sound(q), q # <<>>, Head(q).do = "hb_check", NEW r, r = SubSeq(q, 4, Len(q))
  PROVE  /\ Fresh(r) /\ Kinds(q) = {"hb_check", "hb_set", "hb_spawn"} \union Kinds(r)
         /\ \A c : Subscribes(q, c) => Subscribes(r, c)
<1> DEFINE a == Tail(q)
           b == Tail(a)
<1>1. q \in Seq(Steps)
  BY DEF Sound
<1>2. /\ Sound(a) /\ a # <<>> /\ Head(a).do = "hb_set" /\ Kinds(q) = {"hb_check"} \union Kinds(a)
      /\ \A c : Subscribes(q, c) => Subscribes(a, c)
  <2>1. Leaves(q, a)
    BY Tails
  <2> QED
    BY <2>1 DEF Leaves, Follows, Inner
<1>3. /\ Sound(b) /\ b # <<>> /\ Head(b).do = "hb_spawn" /\ Kinds(a) = {"hb_set"} \union Kinds(b)
      /\ \A c : Subscribes(a, c) => Subscribes(b, c)
  <2> HIDE DEF a
  <2>1. Leaves(a, b)
    BY <1>2, Tails
  <2> HIDE DEF b
  <2> QED
    BY <1>2, <2>1 DEF Leaves, Follows, Inner
<1>4. r = Tail(b)
  <2> DEFINE n == Len(q)
  <2>1. a = SubSeq(q, 2, n)
    BY <1>1, TailIsSubSeq
  <2>2. n \in Nat /\ n > 0 /\ Len(a) = n - 1 /\ Len(b) = n - 2 /\ n - 1 > 0 /\ n - 2 > 0
    <3>1. n \in Nat /\ n > 0 /\ Len(a) = n - 1 /\ a \in Seq(Steps)
      BY <1>1
    <3> HIDE DEF a
    <3>2. n - 1 > 0 /\ Len(b) = (n - 1) - 1 /\ b \in Seq(Steps)
      BY <1>2, <3>1
    <3> HIDE DEF b
    <3>3. n - 2 > 0
      BY <1>3, <3>1, <3>2
    <3> QED
      BY <3>1, <3>2, <3>3
  <2> HIDE DEF n
  <2>3. 2 \in 1..n /\ n \in 2..n /\ 3 \in 1..n /\ n \in 3..n
    BY <2>2
  <2>4. Tail(SubSeq(q, 2, n)) = SubSeq(q, 3, n)
    BY <1>1, <2>3, HeadTailOfSubSeq DEF n
  <2>5. Tail(SubSeq(q, 3, n)) = SubSeq(q, 4, n)
    BY <1>1, <2>3, HeadTailOfSubSeq DEF n
  <2> QED
    BY <2>1, <2>4, <2>5 DEF n
<1>5. /\ Fresh(r) /\ Kinds(b) = {"hb_spawn"} \union Kinds(r)
      /\ \A c : Subscribes(b, c) => Subscribes(r, c)
  <2> HIDE DEF b
  <2>1. Leaves(b, r)
    BY <1>3, <1>4, Tails
  <2> QED
    BY <1>3, <2>1 DEF Leaves, Follows, Inner, Fresh
<1> QED
  BY <1>2, <1>3, <1>5

LEMMA Records ==
  /\ \A w \in Plain : Record(w, None) \in Steps /\ Do(w, None) \in Seq(Steps)
  /\ \A c \in Cabinets : \A w \in {"save", "lockers"} : Record(w, c) \in Steps /\ Do(w, c) \in Seq(Steps)
  /\ \A s \in SUBSET Cabinets : \A w \in {"subscribe", "cabinets"} :
       Record(w, s) \in Steps /\ Do(w, s) \in Seq(Steps)
  /\ \A n \in Nat : Record("join", n) \in Steps /\ Do("join", n) \in Seq(Steps)
<1>1. /\ \A w \in Plain : Record(w, None) \in Steps
      /\ \A c \in Cabinets : \A w \in {"save", "lockers"} : Record(w, c) \in Steps
      /\ \A s \in SUBSET Cabinets : \A w \in {"subscribe", "cabinets"} : Record(w, s) \in Steps
      /\ \A n \in Nat : Record("join", n) \in Steps
  BY DEF Record, Steps
<1>2. \A a \in Steps : <<a>> \in Seq(Steps)
  OBVIOUS
<1>3. \A w, x : Do(w, x) = <<Record(w, x)>>
  BY DEF Do, Record
<1> QED
  BY <1>1, <1>2, <1>3

(* Parts of a list, regrouped.                                             *)
Associate(a, b, c) == (a \o b) \o c = a \o (b \o c)

AssociateFour(a, b, c, d) == ((a \o b) \o c) \o d = a \o (b \o (c \o d))
AssociateSix(a, b, c, d, e, f) ==
  ((((a \o b) \o c) \o d) \o e) \o f = a \o (b \o (c \o (d \o (e \o f))))

LEMMA Associates ==
  \A a, b, c \in Seq(Steps) : Associate(a, b, c)
BY ConcatAssociative DEF Associate

LEMMA Joins ==
  \A a, b \in Seq(Steps) : a \o b \in Seq(Steps)
BY ConcatProperties

LEMMA FourParts ==
  ASSUME NEW a \in Seq(Steps), NEW b \in Seq(Steps), NEW c \in Seq(Steps), NEW d \in Seq(Steps)
  PROVE  AssociateFour(a, b, c, d) /\ (a \o b) \o c \in Seq(Steps)
<1>1. a \o b \in Seq(Steps) /\ c \o d \in Seq(Steps) /\ (a \o b) \o c \in Seq(Steps)
  BY Joins, Zenon
<1>2. Associate(a, b, c \o d) /\ Associate(a \o b, c, d)
  BY <1>1, Associates, Zenon
<1>3. AssociateFour(a, b, c, d)
  BY <1>2, Zenon DEF Associate, AssociateFour
<1> QED
  BY <1>1, <1>3, Zenon

LEMMA SixParts ==
  ASSUME NEW a \in Seq(Steps), NEW b \in Seq(Steps), NEW c \in Seq(Steps), NEW d \in Seq(Steps),
         NEW e \in Seq(Steps), NEW f \in Seq(Steps)
  PROVE  AssociateSix(a, b, c, d, e, f)
<1> DEFINE g == (a \o b) \o c
           k == e \o f
           h == d \o k
<1>1. g \in Seq(Steps) /\ k \in Seq(Steps) /\ h \in Seq(Steps) /\ g \o d \in Seq(Steps)
  BY Joins, Zenon
<1> HIDE DEF g, k, h
<1>2. Associate(g \o d, e, f) /\ Associate(g, d, k)
  BY <1>1, Associates, Zenon
<1>3. AssociateFour(a, b, c, h)
  BY <1>1, FourParts, Zenon
<1>4. ((g \o d) \o e) \o f = g \o h
  BY <1>2, Zenon DEF Associate, k, h
<1> QED
  BY <1>3, <1>4, Zenon DEF AssociateFour, AssociateSix, g, h, k

LEMMA StartFirst ==
  ASSUME NEW r, Fresh(r), NEW q, q = HeartbeatStart \o r
  PROVE  /\ Fresh(q) /\ q # <<>> /\ q[1].do = "hb_check"
         /\ Kinds(q) = {"hb_check", "hb_set", "hb_spawn"} \union Kinds(r)
         /\ \A c : Subscribes(q, c) <=> Subscribes(r, c)
<1> DEFINE a == Do("hb_check", None)
           b == Do("hb_set", None)
           c == Do("hb_spawn", None)
           z == c \o r
           y == b \o z
           x == a \o y
<1>1. a \in Seq(Steps) /\ b \in Seq(Steps) /\ c \in Seq(Steps) /\ r \in Seq(Steps) /\ Sound(r)
  BY Records DEF Plain, Fresh, Sound
<1>2. q = x
  <2>1. q = ((a \o b) \o c) \o r
    BY DEF HeartbeatStart
  <2> HIDE DEF a, b, c
  <2>2. AssociateFour(a, b, c, r)
    BY <1>1, FourParts, Zenon
  <2> QED
    BY <2>1, <2>2, Zenon DEF AssociateFour
<1>3. /\ Record("hb_check", None) \in Steps /\ Record("hb_set", None) \in Steps
      /\ Record("hb_spawn", None) \in Steps
  BY Records DEF Plain
<1>4. /\ Sound(z) /\ z # <<>> /\ z[1].do = "hb_spawn" /\ Kinds(z) = {"hb_spawn"} \union Kinds(r)
      /\ \A d : Subscribes(z, d) <=> Subscribes(r, d)
  <2>1. Leads("hb_spawn", None, r)
    BY DEF OfSetup, Leads, Fresh, Follows, Inner, BeforeServe
  <2>2. Led(z, "hb_spawn", None, r)
    BY <1>1, <1>3, <2>1, InFront
  <2> HIDE DEF z
  <2> QED
    BY <2>2 DEF Led
<1> HIDE DEF z
<1>5. /\ Sound(y) /\ y # <<>> /\ y[1].do = "hb_set"
      /\ Kinds(y) = {"hb_set", "hb_spawn"} \union Kinds(r)
      /\ \A d : Subscribes(y, d) <=> Subscribes(r, d)
  <2>1. Leads("hb_set", None, z)
    BY <1>4 DEF OfSetup, Leads, Follows, BeforeServe
  <2>2. Led(y, "hb_set", None, z)
    BY <1>3, <1>4, <2>1, InFront
  <2> HIDE DEF y
  <2> QED
    BY <1>4, <2>2 DEF Led
<1> HIDE DEF y
<1>6. /\ Sound(x) /\ x # <<>> /\ x[1].do = "hb_check"
      /\ Kinds(x) = {"hb_check", "hb_set", "hb_spawn"} \union Kinds(r)
      /\ \A d : Subscribes(x, d) <=> Subscribes(r, d)
  <2>1. Leads("hb_check", None, y)
    BY <1>5 DEF OfSetup, Leads, Follows, BeforeServe
  <2>2. Led(x, "hb_check", None, y)
    BY <1>3, <1>5, <2>1, InFront
  <2> HIDE DEF x
  <2> QED
    BY <1>5, <2>2 DEF Led
<1> QED
  BY <1>2, <1>6 DEF Fresh

(* Cabinets to subscribe to, in front of a list.                           *)
Subscribing(q, s, r) ==
  /\ Fresh(q) /\ q # <<>> /\ q[1].do = "subscribe"
  /\ Kinds(q) = {"subscribe"} \union Kinds(r)
  /\ \A c : Subscribes(q, c) <=> c \in s \/ Subscribes(r, c)

LEMMA SubscribeFirst ==
  ASSUME NEW r, Fresh(r), NEW s \in SUBSET Cabinets
  PROVE  Subscribing(Do("subscribe", s) \o r, s, r)
<1> DEFINE q == Do("subscribe", s) \o r
<1>1. Record("subscribe", s) \in Steps /\ Sound(r)
  BY Records DEF Fresh
<1>2. Leads("subscribe", s, r)
  BY DEF OfSetup, Leads, Fresh, Follows, Inner, BeforeServe
<1>3. Led(q, "subscribe", s, r)
  BY <1>1, <1>2, InFront
<1> HIDE DEF q
<1>4. Subscribing(q, s, r)
  BY <1>3 DEF Led, Fresh, Subscribing
<1> QED
  BY <1>4 DEF q

LEMMA CabinetsFirst ==
  ASSUME NEW r, Fresh(r), "serve" \notin Kinds(r), "finish" \in Kinds(r), NEW s \in SUBSET Cabinets,
         NEW q, q = Do("cabinets", s) \o r
  PROVE  /\ Fresh(q) /\ q # <<>> /\ q[1].do = "cabinets"
         /\ Kinds(q) = {"cabinets"} \union Kinds(r)
         /\ \A c : Subscribes(q, c) <=> Subscribes(r, c)
<1>1. Record("cabinets", s) \in Steps /\ Sound(r)
  BY Records DEF Fresh
<1>2. Leads("cabinets", s, r)
  BY DEF OfSetup, Leads, Fresh, Follows, Inner
<1>3. Led(q, "cabinets", s, r)
  BY <1>1, <1>2, InFront
<1>4. /\ Sound(q) /\ q # <<>> /\ q[1].do = "cabinets" /\ Kinds(q) = {"cabinets"} \union Kinds(r)
      /\ \A c : Subscribes(q, c) <=> Subscribes(r, c)
  BY <1>3 DEF Led
<1> QED
  BY <1>4 DEF Fresh

(* A list that goes on with what is left of r.                             *)
More(q, r) ==
  /\ Fresh(q) /\ "serve" \notin Kinds(q) /\ Kinds(r) \subseteq Kinds(q)
  /\ \A c : Subscribes(r, c) => Subscribes(q, c)

(* One cabinet of a setup.                                                 *)
LEMMA CabinetFirst ==
  ASSUME NEW r, Fresh(r), "serve" \notin Kinds(r), "finish" \in Kinds(r),
         NEW c \in Cabinets, NEW s \in SUBSET Cabinets
  PROVE  More((CabinetSteps(c) \o Do("cabinets", s)) \o r, r)
<1> DEFINE a == Do("save", c)
           b == Do("lockers", c)
           u == Do("subscribe", {c})
           h == HeartbeatStart
           k == Do("cabinets", s)
           v == k \o r
           w == h \o v
           x == u \o w
           y == b \o x
           z == a \o y
           q == (CabinetSteps(c) \o Do("cabinets", s)) \o r
<1>1. /\ a \in Seq(Steps) /\ b \in Seq(Steps) /\ u \in Seq(Steps) /\ k \in Seq(Steps)
      /\ r \in Seq(Steps) /\ {c} \in SUBSET Cabinets
      /\ Record("save", c) \in Steps /\ Record("lockers", c) \in Steps
  BY Records DEF Fresh, Sound
<1>2. h \in Seq(Steps)
  <2>1. /\ Do("hb_check", None) \in Seq(Steps) /\ Do("hb_set", None) \in Seq(Steps)
        /\ Do("hb_spawn", None) \in Seq(Steps)
    BY Records DEF Plain
  <2> QED
    BY <2>1, ConcatProperties DEF HeartbeatStart
<1>3. q = z
  <2>1. q = ((((a \o b) \o u) \o h) \o k) \o r
    BY DEF CabinetSteps
  <2> HIDE DEF a, b, u, h, k, q
  <2>2. AssociateSix(a, b, u, h, k, r)
    BY <1>1, <1>2, SixParts, Zenon
  <2> QED
    BY <2>1, <2>2, Zenon DEF AssociateSix
<1> HIDE DEF q
<1>4. /\ Fresh(v) /\ Kinds(v) = {"cabinets"} \union Kinds(r)
      /\ \A d : Subscribes(v, d) <=> Subscribes(r, d)
  BY CabinetsFirst
<1> HIDE DEF v
<1>5. /\ Fresh(w) /\ Kinds(w) = {"hb_check", "hb_set", "hb_spawn"} \union Kinds(v)
      /\ \A d : Subscribes(w, d) <=> Subscribes(v, d)
  BY <1>4, StartFirst
<1> HIDE DEF w
<1>6. /\ Fresh(x) /\ Kinds(x) = {"subscribe"} \union Kinds(w) /\ x # <<>> /\ x[1].do = "subscribe"
      /\ \A d : Subscribes(x, d) <=> d \in {c} \/ Subscribes(w, d)
  <2>1. Subscribing(x, {c}, w)
    BY <1>1, <1>5, SubscribeFirst
  <2> HIDE DEF x
  <2> QED
    BY <2>1 DEF Subscribing
<1> HIDE DEF x
<1>7. "serve" \notin Kinds(x) /\ "finish" \in Kinds(x) /\ "hb_check" \in Kinds(x) /\ Subscribes(x, c) /\ Sound(x)
  BY <1>4, <1>5, <1>6 DEF Fresh
<1>8. /\ Sound(y) /\ Kinds(y) = {"lockers"} \union Kinds(x) /\ y # <<>> /\ y[1].do = "lockers"
      /\ \A d : Subscribes(y, d) <=> Subscribes(x, d)
  <2>1. Leads("lockers", c, x)
    BY <1>6, <1>7 DEF OfSetup, Leads, Follows
  <2>2. Led(y, "lockers", c, x)
    BY <1>1, <1>7, <2>1, InFront
  <2> HIDE DEF y
  <2> QED
    BY <2>2 DEF Led
<1> HIDE DEF y
<1>9. /\ Sound(z) /\ Kinds(z) = {"save"} \union Kinds(y) /\ z # <<>> /\ z[1].do = "save"
      /\ \A d : Subscribes(z, d) <=> Subscribes(y, d)
  <2>1. Leads("save", c, y)
    BY <1>7, <1>8 DEF OfSetup, Leads, Follows
  <2>2. Led(z, "save", c, y)
    BY <1>1, <1>8, <2>1, InFront
  <2> HIDE DEF z
  <2> QED
    BY <2>2 DEF Led
<1>10. Fresh(q) /\ "serve" \notin Kinds(q) /\ Kinds(r) \subseteq Kinds(q)
  BY <1>3, <1>4, <1>5, <1>6, <1>7, <1>8, <1>9 DEF Fresh
<1>11. \A d : Subscribes(r, d) => Subscribes(q, d)
  BY <1>3, <1>4, <1>5, <1>6, <1>8, <1>9
<1>12. More(q, r)
  BY <1>10, <1>11 DEF More
<1> QED
  BY <1>12 DEF q

(* A list of one step.                                                     *)
LEMMA OneStep ==
  ASSUME NEW w \in Plain, w \notin Inner
  PROVE  Led(Do(w, None), w, None, <<>>)
<1>1. Leads(w, None, <<>>) /\ Record(w, None) \in Steps /\ Sound(<<>>)
  BY Empty, Records DEF OfSetup, Leads, Plain
<1>2. Led(Do(w, None) \o <<>>, w, None, <<>>)
  BY <1>1, InFront
<1>3. Do(w, None) \o <<>> = Do(w, None)
  BY Records, ConcatEmptySeq
<1> QED
  BY <1>2, <1>3

(* The heartbeat is stopped.                                               *)
LEMMA StopFirst ==
  ASSUME NEW r, Fresh(r), "serve" \notin Kinds(r), NEW q, q = HeartbeatStop \o r
  PROVE  /\ Sound(q) /\ q # <<>> /\ q[1].do = "hb_stop"
         /\ Kinds(q) = {"hb_stop", "hb_thread"} \union Kinds(r)
<1> DEFINE a == Do("hb_stop", None)
           b == Do("hb_thread", None)
           y == b \o r
           x == a \o y
<1>1. a \in Seq(Steps) /\ b \in Seq(Steps) /\ r \in Seq(Steps) /\ Sound(r)
  BY Records DEF Plain, Fresh, Sound
<1>2. q = x
  <2>1. q = (a \o b) \o r
    BY DEF HeartbeatStop
  <2> HIDE DEF a, b
  <2>2. Associate(a, b, r)
    BY <1>1, Associates, Zenon
  <2> QED
    BY <2>1, <2>2, Zenon DEF Associate
<1>3. Record("hb_stop", None) \in Steps /\ Record("hb_thread", None) \in Steps
  BY Records DEF Plain
<1>4. Led(y, "hb_thread", None, r)
  <2>1. Leads("hb_thread", None, r)
    BY DEF OfSetup, Leads, Fresh, Follows, Inner
  <2> QED
    BY <1>1, <1>3, <2>1, InFront
<1> HIDE DEF y
<1>5. Led(x, "hb_stop", None, y)
  <2>1. Leads("hb_stop", None, y) /\ Sound(y)
    BY <1>4 DEF OfSetup, Led, Leads, Follows
  <2> QED
    BY <1>3, <2>1, InFront
<1> HIDE DEF x
<1> QED
  BY <1>2, <1>4, <1>5 DEF Led

LEMMA MainList ==
  /\ Sound(MainSteps) /\ MainSteps # <<>> /\ MainSteps[1].do = "connect"
  /\ {"ready", "serve"} \subseteq Kinds(MainSteps)
<1> DEFINE a == Do("connect", None)
           b == Do("ready", None)
           s == Do("serve", None)
           h == HeartbeatStop
           m == Do("mqtt_stop", None)
           w == h \o m
           x == s \o w
           y == b \o x
           z == a \o y
<1>1. a \in Seq(Steps) /\ b \in Seq(Steps) /\ s \in Seq(Steps) /\ m \in Seq(Steps)
  BY Records DEF Plain
<1>2. h \in Seq(Steps)
  <2>1. Do("hb_stop", None) \in Seq(Steps) /\ Do("hb_thread", None) \in Seq(Steps)
    BY Records DEF Plain
  <2> QED
    BY <2>1, ConcatProperties DEF HeartbeatStop
<1>3. MainSteps = z
  <2>1. MainSteps = (((a \o b) \o s) \o h) \o m
    BY DEF MainSteps
  <2> HIDE DEF a, b, s, h, m
  <2>2. w \in Seq(Steps) /\ (a \o b) \o s \in Seq(Steps)
    BY <1>1, <1>2, FourParts, Joins, Zenon
  <2>3. AssociateFour(a, b, s, w) /\ Associate((a \o b) \o s, h, m)
    BY <1>1, <1>2, <2>2, FourParts, Associates, Zenon
  <2> QED
    BY <2>1, <2>3, Zenon DEF Associate, AssociateFour
<1>4. Fresh(m) /\ Kinds(m) = {"mqtt_stop"}
  <2>1. Led(m, "mqtt_stop", None, <<>>)
    BY OneStep DEF Plain, Inner
  <2> HIDE DEF m
  <2> QED
    BY <2>1, Empty DEF Led, Fresh
<1> HIDE DEF m
<1>5. /\ Sound(w) /\ w # <<>> /\ w[1].do = "hb_stop"
      /\ Kinds(w) = {"hb_stop", "hb_thread", "mqtt_stop"}
  BY <1>4, StopFirst
<1> HIDE DEF w
<1>6. Record("connect", None) \in Steps /\ Record("ready", None) \in Steps /\ Record("serve", None) \in Steps
  BY Records DEF Plain
<1>7. Led(x, "serve", None, w)
  <2>1. Leads("serve", None, w)
    BY <1>5 DEF OfSetup, Leads, Follows, AfterServe
  <2> QED
    BY <1>5, <1>6, <2>1, InFront
<1> HIDE DEF x
<1>8. Led(y, "ready", None, x)
  <2>1. Leads("ready", None, x) /\ Sound(x)
    BY <1>7 DEF OfSetup, Led, Leads, Follows, BeforeServe
  <2> QED
    BY <1>6, <2>1, InFront
<1> HIDE DEF y
<1>9. Led(z, "connect", None, y)
  <2>1. Leads("connect", None, y) /\ Sound(y)
    BY <1>8 DEF OfSetup, Led, Leads, Follows, BeforeServe
  <2> QED
    BY <1>6, <2>1, InFront
<1> HIDE DEF z
<1> QED
  BY <1>3, <1>7, <1>8, <1>9 DEF Led

(* The list of a job that begins.                                          *)
Job(q) == Sound(q) /\ q # <<>> /\ q[1].do \in {"start", "forget"} /\ "serve" \notin Kinds(q)

LEMMA ClearLists == Job(ClearSteps) /\ Job(ApiClearSteps)
<1>1. Record("forget", None) \in Steps /\ Fresh(<<>>) /\ HeartbeatStop \in Seq(Steps)
  <2>1. Do("hb_stop", None) \in Seq(Steps) /\ Do("hb_thread", None) \in Seq(Steps)
    BY Records DEF Plain
  <2> QED
    BY <2>1, Records, Empty, ConcatProperties DEF Plain, Fresh, HeartbeatStop
<1>2. Job(ApiClearSteps)
  <2>1. Led(Do("forget", None), "forget", None, <<>>)
    BY OneStep DEF Plain, Inner
  <2> QED
    BY <2>1, Empty DEF Led, Job, ApiClearSteps
<1>3. Job(ClearSteps)
  <2> DEFINE h == HeartbeatStop
  <2>1. Sound(h) /\ h # <<>> /\ h[1].do = "hb_stop" /\ Kinds(h) = {"hb_stop", "hb_thread"}
    <3>1. HeartbeatStop \o <<>> = HeartbeatStop
      BY <1>1, ConcatEmptySeq
    <3> QED
      BY <1>1, <3>1, Empty, StopFirst
  <2> HIDE DEF h
  <2>2. Leads("forget", None, h)
    BY <2>1 DEF OfSetup, Leads, Follows
  <2>3. Led(Do("forget", None) \o h, "forget", None, h)
    BY <1>1, <2>1, <2>2, InFront
  <2> QED
    BY <2>1, <2>3 DEF Led, Job, ClearSteps, h
<1> QED
  BY <1>2, <1>3

LEMMA SetupList ==
  ASSUME NEW bulk \in BOOLEAN, NEW cs \in SUBSET Cabinets
  PROVE  Job(SetupSteps(bulk, cs))
<1> DEFINE a == Do("start", None)
           f == IF bulk THEN Do("forget", None) ELSE <<>>
           l == Do("locate", None)
           k == Do("cabinets", cs)
           e == Do("finish", None)
           w == k \o e
           x == l \o w
           y == f \o x
           z == a \o y
<1>1. /\ a \in Seq(Steps) /\ f \in Seq(Steps) /\ l \in Seq(Steps) /\ k \in Seq(Steps) /\ e \in Seq(Steps)
      /\ Record("start", None) \in Steps /\ Record("forget", None) \in Steps
      /\ Record("locate", None) \in Steps
  BY Records, EmptySeq DEF Plain
<1>2. SetupSteps(bulk, cs) = z
  <2>1. SetupSteps(bulk, cs) = (((a \o f) \o l) \o k) \o e
    BY DEF SetupSteps
  <2> HIDE DEF a, f, l, k, e
  <2>2. w \in Seq(Steps) /\ (a \o f) \o l \in Seq(Steps)
    BY <1>1, FourParts, Joins, Zenon
  <2>3. AssociateFour(a, f, l, w) /\ Associate((a \o f) \o l, k, e)
    BY <1>1, <2>2, FourParts, Associates, Zenon
  <2> QED
    BY <2>1, <2>3, Zenon DEF Associate, AssociateFour
<1>3. Fresh(e) /\ Kinds(e) = {"finish"}
  <2>1. Led(e, "finish", None, <<>>)
    BY OneStep DEF Plain, Inner
  <2> HIDE DEF e
  <2> QED
    BY <2>1, Empty DEF Led, Fresh
<1> HIDE DEF e
<1>4. /\ Fresh(w) /\ w # <<>> /\ w[1].do = "cabinets" /\ Kinds(w) = {"cabinets", "finish"}
  BY <1>3, CabinetsFirst
<1> HIDE DEF w
<1>5. Led(x, "locate", None, w)
  <2>1. Leads("locate", None, w) /\ Sound(w)
    BY <1>4 DEF OfSetup, Leads, Follows, Fresh
  <2> QED
    BY <1>1, <2>1, InFront
<1> HIDE DEF x
<1>6. /\ Sound(y) /\ y # <<>> /\ y[1].do \in {"forget", "locate"} /\ "serve" \notin Kinds(y)
  <2>1. Sound(x) /\ x # <<>> /\ x[1].do = "locate" /\ "serve" \notin Kinds(x) /\ x \in Seq(Steps)
    BY <1>4, <1>5 DEF Led, Sound
  <2>2. CASE bulk
    <3>1. Leads("forget", None, x)
      BY <2>1 DEF OfSetup, Leads, Follows
    <3>2. Led(Do("forget", None) \o x, "forget", None, x)
      BY <1>1, <2>1, <3>1, InFront
    <3>3. y = Do("forget", None) \o x
      BY <2>2
    <3> HIDE DEF y
    <3> QED
      BY <2>1, <3>2, <3>3 DEF Led
  <2>3. CASE ~bulk
    <3>1. y = x
      BY <2>1, <2>3, ConcatEmptySeq
    <3> HIDE DEF y
    <3> QED
      BY <2>1, <3>1
  <2> QED
    BY <2>2, <2>3
<1> HIDE DEF y
<1>7. Led(z, "start", None, y)
  <2>1. Leads("start", None, y)
    BY <1>6 DEF OfSetup, Leads, Follows
  <2> QED
    BY <1>1, <1>6, <2>1, InFront
<1> HIDE DEF z
<1> QED
  BY <1>2, <1>6, <1>7 DEF Led, Job

--------------------------------------------------------------------------------
(* The lists of the threads, and the types *)

Lists ==
  /\ todo \in [Threads -> Seq(Steps)]
  /\ \A t \in Threads : Sound(todo[t])
  /\ \A t \in Jobs : "serve" \notin Kinds(todo[t])

Ahead(t) == IF Idle(t) THEN "nothing" ELSE Head(todo[t]).do

(* What a thread has to do first.                                          *)
LEMMA AtAhead ==
  ASSUME Lists, NEW t \in Threads, NEW what, At(t, what)
  PROVE  /\ Up /\ ~Idle(t) /\ todo[t] # <<>> /\ todo[t] \in Seq(Steps) /\ Sound(todo[t])
         /\ Head(todo[t]).do = what /\ Head(todo[t]).x = On(t) /\ Ahead(t) = what
         /\ Leaves(todo[t], Tail(todo[t])) /\ Tail(todo[t]) \in Seq(Steps)
         /\ what \in {"save", "lockers"} => On(t) \in Cabinets
         /\ what \in {"subscribe", "cabinets"} => On(t) \in SUBSET Cabinets
         /\ what = "join" => On(t) \in Nat
<1>1. ~Idle(t) /\ Up /\ Head(todo[t]).do = what /\ Head(todo[t]).x = On(t) /\ Ahead(t) = what
  BY DEF At, On, Ahead
<1>2. todo[t] # <<>> /\ todo[t] \in Seq(Steps) /\ Sound(todo[t])
  BY <1>1 DEF Idle, Lists
<1>3. Leaves(todo[t], Tail(todo[t]))
  BY <1>2, Tails
<1>4. Tail(todo[t]) \in Seq(Steps) /\ Head(todo[t]) \in Steps
  BY <1>2
<1> DEFINE h == Head(todo[t])
<1> HIDE DEF h
<1>5. h \in Steps => /\ h.do \in {"save", "lockers"} => h.x \in Cabinets
                     /\ h.do \in {"subscribe", "cabinets"} => h.x \in SUBSET Cabinets
                     /\ h.do = "join" => h.x \in Nat
  BY DEF Steps, Plain
<1> QED
  BY <1>1, <1>2, <1>3, <1>4, <1>5 DEF h

(* The list of a thread becomes q.                                         *)
LEMMA ListBecomes ==
  ASSUME Lists, NEW t \in Threads, NEW q, todo' = [todo EXCEPT ![t] = q], Sound(q),
         t \in Jobs => "serve" \notin Kinds(q)
  PROVE  Lists' /\ todo'[t] = q /\ \A u \in Threads \ {t} : todo'[u] = todo[u]
<1>1. q \in Seq(Steps)
  BY DEF Sound
<1>2. /\ todo' \in [Threads -> Seq(Steps)] /\ todo'[t] = q
      /\ \A u \in Threads \ {t} : todo'[u] = todo[u]
  BY <1>1 DEF Lists
<1> QED
  BY <1>2 DEF Lists, Threads

(* A step of no other consequence for the list.                            *)
LEMMA Moves ==
  ASSUME Lists, NEW t \in Threads, NEW what, At(t, what), Step(t)
  PROVE  /\ Lists' /\ todo'[t] = Tail(todo[t])
         /\ \A u \in Threads \ {t} : todo'[u] = todo[u]
<1>1. /\ todo[t] \in Seq(Steps) /\ todo[t] # <<>> /\ Leaves(todo[t], Tail(todo[t]))
      /\ Tail(todo[t]) \in Seq(Steps)
  BY AtAhead
<1>2. todo' = [todo EXCEPT ![t] = Tail(todo[t])]
  <2>1. <<>> \o Tail(todo[t]) = Tail(todo[t])
    BY <1>1, ConcatEmptySeq
  <2> QED
    BY <2>1 DEF Step, Continue
<1> DEFINE q == Tail(todo[t])
<1> HIDE DEF q
<1>3. Sound(q) /\ Kinds(q) \subseteq Kinds(todo[t])
  BY <1>1 DEF Leaves, q
<1> QED
  BY <1>2, <1>3, ListBecomes DEF Lists, q

LEMMA Begins ==
  ASSUME Lists, NEW t \in Jobs, Setup(t) \/ Clear(t) \/ ApiClear(t)
  PROVE  /\ Lists' /\ Job(todo'[t]) /\ Up /\ Idle(t)
         /\ \A u \in Threads \ {t} : todo'[u] = todo[u]
<1>1. PICK q : Begin(t, q) /\ Job(q)
  <2>1. CASE Setup(t)
    <3>1. PICK bulk \in BOOLEAN, cs \in SUBSET Cabinets : Begin(t, SetupSteps(bulk, cs))
      BY <2>1 DEF Setup
    <3> QED
      BY <3>1, SetupList
  <2>2. CASE Clear(t)
    BY <2>2, ClearLists DEF Clear
  <2>3. CASE ApiClear(t)
    BY <2>3, ClearLists DEF ApiClear
  <2> QED
    BY <2>1, <2>2, <2>3
<1>2. todo' = [todo EXCEPT ![t] = q] /\ Up /\ Idle(t) /\ t \in Threads
  BY <1>1 DEF Begin, Threads
<1> QED
  BY <1>1, <1>2, ListBecomes DEF Job

(* The next cabinet of a list is subscribed to.                            *)
LEMMA SubscribeList ==
  ASSUME Lists, NEW t \in Threads, Subscribe(t)
  PROVE  /\ Lists' /\ \A u \in Threads \ {t} : todo'[u] = todo[u]
         /\ Kinds(todo[t]) \subseteq Kinds(todo'[t]) \union {"subscribe"}
         /\ Kinds(todo'[t]) \subseteq Kinds(todo[t])
         /\ Fresh(todo'[t])
         /\ \A c : Subscribes(todo[t], c) => Subscribes(todo'[t], c) \/ (c \in subs' \/ ~HasSocket)
<1> DEFINE q == todo[t]
           r == Tail(q)
<1>1. /\ At(t, "subscribe") /\ Leaves(q, r) /\ Head(q).do = "subscribe" /\ Head(q).x = On(t)
      /\ On(t) \in SUBSET Cabinets
  <2>1. At(t, "subscribe")
    BY DEF Subscribe
  <2> QED
    BY <2>1, AtAhead
<1>2. Fresh(r) /\ Kinds(q) = {"subscribe"} \union Kinds(r)
      /\ \A c : Subscribes(q, c) => c \in On(t) \/ Subscribes(r, c)
  BY <1>1 DEF Leaves, Fresh, Follows
<1>3. CASE On(t) = {}
  <2>1. Step(t)
    BY <1>3 DEF Subscribe
  <2>2. /\ Lists' /\ todo'[t] = r /\ \A u \in Threads \ {t} : todo'[u] = todo[u]
    BY <1>1, <2>1, Moves
  <2> HIDE DEF q, r
  <2>3. /\ Kinds(q) \subseteq Kinds(todo'[t]) \union {"subscribe"} /\ Kinds(todo'[t]) \subseteq Kinds(q)
        /\ Fresh(todo'[t]) /\ \A c : Subscribes(q, c) => Subscribes(todo'[t], c)
    BY <1>2, <1>3, <2>2
  <2> QED
    BY <2>2, <2>3 DEF q
<1>4. CASE On(t) # {}
  <2>1. PICK c \in On(t) : /\ subs' = IF HasSocket THEN subs \union {c} ELSE subs
                           /\ Continue(t, Do("subscribe", On(t) \ {c}))
    BY <1>4 DEF Subscribe
  <2> DEFINE s == On(t) \ {c}
             p == Do("subscribe", s) \o r
  <2>2. todo' = [todo EXCEPT ![t] = p] /\ s \in SUBSET Cabinets
    BY <1>1, <2>1 DEF Continue
  <2> HIDE DEF r
  <2>3. /\ Fresh(p) /\ Kinds(p) = {"subscribe"} \union Kinds(r)
        /\ \A d : Subscribes(p, d) <=> d \in s \/ Subscribes(r, d)
    <3>1. s \in SUBSET Cabinets
      BY <2>2
    <3> HIDE DEF s
    <3>2. Subscribing(p, s, r)
      BY <1>2, <3>1, SubscribeFirst
    <3> HIDE DEF p
    <3> QED
      BY <3>2 DEF Subscribing
  <2>4. \A d : Subscribes(q, d) => Subscribes(p, d) \/ (d \in subs' \/ ~HasSocket)
    BY <1>2, <2>1, <2>3
  <2> HIDE DEF p
  <2>5. t \in Jobs => "serve" \notin Kinds(p)
    BY <1>2, <2>3 DEF Lists
  <2>6. Lists' /\ todo'[t] = p /\ \A u \in Threads \ {t} : todo'[u] = todo[u]
    BY <2>2, <2>3, <2>5, ListBecomes DEF Fresh
  <2> QED
    BY <1>2, <2>3, <2>4, <2>6
<1> QED
  BY <1>3, <1>4

LEMMA ReadyList ==
  ASSUME Lists, Ready, cabs \subseteq Cabinets, ~located => cabs = {}
  PROVE  /\ Lists' /\ \A u \in Jobs : todo'[u] = todo[u]
         /\ Kinds(todo[Main]) \subseteq Kinds(todo'[Main]) \union {"ready"}
         /\ Fresh(todo'[Main])
         /\ \A c : Subscribes(todo[Main], c) \/ c \in cabs => Subscribes(todo'[Main], c)
         /\ Configured => "hb_check" \in Kinds(todo'[Main])
         /\ "serve" \in Kinds(todo'[Main]) => "serve" \in Kinds(todo[Main])
<1> DEFINE q == todo[Main]
           r == Tail(q)
<1>0. Main \in Threads /\ Main \notin Jobs /\ Jobs \subseteq Threads \ {Main}
  BY MainAssumption DEF Threads
<1>1. At(Main, "ready") /\ Leaves(q, r) /\ Head(q).do = "ready"
  <2>1. At(Main, "ready")
    BY DEF Ready
  <2> QED
    BY <1>0, <2>1, AtAhead
<1>2. Fresh(r) /\ Kinds(q) = {"ready"} \union Kinds(r) /\ \A c : Subscribes(q, c) => Subscribes(r, c)
  BY <1>1 DEF Leaves, Fresh, Follows
<1>3. CASE ~Configured
  <2>1. Step(Main) /\ cabs = {}
    BY <1>3 DEF Ready, Configured
  <2>2. /\ Lists' /\ todo'[Main] = r /\ \A u \in Threads \ {Main} : todo'[u] = todo[u]
    BY <1>0, <1>1, <2>1, Moves
  <2> HIDE DEF r
  <2> QED
    BY <1>0, <1>2, <1>3, <2>1, <2>2
<1>4. CASE Configured
  <2> DEFINE h == HeartbeatStart \o r
             p == Do("subscribe", cabs) \o h
  <2>1. todo' = [todo EXCEPT ![Main] = (Do("subscribe", cabs) \o HeartbeatStart) \o r]
    BY <1>4 DEF Ready, Continue
  <2> HIDE DEF r
  <2>2. (Do("subscribe", cabs) \o HeartbeatStart) \o r = p
    <3>1. r \in Seq(Steps)
      BY <1>2 DEF Fresh, Sound
    <3>2. Do("subscribe", cabs) \in Seq(Steps)
      BY Records
    <3>3. HeartbeatStart \in Seq(Steps)
      <4>1. /\ Do("hb_check", None) \in Seq(Steps) /\ Do("hb_set", None) \in Seq(Steps)
            /\ Do("hb_spawn", None) \in Seq(Steps)
        BY Records DEF Plain
      <4> QED
        BY <4>1, ConcatProperties DEF HeartbeatStart
    <3>4. Associate(Do("subscribe", cabs), HeartbeatStart, r)
      BY <3>1, <3>2, <3>3, Associates, Zenon
    <3> QED
      BY <3>4 DEF Associate
  <2>3. /\ Fresh(h) /\ Kinds(h) = {"hb_check", "hb_set", "hb_spawn"} \union Kinds(r)
        /\ \A c : Subscribes(h, c) <=> Subscribes(r, c)
    BY <1>2, StartFirst
  <2> HIDE DEF h
  <2>4. /\ Fresh(p) /\ Kinds(p) = {"subscribe"} \union Kinds(h)
        /\ \A c : Subscribes(p, c) <=> c \in cabs \/ Subscribes(h, c)
    <3>1. Subscribing(p, cabs, h)
      BY <2>3, SubscribeFirst
    <3> HIDE DEF p
    <3> QED
      BY <3>1 DEF Subscribing
  <2> HIDE DEF p
  <2>5. Lists' /\ todo'[Main] = p /\ \A u \in Threads \ {Main} : todo'[u] = todo[u]
    BY <1>0, <2>1, <2>2, <2>4, ListBecomes DEF Fresh
  <2> QED
    BY <1>0, <1>2, <2>3, <2>4, <2>5
<1> QED
  BY <1>3, <1>4

(* Thread t has taken its first step, of kind w, and no other thread has.  *)
Goes(t, w) ==
  /\ Lists' /\ \A u \in Threads \ {t} : todo'[u] = todo[u]
  /\ Kinds(todo[t]) = {w} \union Kinds(todo'[t])
  /\ IF Idle(t)' THEN w \notin Inner ELSE Follows(w, Ahead(t)')
  /\ \A c : Subscribes(todo[t], c) => (w = "subscribe" /\ c \in On(t)) \/ Subscribes(todo'[t], c)
  /\ w = "save" => Subscribes(todo'[t], On(t)) /\ "hb_check" \in Kinds(todo'[t])
  /\ w = "serve" => Kinds(todo'[t]) \subseteq AfterServe
  /\ "serve" \in Kinds(todo'[t]) => w \in BeforeServe

LEMMA Going ==
  ASSUME Lists, NEW t \in Threads, NEW w, At(t, w), Step(t)
  PROVE  Goes(t, w)
<1> DEFINE q == todo[t]
           r == Tail(todo[t])
<1>1. Leaves(q, r) /\ Head(q).do = w /\ Head(q).x = On(t)
  BY AtAhead
<1>2. Lists' /\ todo'[t] = r /\ \A u \in Threads \ {t} : todo'[u] = todo[u]
  BY Moves
<1>3. Idle(t)' <=> r = <<>>
  BY <1>2 DEF Idle
<1>4. r # <<>> => Ahead(t)' = r[1].do
  BY <1>1, <1>2, <1>3 DEF Ahead, Leaves
<1> HIDE DEF q, r
<1>5. /\ Kinds(q) = {w} \union Kinds(r)
      /\ IF r = <<>> THEN w \notin Inner ELSE Follows(w, r[1].do)
      /\ \A c : Subscribes(q, c) => (w = "subscribe" /\ c \in On(t)) \/ Subscribes(r, c)
      /\ w = "save" => Subscribes(r, On(t)) /\ "hb_check" \in Kinds(r)
      /\ w = "serve" => Kinds(r) \subseteq AfterServe
      /\ "serve" \in Kinds(r) => w \in BeforeServe
  BY <1>1 DEF Leaves
<1> QED
  BY <1>2, <1>3, <1>4, <1>5 DEF Goes, q

(* The thread's list has become another one that forgets no subscription   *)
(* and is not inside a start or a stop.                                    *)
Turns(t, w) ==
  /\ Lists' /\ \A u \in Threads \ {t} : todo'[u] = todo[u]
  /\ Fresh(todo'[t])
  /\ Kinds(todo[t]) \subseteq {w} \union Kinds(todo'[t])
  /\ "serve" \in Kinds(todo'[t]) => "serve" \in Kinds(todo[t])
  /\ \A c : Subscribes(todo[t], c) => Subscribes(todo'[t], c)

(* The cabinet is set up, or left out, and then the rest of the list.      *)
LEMMA CabinetList ==
  ASSUME Lists, NEW t \in Threads, NextCabinet(t)
  PROVE  Turns(t, "cabinets")
<1> DEFINE q == todo[t]
           r == Tail(q)
<1>1. /\ At(t, "cabinets") /\ Leaves(q, r) /\ Head(q).do = "cabinets" /\ Head(q).x = On(t)
      /\ On(t) \in SUBSET Cabinets
  <2>1. At(t, "cabinets")
    BY DEF NextCabinet
  <2> QED
    BY <2>1, AtAhead
<1>2. /\ Fresh(r) /\ Kinds(q) = {"cabinets"} \union Kinds(r) /\ "serve" \notin Kinds(r)
      /\ "finish" \in Kinds(r) /\ \A c : Subscribes(q, c) => Subscribes(r, c)
  BY <1>1 DEF Leaves, Fresh, Follows, BeforeServe, OfSetup
<1>3. PICK p : /\ todo' = [todo EXCEPT ![t] = p]
               /\ Fresh(p) /\ "serve" \notin Kinds(p) /\ Kinds(r) \subseteq Kinds(p)
               /\ \A c : Subscribes(r, c) => Subscribes(p, c)
  <2>1. CASE On(t) = {}
    <3>1. todo' = [todo EXCEPT ![t] = <<>> \o r]
      BY <2>1 DEF NextCabinet, Step, Continue
    <3>2. <<>> \o r = r
      <4>1. r \in Seq(Steps)
        BY <1>2 DEF Fresh, Sound
      <4> QED
        BY <4>1, ConcatEmptySeq
    <3> HIDE DEF r
    <3> QED
      BY <1>2, <3>1, <3>2
  <2>2. CASE On(t) # {}
    <3>1. PICK c \in On(t), ok \in BOOLEAN :
            Continue(t, (IF ok THEN CabinetSteps(c) ELSE <<>>) \o Do("cabinets", On(t) \ {c}))
      BY <2>2 DEF NextCabinet
    <3> DEFINE s == On(t) \ {c}
    <3>2. c \in Cabinets /\ s \in SUBSET Cabinets
      BY <1>1
    <3>3. CASE ok
      <4>1. todo' = [todo EXCEPT ![t] = (CabinetSteps(c) \o Do("cabinets", s)) \o r]
        BY <3>1, <3>3 DEF Continue
      <4> DEFINE p == (CabinetSteps(c) \o Do("cabinets", s)) \o r
      <4> HIDE DEF r, s
      <4>2. More(p, r)
        BY <1>2, <3>2, CabinetFirst
      <4>3. todo' = [todo EXCEPT ![t] = p]
        BY <4>1
      <4> HIDE DEF p
      <4> QED
        BY <4>2, <4>3 DEF More
    <3>4. CASE ~ok
      <4>1. todo' = [todo EXCEPT ![t] = (<<>> \o Do("cabinets", s)) \o r]
        BY <3>1, <3>4 DEF Continue
      <4>2. <<>> \o Do("cabinets", s) = Do("cabinets", s)
        <5> HIDE DEF s
        <5>1. Do("cabinets", s) \in Seq(Steps)
          BY <3>2, Records
        <5> QED
          BY <5>1, ConcatEmptySeq
      <4> DEFINE p == Do("cabinets", s) \o r
      <4> HIDE DEF r, s
      <4>3. /\ Fresh(p) /\ Kinds(p) = {"cabinets"} \union Kinds(r)
            /\ \A d : Subscribes(p, d) <=> Subscribes(r, d)
        BY <1>2, <3>2, CabinetsFirst
      <4>4. todo' = [todo EXCEPT ![t] = p]
        BY <4>1, <4>2
      <4> HIDE DEF p
      <4> QED
        BY <1>2, <4>3, <4>4
    <3> QED
      BY <3>3, <3>4
  <2> QED
    BY <2>1, <2>2
<1> HIDE DEF r
<1>4. Lists' /\ todo'[t] = p /\ \A u \in Threads \ {t} : todo'[u] = todo[u]
  BY <1>3, ListBecomes DEF Fresh
<1> QED
  BY <1>2, <1>3, <1>4 DEF Turns

(* start returns, for it has nothing to do.                                *)
LEMMA ReturnList ==
  ASSUME Lists, NEW t \in Threads, At(t, "hb_check"), Return(t, 2)
  PROVE  /\ Lists' /\ \A u \in Threads \ {t} : todo'[u] = todo[u]
         /\ Fresh(todo'[t])
         /\ Kinds(todo[t]) = {"hb_check", "hb_set", "hb_spawn"} \union Kinds(todo'[t])
         /\ \A c : Subscribes(todo[t], c) => Subscribes(todo'[t], c)
<1> DEFINE r == SubSeq(todo[t], 4, Len(todo[t]))
<1>1. Sound(todo[t]) /\ todo[t] # <<>> /\ Head(todo[t]).do = "hb_check"
  BY AtAhead
<1>2. todo' = [todo EXCEPT ![t] = r]
  BY DEF Return
<1>3. /\ Fresh(r) /\ Kinds(todo[t]) = {"hb_check", "hb_set", "hb_spawn"} \union Kinds(r)
      /\ \A c : Subscribes(todo[t], c) => Subscribes(r, c)
  BY <1>1, Skipped
<1> HIDE DEF r
<1>4. t \in Jobs => "serve" \notin Kinds(r)
  BY <1>3 DEF Lists
<1>5. Lists' /\ todo'[t] = r /\ \A u \in Threads \ {t} : todo'[u] = todo[u]
  BY <1>2, <1>3, <1>4, ListBecomes DEF Fresh
<1> QED
  BY <1>3, <1>5

(* A setup fails: its last step is left.                                   *)
LEMMA AbortList ==
  ASSUME Lists, NEW t \in Threads, At(t, "lockers"), Abort(t)
  PROVE  /\ Lists' /\ \A u \in Threads \ {t} : todo'[u] = todo[u]
         /\ Kinds(todo'[t]) \subseteq Kinds(todo[t])
         /\ Ahead(t)' = "finish"
<1> DEFINE q == todo[t]
           r == <<Last(q)>>
<1>1. Sound(q) /\ q # <<>> /\ Kinds(q) \intersect OfSetup # {}
  <2>1. Leaves(q, Tail(q)) /\ Head(q).do = "lockers" /\ q # <<>> /\ Sound(q)
    BY AtAhead
  <2> HIDE DEF q
  <2> QED
    BY <2>1 DEF Leaves, OfSetup
<1> HIDE DEF q
<1>2. Sound(r) /\ Kinds(r) \subseteq Kinds(q) /\ Last(q).do = "finish"
  BY <1>1, Lasts, FinishLast
<1>3. r # <<>> /\ Head(r).do = "finish"
  BY <1>2
<1>4. todo' = [todo EXCEPT ![t] = r]
  BY DEF Abort, q
<1> HIDE DEF r
<1>5. t \in Jobs => "serve" \notin Kinds(r)
  BY <1>2 DEF Lists, q
<1>6. Lists' /\ todo'[t] = r /\ \A u \in Threads \ {t} : todo'[u] = todo[u]
  BY <1>2, <1>4, <1>5, ListBecomes
<1> QED
  BY <1>2, <1>3, <1>6 DEF Ahead, Idle, q

(* The heartbeat's thread is waited for, if it lives, and then the rest.   *)
Stops(t) ==
  /\ Lists' /\ \A u \in Threads \ {t} : todo'[u] = todo[u]
  /\ Kinds(todo[t]) \subseteq {"hb_thread"} \union Kinds(todo'[t])
  /\ "serve" \notin Kinds(todo'[t])
  /\ \A c : Subscribes(todo[t], c) => Subscribes(todo'[t], c)
  /\ IF latest \in Live THEN Ahead(t)' = "join" /\ On(t)' = latest
     ELSE Ahead(t)' \notin {"hb_set", "hb_spawn", "hb_stop", "hb_thread", "join"}

LEMMA StopList ==
  ASSUME Lists, latest \in Nat, NEW t \in Threads, StopThread(t)
  PROVE  Stops(t)
<1> DEFINE q == todo[t]
           r == Tail(q)
<1>1. At(t, "hb_thread") /\ Leaves(q, r) /\ Head(q).do = "hb_thread"
  <2>1. At(t, "hb_thread")
    BY DEF StopThread
  <2> QED
    BY <2>1, AtAhead
<1>2. /\ Fresh(r) /\ Kinds(q) = {"hb_thread"} \union Kinds(r) /\ "serve" \notin Kinds(r)
      /\ \A c : Subscribes(q, c) => Subscribes(r, c)
  BY <1>1 DEF Leaves, Fresh, Follows, BeforeServe
<1>3. CASE latest \notin Live
  <2>1. Step(t)
    BY <1>3 DEF StopThread, Step
  <2>2. Lists' /\ todo'[t] = r /\ \A u \in Threads \ {t} : todo'[u] = todo[u]
    BY <1>1, <2>1, Moves
  <2> HIDE DEF r
  <2>3. r # <<>> => Head(r) = r[1]
    BY <1>2, Nonempty DEF Fresh, Sound
  <2>4. Ahead(t)' \notin {"hb_set", "hb_spawn", "hb_stop", "hb_thread", "join"}
    BY <1>2, <2>2, <2>3 DEF Ahead, Idle, Fresh
  <2> QED
    BY <1>2, <1>3, <2>2, <2>4 DEF Stops
<1>4. CASE latest \in Live
  <2> DEFINE p == Do("join", latest) \o r
  <2>1. todo' = [todo EXCEPT ![t] = p]
    BY <1>4 DEF StopThread, Continue
  <2>2. Do("join", latest) = <<Record("join", latest)>>
    BY DEF Do, Record
  <2>3. Head(p) = Record("join", latest) /\ p # <<>>
    <3>1. r \in Seq(Steps) /\ p = <<Record("join", latest)>> \o r
      BY <1>2, <2>2 DEF Fresh, Sound
    <3> DEFINE a == Record("join", latest)
    <3>2. a \in Steps
      BY Records
    <3> HIDE DEF a, p, r
    <3> QED
      BY <3>1, <3>2 DEF a
  <2>4. Led(p, "join", latest, r)
    <3> HIDE DEF r
    <3>1. Leads("join", latest, r) /\ Record("join", latest) \in Steps /\ Sound(r)
      BY <1>2, Records DEF Leads, Fresh, Follows, Inner, OfSetup
    <3> QED
      BY <3>1, InFront
  <2> HIDE DEF p, r
  <2>5. Sound(p) /\ Kinds(p) = {"join"} \union Kinds(r) /\ \A c : Subscribes(p, c) <=> Subscribes(r, c)
    BY <2>4 DEF Led
  <2>6. Lists' /\ todo'[t] = p /\ \A u \in Threads \ {t} : todo'[u] = todo[u]
    BY <1>2, <2>1, <2>5, ListBecomes
  <2>7. Ahead(t)' = "join" /\ On(t)' = latest
    BY <2>3, <2>6 DEF Ahead, Idle, On, Record
  <2>8. /\ Kinds(q) \subseteq {"hb_thread"} \union Kinds(p) /\ "serve" \notin Kinds(p)
        /\ \A c : Subscribes(q, c) => Subscribes(p, c)
    BY <1>2, <2>5
  <2> QED
    BY <1>4, <2>6, <2>7, <2>8 DEF Stops
<1> QED
  BY <1>3, <1>4

--------------------------------------------------------------------------------
(* Types *)

Simple == latest = Len(loop) /\ (~located => cabs = {})
Typed == TypeOK /\ Simple /\ Lists

Loops == {"waiting", "publishing", "ended"}

(* A heartbeat thread changes what it is at.                               *)
LEMMA LoopTyped ==
  ASSUME Typed, NEW l \in DOMAIN loop, NEW v \in Loops, loop' = [loop EXCEPT ![l] = v]
  PROVE  /\ loop' \in Seq(Loops) /\ Len(loop') = Len(loop)
         /\ \A k \in DOMAIN loop : loop'[k] = IF k = l THEN v ELSE loop[k]
         /\ DOMAIN loop' = DOMAIN loop
BY DEF Typed, TypeOK, Loops

LEMMA TypeInit == Init => Typed
<1> SUFFICES ASSUME Init PROVE Typed
  OBVIOUS
<1>1. loop \in Seq(Loops) /\ Len(loop) = 0 /\ Live = {}
  BY DEF Init, Live
<1>2. TypeOK /\ Simple
  <2>1. /\ conn = "off" /\ subs = {} /\ located \in BOOLEAN /\ cabs \in SUBSET Cabinets
        /\ (~located => cabs = {}) /\ settingUp = FALSE /\ running = FALSE /\ latest = 0 /\ mishaps = {}
    BY DEF Init
  <2>2. latest \in 0..Len(loop)
    BY <1>1, <2>1
  <2> QED
    BY <1>1, <2>1, <2>2 DEF TypeOK, Simple, Loops
<1>3. Lists
  <2>1. <<>> \in Seq(Steps) /\ Sound(<<>>) /\ "serve" \notin Kinds(<<>>)
    BY Empty
  <2>2. MainSteps \in Seq(Steps) /\ Sound(MainSteps)
    BY MainList DEF Sound
  <2> QED
    BY <2>1, <2>2, MainAssumption DEF Init, Lists, Threads
<1> QED
  BY <1>2, <1>3 DEF Typed

(* The lists stay sound, whatever happens.                                 *)
LEMMA ListStep ==
  ASSUME Typed, [Next]_vars
  PROVE  Lists'
<1>0. Lists /\ Main \in Threads /\ Jobs \subseteq Threads /\ cabs \subseteq Cabinets /\ (~located => cabs = {})
  BY DEF Typed, TypeOK, Simple, Threads
<1>1. CASE UNCHANGED todo
  BY <1>0, <1>1 DEF Lists, Threads
<1>2. ASSUME NEW t \in Threads, NEW w, At(t, w), Step(t) PROVE Lists'
  BY <1>0, <1>2, Moves
<1>3. ASSUME NEW t \in Jobs, Setup(t) \/ Clear(t) \/ ApiClear(t) PROVE Lists'
  BY <1>0, <1>3, Begins
<1>4. ASSUME NEW t \in Threads, JobStep(t) PROVE Lists'
  <2>1. CASE Start(t) \/ Finish(t) \/ Forget(t) \/ Locate(t) \/ SaveCabinet(t)
    BY <1>2, <2>1 DEF Start, Finish, Forget, Locate, SaveCabinet
  <2>2. CASE NextCabinet(t)
    BY <1>0, <2>2, CabinetList DEF Turns
  <2>3. CASE SaveLockers(t)
    BY <1>0, <1>2, <2>3, AbortList DEF SaveLockers
  <2> QED
    BY <1>4, <2>1, <2>2, <2>3 DEF JobStep
<1>5. ASSUME NEW t \in Threads, HeartbeatStep(t) PROVE Lists'
  <2>1. CASE HeartbeatCheck(t)
    BY <1>0, <1>2, <2>1, ReturnList DEF HeartbeatCheck
  <2>2. CASE HeartbeatSet(t) \/ HeartbeatSpawn(t) \/ StopFlag(t) \/ Join(t) \/ JoinTimesOut(t)
    BY <1>2, <2>2 DEF HeartbeatSet, HeartbeatSpawn, StopFlag, Join, JoinTimesOut
  <2>3. CASE StopThread(t)
    BY <1>0, <2>3, StopList DEF Typed, TypeOK, Stops
  <2> QED
    BY <1>5, <2>1, <2>2, <2>3 DEF HeartbeatStep
<1>6. ASSUME NEW t \in Threads, Subscribe(t) PROVE Lists'
  BY <1>0, <1>6, SubscribeList
<1>7. CASE MainStep \/ Signal
  <2>1. CASE Ready
    BY <1>0, <2>1, ReadyList
  <2>2. CASE Connect \/ MqttStop \/ Signal
    BY <1>0, <1>2, <2>2 DEF Connect, MqttStop, Signal
  <2> QED
    BY <1>7, <2>1, <2>2 DEF MainStep
<1>8. CASE Network \/ \E l \in DOMAIN loop : LoopLooks(l) \/ LoopPublished(l)
  BY <1>1, <1>8 DEF Network, Connected, Lost, Reconnect, LoopLooks, LoopPublished
<1>9. CASE UNCHANGED vars
  BY <1>1, <1>9 DEF vars
<1> QED
  BY <1>3, <1>4, <1>5, <1>6, <1>7, <1>8, <1>9 DEF Next, ThreadStep

(* The types, apart from the lists.                                        *)
LEMMA TypeStep ==
  ASSUME Typed, [Next]_vars
  PROVE  Typed'
<1>0. /\ conn \in {"off", "connecting", "on", "lost"} /\ subs \subseteq Cabinets
      /\ cabs \subseteq Cabinets /\ located \in BOOLEAN /\ settingUp \in BOOLEAN
      /\ running \in BOOLEAN /\ loop \in Seq(Loops) /\ latest = Len(loop)
      /\ mishaps \subseteq {"overlapped", "failed", "gave_up", "lost"}
      /\ (~located => cabs = {}) /\ Lists
  BY DEF Typed, TypeOK, Simple, Loops
<1> DEFINE Net == conn' \in {"off", "connecting", "on", "lost"} /\ subs' \subseteq Cabinets
           Set == /\ cabs' \subseteq Cabinets /\ located' \in BOOLEAN /\ (~located' => cabs' = {})
                  /\ settingUp' \in BOOLEAN /\ running' \in BOOLEAN
           Beat == loop' \in Seq(Loops) /\ latest' = Len(loop')
           Past == mishaps' \subseteq {"overlapped", "failed", "gave_up", "lost"}
<1>1. Net
  <2>1. CASE UNCHANGED <<conn, subs>>
    BY <1>0, <2>1
  <2>2. ASSUME NEW t \in Threads, Subscribe(t) PROVE Net
    <3>1. On(t) \in SUBSET Cabinets
      BY <1>0, <2>2, AtAhead DEF Subscribe
    <3>2. UNCHANGED conn /\ subs' \subseteq subs \union On(t)
      BY <2>2 DEF Subscribe
    <3> QED
      BY <1>0, <3>1, <3>2
  <2>3. CASE Connect \/ MqttStop \/ Network
    BY <1>0, <2>3 DEF Connect, MqttStop, Network, Connected, Lost, Reconnect
  <2> QED
    BY <2>1, <2>2, <2>3 DEF Next, ThreadStep, JobStep, HeartbeatStep, MainStep, Setup, Clear, ApiClear,
       Begin, Signal, Start, Finish, Forget, Locate, NextCabinet, SaveCabinet, SaveLockers,
       HeartbeatCheck, HeartbeatSet, HeartbeatSpawn, StopFlag, StopThread, Join, JoinTimesOut, Ready,
       LoopLooks, LoopPublished, vars
<1>2. Set
  <2>1. CASE UNCHANGED <<memory, settingUp, running>>
    BY <1>0, <2>1 DEF memory
  <2>2. ASSUME NEW t \in Threads, Start(t) \/ Finish(t) \/ Forget(t) \/ Locate(t) PROVE Set
    BY <1>0, <2>2 DEF Start, Finish, Forget, Locate, memory, heartbeat
  <2>3. ASSUME NEW t \in Threads, SaveCabinet(t) PROVE Set
    <3>1. On(t) \in Cabinets
      BY <1>0, <2>3, AtAhead DEF SaveCabinet
    <3> QED
      BY <1>0, <2>3, <3>1 DEF SaveCabinet, heartbeat
  <2>4. ASSUME NEW t \in Threads, HeartbeatSet(t) \/ StopFlag(t) PROVE Set
    BY <1>0, <2>4 DEF HeartbeatSet, StopFlag, memory
  <2> QED
    BY <2>1, <2>2, <2>3, <2>4 DEF Next, ThreadStep, JobStep, HeartbeatStep, MainStep, Setup, Clear,
       ApiClear, Begin, Signal, Subscribe, NextCabinet, SaveLockers, HeartbeatCheck, HeartbeatSpawn,
       StopThread, Join, JoinTimesOut, Ready, Connect, MqttStop, Network, Connected, Lost, Reconnect,
       LoopLooks, LoopPublished, heartbeat, vars
<1>3. Beat
  <2>1. CASE UNCHANGED <<latest, loop>>
    BY <1>0, <2>1
  <2>2. ASSUME NEW t \in Threads, HeartbeatSpawn(t) PROVE Beat
    <3>1. loop' = Append(loop, "waiting") /\ latest' = Len(loop')
      BY <2>2 DEF HeartbeatSpawn, ThreadKept
    <3>2. "waiting" \in Loops
      BY DEF Loops
    <3> HIDE DEF Loops
    <3> QED
      BY <1>0, <3>1, <3>2
  <2>3. ASSUME NEW l \in DOMAIN loop, LoopLooks(l) \/ LoopPublished(l) PROVE Beat
    <3>1. PICK v \in Loops : loop' = [loop EXCEPT ![l] = v]
      BY <2>3 DEF LoopLooks, LoopPublished, Loops
    <3>2. UNCHANGED latest
      BY <2>3 DEF LoopLooks, LoopPublished
    <3> QED
      BY <1>0, <3>1, <3>2, LoopTyped
  <2> QED
    BY <2>1, <2>2, <2>3 DEF Next, ThreadStep, JobStep, HeartbeatStep, MainStep, Setup, Clear, ApiClear,
       Begin, Signal, Start, Finish, Forget, Locate, NextCabinet, SaveCabinet, SaveLockers, Subscribe,
       HeartbeatCheck, HeartbeatSet, StopFlag, StopThread, Join, JoinTimesOut, Ready, Connect,
       MqttStop, Network, Connected, Lost, Reconnect, heartbeat, vars
<1>4. Past
  <2>1. CASE UNCHANGED mishaps
    BY <1>0, <2>1
  <2>2. CASE \E t \in Threads : mishaps' = mishaps \union Overlap(t)
    BY <1>0, <2>2 DEF Overlap
  <2>3. CASE \E k \in {"failed", "gave_up", "lost"} : mishaps' = mishaps \union {k}
    BY <1>0, <2>3
  <2> QED
    BY <2>1, <2>2, <2>3 DEF Next, ThreadStep, JobStep, HeartbeatStep, MainStep, Setup, Clear, ApiClear,
       Begin, Signal, Start, Finish, Forget, Locate, NextCabinet, SaveCabinet, SaveLockers, Subscribe,
       HeartbeatCheck, HeartbeatSet, HeartbeatSpawn, StopFlag, StopThread, Join, JoinTimesOut, Ready,
       Connect, MqttStop, Network, Connected, Lost, Reconnect, LoopLooks, LoopPublished, vars, Threads
<1>5. Live' # {} => latest' # 0
  BY <1>3 DEF Live
<1>6. latest' \in 0..Len(loop')
  BY <1>3
<1> QED
  BY <1>1, <1>2, <1>3, <1>4, <1>5, <1>6, ListStep DEF Typed, TypeOK, Simple, Loops

(* The variables have their types, and stop finds every heartbeat thread   *)
(* that lives in _thread: the latest is kept there.                        *)
THEOREM TypeCorrect == Spec => []TypeOK
<1>1. Typed /\ [Next]_vars => Typed'
  BY TypeStep
<1>2. Typed => TypeOK
  BY DEF Typed
<1> QED
  BY TypeInit, <1>1, <1>2, PTL DEF Spec

--------------------------------------------------------------------------------
(* Every configured cabinet is subscribed to, or will be *)

(* Some thread, or main before it serves, is going to subscribe to c.      *)
Pending(c) == "ready" \in Kinds(todo[Main]) \/ \E t \in Threads : Subscribes(todo[t], c)

ReachInv ==
  mishaps \intersect {"lost", "failed"} = {} =>
    /\ conn # "lost"
    /\ conn # "off" => \A c \in cabs : c \in subs \/ Pending(c)

(* What a step does that takes no pending subscription away: the list of t *)
(* may lose one to a cabinet that is subscribed to now, or cannot be.      *)
LEMMA ReachKeeps ==
  ASSUME ReachInv, NEW t \in Threads, \A u \in Threads \ {t} : todo'[u] = todo[u],
         mishaps \subseteq mishaps', conn' = conn, subs \subseteq subs',
         conn \in {"off", "connecting", "on", "lost"},
         \A c \in cabs' : c \in cabs \/ Subscribes(todo'[t], c),
         \A c : Subscribes(todo[t], c) => Subscribes(todo'[t], c) \/ c \in subs' \/ ~HasSocket,
         \A c \in cabs' : "ready" \in Kinds(todo[t]) => "ready" \in Kinds(todo'[t]) \/ Subscribes(todo'[t], c)
  PROVE  ReachInv'
<1> SUFFICES ASSUME mishaps' \intersect {"lost", "failed"} = {}
             PROVE  conn' # "lost" /\ (conn' # "off" => \A c \in cabs' : c \in subs' \/ Pending(c)')
  BY DEF ReachInv
<1>1. mishaps \intersect {"lost", "failed"} = {}
  OBVIOUS
<1>2. conn # "lost" /\ (conn # "off" => \A c \in cabs : c \in subs \/ Pending(c))
  BY <1>1 DEF ReachInv
<1>3. ASSUME conn' # "off", NEW c \in cabs' PROVE c \in subs' \/ Pending(c)'
  <2>1. HasSocket
    BY <1>2, <1>3 DEF HasSocket
  <2>2. CASE Subscribes(todo'[t], c)
    BY <2>2 DEF Pending
  <2>3. CASE c \in cabs /\ ~Subscribes(todo'[t], c)
    <3>1. c \in subs \/ Pending(c)
      BY <1>2, <1>3, <2>3
    <3>2. CASE "ready" \in Kinds(todo[Main])
      <4>1. "ready" \in Kinds(todo'[Main])
        BY <1>3, <2>3, <3>2 DEF Threads
      <4> QED
        BY <4>1 DEF Pending
    <3>3. ASSUME NEW u \in Threads, Subscribes(todo[u], c) PROVE c \in subs' \/ Pending(c)'
      BY <2>1, <2>3, <3>3 DEF Pending
    <3> QED
      BY <3>1, <3>2, <3>3 DEF Pending
  <2> QED
    BY <1>3, <2>2, <2>3
<1> QED
  BY <1>2, <1>3

LEMMA ReachStep ==
  ASSUME Typed, ReachInv, [Next]_vars
  PROVE  ReachInv'
<1>0. /\ Lists /\ Main \in Threads /\ Main \notin Jobs /\ Jobs \subseteq Threads /\ cabs \subseteq Cabinets
      /\ (~located => cabs = {}) /\ latest \in Nat
      /\ conn \in {"off", "connecting", "on", "lost"}
  BY MainAssumption DEF Typed, TypeOK, Simple, Threads
<1>1. CASE UNCHANGED <<todo, cabs, subs, mishaps, conn>>
  BY <1>1 DEF ReachInv, Pending
(* The next step of a list, unless it subscribes, makes ready or connects. *)
<1>2. ASSUME NEW t \in Threads, NEW w, At(t, w), Step(t), w \notin {"subscribe", "ready", "connect"},
             UNCHANGED <<conn, subs>>, mishaps \subseteq mishaps',
             \A c \in cabs' : c \in cabs \/ (w = "save" /\ c = On(t))
      PROVE  ReachInv'
  <2>1. Goes(t, w)
    BY <1>0, <1>2, Going
  <2>2. /\ \A u \in Threads \ {t} : todo'[u] = todo[u]
        /\ Kinds(todo[t]) = {w} \union Kinds(todo'[t])
        /\ \A c : Subscribes(todo[t], c) => Subscribes(todo'[t], c)
        /\ w = "save" => Subscribes(todo'[t], On(t))
    BY <1>2, <2>1 DEF Goes
  <2>3. \A c \in cabs' : c \in cabs \/ Subscribes(todo'[t], c)
    BY <1>2, <2>2
  <2> QED
    BY <1>0, <1>2, <2>2, <2>3, ReachKeeps
<1>3. ASSUME NEW t \in Jobs, Setup(t) \/ Clear(t) \/ ApiClear(t) PROVE ReachInv'
  <2>1. /\ UNCHANGED <<conn, subs, cabs>> /\ mishaps \subseteq mishaps' /\ todo[t] = <<>>
    BY <1>3 DEF Setup, Clear, ApiClear, Begin, memory, Idle
  <2>2. \A u \in Threads \ {t} : todo'[u] = todo[u]
    BY <1>0, <1>3, Begins
  <2>3. Kinds(todo[t]) = {} /\ \A c : ~Subscribes(todo[t], c)
    BY <2>1, Empty
  <2> QED
    BY <1>0, <2>1, <2>2, <2>3, ReachKeeps
<1>4. ASSUME NEW t \in Threads, JobStep(t) PROVE ReachInv'
  <2>1. CASE Start(t) \/ Finish(t) \/ Forget(t) \/ Locate(t)
    BY <1>2, <2>1 DEF Start, Finish, Forget, Locate, memory
  <2>2. CASE NextCabinet(t)
    <3>1. Turns(t, "cabinets") /\ UNCHANGED <<conn, subs, cabs, mishaps>>
      BY <1>0, <2>2, CabinetList DEF NextCabinet, memory
    <3>2. /\ \A u \in Threads \ {t} : todo'[u] = todo[u]
          /\ \A c : Subscribes(todo[t], c) => Subscribes(todo'[t], c)
          /\ "ready" \in Kinds(todo[t]) => "ready" \in Kinds(todo'[t])
      BY <3>1 DEF Turns
    <3> QED
      BY <1>0, <3>1, <3>2, ReachKeeps
  <2>3. CASE SaveCabinet(t)
    BY <1>2, <2>3 DEF SaveCabinet
  <2>4. CASE SaveLockers(t)
    <3>1. CASE Step(t) /\ UNCHANGED mishaps
      BY <1>2, <2>4, <3>1 DEF SaveLockers, memory
    <3>2. CASE mishaps' = mishaps \union {"failed"}
      BY <3>2 DEF ReachInv
    <3> QED
      BY <2>4, <3>1, <3>2 DEF SaveLockers
  <2> QED
    BY <1>4, <2>1, <2>2, <2>3, <2>4 DEF JobStep
<1>5. ASSUME NEW t \in Threads, HeartbeatStep(t) PROVE ReachInv'
  <2>1. UNCHANGED <<conn, subs, cabs>> /\ mishaps \subseteq mishaps'
    BY <1>5 DEF HeartbeatStep, HeartbeatCheck, HeartbeatSet, HeartbeatSpawn, StopFlag, StopThread, Join,
       JoinTimesOut, memory
  <2>2. ASSUME NEW w \in {"hb_check", "hb_set", "hb_spawn", "hb_stop", "join"}, At(t, w), Step(t)
        PROVE  ReachInv'
    BY <1>2, <2>1, <2>2
  <2>3. CASE HeartbeatCheck(t) /\ Return(t, 2)
    <3>1. At(t, "hb_check")
      BY <2>3 DEF HeartbeatCheck
    <3>2. /\ \A u \in Threads \ {t} : todo'[u] = todo[u]
          /\ Kinds(todo[t]) = {"hb_check", "hb_set", "hb_spawn"} \union Kinds(todo'[t])
          /\ \A c : Subscribes(todo[t], c) => Subscribes(todo'[t], c)
      BY <1>0, <2>3, <3>1, ReturnList
    <3> QED
      BY <1>0, <2>1, <3>2, ReachKeeps
  <2>4. CASE StopThread(t)
    <3>1. Stops(t)
      BY <1>0, <2>4, StopList
    <3>2. /\ \A u \in Threads \ {t} : todo'[u] = todo[u]
          /\ \A c : Subscribes(todo[t], c) => Subscribes(todo'[t], c)
          /\ "ready" \in Kinds(todo[t]) => "ready" \in Kinds(todo'[t])
      BY <3>1 DEF Stops
    <3> QED
      BY <1>0, <2>1, <3>2, ReachKeeps
  <2> QED
    BY <1>5, <2>2, <2>3, <2>4 DEF HeartbeatStep, HeartbeatCheck, HeartbeatSet, HeartbeatSpawn, StopFlag,
       Join, JoinTimesOut
<1>6. ASSUME NEW t \in Threads, Subscribe(t) PROVE ReachInv'
  <2>1. UNCHANGED <<conn, cabs, mishaps>> /\ subs \subseteq subs'
    BY <1>6 DEF Subscribe, memory
  <2>2. /\ \A u \in Threads \ {t} : todo'[u] = todo[u]
        /\ "ready" \in Kinds(todo[t]) => "ready" \in Kinds(todo'[t])
        /\ \A c : Subscribes(todo[t], c) => Subscribes(todo'[t], c) \/ c \in subs' \/ ~HasSocket
    BY <1>0, <1>6, SubscribeList
  <2> QED
    BY <1>0, <2>1, <2>2, ReachKeeps
<1>7. CASE Connect
  <2>1. At(Main, "connect") /\ Step(Main) /\ UNCHANGED mishaps /\ conn' # "lost"
    BY <1>7 DEF Connect
  <2>2. Goes(Main, "connect")
    BY <1>0, <2>1, Going
  <2>3. "ready" \in Kinds(todo'[Main])
    <3>1. ~Idle(Main)' /\ Ahead(Main)' = "ready" /\ Lists'
      BY <2>2 DEF Goes, Inner, Follows
    <3>2. todo'[Main] # <<>> /\ Sound(todo'[Main]) /\ Head(todo'[Main]).do = "ready"
      BY <1>0, <3>1 DEF Idle, Ahead, Lists
    <3>3. Leaves(todo'[Main], Tail(todo'[Main]))
      BY <3>2, Tails
    <3> QED
      BY <3>2, <3>3 DEF Leaves
  <2> QED
    BY <2>1, <2>3 DEF ReachInv, Pending
<1>8. CASE Ready
  <2>1. UNCHANGED <<conn, subs, cabs, mishaps>>
    BY <1>8 DEF Ready, memory
  <2>2. /\ \A u \in Jobs : todo'[u] = todo[u]
        /\ \A c : Subscribes(todo[Main], c) \/ c \in cabs => Subscribes(todo'[Main], c)
    BY <1>0, <1>8, ReadyList
  <2>3. \A u \in Threads \ {Main} : todo'[u] = todo[u]
    BY <2>2 DEF Threads
  <2> QED
    BY <1>0, <2>1, <2>2, <2>3, ReachKeeps
<1>9. CASE MqttStop
  BY <1>9 DEF MqttStop, ReachInv
<1>10. CASE Signal
  BY <1>0, <1>2, <1>10 DEF Signal, memory
<1>11. CASE Network
  <2>1. CASE Lost
    BY <2>1 DEF Lost, ReachInv
  <2>2. CASE Connected \/ Reconnect
    BY <2>2 DEF Connected, Reconnect, ReachInv, Pending, memory
  <2> QED
    BY <1>11, <2>1, <2>2 DEF Network
<1>12. CASE UNCHANGED vars \/ \E l \in DOMAIN loop : LoopLooks(l) \/ LoopPublished(l)
  BY <1>1, <1>12 DEF LoopLooks, LoopPublished, vars, memory
<1> QED
  BY <1>3, <1>4, <1>5, <1>6, <1>7, <1>8, <1>9, <1>10, <1>11, <1>12 DEF Next, ThreadStep, MainStep

(* At rest no thread has anything to subscribe to.                         *)
LEMMA NothingPending ==
  ASSUME Lists, NEW t \in Threads, Waiting(t)
  PROVE  Kinds(todo[t]) \subseteq {"serve"} \union AfterServe /\ \A c : ~Subscribes(todo[t], c)
<1> DEFINE q == todo[t]
<1>1. CASE Idle(t)
  BY <1>1, Empty DEF Idle
<1>2. CASE ~Idle(t)
  <2>1. Sound(q) /\ q # <<>> /\ Head(q).do = "serve"
    BY <1>2 DEF Lists, Waiting, Idle
  <2>2. Leaves(q, Tail(q))
    BY <2>1, Tails
  <2> HIDE DEF q
  <2>3. Kinds(q) \subseteq {"serve"} \union AfterServe
    BY <2>1, <2>2 DEF Leaves
  <2>4. \A c : ~Subscribes(q, c)
    <3>1. "subscribe" \notin Kinds(q)
      BY <2>3 DEF AfterServe
    <3> QED
      BY <3>1 DEF Subscribes, Kinds
  <2> QED
    BY <2>3, <2>4 DEF q
<1> QED
  BY <1>1, <1>2

(* However many setups and clears overlap each other and the start: at     *)
(* rest every configured cabinet is subscribed to, as long as the          *)
(* connection has lasted and no setup ended by an exception.               *)
THEOREM CabinetsReachable == Spec => []Reachable
<1>1. Init => ReachInv
  BY DEF Init, ReachInv
<1>2. Typed /\ ReachInv /\ [Next]_vars => ReachInv'
  BY ReachStep
<1>3. Typed /\ [Next]_vars => Typed'
  BY TypeStep
<1>4. Typed /\ ReachInv => Reachable
  <2> SUFFICES ASSUME Typed, ReachInv, Quiet, conn = "on", mishaps \intersect {"lost", "failed"} = {},
                      NEW c \in cabs
               PROVE  c \in subs
    BY DEF Reachable
  <2>1. c \in subs \/ Pending(c)
    BY DEF ReachInv
  <2>2. ASSUME NEW t \in Threads PROVE "ready" \notin Kinds(todo[t]) /\ ~Subscribes(todo[t], c)
    BY NothingPending DEF Typed, Quiet, AfterServe
  <2> QED
    BY <2>1, <2>2 DEF Pending, Threads
<1> QED
  BY TypeInit, <1>1, <1>2, <1>3, <1>4, PTL DEF Spec

--------------------------------------------------------------------------------
(* One thread at a time, the heartbeat is as that thread is about to leave it *)

Alone ==
  "overlapped" \notin mishaps => \A t, u \in Threads : ~Waiting(t) /\ ~Waiting(u) => t = u

Beats == Live = IF running THEN {latest} ELSE {}

(* How far thread t is with starting or stopping the heartbeat.            *)
Stage(t) ==
  /\ Ahead(t) \notin {"hb_spawn", "hb_thread", "join"} => Beats
  /\ Ahead(t) = "hb_set" => ~running
  /\ Ahead(t) = "hb_spawn" => running /\ Live = {}
  /\ Ahead(t) \in {"hb_thread", "join"} => ~running /\ Live \subseteq {latest}
  /\ Ahead(t) = "join" => On(t) = latest
  /\ t # Main /\ Ahead(t) = "hb_stop" => ~Configured

(* While main serves, a gateway with cabinets beats or is about to.        *)
Starters == {"ready", "hb_check", "hb_set"}
WillBeat == \E t \in Threads : Kinds(todo[t]) \intersect Starters # {}
Due ==
  "failed" \notin mishaps /\ "serve" \in Kinds(todo[Main]) /\ Configured => running \/ WillBeat

BeatInv ==
  mishaps \intersect {"overlapped", "gave_up"} = {} =>
    /\ (\A t \in Threads : Waiting(t)) => Beats
    /\ \A t \in Threads : ~Waiting(t) => Stage(t)
    /\ Due

(* Only t takes a step, or begins: the others wait, and go on waiting.     *)
LEMMA OthersWait ==
  ASSUME Alone, NEW t \in Threads, \A u \in Threads \ {t} : todo'[u] = todo[u],
         \/ mishaps \subseteq mishaps' /\ ~Waiting(t)
         \/ mishaps' = mishaps \union Overlap(t),
         "overlapped" \notin mishaps'
  PROVE  \A u \in Threads \ {t} : Waiting(u) /\ Waiting(u)'
<1>1. \A u \in Threads \ {t} : Waiting(u)
  <2>1. CASE mishaps \subseteq mishaps' /\ ~Waiting(t)
    BY <2>1 DEF Alone
  <2>2. CASE mishaps' = mishaps \union Overlap(t)
    <3>1. Overlap(t) = {}
      BY <2>2 DEF Overlap
    <3> QED
      BY <3>1 DEF Overlap
  <2> QED
    BY <2>1, <2>2
<1>2. ASSUME NEW u \in Threads \ {t} PROVE Waiting(u)'
  BY <1>1 DEF Waiting, Idle
<1> QED
  BY <1>1, <1>2

(* What the thread at work has to show.                                    *)
Settles(t) ==
  mishaps' \intersect {"overlapped", "gave_up"} = {} => Stage(t)' /\ Due'

LEMMA Settled ==
  ASSUME NEW t \in Threads, Settles(t), Lists',
         "overlapped" \notin mishaps' => \A u \in Threads \ {t} : Waiting(u)'
  PROVE  Alone' /\ BeatInv'
<1>1. Alone'
  BY DEF Alone
<1>2. ASSUME mishaps' \intersect {"overlapped", "gave_up"} = {}, \A u \in Threads : Waiting(u)'
      PROVE  Beats'
  <2>1. Ahead(t)' \in {"nothing", "serve"}
    BY <1>2 DEF Waiting, Ahead
  <2>2. Stage(t)'
    BY <1>2 DEF Settles
  <2> QED
    BY <2>1, <2>2 DEF Stage
<1>3. ASSUME mishaps' \intersect {"overlapped", "gave_up"} = {}
      PROVE  (\A u \in Threads : ~Waiting(u)' => Stage(u)') /\ Due'
  BY <1>3 DEF Settles
<1> QED
  BY <1>1, <1>2, <1>3 DEF BeatInv

(* What the flag, or the thread at work, owes to a configured gateway.     *)
LEMMA DueKeeps ==
  ASSUME Due, NEW t \in Threads, Main \in Threads,
         \A u \in Threads \ {t} : todo'[u] = todo[u], mishaps \subseteq mishaps',
         "serve" \in Kinds(todo'[t]) => "serve" \in Kinds(todo[t]),
         Configured' => Configured \/ "hb_check" \in Kinds(todo'[t]),
         running => running' \/ ~Configured' \/ "serve" \notin Kinds(todo'[Main]),
         \A k \in Starters : k \in Kinds(todo[t]) =>
           Kinds(todo'[t]) \intersect Starters # {} \/ running' \/ ~Configured'
  PROVE  Due'
<1> SUFFICES ASSUME "failed" \notin mishaps', "serve" \in Kinds(todo'[Main]), Configured'
             PROVE  running' \/ WillBeat'
  BY DEF Due
<1>1. CASE "hb_check" \in Kinds(todo'[t])
  BY <1>1 DEF WillBeat, Starters
<1>2. CASE Configured
  <2>1. "failed" \notin mishaps /\ "serve" \in Kinds(todo[Main])
    OBVIOUS
  <2>2. running \/ WillBeat
    BY <1>2, <2>1 DEF Due
  <2>3. ASSUME NEW u \in Threads, Kinds(todo[u]) \intersect Starters # {}
        PROVE  running' \/ WillBeat'
    <3>1. CASE u = t
      BY <2>3, <3>1 DEF WillBeat
    <3>2. CASE u # t
      BY <2>3, <3>2 DEF WillBeat
    <3> QED
      BY <3>1, <3>2
  <2> QED
    BY <2>2, <2>3 DEF WillBeat
<1> QED
  BY <1>1, <1>2

LEMMA StageAhead ==
  ASSUME NEW t \in Threads, BeatInv, ~Waiting(t), mishaps \intersect {"overlapped", "gave_up"} = {}
  PROVE  Stage(t) /\ Due
BY DEF BeatInv

LEMMA HeadIn ==
  ASSUME NEW q, Sound(q), q # <<>>
  PROVE  Head(q).do \in Kinds(q)
BY Tails DEF Leaves

LEMMA FreshAhead ==
  ASSUME NEW t \in Threads, Fresh(todo'[t])
  PROVE  Ahead(t)' \notin {"hb_set", "hb_spawn", "hb_stop", "hb_thread", "join"}
<1>1. CASE Idle(t)'
  BY <1>1 DEF Ahead
<1>2. CASE ~Idle(t)'
  <2>1. todo'[t] # <<>> /\ Ahead(t)' = Head(todo'[t]).do
    BY <1>2 DEF Idle, Ahead
  <2>2. Head(todo'[t]) = todo'[t][1]
    BY <2>1, Tails DEF Leaves, Fresh
  <2> QED
    BY <2>1, <2>2 DEF Fresh
<1> QED
  BY <1>1, <1>2

(* What can be ahead after a step of kind w.                               *)
LEMMA NextAhead ==
  ASSUME NEW t \in Threads, NEW w, Goes(t, w)
  PROVE  /\ w \notin {"hb_check", "hb_set", "hb_stop"} =>
              Ahead(t)' \notin {"hb_set", "hb_spawn", "hb_thread", "join"}
         /\ w \notin {"forget", "serve"} => Ahead(t)' # "hb_stop"
         /\ w = "hb_check" => Ahead(t)' = "hb_set" /\ "hb_set" \in Kinds(todo'[t])
         /\ w = "hb_set" => Ahead(t)' = "hb_spawn"
         /\ w = "hb_stop" => Ahead(t)' = "hb_thread"
<1>1. CASE Idle(t)'
  <2>1. w \notin Inner /\ Ahead(t)' = "nothing"
    BY <1>1 DEF Goes, Ahead
  <2> QED
    BY <2>1 DEF Inner
<1>2. CASE ~Idle(t)'
  <2>1. Follows(w, Ahead(t)')
    BY <1>2 DEF Goes
  <2>2. Ahead(t)' \in Kinds(todo'[t])
    <3>1. Sound(todo'[t]) /\ todo'[t] # <<>> /\ Ahead(t)' = Head(todo'[t]).do
      BY <1>2 DEF Goes, Lists, Idle, Ahead
    <3> QED
      BY <3>1, HeadIn
  <2> QED
    BY <2>1, <2>2 DEF Follows
<1> QED
  BY <1>1, <1>2

LEMMA StageKeeps ==
  ASSUME NEW t \in Threads, Stage(t), Ahead(t) \notin {"hb_spawn", "hb_thread", "join"},
         UNCHANGED heartbeat, Ahead(t)' \notin {"hb_set", "hb_spawn", "hb_thread", "join"},
         Ahead(t)' = "hb_stop" /\ t # Main => ~Configured'
  PROVE  Stage(t)'
<1>1. Beats'
  BY DEF Stage, Beats, heartbeat, Live
<1> QED
  BY <1>1 DEF Stage

(* The steps of a thread that leave the heartbeat alone.                   *)
LEMMA CalmStep ==
  ASSUME Typed, NEW t \in Threads, NEW w, At(t, w), Goes(t, w), Stage(t), Due,
         w \notin {"hb_check", "hb_set", "hb_spawn", "hb_stop", "hb_thread", "join", "serve", "ready"},
         UNCHANGED heartbeat, mishaps \subseteq mishaps',
         Configured' => Configured \/ w = "save",
         w = "forget" => ~Configured'
  PROVE  Stage(t)' /\ Due'
<1>1. Ahead(t) = w
  BY DEF At, Ahead
<1>2. Stage(t)'
  <2>1. Ahead(t)' \notin {"hb_set", "hb_spawn", "hb_thread", "join"}
    BY NextAhead
  <2>2. Ahead(t)' = "hb_stop" => ~Configured'
    BY NextAhead
  <2> QED
    BY <1>1, <2>1, <2>2, StageKeeps
<1>3. Due'
  <2>1. /\ \A u \in Threads \ {t} : todo'[u] = todo[u]
        /\ Kinds(todo[t]) = {w} \union Kinds(todo'[t])
        /\ w = "save" => "hb_check" \in Kinds(todo'[t])
    BY DEF Goes
  <2>2. \A k \in Starters : k \in Kinds(todo[t]) => Kinds(todo'[t]) \intersect Starters # {}
    BY <2>1 DEF Starters
  <2> QED
    BY <2>1, <2>2, DueKeeps DEF heartbeat, Threads
<1> QED
  BY <1>2, <1>3

(* What a thread's step does to the lists.                                 *)
Works(t) ==
  /\ Lists' /\ \A u \in Threads \ {t} : todo'[u] = todo[u]
  /\ mishaps \subseteq mishaps' /\ ~Waiting(t)
  /\ Settles(t)

LEMMA NotWaiting ==
  ASSUME NEW t, NEW w, At(t, w), w # "serve"
  PROVE  ~Waiting(t) /\ Ahead(t) = w
BY DEF At, Waiting, Ahead

LEMMA JobWorks ==
  ASSUME Typed, BeatInv, NEW t \in Threads, JobStep(t)
  PROVE  Works(t)
<1>0. /\ Lists /\ cabs \subseteq Cabinets /\ (~located => cabs = {})
      /\ Main \in Threads
  BY DEF Typed, TypeOK, Simple, Threads
<1>1. UNCHANGED heartbeat /\ mishaps \subseteq mishaps'
  BY DEF JobStep, Start, Finish, Forget, Locate, NextCabinet, SaveCabinet, SaveLockers
<1>2. ASSUME NEW w \in {"start", "finish", "forget", "locate", "save", "lockers"}, At(t, w), Step(t),
             Configured' => Configured \/ w = "save", w = "forget" => ~Configured'
      PROVE  Works(t)
  <2>1. Goes(t, w)
    BY <1>0, <1>2, Going
  <2>2. ~Waiting(t)
    BY <1>2, NotWaiting
  <2>3. Settles(t)
    <3> SUFFICES ASSUME mishaps' \intersect {"overlapped", "gave_up"} = {} PROVE Stage(t)' /\ Due'
      BY DEF Settles
    <3>1. Stage(t) /\ Due
      BY <1>1, <2>2, StageAhead
    <3> QED
      BY <1>1, <1>2, <2>1, <3>1, CalmStep
  <2> QED
    BY <1>1, <2>1, <2>2, <2>3 DEF Works, Goes
<1>3. CASE Start(t) \/ Finish(t)
  BY <1>2, <1>3 DEF Start, Finish, memory, Configured
<1>4. CASE Forget(t)
  BY <1>2, <1>4 DEF Forget, Configured
<1>5. CASE Locate(t)
  <2>1. Configured' => Configured
    BY <1>0, <1>5 DEF Locate, Configured
  <2> QED
    BY <1>2, <1>5, <2>1 DEF Locate
<1>6. CASE NextCabinet(t)
  <2>1. At(t, "cabinets") /\ UNCHANGED memory
    BY <1>6 DEF NextCabinet
  <2>2. /\ Lists' /\ \A u \in Threads \ {t} : todo'[u] = todo[u]
        /\ Fresh(todo'[t])
        /\ Kinds(todo[t]) \subseteq {"cabinets"} \union Kinds(todo'[t])
        /\ "serve" \in Kinds(todo'[t]) => "serve" \in Kinds(todo[t])
    BY <1>0, <1>6, CabinetList DEF Turns
  <2>3. ~Waiting(t) /\ Ahead(t) = "cabinets"
    BY <2>1, NotWaiting
  <2>4. ASSUME mishaps' \intersect {"overlapped", "gave_up"} = {} PROVE Stage(t)' /\ Due'
    <3>1. Stage(t) /\ Due
      BY <1>1, <2>3, <2>4, StageAhead
    <3>2. Ahead(t)' \notin {"hb_set", "hb_spawn", "hb_stop", "hb_thread", "join"}
      BY <2>2, FreshAhead
    <3>3. Stage(t)'
      BY <1>1, <2>3, <3>1, <3>2, StageKeeps
    <3>4. Configured' <=> Configured
      BY <2>1 DEF memory, Configured
    <3>5. \A k \in Starters : k \in Kinds(todo[t]) => Kinds(todo'[t]) \intersect Starters # {}
      BY <2>2 DEF Starters
    <3>6. Due'
      BY <1>0, <1>1, <2>2, <3>1, <3>4, <3>5, DueKeeps DEF heartbeat
    <3> QED
      BY <3>3, <3>6
  <2> QED
    BY <1>1, <2>2, <2>3, <2>4 DEF Works, Settles
<1>7. CASE SaveCabinet(t)
  <2>1. At(t, "save") /\ Step(t)
    BY <1>7 DEF SaveCabinet
  <2> QED
    BY <1>2, <2>1
<1>8. CASE SaveLockers(t)
  <2>0. At(t, "lockers") /\ UNCHANGED memory
    BY <1>8 DEF SaveLockers
  <2>1. CASE Step(t)
    BY <1>2, <2>0, <2>1 DEF memory, Configured
  <2>2. CASE Abort(t) /\ mishaps' = mishaps \union {"failed"}
    <3>1. /\ Lists' /\ \A u \in Threads \ {t} : todo'[u] = todo[u]
          /\ Ahead(t)' = "finish"
      BY <1>0, <2>0, <2>2, AbortList
    <3>2. ~Waiting(t) /\ Ahead(t) = "lockers"
      BY <2>0, NotWaiting
    <3>3. ASSUME mishaps' \intersect {"overlapped", "gave_up"} = {} PROVE Stage(t)' /\ Due'
      <4>1. Stage(t)
        BY <1>1, <3>2, <3>3, StageAhead
      <4>2. Stage(t)'
        BY <1>1, <3>1, <3>2, <4>1, StageKeeps
      <4> QED
        BY <2>2, <4>2 DEF Due
    <3> QED
      BY <1>1, <3>1, <3>2, <3>3 DEF Works, Settles
  <2> QED
    BY <1>8, <2>1, <2>2 DEF SaveLockers
<1> QED
  BY <1>3, <1>4, <1>5, <1>6, <1>7, <1>8 DEF JobStep

(* Which heartbeat threads live.                                           *)
LEMMA SpawnLive ==
  ASSUME Typed, loop' = Append(loop, "waiting"), latest' = Len(loop')
  PROVE  Live' = Live \union {latest'}
<1> DEFINE n == Len(loop)
<1>1. n \in Nat /\ DOMAIN loop = 1..n /\ Len(loop') = n + 1 /\ DOMAIN loop' = 1..(n + 1)
  BY DEF Typed, TypeOK
<1>2. loop'[n + 1] = "waiting" /\ \A i \in 1..n : loop'[i] = loop[i]
  BY DEF Typed, TypeOK
<1> HIDE DEF n
<1>3. 1..(n + 1) = (1..n) \union {n + 1}
  BY <1>1
<1> QED
  BY <1>1, <1>2, <1>3 DEF Live

LEMMA HeartbeatWorks ==
  ASSUME Typed, BeatInv, NEW t \in Threads, HeartbeatStep(t)
  PROVE  Works(t)
<1>0. Lists /\ Main \in Threads /\ latest \in Nat
  BY DEF Typed, TypeOK, Threads
<1>1. UNCHANGED memory /\ mishaps \subseteq mishaps' /\ (Configured' <=> Configured)
  BY DEF HeartbeatStep, HeartbeatCheck, HeartbeatSet, HeartbeatSpawn, StopFlag, StopThread, Join,
     JoinTimesOut, memory, Configured
(* The next step of a list.                                                *)
<1>2. ASSUME NEW w \in {"hb_check", "hb_set", "hb_spawn", "hb_stop", "join"}, At(t, w), Step(t),
             Goes(t, w) /\ Stage(t) /\ Due /\ Ahead(t) = w => Settles(t)
      PROVE  Works(t)
  <2>1. Goes(t, w)
    BY <1>0, <1>2, Going
  <2>2. ~Waiting(t) /\ Ahead(t) = w
    BY <1>2, NotWaiting
  <2>3. Settles(t)
    <3>1. CASE mishaps' \intersect {"overlapped", "gave_up"} = {}
      BY <1>1, <1>2, <2>1, <2>2, <3>1, StageAhead
    <3>2. CASE mishaps' \intersect {"overlapped", "gave_up"} # {}
      BY <3>2 DEF Settles
    <3> QED
      BY <3>1, <3>2
  <2> QED
    BY <1>1, <2>1, <2>2, <2>3 DEF Works, Goes
<1>3. CASE HeartbeatCheck(t)
  <2>0. At(t, "hb_check") /\ UNCHANGED heartbeat
    BY <1>3 DEF HeartbeatCheck
  <2>1. CASE Step(t) /\ ~running
    <3>1. ASSUME Goes(t, "hb_check"), Stage(t), Due, Ahead(t) = "hb_check" PROVE Stage(t)' /\ Due'
      <4>1. Ahead(t)' = "hb_set" /\ "hb_set" \in Kinds(todo'[t])
        BY <3>1, NextAhead
      <4>2. Stage(t)'
        <5>1. Beats'
          BY <2>0, <3>1 DEF Stage, Beats, heartbeat, Live
        <5> QED
          BY <2>0, <2>1, <4>1, <5>1 DEF Stage, heartbeat
      <4>3. /\ \A u \in Threads \ {t} : todo'[u] = todo[u]
            /\ Kinds(todo[t]) = {"hb_check"} \union Kinds(todo'[t])
        BY <3>1 DEF Goes
      <4>4. Kinds(todo'[t]) \intersect Starters # {}
        BY <4>1 DEF Starters
      <4>5. Due'
        BY <1>0, <1>1, <2>0, <3>1, <4>3, <4>4, DueKeeps DEF heartbeat
      <4> QED
        BY <4>2, <4>5
    <3> QED
      BY <1>2, <2>0, <2>1, <3>1 DEF Settles
  <2>2. CASE Return(t, 2) /\ ~(Configured /\ ~running)
    <3>1. /\ Lists' /\ \A u \in Threads \ {t} : todo'[u] = todo[u]
          /\ Fresh(todo'[t])
          /\ Kinds(todo[t]) = {"hb_check", "hb_set", "hb_spawn"} \union Kinds(todo'[t])
      BY <1>0, <2>0, <2>2, ReturnList
    <3>2. ~Waiting(t) /\ Ahead(t) = "hb_check"
      BY <2>0, NotWaiting
    <3>3. ASSUME mishaps' \intersect {"overlapped", "gave_up"} = {} PROVE Stage(t)' /\ Due'
      <4>1. Stage(t) /\ Due
        BY <1>1, <3>2, <3>3, StageAhead
      <4>2. Ahead(t)' \notin {"hb_set", "hb_spawn", "hb_stop", "hb_thread", "join"}
        BY <3>1, FreshAhead
      <4>3. Stage(t)'
        BY <2>0, <3>2, <4>1, <4>2, StageKeeps
      <4>4. running' \/ ~Configured'
        BY <1>1, <2>0, <2>2 DEF heartbeat
      <4> QED
        BY <4>3, <4>4 DEF Due
    <3> QED
      BY <1>1, <3>1, <3>2, <3>3 DEF Works, Settles
  <2> QED
    BY <1>3, <2>1, <2>2 DEF HeartbeatCheck
<1>4. CASE HeartbeatSet(t)
  <2>0. At(t, "hb_set") /\ Step(t) /\ running' /\ UNCHANGED <<latest, loop>>
    BY <1>4 DEF HeartbeatSet
  <2>1. ASSUME Goes(t, "hb_set"), Stage(t), Ahead(t) = "hb_set" PROVE Stage(t)' /\ Due'
    <3>1. Ahead(t)' = "hb_spawn"
      BY <2>1, NextAhead
    <3>2. Live' = {}
      BY <2>0, <2>1 DEF Stage, Beats, Live
    <3> QED
      BY <2>0, <3>1, <3>2 DEF Stage, Due
  <2> QED
    BY <1>2, <2>0, <2>1 DEF Settles
<1>5. CASE HeartbeatSpawn(t)
  <2>0. /\ At(t, "hb_spawn") /\ Step(t) /\ UNCHANGED running
        /\ loop' = Append(loop, "waiting") /\ latest' = Len(loop')
    BY <1>5 DEF HeartbeatSpawn, ThreadKept
  <2>1. ASSUME Goes(t, "hb_spawn"), Stage(t), Ahead(t) = "hb_spawn" PROVE Stage(t)' /\ Due'
    <3>1. Ahead(t)' \notin {"hb_set", "hb_spawn", "hb_thread", "join", "hb_stop"}
      BY <2>1, NextAhead
    <3>2. running' /\ Live' = {latest'}
      BY <2>0, <2>1, SpawnLive DEF Stage
    <3> QED
      BY <3>1, <3>2 DEF Stage, Beats, Due
  <2> QED
    BY <1>2, <2>0, <2>1 DEF Settles
<1>6. CASE StopFlag(t)
  <2>0. At(t, "hb_stop") /\ Step(t) /\ running' = FALSE /\ UNCHANGED <<latest, loop>>
    BY <1>6 DEF StopFlag
  <2>1. ASSUME Goes(t, "hb_stop"), Stage(t), Due, Ahead(t) = "hb_stop" PROVE Stage(t)' /\ Due'
    <3>1. Ahead(t)' = "hb_thread"
      BY <2>1, NextAhead
    <3>2. Live' \subseteq {latest'}
      BY <2>0, <2>1 DEF Stage, Beats, Live
    <3>3. Stage(t)'
      BY <2>0, <3>1, <3>2 DEF Stage
    <3>4. CASE t = Main
      BY <2>1, <3>3, <3>4 DEF Goes, BeforeServe, Due
    <3>5. CASE t # Main
      BY <1>1, <2>1, <3>3, <3>5 DEF Stage, Due
    <3> QED
      BY <3>3, <3>4, <3>5
  <2> QED
    BY <1>2, <2>0, <2>1 DEF Settles
<1>7. CASE StopThread(t)
  <2>0. At(t, "hb_thread") /\ UNCHANGED heartbeat
    BY <1>7 DEF StopThread
  <2>1. Stops(t)
    BY <1>0, <1>7, StopList
  <2>2. ~Waiting(t) /\ Ahead(t) = "hb_thread"
    BY <2>0, NotWaiting
  <2>3. ASSUME mishaps' \intersect {"overlapped", "gave_up"} = {} PROVE Stage(t)' /\ Due'
    <3>1. Stage(t) /\ Due
      BY <1>1, <2>2, <2>3, StageAhead
    <3>2. ~running' /\ Live' = Live /\ latest' = latest /\ Live \subseteq {latest}
      BY <2>0, <2>2, <3>1 DEF Stage, heartbeat, Live
    <3>3. Stage(t)'
      <4>1. CASE latest \in Live
        BY <2>1, <3>2, <4>1 DEF Stops, Stage
      <4>2. CASE latest \notin Live
        <5>1. Beats'
          BY <3>2, <4>2 DEF Beats
        <5> QED
          BY <2>1, <4>2, <5>1 DEF Stops, Stage
      <4> QED
        BY <4>1, <4>2
    <3>4. Due'
      <4>1. /\ \A u \in Threads \ {t} : todo'[u] = todo[u]
            /\ Kinds(todo[t]) \subseteq {"hb_thread"} \union Kinds(todo'[t])
            /\ "serve" \notin Kinds(todo'[t])
        BY <2>1 DEF Stops
      <4>2. \A k \in Starters : k \in Kinds(todo[t]) => Kinds(todo'[t]) \intersect Starters # {}
        BY <4>1 DEF Starters
      <4> QED
        BY <1>0, <1>1, <2>0, <3>1, <4>1, <4>2, DueKeeps DEF heartbeat
    <3> QED
      BY <3>3, <3>4
  <2> QED
    BY <1>1, <2>1, <2>2, <2>3 DEF Works, Stops, Settles
<1>8. CASE Join(t)
  <2>0. At(t, "join") /\ Step(t) /\ On(t) \notin Live /\ UNCHANGED heartbeat
    BY <1>8 DEF Join
  <2>1. ASSUME Goes(t, "join"), Stage(t), Due, Ahead(t) = "join" PROVE Stage(t)' /\ Due'
    <3>1. Ahead(t)' \notin {"hb_set", "hb_spawn", "hb_thread", "join", "hb_stop"}
      BY <2>1, NextAhead
    <3>2. Beats'
      BY <2>0, <2>1 DEF Stage, Beats, Live, heartbeat
    <3>3. /\ \A u \in Threads \ {t} : todo'[u] = todo[u]
          /\ Kinds(todo[t]) = {"join"} \union Kinds(todo'[t])
      BY <2>1 DEF Goes
    <3>4. \A k \in Starters : k \in Kinds(todo[t]) => Kinds(todo'[t]) \intersect Starters # {}
      BY <3>3 DEF Starters
    <3>5. Due'
      BY <1>0, <1>1, <2>0, <2>1, <3>3, <3>4, DueKeeps DEF heartbeat
    <3> QED
      BY <3>1, <3>2, <3>5 DEF Stage
  <2> QED
    BY <1>2, <2>0, <2>1 DEF Settles
<1>9. CASE JoinTimesOut(t)
  <2>0. At(t, "join") /\ Step(t) /\ "gave_up" \in mishaps'
    BY <1>9 DEF JoinTimesOut
  <2> QED
    BY <1>2, <2>0 DEF Settles
<1> QED
  BY <1>3, <1>4, <1>5, <1>6, <1>7, <1>8, <1>9 DEF HeartbeatStep

LEMMA OtherWorks ==
  ASSUME Typed, BeatInv, NEW t \in Threads, Subscribe(t) \/ (t = Main /\ MainStep)
  PROVE  Works(t)
<1>0. /\ Lists /\ cabs \subseteq Cabinets /\ (~located => cabs = {}) /\ Main \in Threads
      /\ Threads \ {Main} \subseteq Jobs
  BY DEF Typed, TypeOK, Simple, Threads
<1>1. UNCHANGED heartbeat /\ UNCHANGED mishaps /\ (Configured' <=> Configured)
  BY DEF Subscribe, MainStep, Connect, Ready, MqttStop, memory, Configured
(* A list that goes on, fresh, and begins nothing less.                    *)
<1>2. ASSUME NEW w \in {"subscribe", "ready"}, At(t, w), Lists', Fresh(todo'[t]),
             \A u \in Threads \ {t} : todo'[u] = todo[u],
             "serve" \in Kinds(todo'[t]) => "serve" \in Kinds(todo[t]),
             \A k \in Starters : k \in Kinds(todo[t]) =>
               Kinds(todo'[t]) \intersect Starters # {} \/ ~Configured
      PROVE  Works(t)
  <2>1. ~Waiting(t) /\ Ahead(t) = w
    BY <1>2, NotWaiting
  <2>2. ASSUME mishaps' \intersect {"overlapped", "gave_up"} = {} PROVE Stage(t)' /\ Due'
    <3>1. Stage(t) /\ Due
      BY <1>1, <2>1, <2>2, StageAhead
    <3>2. Ahead(t)' \notin {"hb_set", "hb_spawn", "hb_stop", "hb_thread", "join"}
      BY <1>2, FreshAhead
    <3>3. Stage(t)'
      BY <1>1, <1>2, <2>1, <3>1, <3>2, StageKeeps
    <3>4. Due'
      BY <1>0, <1>1, <1>2, <3>1, DueKeeps DEF heartbeat
    <3> QED
      BY <3>3, <3>4
  <2> QED
    BY <1>1, <1>2, <2>1, <2>2 DEF Works, Settles
<1>3. CASE Subscribe(t)
  <2>1. /\ Lists' /\ Fresh(todo'[t]) /\ \A u \in Threads \ {t} : todo'[u] = todo[u]
        /\ Kinds(todo[t]) \subseteq Kinds(todo'[t]) \union {"subscribe"}
        /\ Kinds(todo'[t]) \subseteq Kinds(todo[t])
    BY <1>0, <1>3, SubscribeList
  <2>2. \A k \in Starters : k \in Kinds(todo[t]) => Kinds(todo'[t]) \intersect Starters # {}
    BY <2>1 DEF Starters
  <2>3. At(t, "subscribe")
    BY <1>3 DEF Subscribe
  <2> QED
    BY <1>2, <2>1, <2>2, <2>3
<1>4. CASE t = Main /\ Ready
  <2>1. /\ Lists' /\ Fresh(todo'[Main]) /\ \A u \in Jobs : todo'[u] = todo[u]
        /\ Kinds(todo[Main]) \subseteq Kinds(todo'[Main]) \union {"ready"}
        /\ Configured => "hb_check" \in Kinds(todo'[Main])
        /\ "serve" \in Kinds(todo'[Main]) => "serve" \in Kinds(todo[Main])
    BY <1>0, <1>4, ReadyList
  <2>2. \A u \in Threads \ {t} : todo'[u] = todo[u]
    BY <1>0, <1>4, <2>1
  <2>3. \A k \in Starters : k \in Kinds(todo[t]) =>
          Kinds(todo'[t]) \intersect Starters # {} \/ ~Configured
    BY <1>4, <2>1 DEF Starters
  <2>4. At(t, "ready")
    BY <1>4 DEF Ready
  <2> QED
    BY <1>2, <1>4, <2>1, <2>2, <2>3, <2>4
<1>5. ASSUME NEW w \in {"connect", "mqtt_stop"}, At(t, w), Step(t) PROVE Works(t)
  <2>1. Goes(t, w)
    BY <1>0, <1>5, Going
  <2>2. ~Waiting(t)
    BY <1>5, NotWaiting
  <2>3. Settles(t)
    <3> SUFFICES ASSUME mishaps' \intersect {"overlapped", "gave_up"} = {} PROVE Stage(t)' /\ Due'
      BY DEF Settles
    <3>1. Stage(t) /\ Due
      BY <1>1, <2>2, StageAhead
    <3> QED
      BY <1>1, <1>5, <2>1, <3>1, CalmStep
  <2> QED
    BY <1>1, <2>1, <2>2, <2>3 DEF Works, Goes
<1>6. CASE t = Main /\ (Connect \/ MqttStop)
  BY <1>5, <1>6 DEF Connect, MqttStop
<1> QED
  BY <1>3, <1>4, <1>6 DEF MainStep

LEMMA BeginBeats ==
  ASSUME Typed, Alone, BeatInv, NEW t \in Jobs, Setup(t) \/ Clear(t) \/ ApiClear(t)
  PROVE  Alone' /\ BeatInv'
<1>0. Lists /\ Main \in Threads /\ t \in Threads /\ t # Main
  BY MainAssumption DEF Typed, Threads
<1>1. /\ UNCHANGED <<memory, heartbeat>> /\ mishaps' = mishaps \union Overlap(t)
      /\ todo[t] = <<>>
  BY DEF Setup, Clear, ApiClear, Begin, Idle
<1>2. /\ Lists' /\ Job(todo'[t]) /\ \A u \in Threads \ {t} : todo'[u] = todo[u]
  BY <1>0, Begins
<1>3. "overlapped" \notin mishaps' => \A u \in Threads \ {t} : Waiting(u) /\ Waiting(u)'
  BY <1>0, <1>1, <1>2, OthersWait
<1>4. ASSUME mishaps' \intersect {"overlapped", "gave_up"} = {} PROVE Stage(t)' /\ Due'
  <2>1. \A u \in Threads : Waiting(u)
    BY <1>1, <1>3, <1>4 DEF Waiting, Idle
  <2>2. Beats /\ Due
    BY <1>1, <1>4, <2>1 DEF BeatInv
  <2>3. Ahead(t)' \in {"start", "forget"}
    <3>1. todo'[t] # <<>> /\ Sound(todo'[t]) /\ todo'[t][1].do \in {"start", "forget"}
      BY <1>2 DEF Job
    <3>2. Head(todo'[t]) = todo'[t][1]
      BY <3>1, Tails DEF Leaves
    <3> QED
      BY <3>1, <3>2 DEF Ahead, Idle
  <2>4. Stage(t)'
    BY <1>1, <2>2, <2>3 DEF Stage, Beats, heartbeat, Live
  <2>5. Due'
    <3>1. Kinds(todo[t]) = {} /\ (Configured' <=> Configured)
      BY <1>1, Empty DEF memory, Configured
    <3>2. "serve" \notin Kinds(todo'[t])
      BY <1>2 DEF Job
    <3> QED
      BY <1>0, <1>1, <1>2, <2>2, <3>1, <3>2, DueKeeps DEF heartbeat
  <2> QED
    BY <2>4, <2>5
<1> QED
  BY <1>0, <1>2, <1>3, <1>4, Settled DEF Settles

LEMMA SignalBeats ==
  ASSUME Typed, Alone, BeatInv, Signal
  PROVE  Alone' /\ BeatInv'
<1>0. Lists /\ Main \in Threads
  BY DEF Typed, Threads
<1>1. /\ UNCHANGED <<memory, heartbeat>> /\ mishaps' = mishaps \union Overlap(Main)
      /\ At(Main, "serve") /\ Step(Main)
  BY DEF Signal
<1>2. Goes(Main, "serve")
  BY <1>0, <1>1, Going
<1>3. /\ Lists' /\ \A u \in Threads \ {Main} : todo'[u] = todo[u]
      /\ Kinds(todo'[Main]) \subseteq AfterServe
  BY <1>2 DEF Goes
<1>4. "overlapped" \notin mishaps' => \A u \in Threads \ {Main} : Waiting(u) /\ Waiting(u)'
  BY <1>0, <1>1, <1>3, OthersWait
<1>5. ASSUME mishaps' \intersect {"overlapped", "gave_up"} = {} PROVE Stage(Main)' /\ Due'
  <2>1. \A u \in Threads : Waiting(u)
    BY <1>1, <1>4, <1>5 DEF Waiting, At
  <2>2. Beats
    BY <1>1, <1>5, <2>1 DEF BeatInv
  <2>3. Ahead(Main)' \notin {"hb_set", "hb_spawn", "hb_thread", "join"}
    BY <1>0, <1>2, NextAhead
  <2>4. Stage(Main)'
    BY <1>1, <2>2, <2>3 DEF Stage, Beats, heartbeat, Live
  <2>5. Due'
    BY <1>3 DEF Due, AfterServe
  <2> QED
    BY <2>4, <2>5
<1> QED
  BY <1>0, <1>3, <1>4, <1>5, Settled DEF Settles

(* A heartbeat thread goes on, or ends when the flag is down.              *)
LEMMA LoopBeats ==
  ASSUME Typed, Alone, BeatInv, NEW l \in DOMAIN loop, LoopLooks(l) \/ LoopPublished(l)
  PROVE  Alone' /\ BeatInv'
<1>1. /\ UNCHANGED <<todo, memory, running, latest, mishaps>> /\ l \in Live
  BY DEF LoopLooks, LoopPublished, Live
<1>2. Live' \subseteq Live /\ (running => Live' = Live)
  <2>1. PICK v \in Loops : loop' = [loop EXCEPT ![l] = v] /\ (running => v # "ended")
    BY DEF LoopLooks, LoopPublished, Loops
  <2>2. /\ DOMAIN loop' = DOMAIN loop
        /\ \A k \in DOMAIN loop : loop'[k] = IF k = l THEN v ELSE loop[k]
    BY <2>1, LoopTyped
  <2> QED
    BY <1>1, <2>1, <2>2 DEF Live
<1>3. Alone'
  BY <1>1 DEF Alone, Waiting, Idle
<1>4. Beats => Beats'
  BY <1>1, <1>2 DEF Beats
<1>5. \A t \in Threads : Stage(t) => Stage(t)'
  <2> SUFFICES ASSUME NEW t \in Threads, Stage(t) PROVE Stage(t)'
    OBVIOUS
  <2>1. Ahead(t)' = Ahead(t) /\ On(t)' = On(t) /\ (Configured' <=> Configured)
    BY <1>1 DEF Ahead, Idle, On, Configured, memory
  <2>2. Live = {} => Live' = {}
    BY <1>2
  <2> QED
    BY <1>1, <1>2, <1>4, <2>1, <2>2 DEF Stage
<1>6. Due => Due'
  BY <1>1 DEF Due, WillBeat, Configured, memory
<1>7. \A t \in Threads : Waiting(t)' <=> Waiting(t)
  BY <1>1 DEF Waiting, Idle
<1> QED
  BY <1>1, <1>3, <1>4, <1>5, <1>6, <1>7 DEF BeatInv

LEMMA BeatStep ==
  ASSUME Typed, Alone, BeatInv, [Next]_vars
  PROVE  Alone' /\ BeatInv'
<1>0. Main \in Threads
  BY DEF Threads
<1>1. ASSUME NEW t \in Threads, ThreadStep(t) \/ (t = Main /\ MainStep) PROVE Alone' /\ BeatInv'
  <2>1. Works(t)
    BY <1>1, JobWorks, HeartbeatWorks, OtherWorks DEF ThreadStep
  <2>2. "overlapped" \notin mishaps' => \A u \in Threads \ {t} : Waiting(u)'
    BY <2>1, OthersWait DEF Works
  <2> QED
    BY <2>1, <2>2, Settled DEF Works
<1>2. CASE UNCHANGED <<todo, memory, heartbeat>> /\ mishaps \subseteq mishaps'
  <2>1. Alone'
    BY <1>2 DEF Alone, Waiting, Idle
  <2>2. /\ Beats => Beats'
        /\ \A t \in Threads : Waiting(t)' <=> Waiting(t)
        /\ Configured' <=> Configured
    BY <1>2 DEF Beats, Live, heartbeat, Waiting, Idle, Configured, memory
  <2>3. \A t \in Threads : Stage(t) => Stage(t)'
    BY <1>2, <2>2 DEF Stage, Ahead, Idle, On, Live, heartbeat
  <2>4. Due => Due'
    BY <1>2, <2>2 DEF Due, WillBeat, heartbeat
  <2> QED
    BY <1>2, <2>1, <2>2, <2>3, <2>4 DEF BeatInv
<1>3. CASE Network
  BY <1>2, <1>3 DEF Network, Connected, Lost, Reconnect
<1>4. CASE UNCHANGED vars
  BY <1>2, <1>4 DEF vars
<1>5. CASE \E t \in Jobs : Setup(t) \/ Clear(t) \/ ApiClear(t)
  BY <1>5, BeginBeats
<1>6. CASE Signal
  BY <1>6, SignalBeats
<1>7. CASE \E l \in DOMAIN loop : LoopLooks(l) \/ LoopPublished(l)
  BY <1>7, LoopBeats
<1> QED
  BY <1>0, <1>1, <1>3, <1>4, <1>5, <1>6, <1>7 DEF Next

LEMMA BeatInit == Init => Alone /\ BeatInv
<1> SUFFICES ASSUME Init PROVE Alone /\ BeatInv
  OBVIOUS
<1>0. Main \in Threads /\ \A t \in Threads \ {Main} : Waiting(t)
  BY DEF Init, Threads, Waiting, Idle
<1>1. Live = {} /\ ~running /\ Beats
  BY DEF Init, Live, Beats
<1>2. todo[Main] = MainSteps
  BY DEF Init, Threads
<1>3. Ahead(Main) = "connect" /\ Kinds(todo[Main]) \intersect Starters # {}
  <2>1. Head(MainSteps) = MainSteps[1] /\ MainSteps # <<>>
    BY MainList, Tails DEF Leaves
  <2> QED
    BY <1>2, <2>1, MainList DEF Ahead, Idle, Starters
<1>4. Stage(Main)
  BY <1>1, <1>3 DEF Stage
<1>5. Due
  BY <1>0, <1>3 DEF Due, WillBeat
<1> QED
  BY <1>0, <1>1, <1>4, <1>5 DEF Alone, BeatInv

(* At rest there is one heartbeat thread if the flag is up and none if it  *)
(* is down, and a gateway with cabinets has its flag up: when the jobs     *)
(* came one after the other and every stop waited long enough.             *)
THEOREM HeartbeatFollowsTheCabinets == Spec => []HeartbeatFollows
<1>1. Typed /\ Alone /\ BeatInv /\ [Next]_vars => (Alone /\ BeatInv)'
  BY BeatStep
<1>2. Typed /\ [Next]_vars => Typed'
  BY TypeStep
<1>3. Typed /\ Alone /\ BeatInv => HeartbeatFollows
  <2> SUFFICES ASSUME Typed, BeatInv, Quiet, mishaps \intersect {"overlapped", "gave_up"} = {}
               PROVE  /\ Cardinality(Live) = IF running THEN 1 ELSE 0
                      /\ Configured /\ "failed" \notin mishaps => running
    BY DEF HeartbeatFollows
  <2>1. Beats /\ Due
    BY DEF BeatInv, Quiet
  <2>2. Cardinality(Live) = IF running THEN 1 ELSE 0
    BY <2>1, FS_EmptySet, FS_Singleton DEF Beats
  <2>3. "serve" \in Kinds(todo[Main])
    <3>1. todo[Main] # <<>> /\ Head(todo[Main]).do = "serve" /\ Sound(todo[Main])
      BY DEF Quiet, Up, Waiting, Idle, Typed, Lists, Threads
    <3> QED
      BY <3>1, HeadIn
  <2>4. ~WillBeat
    <3> SUFFICES ASSUME NEW t \in Threads PROVE Kinds(todo[t]) \intersect Starters = {}
      BY DEF WillBeat
    <3>1. Kinds(todo[t]) \subseteq {"serve"} \union AfterServe
      BY NothingPending DEF Typed, Quiet
    <3> QED
      BY <3>1 DEF AfterServe, Starters
  <2>5. Configured /\ "failed" \notin mishaps => running
    BY <2>1, <2>3, <2>4 DEF Due
  <2> QED
    BY <2>2, <2>5
<1> QED
  BY TypeInit, BeatInit, <1>1, <1>2, <1>3, PTL DEF Spec
================================================================================
