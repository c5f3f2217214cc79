-------------------------- MODULE CabinetStateProofs --------------------------
(***************************************************************************)
(* Proofs about CabinetState, for any threads, locations and cabinets and  *)
(* any bounds.  Three inductive invariants, each resting on the one before *)
(* it: a thread's list of steps is what is left of an operation; what a    *)
(* start may find while an operation is cut short; and, while no two       *)
(* threads are at work and nothing failed, what each thread's next step    *)
(* says of memory, file and rows.                                          *)
(***************************************************************************)
EXTENDS CabinetState, SequenceTheorems, FiniteSetTheorems, TLAPS

OfLocation == {"set_location", "location_row"}
OfCabinet == {"cabinet_data", "set_cabinet", "cabinet_row", "locker_rows", "set_lockers"}
OfSetup == OfCabinet \union {"start", "check"}
OfSave == {"build", "open", "dump"}
OfClear == {"forget_location", "forget_cabinets", "unlink", "clear_rows"}
Plain == OfSave \union OfClear \union {"start", "finish"}

Steps ==
  [do : OfLocation, x : Locations] \union [do : OfCabinet, x : Cabinets]
    \union [do : {"check"}, x : Seq(Cabinets) \ {<<>>}] \union [do : Plain, x : {None}]

(* Step b comes after step a in the lists of setups and clears.            *)
Follows(a, b) ==
  /\ a.do = "start" => b.do \in {"forget_location", "set_location"}
  /\ a.do = "forget_location" => b.do = "forget_cabinets"
  /\ a.do = "forget_cabinets" => b.do = "unlink"
  /\ a.do = "unlink" => b.do = "clear_rows"
  /\ a.do = "clear_rows" => b.do = "set_location"
  /\ a.do = "set_location" => b = Do("location_row", a.x)
  /\ a.do \in {"location_row", "cabinet_row"} => b.do = "build"
  /\ a.do = "build" => b.do = "open"
  /\ a.do = "open" => b.do = "dump"
  /\ a.do = "dump" => b.do \in {"check", "locker_rows", "finish"}
  /\ a.do = "check" => b.do = "finish"
  /\ a.do = "cabinet_data" => b = Do("set_cabinet", a.x)
  /\ a.do = "set_cabinet" => b = Do("cabinet_row", a.x)
  /\ a.do = "locker_rows" => b = Do("set_lockers", a.x)
  /\ a.do = "set_lockers" => b.do \in {"check", "finish"}
  /\ a.do # "finish"

Linked(q) ==
  /\ q \in Seq(Steps)
  /\ \A i \in 1..Len(q) : i + 1 \in 1..Len(q) => Follows(q[i], q[i + 1])

Kinds(q) == {q[i].do : i \in 1..Len(q)}

(* Before a step for a cabinet come only steps for cabinets.               *)
CabinetFirst(q) ==
  \A i, j \in 1..Len(q) : j < i /\ q[i].do \in OfCabinet => q[j].do \in OfCabinet \union OfSave

(* A cabinet that is about to be set has its lockers set later.            *)
LockersFollow(q) ==
  \A i \in 1..Len(q) : q[i].do = "set_cabinet" =>
     \E j \in 1..Len(q) : j > i /\ q[j] = Do("set_lockers", q[i].x)

(* What a thread may still have to do.                                     *)
Work(q) ==
  /\ Linked(q) /\ CabinetFirst(q) /\ LockersFollow(q)
  /\ q # <<>> => q[Len(q)].do \in {"clear_rows", "finish"}
  /\ Kinds(q) \intersect OfSetup # {} => q[Len(q)].do = "finish"

--------------------------------------------------------------------------------
(* The lists of the operations are well formed. *)

LEMMA TypedSteps ==
  /\ \A l \in Locations : \A w \in OfLocation : Do(w, l) \in Steps
  /\ \A c \in Cabinets : \A w \in OfCabinet : Do(w, c) \in Steps
  /\ \A cs \in Seq(Cabinets) : cs # <<>> => Do("check", cs) \in Steps
  /\ \A w \in Plain : Do(w, None) \in Steps
  /\ \A w, x : Do(w, x).do = w /\ Do(w, x).x = x
BY DEF Do, Steps

(* What comes before the steps that use what the one before it made.       *)
LEMMA Before ==
  ASSUME NEW a \in Steps, NEW b \in Steps, Follows(a, b)
  PROVE  /\ b.do = "open" => a.do = "build"
         /\ b.do = "dump" => a.do = "open"
         /\ b.do = "set_cabinet" => a.do = "cabinet_data"
         /\ a.do # "finish"
<1>1. a.do \in OfLocation \union OfCabinet \union {"check"} \union Plain
  BY DEF Steps
<1>2. /\ a.do = "set_location" => b.do = "location_row"
      /\ a.do = "cabinet_data" => b.do = "set_cabinet"
      /\ a.do = "set_cabinet" => b.do = "cabinet_row"
      /\ a.do = "locker_rows" => b.do = "set_lockers"
  BY DEF Follows, Do
<1>3. a.do # "finish"
  BY DEF Follows
<1>4. ASSUME b.do = "open" PROVE a.do = "build"
  BY <1>1, <1>2, <1>3, <1>4 DEF Follows, OfLocation, OfCabinet, OfSave, OfClear, Plain
<1>5. ASSUME b.do = "dump" PROVE a.do = "open"
  BY <1>1, <1>2, <1>3, <1>5 DEF Follows, OfLocation, OfCabinet, OfSave, OfClear, Plain
<1>6. ASSUME b.do = "set_cabinet" PROVE a.do = "cabinet_data"
  BY <1>1, <1>2, <1>3, <1>6 DEF Follows, OfLocation, OfCabinet, OfSave, OfClear, Plain
<1> QED
  BY <1>3, <1>4, <1>5, <1>6

LEMMA Indices ==
  ASSUME NEW p \in Seq(Steps), NEW q \in Seq(Steps)
  PROVE  LET r == p \o q
         IN  /\ r \in Seq(Steps) /\ Len(r) = Len(p) + Len(q)
             /\ \A i \in 1..Len(p) : i \in 1..Len(r) /\ r[i] = p[i]
             /\ \A i \in 1..Len(q) : Len(p) + i \in 1..Len(r) /\ r[Len(p) + i] = q[i]
             /\ \A i \in 1..Len(r) : \/ i \in 1..Len(p) /\ r[i] = p[i]
                                     \/ i - Len(p) \in 1..Len(q) /\ r[i] = q[i - Len(p)]
<1> DEFINE r == p \o q
<1>1. /\ Len(p) \in Nat /\ Len(q) \in Nat /\ r \in Seq(Steps) /\ Len(r) = Len(p) + Len(q)
      /\ \A i \in 1..Len(p) : r[i] = p[i]
      /\ \A i \in 1..Len(q) : r[Len(p) + i] = q[i]
  OBVIOUS
<1> HIDE DEF r
<1>2. ASSUME NEW i \in 1..Len(r), i \notin 1..Len(p)
      PROVE  i - Len(p) \in 1..Len(q) /\ r[i] = q[i - Len(p)]
  <2>1. i - Len(p) \in 1..Len(q) /\ Len(p) + (i - Len(p)) = i
    BY <1>1, <1>2
  <2> QED
    BY <1>1, <2>1
<1>3. /\ \A i \in 1..Len(p) : i \in 1..Len(r)
      /\ \A i \in 1..Len(q) : Len(p) + i \in 1..Len(r)
  BY <1>1
<1> QED
  BY <1>1, <1>2, <1>3 DEF r

LEMMA Joined ==
  ASSUME NEW p, NEW q, Linked(p), Linked(q),
         p # <<>> /\ q # <<>> => Follows(p[Len(p)], q[1])
  PROVE  /\ Linked(p \o q) /\ Kinds(p \o q) = Kinds(p) \union Kinds(q)
         /\ p # <<>> => p \o q # <<>> /\ (p \o q)[1] = p[1]
         /\ q # <<>> => p \o q # <<>> /\ (p \o q)[Len(p \o q)] = q[Len(q)]
         /\ p = <<>> => p \o q = q
         /\ q = <<>> => p \o q = p
<1> DEFINE r == p \o q
<1>1. p \in Seq(Steps) /\ q \in Seq(Steps)
  BY DEF Linked
<1>2. /\ Len(p) \in Nat /\ Len(q) \in Nat
      /\ (p # <<>> <=> Len(p) > 0) /\ (q # <<>> <=> Len(q) > 0)
      /\ (p = <<>> => r = q) /\ (q = <<>> => r = p)
  BY <1>1
<1>3. /\ r \in Seq(Steps) /\ Len(r) = Len(p) + Len(q)
      /\ \A i \in 1..Len(p) : i \in 1..Len(r) /\ r[i] = p[i]
      /\ \A i \in 1..Len(q) : Len(p) + i \in 1..Len(r) /\ r[Len(p) + i] = q[i]
      /\ \A i \in 1..Len(r) : \/ i \in 1..Len(p) /\ r[i] = p[i]
                              \/ i - Len(p) \in 1..Len(q) /\ r[i] = q[i - Len(p)]
  BY <1>1, Indices
<1> HIDE DEF r
<1>4. ASSUME NEW i \in 1..Len(r), i + 1 \in 1..Len(r) PROVE Follows(r[i], r[i + 1])
  <2>1. CASE i + 1 \in 1..Len(p)
    <3>1. i \in 1..Len(p)
      BY <1>2, <2>1
    <3> QED
      BY <1>3, <2>1, <3>1 DEF Linked
  <2>2. CASE i = Len(p)
    <3>1. p # <<>> /\ q # <<>> /\ Len(p) \in 1..Len(p) /\ 1 \in 1..Len(q) /\ i + 1 = Len(p) + 1
      BY <1>2, <1>3, <1>4, <2>2
    <3>2. r[Len(p)] = p[Len(p)]
      BY <1>3, <3>1
    <3>3. r[Len(p) + 1] = q[1]
      BY <1>3, <3>1
    <3> QED
      BY <2>2, <3>1, <3>2, <3>3
  <2>3. CASE i > Len(p)
    <3> DEFINE j == i - Len(p)
    <3>1. j \in 1..Len(q) /\ j + 1 \in 1..Len(q) /\ Len(p) + j = i /\ Len(p) + (j + 1) = i + 1
      BY <1>2, <1>3, <1>4, <2>3
    <3> HIDE DEF j
    <3>2. r[Len(p) + j] = q[j] /\ r[Len(p) + (j + 1)] = q[j + 1]
      BY <1>3, <3>1
    <3>3. Follows(q[j], q[j + 1])
      BY <3>1 DEF Linked
    <3> QED
      BY <3>1, <3>2, <3>3
  <2> QED
    BY <1>2, <1>3, <1>4, <2>1, <2>2, <2>3
<1>5. Kinds(r) = Kinds(p) \union Kinds(q)
  <2>1. ASSUME NEW k \in Kinds(r) PROVE k \in Kinds(p) \union Kinds(q)
    <3>1. PICK i \in 1..Len(r) : k = r[i].do
      BY <2>1 DEF Kinds
    <3> QED
      BY <1>3, <3>1 DEF Kinds
  <2>2. ASSUME NEW k \in Kinds(p) PROVE k \in Kinds(r)
    BY <1>3, <2>2 DEF Kinds
  <2>3. ASSUME NEW k \in Kinds(q) PROVE k \in Kinds(r)
    <3>1. PICK i \in 1..Len(q) : k = q[i].do
      BY <2>3 DEF Kinds
    <3> QED
      BY <1>3, <3>1 DEF Kinds
  <2> QED
    BY <2>1, <2>2, <2>3
<1>6. p # <<>> => r # <<>> /\ r[1] = p[1]
  <2>1. p # <<>> => 1 \in 1..Len(p)
    BY <1>2
  <2> QED
    BY <1>2, <1>3, <2>1
<1>7. q # <<>> => r # <<>> /\ r[Len(r)] = q[Len(q)]
  <2>1. q # <<>> => Len(q) \in 1..Len(q)
    BY <1>2
  <2> QED
    BY <1>2, <1>3, <2>1
<1> QED
  BY <1>2, <1>3, <1>4, <1>5, <1>6, <1>7 DEF Linked, r

LEMMA NoSteps == Linked(<<>>) /\ Kinds(<<>>) = {} /\ Work(<<>>)
BY DEF Linked, Kinds, Work, CabinetFirst, LockersFollow

LEMMA OneStep ==
  ASSUME NEW a \in Steps, NEW q, q = <<a>>
  PROVE  /\ Linked(q) /\ Kinds(q) = {a.do} /\ q # <<>>
         /\ q[1] = a /\ q[Len(q)] = a
<1>1. q \in Seq(Steps) /\ Len(q) = 1 /\ q[1] = a /\ q # <<>>
  OBVIOUS
<1>2. \A i \in 1..Len(q) : i = 1 /\ i + 1 \notin 1..Len(q)
  BY <1>1
<1>3. 1 \in 1..Len(q)
  BY <1>1
<1> QED
  BY <1>1, <1>2, <1>3 DEF Linked, Kinds

LEMMA TwoSteps ==
  ASSUME NEW a \in Steps, NEW b \in Steps, Follows(a, b), NEW q, q = <<a, b>>
  PROVE  /\ Linked(q) /\ Kinds(q) = {a.do, b.do} /\ q # <<>>
         /\ Len(q) = 2 /\ q[1] = a /\ q[2] = b /\ q[Len(q)] = b
<1>1. q \in Seq(Steps) /\ Len(q) = 2 /\ q[1] = a /\ q[2] = b /\ q # <<>>
  OBVIOUS
<1>2. ASSUME NEW i \in 1..Len(q) PROVE (i = 1 \/ i = 2) /\ (i + 1 \in 1..Len(q) => i = 1)
  BY <1>1
<1>3. 1 \in 1..Len(q) /\ 2 \in 1..Len(q) /\ 1 + 1 = 2
  BY <1>1
<1>4. Linked(q)
  BY <1>1, <1>2, <1>3 DEF Linked
<1>5. Kinds(q) = {a.do, b.do}
  BY <1>1, <1>2, <1>3 DEF Kinds
<1> QED
  BY <1>1, <1>4, <1>5

LEMMA ThreeSteps ==
  ASSUME NEW a \in Steps, NEW b \in Steps, NEW c \in Steps, Follows(a, b), Follows(b, c),
         NEW q, q = <<a, b, c>>
  PROVE  /\ Linked(q) /\ Kinds(q) = {a.do, b.do, c.do} /\ q # <<>>
         /\ Len(q) = 3 /\ q[1] = a /\ q[2] = b /\ q[3] = c /\ q[Len(q)] = c
<1>1. q \in Seq(Steps) /\ Len(q) = 3 /\ q[1] = a /\ q[2] = b /\ q[3] = c /\ q # <<>>
  OBVIOUS
<1>2. ASSUME NEW i \in 1..Len(q)
      PROVE  (i = 1 \/ i = 2 \/ i = 3) /\ (i + 1 \in 1..Len(q) => i = 1 \/ i = 2)
  BY <1>1
<1>3. 1 \in 1..Len(q) /\ 2 \in 1..Len(q) /\ 3 \in 1..Len(q) /\ 1 + 1 = 2 /\ 2 + 1 = 3
  BY <1>1
<1>4. Linked(q)
  BY <1>1, <1>2, <1>3 DEF Linked
<1>5. Kinds(q) = {a.do, b.do, c.do}
  BY <1>1, <1>2, <1>3 DEF Kinds
<1> QED
  BY <1>1, <1>4, <1>5

LEMMA FourSteps ==
  ASSUME NEW a \in Steps, NEW b \in Steps, NEW c \in Steps, NEW d \in Steps,
         Follows(a, b), Follows(b, c), Follows(c, d), NEW q, q = <<a, b, c, d>>
  PROVE  /\ Linked(q) /\ Kinds(q) = {a.do, b.do, c.do, d.do} /\ q # <<>>
         /\ q[1] = a /\ q[Len(q)] = d
<1>1. /\ q \in Seq(Steps) /\ Len(q) = 4 /\ q # <<>>
      /\ q[1] = a /\ q[2] = b /\ q[3] = c /\ q[4] = d
  OBVIOUS
<1>2. ASSUME NEW i \in 1..Len(q)
      PROVE  (i = 1 \/ i = 2 \/ i = 3 \/ i = 4) /\ (i + 1 \in 1..Len(q) => i = 1 \/ i = 2 \/ i = 3)
  BY <1>1
<1>3. /\ 1 \in 1..Len(q) /\ 2 \in 1..Len(q) /\ 3 \in 1..Len(q) /\ 4 \in 1..Len(q)
      /\ 1 + 1 = 2 /\ 2 + 1 = 3 /\ 3 + 1 = 4
  BY <1>1
<1>4. Linked(q)
  BY <1>1, <1>2, <1>3 DEF Linked
<1>5. Kinds(q) = {a.do, b.do, c.do, d.do}
  BY <1>1, <1>2, <1>3 DEF Kinds
<1> QED
  BY <1>1, <1>4, <1>5

(* Without steps for cabinets a list needs less.                           *)
LEMMA NoCabinetSteps ==
  ASSUME NEW q, Linked(q), Kinds(q) \intersect OfCabinet = {}
  PROVE  CabinetFirst(q) /\ LockersFollow(q)
<1>1. \A i \in 1..Len(q) : q[i].do \notin OfCabinet
  BY DEF Kinds
<1> QED
  BY <1>1 DEF CabinetFirst, LockersFollow, OfCabinet

LEMMA SaveJsonLinked ==
  /\ Linked(SaveJson) /\ Kinds(SaveJson) = OfSave /\ SaveJson # <<>>
  /\ SaveJson[1].do = "build" /\ SaveJson[Len(SaveJson)].do = "dump"
<1> DEFINE a == Do("build", None)
           b == Do("open", None)
           c == Do("dump", None)
<1>1. a \in Steps /\ b \in Steps /\ c \in Steps
  BY TypedSteps DEF Plain, OfSave, OfClear
<1>2. a.do = "build" /\ b.do = "open" /\ c.do = "dump"
  BY TypedSteps
<1> HIDE DEF a, b, c
<1>3. Follows(a, b) /\ Follows(b, c)
  BY <1>2 DEF Follows
<1>4. SaveJson = <<a, b, c>>
  BY DEF SaveJson, a, b, c
<1> QED
  BY <1>1, <1>2, <1>3, <1>4, ThreeSteps DEF OfSave

LEMMA ClearWork ==
  /\ Work(ClearSteps) /\ Kinds(ClearSteps) = OfClear
  /\ ClearSteps # <<>> /\ ClearSteps[1].do = "forget_location"
  /\ ClearSteps[Len(ClearSteps)].do = "clear_rows"
<1> DEFINE a == Do("forget_location", None)
           b == Do("forget_cabinets", None)
           c == Do("unlink", None)
           d == Do("clear_rows", None)
<1>1. a \in Steps /\ b \in Steps /\ c \in Steps /\ d \in Steps
  BY TypedSteps DEF Plain, OfClear
<1>2. a.do = "forget_location" /\ b.do = "forget_cabinets" /\ c.do = "unlink" /\ d.do = "clear_rows"
  BY TypedSteps
<1> HIDE DEF a, b, c, d
<1>3. Follows(a, b) /\ Follows(b, c) /\ Follows(c, d)
  BY <1>2 DEF Follows
<1>4. ClearSteps = <<a, b, c, d>>
  BY DEF ClearSteps, a, b, c, d
<1> DEFINE q == ClearSteps
<1> HIDE DEF q
<1>5. /\ Linked(q) /\ Kinds(q) = OfClear
      /\ q # <<>> /\ q[1].do = "forget_location" /\ q[Len(q)].do = "clear_rows"
  <2>1. q = <<a, b, c, d>>
    BY <1>4 DEF q
  <2>2. Kinds(q) = {a.do, b.do, c.do, d.do}
    BY <1>1, <1>3, <2>1, FourSteps
  <2>3. Kinds(q) = OfClear
    BY <1>2, <2>2 DEF OfClear
  <2> QED
    BY <1>1, <1>2, <1>3, <2>1, <2>3, FourSteps
<1> QED
  BY <1>5, NoCabinetSteps DEF Work, OfSetup, OfCabinet, OfClear, q

LEMMA SaveLocationLinked ==
  ASSUME NEW l \in Locations, NEW q, q = SaveLocation(l)
  PROVE  /\ Linked(q) /\ Kinds(q) = OfLocation \union OfSave /\ q # <<>>
         /\ q[1].do = "set_location" /\ q[Len(q)].do = "dump"
<1> DEFINE a == Do("set_location", l)
           b == Do("location_row", l)
           p == <<a, b>>
<1>1. a \in Steps /\ b \in Steps /\ a.do = "set_location" /\ b.do = "location_row"
  BY TypedSteps DEF OfLocation
<1>2. Follows(a, b)
  BY DEF Follows, Do
<1>b. p = <<a, b>>
  OBVIOUS
<1> HIDE DEF a, b, p
<1>3. Linked(p) /\ Kinds(p) = OfLocation /\ p # <<>> /\ Len(p) = 2 /\ p[1] = a /\ p[2] = b
  <2>1. Kinds(p) = {a.do, b.do}
    BY <1>b, <1>1, <1>2, TwoSteps
  <2>2. Kinds(p) = OfLocation
    BY <1>1, <2>1 DEF OfLocation
  <2> QED
    BY <1>b, <1>1, <1>2, <2>2, TwoSteps
<1>4. Follows(p[Len(p)], SaveJson[1])
  BY <1>1, <1>3, SaveJsonLinked DEF Follows
<1>5. q = p \o SaveJson
  BY DEF SaveLocation, p, a, b
<1> DEFINE s == SaveJson
<1>6. Linked(s) /\ Kinds(s) = OfSave /\ s # <<>> /\ s[Len(s)].do = "dump" /\ s \in Seq(Steps)
  BY SaveJsonLinked DEF Linked
<1> HIDE DEF s
<1>7. q = p \o s /\ Follows(p[Len(p)], s[1])
  BY <1>4, <1>5 DEF s
<1>8. /\ Linked(p \o s) /\ Kinds(p \o s) = Kinds(p) \union Kinds(s) /\ p \o s # <<>>
      /\ (p \o s)[1] = p[1] /\ (p \o s)[Len(p \o s)] = s[Len(s)]
  BY <1>3, <1>6, <1>7, Joined
<1> QED
  BY <1>1, <1>3, <1>6, <1>7, <1>8

LEMMA SaveLockersLinked ==
  ASSUME NEW c \in Cabinets, NEW q, q = SaveLockers(c)
  PROVE  /\ Linked(q) /\ Kinds(q) = {"locker_rows", "set_lockers"} /\ q # <<>>
         /\ Len(q) = 2 /\ q[1] = Do("locker_rows", c) /\ q[2] = Do("set_lockers", c)
<1> DEFINE a == Do("locker_rows", c)
           b == Do("set_lockers", c)
<1>1. a \in Steps /\ b \in Steps /\ a.do = "locker_rows" /\ b.do = "set_lockers"
  BY TypedSteps DEF OfCabinet
<1>2. Follows(a, b)
  BY DEF Follows, Do
<1>3. q = <<a, b>>
  BY DEF SaveLockers
<1> HIDE DEF a, b
<1>4. Kinds(q) = {a.do, b.do}
  BY <1>1, <1>2, <1>3, TwoSteps
<1>5. Linked(q) /\ q # <<>> /\ Len(q) = 2 /\ q[1] = a /\ q[2] = b
  BY <1>1, <1>2, <1>3, TwoSteps
<1> QED
  BY <1>1, <1>4, <1>5 DEF a, b

LEMMA CheckLinked ==
  ASSUME NEW cs \in Seq(Cabinets), NEW q, q = CheckCabinets(cs)
  PROVE  /\ Linked(q) /\ Kinds(q) \subseteq {"check"}
         /\ q # <<>> => q[1].do = "check" /\ q[Len(q)].do = "check"
<1>1. CASE cs = <<>>
  BY <1>1, NoSteps DEF CheckCabinets
<1>2. CASE cs # <<>>
  <2>1. Do("check", cs) \in Steps /\ Do("check", cs).do = "check"
    BY <1>2, TypedSteps
  <2>2. CheckCabinets(cs) = <<Do("check", cs)>>
    BY <1>2 DEF CheckCabinets
  <2> QED
    BY <2>1, <2>2, OneStep
<1> QED
  BY <1>1, <1>2

(* A cabinet's steps: it is set before its rows are written, and its       *)
(* lockers are set in the end.                                             *)
LEMMA SaveBoth ==
  ASSUME NEW c \in Cabinets, NEW q, q = SaveCabinet(c) \o SaveLockers(c)
  PROVE  /\ Linked(q) /\ Kinds(q) \subseteq OfCabinet \union OfSave /\ q # <<>>
         /\ q[1].do = "cabinet_data" /\ q[Len(q)].do = "set_lockers"
         /\ LockersFollow(q)
         /\ \A i \in 1..Len(q) : q[i].do = "locker_rows" =>
              \E j \in 1..Len(q) : j < i /\ q[j] = Do("cabinet_row", q[i].x)
<1> DEFINE a == Do("cabinet_data", c)
           d == Do("set_cabinet", c)
           b == Do("cabinet_row", c)
           p == <<a, d, b>>
           s == SaveJson
           u == SaveLockers(c)
<1>a. q = (p \o s) \o u
  BY DEF SaveCabinet
<1>1. /\ a \in Steps /\ d \in Steps /\ b \in Steps
      /\ a.do = "cabinet_data" /\ d.do = "set_cabinet" /\ b.do = "cabinet_row"
  BY TypedSteps DEF OfCabinet
<1>2. Follows(a, d) /\ Follows(d, b)
  BY DEF Follows, Do
<1>b. p = <<a, d, b>>
  OBVIOUS
<1> HIDE DEF a, d, b, p
<1>3. /\ Linked(p) /\ Kinds(p) = {"cabinet_data", "set_cabinet", "cabinet_row"}
      /\ p # <<>> /\ Len(p) = 3 /\ p[1] = a /\ p[2] = d /\ p[3] = b
  <2>1. Kinds(p) = {a.do, d.do, b.do}
    BY <1>b, <1>1, <1>2, ThreeSteps
  <2> QED
    BY <1>b, <1>1, <1>2, <2>1, ThreeSteps
<1>4. Linked(s) /\ Kinds(s) = OfSave /\ s # <<>> /\ s[1].do = "build" /\ s[Len(s)].do = "dump"
  BY SaveJsonLinked
<1>5. /\ Linked(u) /\ Kinds(u) = {"locker_rows", "set_lockers"} /\ u # <<>> /\ Len(u) = 2
      /\ u[1] = Do("locker_rows", c) /\ u[2] = Do("set_lockers", c)
  BY SaveLockersLinked
<1> HIDE DEF s, u
<1>6. Follows(p[Len(p)], s[1])
  BY <1>1, <1>3, <1>4 DEF Follows
<1>7. /\ Linked(p \o s) /\ Kinds(p \o s) = Kinds(p) \union OfSave /\ p \o s # <<>>
      /\ (p \o s)[1] = a /\ (p \o s)[Len(p \o s)].do = "dump"
  BY <1>3, <1>4, <1>6, Joined
<1>8. Follows((p \o s)[Len(p \o s)], u[1])
  BY <1>5, <1>7, TypedSteps DEF Follows
<1>9. /\ Linked(q) /\ Kinds(q) \subseteq OfCabinet \union OfSave /\ q # <<>>
      /\ q[1] = a /\ q[Len(q)] = Do("set_lockers", c)
  <2>1. /\ Linked((p \o s) \o u) /\ Kinds((p \o s) \o u) = Kinds(p \o s) \union Kinds(u)
        /\ (p \o s) \o u # <<>> /\ ((p \o s) \o u)[1] = (p \o s)[1]
        /\ ((p \o s) \o u)[Len((p \o s) \o u)] = u[Len(u)]
    BY <1>5, <1>7, <1>8, Joined
  <2> QED
    BY <1>a, <1>3, <1>5, <1>7, <2>1 DEF OfCabinet
<1>10. /\ Len(q) \in Nat /\ Len(q) > 0 /\ Len(q) \in 1..Len(q)
       /\ 3 \in 1..Len(q) /\ q[3] = b /\ q[2].do = "set_cabinet"
  <2>1. p \in Seq(Steps) /\ s \in Seq(Steps) /\ u \in Seq(Steps) /\ p \o s \in Seq(Steps)
    BY <1>3, <1>4, <1>5 DEF Linked
  <2>2. 2 \in 1..Len(p) /\ 3 \in 1..Len(p)
    BY <1>3
  <2>3. /\ 2 \in 1..Len(p \o s) /\ (p \o s)[2] = d
        /\ 3 \in 1..Len(p \o s) /\ (p \o s)[3] = b
    BY <1>3, <2>1, <2>2, Indices
  <2>4. 3 \in 1..Len(q) /\ q[3] = b /\ q[2] = d /\ q \in Seq(Steps)
    BY <1>a, <2>1, <2>3, Indices
  <2> QED
    BY <1>1, <2>4
<1>11. \A i \in 1..Len(q) : q[i].do \in {"set_cabinet", "locker_rows"} => q[i].x = c
  <2>1. /\ p \in Seq(Steps) /\ s \in Seq(Steps) /\ u \in Seq(Steps) /\ p \o s \in Seq(Steps)
    BY <1>3, <1>4, <1>5, <1>7 DEF Linked
  <2>2. ASSUME NEW i \in 1..Len(p) PROVE p[i].x = c
    <3>1. i = 1 \/ i = 2 \/ i = 3
      BY <1>3
    <3> QED
      BY <1>3, <3>1, TypedSteps DEF a, d, b
  <2>3. ASSUME NEW i \in 1..Len(u) PROVE u[i].x = c
    <3>1. i = 1 \/ i = 2
      BY <1>5
    <3> QED
      BY <1>5, <3>1, TypedSteps
  <2>4. ASSUME NEW i \in 1..Len(s) PROVE s[i].do \in OfSave
    BY <1>4 DEF Kinds
  <2>5. ASSUME NEW i \in 1..Len(p \o s), (p \o s)[i].do \notin OfSave PROVE (p \o s)[i].x = c
    <3>1. \/ i \in 1..Len(p) /\ (p \o s)[i] = p[i]
          \/ i - Len(p) \in 1..Len(s) /\ (p \o s)[i] = s[i - Len(p)]
      BY <2>1, Indices
    <3> QED
      BY <2>2, <2>4, <2>5, <3>1
  <2>6. ASSUME NEW i \in 1..Len(q), q[i].do \notin OfSave PROVE q[i].x = c
    <3>1. \/ i \in 1..Len(p \o s) /\ q[i] = (p \o s)[i]
          \/ i - Len(p \o s) \in 1..Len(u) /\ q[i] = u[i - Len(p \o s)]
      BY <1>a, <2>1, Indices
    <3> QED
      BY <2>3, <2>5, <2>6, <3>1
  <2> QED
    BY <2>6 DEF OfSave
<1>12. LockersFollow(q)
  <2> SUFFICES ASSUME NEW i \in 1..Len(q), q[i].do = "set_cabinet"
               PROVE  \E j \in 1..Len(q) : j > i /\ q[j] = Do("set_lockers", q[i].x)
    BY DEF LockersFollow
  <2>1. i # Len(q)
    BY <1>9, TypedSteps
  <2> DEFINE n == Len(q)
  <2>2. n > i
    <3>1. n \in Nat /\ i \in 1..n /\ i # n
      BY <1>10, <2>1
    <3> HIDE DEF n
    <3> QED
      BY <3>1
  <2>3. q[i].x = c
    BY <1>11
  <2> QED
    BY <2>3, <1>9, <1>10, <1>11, <2>2
<1>13. ASSUME NEW i \in 1..Len(q), q[i].do = "locker_rows"
       PROVE  \E j \in 1..Len(q) : j < i /\ q[j] = Do("cabinet_row", q[i].x)
  <2>1. i # 1 /\ i # 2 /\ i # 3
    BY <1>1, <1>9, <1>10, <1>13
  <2>2. 3 < i
    BY <1>10, <2>1
  <2> QED
    BY <1>10, <1>11, <1>13, <2>2 DEF b
<1> QED
  BY <1>1, <1>9, <1>12, <1>13, TypedSteps

LEMMA FinishLinked ==
  ASSUME NEW f, f = <<Do("finish", None)>>
  PROVE  Linked(f) /\ Kinds(f) = {"finish"} /\ f # <<>> /\ f[1].do = "finish" /\ f[Len(f)].do = "finish"
<1> DEFINE a == Do("finish", None)
<1>1. a \in Steps /\ a.do = "finish"
  BY TypedSteps DEF Plain, OfClear
<1>2. f = <<a>>
  OBVIOUS
<1> HIDE DEF a
<1>3. Linked(f) /\ Kinds(f) = {a.do} /\ f # <<>> /\ f[1] = a /\ f[Len(f)] = a
  BY <1>1, <1>2, OneStep
<1> QED
  BY <1>1, <1>3

LEMMA SetupWork ==
  ASSUME NEW bulk \in BOOLEAN, NEW l \in Locations, NEW cs \in CabinetLists,
         NEW q, q = SetupSteps(bulk, l, cs)
  PROVE  /\ Work(q) /\ q # <<>> /\ q[1].do = "start" /\ q[Len(q)].do = "finish"
         /\ Kinds(q) \intersect OfCabinet = {}
<1>1. cs \in Seq(Cabinets)
  BY DEF CabinetLists
<1> DEFINE a == <<Do("start", None)>>
           c == IF bulk THEN ClearSteps ELSE <<>>
           s == SaveLocation(l)
           k == CheckCabinets(cs)
           f == <<Do("finish", None)>>
<1>2. q = (((a \o c) \o s) \o k) \o f
  BY DEF SetupSteps
<1>3. Linked(a) /\ Kinds(a) = {"start"} /\ a # <<>> /\ a[1].do = "start" /\ a[Len(a)].do = "start"
  <2>1. Do("start", None) \in Steps /\ Do("start", None).do = "start"
    BY TypedSteps DEF Plain, OfClear
  <2> DEFINE e == Do("start", None)
  <2>2. a = <<e>>
    OBVIOUS
  <2> HIDE DEF a
  <2>3. Linked(a) /\ Kinds(a) = {e.do} /\ a # <<>> /\ a[1] = e /\ a[Len(a)] = e
    BY <2>1, <2>2, OneStep
  <2> QED
    BY <2>1, <2>3
<1>4. /\ Linked(c) /\ Kinds(c) \subseteq OfClear
      /\ c # <<>> => c[1].do = "forget_location" /\ c[Len(c)].do = "clear_rows"
  <2>1. CASE bulk
    BY <2>1, ClearWork DEF Work
  <2>2. CASE ~bulk
    BY <2>2, NoSteps
  <2> QED
    BY <2>1, <2>2
<1>5. /\ Linked(s) /\ Kinds(s) = OfLocation \union OfSave /\ s # <<>>
      /\ s[1].do = "set_location" /\ s[Len(s)].do = "dump"
  BY SaveLocationLinked
<1>6. /\ Linked(k) /\ Kinds(k) \subseteq {"check"}
      /\ k # <<>> => k[1].do = "check" /\ k[Len(k)].do = "check"
  BY <1>1, CheckLinked
<1>7. Linked(f) /\ Kinds(f) = {"finish"} /\ f # <<>> /\ f[1].do = "finish" /\ f[Len(f)].do = "finish"
  BY FinishLinked
<1> HIDE DEF a, c, s, k, f
<1>8. /\ Linked(a \o c) /\ Kinds(a \o c) = Kinds(a) \union Kinds(c) /\ a \o c # <<>>
      /\ (a \o c)[1].do = "start" /\ (a \o c)[Len(a \o c)].do \in {"start", "clear_rows"}
  <2>1. c # <<>> => Follows(a[Len(a)], c[1])
    BY <1>3, <1>4 DEF Follows
  <2>2. /\ Linked(a \o c) /\ Kinds(a \o c) = Kinds(a) \union Kinds(c)
        /\ a \o c # <<>> /\ (a \o c)[1] = a[1]
        /\ c # <<>> => (a \o c)[Len(a \o c)] = c[Len(c)]
        /\ c = <<>> => a \o c = a
    BY <1>3, <1>4, <2>1, Joined
  <2> QED
    BY <1>3, <1>4, <2>2
<1> DEFINE p1 == a \o c
<1> HIDE DEF p1
<1>9. /\ Linked(p1 \o s) /\ Kinds(p1 \o s) = Kinds(p1) \union Kinds(s) /\ p1 \o s # <<>>
      /\ (p1 \o s)[1].do = "start" /\ (p1 \o s)[Len(p1 \o s)].do = "dump"
  <2>1. Follows(p1[Len(p1)], s[1])
    BY <1>5, <1>8 DEF Follows, p1
  <2>2. /\ Linked(p1 \o s) /\ Kinds(p1 \o s) = Kinds(p1) \union Kinds(s) /\ p1 \o s # <<>>
        /\ (p1 \o s)[1] = p1[1] /\ (p1 \o s)[Len(p1 \o s)] = s[Len(s)]
    BY <1>5, <1>8, <2>1, Joined DEF p1
  <2> QED
    BY <1>5, <1>8, <2>2 DEF p1
<1> DEFINE p2 == p1 \o s
<1> HIDE DEF p2
<1>10. /\ Linked(p2 \o k) /\ Kinds(p2 \o k) = Kinds(p2) \union Kinds(k) /\ p2 \o k # <<>>
       /\ (p2 \o k)[1].do = "start" /\ (p2 \o k)[Len(p2 \o k)].do \in {"dump", "check"}
  <2>1. k # <<>> => Follows(p2[Len(p2)], k[1])
    BY <1>6, <1>9 DEF Follows, p2
  <2>2. /\ Linked(p2 \o k) /\ Kinds(p2 \o k) = Kinds(p2) \union Kinds(k)
        /\ p2 \o k # <<>> /\ (p2 \o k)[1] = p2[1]
        /\ k # <<>> => (p2 \o k)[Len(p2 \o k)] = k[Len(k)]
        /\ k = <<>> => p2 \o k = p2
    BY <1>6, <1>9, <2>1, Joined DEF p2
  <2> QED
    BY <1>6, <1>9, <2>2 DEF p2
<1> DEFINE p3 == p2 \o k
<1> HIDE DEF p3
<1>11. /\ Linked(p3 \o f) /\ Kinds(p3 \o f) = Kinds(p3) \union Kinds(f) /\ p3 \o f # <<>>
       /\ (p3 \o f)[1].do = "start" /\ (p3 \o f)[Len(p3 \o f)].do = "finish"
  <2>1. Follows(p3[Len(p3)], f[1])
    BY <1>7, <1>10 DEF Follows, p3
  <2>2. /\ Linked(p3 \o f) /\ Kinds(p3 \o f) = Kinds(p3) \union Kinds(f) /\ p3 \o f # <<>>
        /\ (p3 \o f)[1] = p3[1] /\ (p3 \o f)[Len(p3 \o f)] = f[Len(f)]
    BY <1>7, <1>10, <2>1, Joined DEF p3
  <2> QED
    BY <1>7, <1>10, <2>2 DEF p3
<1>12. q = p3 \o f
  BY <1>2 DEF p3, p2, p1
<1>13. Kinds(q) \intersect OfCabinet = {}
  <2>1. Kinds(q) = Kinds(a) \union Kinds(c) \union Kinds(s) \union Kinds(k) \union Kinds(f)
    BY <1>8, <1>9, <1>10, <1>11, <1>12 DEF p1, p2, p3
  <2> QED
    BY <1>3, <1>4, <1>5, <1>6, <1>7, <2>1 DEF OfCabinet, OfLocation, OfSave, OfClear
<1> QED
  BY <1>11, <1>12, <1>13, NoCabinetSteps DEF Work

(* What is left of a list after its first step.                            *)
LEMMA TailWork ==
  ASSUME NEW q, Work(q), q # <<>>, NEW r, r = Tail(q)
  PROVE  /\ q \in Seq(Steps) /\ Head(q) = q[1] /\ Head(q) \in Steps /\ Last(q) = q[Len(q)]
         /\ Work(r) /\ r \in Seq(Steps) /\ Len(q) = Len(r) + 1
         /\ \A i \in 1..Len(r) : i + 1 \in 1..Len(q) /\ r[i] = q[i + 1]
         /\ r # <<>> => /\ Head(r) = r[1] /\ Head(r) \in Steps /\ Last(r) = Last(q)
                        /\ Follows(Head(q), Head(r))
         /\ r = <<>> => Head(q) = Last(q) /\ Head(q).do \in {"clear_rows", "finish"}
         /\ Last(q).do \in {"clear_rows", "finish"}
         /\ Head(q).do \in OfSetup => Last(q).do = "finish"
<1>1. /\ q \in Seq(Steps) /\ Len(q) \in Nat /\ Len(q) > 0
      /\ r \in Seq(Steps) /\ Len(r) \in Nat /\ Len(q) = Len(r) + 1
      /\ \A i \in 1..Len(r) : r[i] = q[i + 1]
      /\ Head(q) = q[1] /\ Head(q) \in Steps
  BY DEF Work, Linked
<1>2. (r # <<>> <=> Len(r) > 0) /\ (r # <<>> => Head(r) = r[1] /\ Head(r) \in Steps)
  BY <1>1
<1>3. \A i \in 1..Len(r) : i + 1 \in 1..Len(q) /\ r[i] = q[i + 1]
  BY <1>1
<1>4. Last(q) = q[Len(q)] /\ Last(r) = r[Len(r)]
  BY DEF Last
<1>5. r # <<>> => /\ Len(r) \in 1..Len(r) /\ 1 \in 1..Len(r) /\ 1 + 1 \in 1..Len(q)
                  /\ r[Len(r)] = q[Len(q)] /\ r[1] = q[1 + 1]
  BY <1>1, <1>2
<1>6. 1 \in 1..Len(q) /\ Len(q) \in 1..Len(q) /\ (r = <<>> => Len(q) = 1)
  BY <1>1, <1>2
<1>7. r # <<>> => Follows(Head(q), Head(r))
  BY <1>1, <1>2, <1>5, <1>6 DEF Work, Linked
<1>8. Linked(r)
  <2> SUFFICES ASSUME NEW i \in 1..Len(r), i + 1 \in 1..Len(r)
               PROVE  Follows(r[i], r[i + 1])
    BY <1>1 DEF Linked
  <2> DEFINE j == i + 1
  <2>1. j \in 1..Len(q) /\ j + 1 \in 1..Len(q) /\ r[i] = q[j] /\ r[i + 1] = q[j + 1]
    BY <1>3
  <2> HIDE DEF j
  <2> QED
    BY <2>1 DEF Work, Linked
<1>9. CabinetFirst(r)
  <2> SUFFICES ASSUME NEW i \in 1..Len(r), NEW j \in 1..Len(r), j < i, r[i].do \in OfCabinet
               PROVE  r[j].do \in OfCabinet \union OfSave
    BY DEF CabinetFirst
  <2>1. j + 1 < i + 1
    OBVIOUS
  <2> QED
    BY <1>3, <2>1 DEF Work, CabinetFirst
<1>10. LockersFollow(r)
  <2> SUFFICES ASSUME NEW i \in 1..Len(r), r[i].do = "set_cabinet"
               PROVE  \E j \in 1..Len(r) : j > i /\ r[j] = Do("set_lockers", r[i].x)
    BY DEF LockersFollow
  <2>1. PICK j \in 1..Len(q) : j > i + 1 /\ q[j] = Do("set_lockers", r[i].x)
    BY <1>3 DEF Work, LockersFollow
  <2> DEFINE m == j - 1
  <2>2. m \in 1..Len(r) /\ m > i /\ m + 1 = j
    BY <1>1, <2>1
  <2>3. r[m] = q[j]
    BY <1>3, <2>2
  <2> QED
    BY <2>1, <2>2, <2>3
<1>11. Kinds(r) \subseteq Kinds(q)
  BY <1>3 DEF Kinds
<1>12. Head(q).do \in Kinds(q)
  BY <1>1, <1>6 DEF Kinds
<1>13. Work(r)
  <2>1. r # <<>> => r[Len(r)].do \in {"clear_rows", "finish"}
    BY <1>5 DEF Work
  <2>2. ASSUME Kinds(r) \intersect OfSetup # {} PROVE r[Len(r)].do = "finish"
    <3>1. r # <<>>
      BY <2>2, NoSteps
    <3>2. q[Len(q)].do = "finish"
      BY <1>11, <2>2 DEF Work
    <3> QED
      BY <1>5, <3>1, <3>2
  <2> QED
    BY <1>8, <1>9, <1>10, <2>1, <2>2 DEF Work
<1>14. r # <<>> => Last(r) = Last(q)
  BY <1>4, <1>5
<1>15. Last(q).do \in {"clear_rows", "finish"}
  BY <1>4 DEF Work
<1>16. r = <<>> => Head(q) = Last(q)
  BY <1>1, <1>4, <1>6
<1>17. Head(q).do \in OfSetup => Last(q).do = "finish"
  BY <1>4, <1>12 DEF Work
<1> QED
  BY <1>1, <1>2, <1>3, <1>4, <1>7, <1>13, <1>14, <1>15, <1>16, <1>17

(* What an exception leaves of a list.                                     *)
LEMMA LastWork ==
  ASSUME NEW a \in Steps, a.do = "finish", NEW q, q = <<a>>
  PROVE  Work(q) /\ q # <<>> /\ Head(q) = a /\ Last(q) = a /\ Len(q) = 1 /\ q[1] = a
<1>1. Linked(q) /\ Kinds(q) = {"finish"} /\ q # <<>> /\ q[1] = a /\ q[Len(q)] = a
  <2>1. Kinds(q) = {a.do} /\ Linked(q) /\ q # <<>> /\ q[1] = a /\ q[Len(q)] = a
    BY OneStep
  <2> QED
    BY <2>1
<1>2. Work(q)
  BY <1>1, NoCabinetSteps DEF Work, OfCabinet
<1>3. Len(q) = 1 /\ Head(q) = a
  OBVIOUS
<1> QED
  BY <1>1, <1>2, <1>3 DEF Last

Checked(q) ==
  /\ Work(q) /\ q # <<>> /\ Last(q).do = "finish"
  /\ Head(q).do \in {"cabinet_data", "locker_rows", "check", "finish"}

(* No rows of lockers before the row of their cabinet.                     *)
RowFirst(q) ==
  \A i \in 1..Len(q) : q[i].do = "locker_rows" =>
     \E j \in 1..Len(q) : j < i /\ q[j] = Do("cabinet_row", q[i].x)

(* What a test of a cabinet makes of the rest of a setup.                  *)
LEMMA CheckWork ==
  ASSUME NEW q, Work(q), q # <<>>, Head(q).do = "check",
         NEW c \in Cabinets, NEW cs \in Seq(Cabinets),
         NEW p \in {<<>>, SaveLockers(c), SaveCabinet(c) \o SaveLockers(c)}
  PROVE  /\ Checked(p \o CheckCabinets(cs) \o Tail(q))
         /\ p # SaveLockers(c) => RowFirst(p \o CheckCabinets(cs) \o Tail(q))
<1> DEFINE k == CheckCabinets(cs)
           r == Tail(q)
           w == p \o k \o r
<1>1. w = (p \o k) \o r
  OBVIOUS
<1> HIDE DEF w
<1>2. Linked(r) /\ Kinds(r) = {"finish"} /\ r # <<>> /\ r[1].do = "finish" /\ r[Len(r)].do = "finish"
  <2>1. /\ Work(r) /\ r \in Seq(Steps) /\ r # <<>> /\ r[1].do = "finish"
        /\ Last(q).do = "finish" /\ Last(r) = Last(q)
    <3>1. /\ Work(r) /\ r \in Seq(Steps) /\ (r = <<>> => Head(q).do \in {"clear_rows", "finish"})
          /\ r # <<>> => Head(r) = r[1] /\ Follows(Head(q), Head(r)) /\ Last(r) = Last(q)
          /\ Head(q).do \in OfSetup => Last(q).do = "finish"
      BY TailWork
    <3> QED
      BY <3>1 DEF Follows, OfSetup
  <2> HIDE DEF r
  <2>2. Linked(r)
    BY <2>1 DEF Work
  <2>3. Len(r) = 1
    <3>1. Len(r) \in Nat /\ Len(r) > 0
      BY <2>1
    <3>2. ASSUME Len(r) > 1 PROVE FALSE
      <4>1. 1 \in 1..Len(r) /\ 1 + 1 \in 1..Len(r)
        BY <3>1, <3>2
      <4>2. Follows(r[1], r[1 + 1])
        BY <2>2, <4>1 DEF Linked
      <4> QED
        BY <2>1, <4>2 DEF Follows
    <3> DEFINE n == Len(r)
    <3>3. n \in Nat /\ n > 0 /\ ~(n > 1)
      BY <3>1, <3>2
    <3> HIDE DEF n
    <3>4. n = 1
      BY <3>3
    <3> QED
      BY <3>4 DEF n
  <2>4. Kinds(r) = {"finish"}
    BY <2>1, <2>3 DEF Kinds
  <2> QED
    BY <2>1, <2>2, <2>3, <2>4
<1>3. /\ Linked(k) /\ Kinds(k) \subseteq {"check"}
      /\ k # <<>> => k[1].do = "check" /\ k[Len(k)].do = "check"
  BY CheckLinked
<1>4. /\ Linked(p) /\ Kinds(p) \subseteq OfCabinet \union OfSave
      /\ LockersFollow(p)
      /\ p # <<>> => p[1].do \in {"cabinet_data", "locker_rows"} /\ p[Len(p)].do = "set_lockers"
      /\ p # SaveLockers(c) => \A i \in 1..Len(p) : p[i].do = "locker_rows" =>
              \E j \in 1..Len(p) : j < i /\ p[j] = Do("cabinet_row", p[i].x)
  <2>1. CASE p = <<>>
    BY <2>1, NoSteps DEF Work
  <2>2. CASE p = SaveLockers(c)
    <3>1. /\ Linked(p) /\ Kinds(p) = {"locker_rows", "set_lockers"} /\ p # <<>>
          /\ Len(p) = 2 /\ p[1] = Do("locker_rows", c) /\ p[2] = Do("set_lockers", c)
      BY <2>2, SaveLockersLinked
    <3>2. LockersFollow(p)
      BY <3>1 DEF LockersFollow, Kinds
    <3>3. p[1].do = "locker_rows" /\ p[Len(p)].do = "set_lockers"
      BY <3>1, TypedSteps
    <3> QED
      BY <2>2, <3>1, <3>2, <3>3 DEF OfCabinet
  <2>3. CASE p = SaveCabinet(c) \o SaveLockers(c)
    BY <2>3, SaveBoth
  <2> QED
    BY <2>1, <2>2, <2>3
<1> HIDE DEF k, r
<1>5. /\ Linked(p \o k) /\ Kinds(p \o k) = Kinds(p) \union Kinds(k)
      /\ p \o k # <<>> => /\ (p \o k)[1].do \in {"cabinet_data", "locker_rows", "check"}
                          /\ (p \o k)[Len(p \o k)].do \in {"set_lockers", "check"}
  <2>1. p # <<>> /\ k # <<>> => Follows(p[Len(p)], k[1])
    BY <1>3, <1>4 DEF Follows
  <2>2. /\ Linked(p \o k) /\ Kinds(p \o k) = Kinds(p) \union Kinds(k)
        /\ p # <<>> => (p \o k)[1] = p[1]
        /\ k # <<>> => (p \o k)[Len(p \o k)] = k[Len(k)]
        /\ p = <<>> => p \o k = k
        /\ k = <<>> => p \o k = p
    BY <1>3, <1>4, <2>1, Joined
  <2> QED
    BY <1>3, <1>4, <2>2
<1> DEFINE v == p \o k
<1>a. /\ Linked(v) /\ Kinds(v) = Kinds(p) \union Kinds(k)
      /\ v # <<>> => /\ v[1].do \in {"cabinet_data", "locker_rows", "check"}
                     /\ v[Len(v)].do \in {"set_lockers", "check"}
  BY <1>5
<1>b. w = v \o r
  BY <1>1
<1> HIDE DEF v
<1>6. /\ Linked(w) /\ Kinds(w) = Kinds(v) \union Kinds(r) /\ w # <<>>
      /\ w[1].do \in {"cabinet_data", "locker_rows", "check", "finish"} /\ w[Len(w)].do = "finish"
  <2>1. v # <<>> => Follows(v[Len(v)], r[1])
    BY <1>2, <1>a DEF Follows
  <2>2. /\ Linked(v \o r) /\ Kinds(v \o r) = Kinds(v) \union Kinds(r) /\ v \o r # <<>>
        /\ v # <<>> => (v \o r)[1] = v[1]
        /\ (v \o r)[Len(v \o r)] = r[Len(r)]
        /\ v = <<>> => v \o r = r
    BY <1>2, <1>a, <2>1, Joined
  <2> QED
    BY <1>b, <1>2, <1>a, <2>2
<1>7. /\ \A i \in 1..Len(w) : (i \in 1..Len(p) /\ w[i] = p[i]) \/ w[i].do \in {"check", "finish"}
      /\ \A i \in 1..Len(p) : i \in 1..Len(w) /\ w[i] = p[i]
  <2>1. p \in Seq(Steps) /\ k \in Seq(Steps) /\ r \in Seq(Steps) /\ v \in Seq(Steps)
    BY <1>2, <1>3, <1>4, <1>5 DEF Linked, v
  <2>2. /\ \A i \in 1..Len(v) : \/ i \in 1..Len(p) /\ v[i] = p[i]
                                \/ i - Len(p) \in 1..Len(k) /\ v[i] = k[i - Len(p)]
        /\ \A i \in 1..Len(p) : i \in 1..Len(v) /\ v[i] = p[i]
    BY <2>1, Indices DEF v
  <2>3. /\ \A i \in 1..Len(v \o r) :
               \/ i \in 1..Len(v) /\ (v \o r)[i] = v[i]
               \/ i - Len(v) \in 1..Len(r) /\ (v \o r)[i] = r[i - Len(v)]
        /\ \A i \in 1..Len(v) : i \in 1..Len(v \o r) /\ (v \o r)[i] = v[i]
    BY <2>1, Indices
  <2>4. /\ \A i \in 1..Len(w) : \/ i \in 1..Len(v) /\ w[i] = v[i]
                                \/ i - Len(v) \in 1..Len(r) /\ w[i] = r[i - Len(v)]
        /\ \A i \in 1..Len(v) : i \in 1..Len(w) /\ w[i] = v[i]
    BY <1>b, <2>3
  <2>5. (\A i \in 1..Len(k) : k[i].do = "check") /\ \A i \in 1..Len(r) : r[i].do = "finish"
    BY <1>2, <1>3 DEF Kinds
  <2>6. ASSUME NEW i \in 1..Len(w), i \notin 1..Len(p) PROVE w[i].do \in {"check", "finish"}
    <3>1. CASE i \in 1..Len(v) /\ w[i] = v[i]
      BY <2>2, <2>5, <2>6, <3>1
    <3>2. CASE i - Len(v) \in 1..Len(r) /\ w[i] = r[i - Len(v)]
      BY <2>5, <3>2
    <3> QED
      BY <2>4, <3>1, <3>2
  <2>7. \A i \in 1..Len(p) : i \in 1..Len(w) /\ w[i] = p[i]
    BY <2>2, <2>4
  <2> QED
    BY <2>6, <2>7
<1>8. CabinetFirst(w)
  <2> SUFFICES ASSUME NEW i \in 1..Len(w), NEW j \in 1..Len(w), j < i, w[i].do \in OfCabinet
               PROVE  w[j].do \in OfCabinet \union OfSave
    BY DEF CabinetFirst
  <2>1. i \in 1..Len(p)
    BY <1>7 DEF OfCabinet
  <2>2. p \in Seq(Steps) /\ Len(p) \in Nat
    BY <1>4 DEF Linked
  <2>3. j \in 1..Len(p)
    BY <2>1, <2>2
  <2> QED
    BY <1>4, <1>7, <2>3 DEF Kinds
<1>9. LockersFollow(w)
  <2> SUFFICES ASSUME NEW i \in 1..Len(w), w[i].do = "set_cabinet"
               PROVE  \E j \in 1..Len(w) : j > i /\ w[j] = Do("set_lockers", w[i].x)
    BY DEF LockersFollow
  <2>1. i \in 1..Len(p) /\ w[i] = p[i]
    BY <1>7
  <2>2. PICK j \in 1..Len(p) : j > i /\ p[j] = Do("set_lockers", p[i].x)
    BY <1>4, <2>1 DEF LockersFollow
  <2> QED
    BY <1>7, <2>1, <2>2
<1>10. p # SaveLockers(c) => \A i \in 1..Len(w) : w[i].do = "locker_rows" =>
              \E j \in 1..Len(w) : j < i /\ w[j] = Do("cabinet_row", w[i].x)
  <2> SUFFICES ASSUME p # SaveLockers(c), NEW i \in 1..Len(w), w[i].do = "locker_rows"
               PROVE  \E j \in 1..Len(w) : j < i /\ w[j] = Do("cabinet_row", w[i].x)
    OBVIOUS
  <2>1. i \in 1..Len(p) /\ w[i] = p[i]
    BY <1>7
  <2>2. PICK j \in 1..Len(p) : j < i /\ p[j] = Do("cabinet_row", p[i].x)
    BY <1>4, <2>1
  <2> QED
    BY <1>7, <2>1, <2>2
<1>11. Work(w)
  BY <1>6, <1>8, <1>9 DEF Work
<1>12. Head(w) = w[1] /\ Last(w) = w[Len(w)]
  BY <1>6 DEF Linked, Last
<1>13. Checked(w) /\ (p # SaveLockers(c) => RowFirst(w))
  BY <1>6, <1>10, <1>11, <1>12 DEF Checked, RowFirst
<1> QED
  BY <1>13 DEF w, k, r
--------------------------------------------------------------------------------
(* The lists of the threads, and the types *)

Lists == todo \in [Threads -> Seq(Steps)] /\ \A t \in Threads : Work(todo[t])

(* What a step finds in its thread's local: the document to write, or the  *)
(* location of the cabinet to set.                                         *)
Fits(what, x) == /\ what \in {"open", "dump"} => x \in State
                 /\ what = "set_cabinet" => x \in Locations

Built == \A t \in Threads : ~Idle(t) => Fits(Head(todo[t]).do, local[t])

ListInv == Lists /\ Built /\ FlagReleased

Typed ==
  /\ status \in {"up", "down", "failed"}
  /\ local \in [Threads -> State \union Locations \union {None}]
  /\ writing \subseteq Threads
  /\ memory \in State
  /\ mapped \subseteq Cabinets
  /\ running \in BOOLEAN
  /\ json \in State \union {Empty, Torn, None}
  /\ db \in [locs : SUBSET Locations, cabs : [Cabinets -> Locations \union {None}],
             lockers : SUBSET Cabinets]

(* A thread's list becomes q, and the other threads' lists stay.           *)
LEMMA ListChanges ==
  ASSUME ListInv, NEW t \in Threads, NEW q, todo' = [todo EXCEPT ![t] = q], Work(q),
         q # <<>> => Fits(Head(q).do, local'[t]),
         \A u \in Threads \ {t} : local'[u] = local[u],
         running' => running \/ InSetup(t)',
         InSetup(t) => InSetup(t)' \/ ~running'
  PROVE  ListInv'
<1>1. /\ todo \in [Threads -> Seq(Steps)] /\ q \in Seq(Steps)
      /\ todo' \in [Threads -> Seq(Steps)] /\ todo'[t] = q
      /\ \A u \in Threads \ {t} : todo'[u] = todo[u]
  BY DEF ListInv, Lists, Work, Linked
<1>2. Lists'
  BY <1>1 DEF Lists, ListInv
<1>3. Built'
  BY <1>1 DEF Built, ListInv, Idle
<1>4. \A u \in Threads \ {t} : InSetup(u)' <=> InSetup(u)
  BY <1>1 DEF InSetup, Idle
<1>5. FlagReleased'
  BY <1>4 DEF FlagReleased, ListInv
<1> QED
  BY <1>2, <1>3, <1>5 DEF ListInv

(* A step that leaves nothing in local for the next one.                   *)
LEMMA Proceeds ==
  ASSUME ListInv, NEW t \in Threads, NEW what, At(t, what), Step(t),
         what \notin {"build", "open", "cabinet_data"},
         \A u \in Threads \ {t} : local'[u] = local[u],
         running' => running \/ InSetup(t)', what = "finish" => ~running'
  PROVE  ListInv'
<1>1. Work(todo[t]) /\ todo[t] # <<>> /\ Head(todo[t]).do = what
  BY DEF ListInv, Lists, At, Idle
<1>2. todo' = [todo EXCEPT ![t] = Tail(todo[t])] /\ todo'[t] = Tail(todo[t])
  BY DEF Step, ListInv, Lists
<1> DEFINE q == todo[t]
           r == Tail(q)
<1> HIDE DEF q
<1>3. /\ Work(r) /\ r \in Seq(Steps) /\ Head(q) \in Steps
      /\ r = <<>> => Head(q) = Last(q)
      /\ r # <<>> => Head(r) \in Steps /\ Last(r) = Last(q) /\ Follows(Head(q), Head(r))
  BY <1>1, TailWork DEF q
<1>4. InSetup(t) => InSetup(t)' \/ ~running'
  BY <1>1, <1>2, <1>3 DEF InSetup, Idle, q
<1>5. r # <<>> => Fits(Head(r).do, local'[t])
  BY <1>1, <1>3, Before DEF q, Fits
<1> HIDE DEF r
<1>6. todo' = [todo EXCEPT ![t] = r]
  BY <1>2 DEF r, q
<1> QED
  BY <1>3, <1>4, <1>5, <1>6, ListChanges

(* An exception in a step of a setup.                                      *)
LEMMA Aborts ==
  ASSUME ListInv, NEW t \in Threads, NEW what \in OfSetup, At(t, what), Abort(t),
         local' = local, running' = running
  PROVE  ListInv'
<1>1. Work(todo[t]) /\ todo[t] # <<>> /\ Head(todo[t]).do \in OfSetup
  BY DEF ListInv, Lists, At, Idle
<1> DEFINE q == todo[t]
           f == Last(q)
<1>2. f \in Steps /\ f.do = "finish" /\ todo' = [todo EXCEPT ![t] = <<f>>]
        /\ todo'[t] = <<f>>
  <2>1. f.do = "finish" /\ q \in Seq(Steps) /\ q # <<>> /\ f = q[Len(q)]
    BY <1>1, TailWork
  <2>2. f \in Steps
    BY <2>1
  <2> QED
    BY <2>1, <2>2 DEF Abort, ListInv, Lists
<1> HIDE DEF f
<1>3. Work(<<f>>) /\ Last(<<f>>) = f /\ Head(<<f>>) = f /\ <<f>> # <<>>
  BY <1>2, LastWork
<1>4. InSetup(t)'
  BY <1>2, <1>3 DEF InSetup, Idle
<1>5. <<f>> # <<>> => Fits(Head(<<f>>).do, local'[t])
  BY <1>2, <1>3 DEF Fits
<1> QED
  BY <1>2, <1>3, <1>4, <1>5, ListChanges

(* The list that a test of a cabinet leaves.                               *)
LEMMA CheckList ==
  ASSUME ListInv, NEW t \in Threads, Check(t)
  PROVE  \E q : /\ todo' = [todo EXCEPT ![t] = q] /\ Checked(q)
                /\ memory.loc # None => RowFirst(q)
<1>1. todo[t] # <<>> /\ Head(todo[t]).do = "check" /\ Work(todo[t]) /\ todo[t] \in Seq(Steps)
  BY DEF Check, At, Idle, ListInv, Lists, Work, Linked
<1> DEFINE cs == On(t)
           c == Head(cs)
<1>2. cs \in Seq(Cabinets) /\ cs # <<>>
  <2>1. Head(todo[t]) \in Steps
    BY <1>1
  <2> QED
    BY <1>1, <2>1 DEF On, Steps, OfLocation, OfCabinet, OfSave, OfClear, Plain
<1>3. c \in Cabinets /\ Tail(cs) \in Seq(Cabinets)
  BY <1>2
<1>4. PICK p \in {<<>>, SaveLockers(c), SaveCabinet(c) \o SaveLockers(c)} :
        /\ Len(p) = 2 => memory.loc = None
        /\ todo' = [todo EXCEPT ![t] = p \o CheckCabinets(Tail(cs)) \o Tail(todo[t])]
  BY DEF Check, ListInv, Lists
<1> HIDE DEF c
<1>5. memory.loc # None => p # SaveLockers(c)
  BY <1>3, <1>4, SaveLockersLinked
<1> DEFINE w == p \o CheckCabinets(Tail(cs)) \o Tail(todo[t])
<1>6. Checked(w) /\ (p # SaveLockers(c) => RowFirst(w))
  BY <1>1, <1>3, CheckWork
<1>7. todo' = [todo EXCEPT ![t] = w]
  BY <1>4
<1> HIDE DEF w
<1> QED
  BY <1>5, <1>6, <1>7

LEMMA ListStep == Typed /\ ListInv /\ [Next]_vars => ListInv'
<1> SUFFICES ASSUME Typed, ListInv, [Next]_vars PROVE ListInv'
  OBVIOUS
<1>1. ASSUME NEW t \in Threads, Setup(t) PROVE ListInv'
  <2>1. PICK bulk \in BOOLEAN, l \in Locations, cs \in CabinetLists :
          todo' = [todo EXCEPT ![t] = SetupSteps(bulk, l, cs)]
    BY <1>1 DEF Setup
  <2> DEFINE q == SetupSteps(bulk, l, cs)
  <2>2. Work(q) /\ q[1].do = "start"
    BY SetupWork
  <2> HIDE DEF q
  <2>3. q # <<>> => Fits(Head(q).do, local'[t])
    BY <2>2 DEF Work, Linked, Fits
  <2>4. ~InSetup(t) /\ todo' = [todo EXCEPT ![t] = q] /\ local' = local /\ running' = running
    BY <1>1, <2>1 DEF Setup, InSetup, q
  <2> QED
    BY <2>2, <2>3, <2>4, ListChanges
<1>2. ASSUME NEW t \in Threads, Clear(t) PROVE ListInv'
  <2> DEFINE q == ClearSteps
  <2>1. Work(q) /\ q[1].do = "forget_location"
    BY ClearWork
  <2>2. ~InSetup(t) /\ todo' = [todo EXCEPT ![t] = q] /\ local' = local /\ running' = running
    BY <1>2 DEF Clear, InSetup
  <2> HIDE DEF q
  <2>3. q # <<>> => Fits(Head(q).do, local'[t])
    BY <2>1 DEF Work, Linked, Fits
  <2> QED
    BY <2>1, <2>2, <2>3, ListChanges
<1>3. ASSUME NEW t \in Threads, Start(t) PROVE ListInv'
  <2>1. todo[t] # <<>> /\ Head(todo[t]).do = "start" /\ Work(todo[t])
    BY <1>3 DEF Start, At, Idle, ListInv, Lists
  <2>2. Last(todo[t]).do = "finish"
    BY <2>1, TailWork DEF OfSetup
  <2>3. Tail(todo[t]) # <<>> /\ Last(Tail(todo[t])).do = "finish"
    BY <2>1, <2>2, TailWork
  <2>4. todo'[t] = Tail(todo[t])
    BY <1>3 DEF Start, Step, ListInv, Lists
  <2>5. InSetup(t)'
    BY <2>3, <2>4 DEF InSetup, Idle
  <2> QED
    BY <1>3, <2>5, Proceeds DEF Start
<1>4. ASSUME NEW t \in Threads, Finish(t) PROVE ListInv'
  BY <1>4, Proceeds DEF Finish
<1>5. ASSUME NEW t \in Threads, ForgetLocation(t) PROVE ListInv'
  BY <1>5, Proceeds DEF ForgetLocation
<1>20. ASSUME NEW t \in Threads, ForgetCabinets(t) PROVE ListInv'
  BY <1>20, Proceeds DEF ForgetCabinets
<1>6. ASSUME NEW t \in Threads, Unlink(t) PROVE ListInv'
  BY <1>6, Proceeds DEF Unlink
<1>7. ASSUME NEW t \in Threads, ClearRows(t) PROVE ListInv'
  BY <1>7, Proceeds DEF ClearRows
<1>8. ASSUME NEW t \in Threads, SetLocation(t) PROVE ListInv'
  BY <1>8, Proceeds DEF SetLocation
<1>9. ASSUME NEW t \in Threads, LocationRow(t) PROVE ListInv'
  BY <1>9, Proceeds DEF LocationRow
<1>10. ASSUME NEW t \in Threads, Check(t) PROVE ListInv'
  <2>1. PICK q : /\ todo' = [todo EXCEPT ![t] = q] /\ Work(q) /\ q # <<>>
                 /\ Last(q).do = "finish"
                 /\ Head(q).do \in {"cabinet_data", "locker_rows", "check", "finish"}
    BY <1>10, CheckList DEF Checked
  <2>2. todo'[t] = q /\ Fits(Head(q).do, local'[t])
    BY <2>1 DEF ListInv, Lists, Fits
  <2>3. InSetup(t)'
    BY <2>1, <2>2 DEF InSetup, Idle
  <2> QED
    BY <1>10, <2>1, <2>2, <2>3, ListChanges DEF Check
<1>21. ASSUME NEW t \in Threads, CabinetData(t) PROVE ListInv'
  <2>1. CASE memory.loc = None
    BY <1>21, <2>1, Aborts DEF CabinetData, OfSetup, OfCabinet
  <2>2. CASE memory.loc # None
    <3>1. Work(todo[t]) /\ todo[t] # <<>> /\ Head(todo[t]).do = "cabinet_data"
      BY <1>21 DEF CabinetData, At, Idle, ListInv, Lists
    <3> DEFINE r == Tail(todo[t])
    <3>2. Work(r) /\ r # <<>> /\ Head(r).do = "set_cabinet" /\ Last(r).do = "finish"
      <4>1. /\ Work(r) /\ Last(todo[t]).do = "finish" /\ (r = <<>> => Head(todo[t]).do \in {"clear_rows", "finish"})
            /\ r # <<>> => Last(r) = Last(todo[t]) /\ Follows(Head(todo[t]), Head(r))
        BY <3>1, TailWork DEF OfSetup, OfCabinet
      <4> QED
        BY <3>1, <4>1, TypedSteps DEF Follows
    <3>3. /\ todo' = [todo EXCEPT ![t] = r] /\ todo'[t] = r /\ running' = running
          /\ local'[t] = memory.loc /\ \A u \in Threads \ {t} : local'[u] = local[u]
      BY <1>21, <2>2 DEF CabinetData, Step, ListInv, Lists, Typed
    <3>4. memory.loc \in Locations
      BY <2>2 DEF Typed, State
    <3> HIDE DEF r
    <3>5. InSetup(t)'
      BY <3>2, <3>3 DEF InSetup, Idle
    <3>6. Fits(Head(r).do, local'[t])
      BY <3>2, <3>3, <3>4 DEF Fits
    <3> QED
      BY <3>2, <3>3, <3>5, <3>6, ListChanges
  <2> QED
    BY <2>1, <2>2
<1>11. ASSUME NEW t \in Threads, SetCabinet(t) PROVE ListInv'
  BY <1>11, Proceeds DEF SetCabinet
<1>12. ASSUME NEW t \in Threads, CabinetRow(t) PROVE ListInv'
  BY <1>12, Proceeds DEF CabinetRow
<1>13. ASSUME NEW t \in Threads, LockerRows(t) PROVE ListInv'
  <2>1. CASE Step(t)
    BY <1>13, <2>1, Proceeds DEF LockerRows
  <2>2. CASE Abort(t)
    BY <1>13, <2>2, Aborts DEF LockerRows, OfSetup, OfCabinet
  <2> QED
    BY <1>13, <2>1, <2>2 DEF LockerRows
<1>14. ASSUME NEW t \in Threads, SetLockers(t) PROVE ListInv'
  BY <1>14, Proceeds DEF SetLockers
<1>15. ASSUME NEW t \in Threads, Build(t) PROVE ListInv'
  <2>1. Work(todo[t]) /\ todo[t] # <<>> /\ Head(todo[t]).do = "build"
    BY <1>15 DEF Build, At, Idle, ListInv, Lists
  <2> DEFINE r == Tail(todo[t])
  <2>2. /\ Work(r) /\ (Last(todo[t]).do = "finish" => r # <<>> /\ Last(r).do = "finish")
        /\ r # <<>> => Head(r).do = "open"
    <3>1. /\ Work(r) /\ (r = <<>> => Head(todo[t]) = Last(todo[t]))
          /\ r # <<>> => Last(r) = Last(todo[t]) /\ Follows(Head(todo[t]), Head(r))
      BY <2>1, TailWork
    <3> QED
      BY <2>1, <3>1 DEF Follows
  <2>3. /\ todo' = [todo EXCEPT ![t] = r] /\ todo'[t] = r /\ running' = running
        /\ local'[t] = memory /\ \A u \in Threads \ {t} : local'[u] = local[u]
    BY <1>15 DEF Build, Step, ListInv, Lists, Typed
  <2> HIDE DEF r
  <2>4. InSetup(t) => InSetup(t)'
    BY <2>2, <2>3 DEF InSetup, Idle
  <2>5. r # <<>> => Fits(Head(r).do, local'[t])
    BY <2>2, <2>3 DEF Typed, Fits
  <2> QED
    BY <2>2, <2>3, <2>4, <2>5, ListChanges
<1>16. ASSUME NEW t \in Threads, OpenFile(t) PROVE ListInv'
  <2>1. /\ Work(todo[t]) /\ todo[t] # <<>> /\ Head(todo[t]).do = "open"
        /\ local[t] \in State /\ local' = local /\ running' = running
    BY <1>16 DEF OpenFile, At, Idle, ListInv, Lists, Built, Fits
  <2> DEFINE r == Tail(todo[t])
             q == Tail(r)
  <2>2. /\ Work(r) /\ r # <<>> /\ Head(r).do = "dump"
        /\ Last(todo[t]).do = "finish" => Last(r).do = "finish"
    <3>1. /\ Work(r) /\ (r = <<>> => Head(todo[t]).do \in {"clear_rows", "finish"})
          /\ r # <<>> => Last(r) = Last(todo[t]) /\ Follows(Head(todo[t]), Head(r))
      BY <2>1, TailWork
    <3> QED
      BY <2>1, <3>1 DEF Follows
  <2>3. CASE Step(t)
    <3>1. todo' = [todo EXCEPT ![t] = r] /\ todo'[t] = r
      BY <2>3 DEF Step, ListInv, Lists
    <3> HIDE DEF r
    <3>2. InSetup(t) => InSetup(t)'
      BY <2>2, <3>1 DEF InSetup, Idle
    <3>3. Fits(Head(r).do, local'[t])
      BY <2>1, <2>2 DEF Fits
    <3> QED
      BY <2>1, <2>2, <3>1, <3>2, <3>3, ListChanges
  <2>4. CASE todo' = [todo EXCEPT ![t] = Tail(Tail(@))]
    <3>1. todo' = [todo EXCEPT ![t] = q] /\ todo'[t] = q
      BY <2>4 DEF ListInv, Lists
    <3> HIDE DEF r
    <3>2. /\ Work(q) /\ (Last(r).do = "finish" => q # <<>> /\ Last(q).do = "finish")
          /\ q # <<>> => Head(q).do \in {"check", "locker_rows", "finish"}
      <4>1. /\ Work(q) /\ (q = <<>> => Head(r).do \in {"clear_rows", "finish"})
            /\ q # <<>> => Last(q) = Last(r) /\ Follows(Head(r), Head(q))
        BY <2>2, TailWork
      <4> QED
        BY <2>2, <4>1 DEF Follows
    <3> HIDE DEF q
    <3>3. InSetup(t) => InSetup(t)'
      BY <2>2, <3>1, <3>2 DEF InSetup, Idle
    <3>4. q # <<>> => Fits(Head(q).do, local'[t])
      BY <3>2 DEF Fits
    <3> QED
      BY <2>1, <3>1, <3>2, <3>3, <3>4, ListChanges
  <2> QED
    BY <1>16, <2>3, <2>4 DEF OpenFile
<1>17. ASSUME NEW t \in Threads, Dump(t) PROVE ListInv'
  BY <1>17, Proceeds DEF Dump
<1>18. ASSUME Crash PROVE ListInv'
  <2>1. todo' = [t \in Threads |-> <<>>] /\ ~running'
    BY <1>18 DEF Crash
  <2>2. Work(<<>>)
    BY NoSteps
  <2> QED
    BY <2>1, <2>2 DEF ListInv, Lists, Built, FlagReleased, Idle
<1>19. ASSUME StartFromFile \/ StartFromRows \/ UNCHANGED vars PROVE ListInv'
  BY <1>19 DEF StartFromFile, StartFromRows, vars, threads, ListInv, Lists, Built,
     FlagReleased, InSetup, Idle
<1> QED
  BY <1>1, <1>2, <1>3, <1>4, <1>5, <1>6, <1>7, <1>8, <1>9, <1>10, <1>11, <1>12, <1>13,
     <1>14, <1>15, <1>16, <1>17, <1>18, <1>19, <1>20, <1>21 DEF Next, ThreadStep

LEMMA LockersWith ==
  ASSUME NEW s, NEW ls
  PROVE  /\ WithLockers(s, ls).loc = s.loc /\ WithLockers(s, ls).cabs = s.cabs
         /\ WithLockers(s, ls).lockers = ls \intersect Listed(s.cabs)
         /\ WithLockers(s, ls) \in [loc : {s.loc}, cabs : {s.cabs}, lockers : {ls \intersect Listed(s.cabs)}]
BY DEF WithLockers

(* The values of the variables, given well formed lists.                   *)
LEMMA TypeStep == Typed /\ ListInv /\ [Next]_vars => Typed'
<1> SUFFICES ASSUME Typed, ListInv, [Next]_vars PROVE Typed'
  OBVIOUS
<1>1. \A t \in Threads : ~Idle(t) => On(t) = Head(todo[t]).x /\ Head(todo[t]) \in Steps
  BY TailWork DEF ListInv, Lists, Idle, On
<1>2. ASSUME NEW t \in Threads, Setup(t) \/ Clear(t) \/ Start(t) \/ Finish(t) \/ Check(t)
      PROVE  Typed'
  BY <1>2 DEF Setup, Clear, Start, Finish, Check, disk, Typed
<1>3. Blank \in State /\ NoCabinets \in [Cabinets -> Locations \union {None}]
  BY DEF Blank, State, NoCabinets
<1>4. ASSUME NEW t \in Threads, ForgetLocation(t) \/ ForgetCabinets(t) PROVE Typed'
  <2>1. memory' \in State
    BY <1>3, <1>4 DEF ForgetLocation, ForgetCabinets, DropCabinets, State, Typed
  <2> QED
    BY <1>4, <2>1 DEF ForgetLocation, ForgetCabinets, disk, Typed
<1>5. ASSUME NEW t \in Threads, Unlink(t) PROVE Typed'
  BY <1>5 DEF Unlink, Typed
<1>6. NoRows \in [locs : SUBSET Locations, cabs : [Cabinets -> Locations \union {None}],
                  lockers : SUBSET Cabinets]
  BY DEF NoRows, NoCabinets
<1>7. ASSUME NEW t \in Threads, ClearRows(t) PROVE Typed'
  BY <1>6, <1>7 DEF ClearRows, Typed
<1>8. ASSUME NEW t \in Threads, At(t, "set_location") \/ At(t, "location_row")
      PROVE  On(t) \in Locations
  BY <1>1, <1>8 DEF At, Steps, OfLocation, OfCabinet, OfSave, OfClear, Plain
<1>9. ASSUME NEW t \in Threads, NEW what \in OfCabinet, At(t, what)
      PROVE  On(t) \in Cabinets
  BY <1>1, <1>9 DEF At, Steps, OfLocation, OfCabinet, OfSave, OfClear, Plain
<1>10. ASSUME NEW t \in Threads, SetLocation(t) PROVE Typed'
  <2>1. memory' \in State
    BY <1>8, <1>10 DEF SetLocation, State, Typed
  <2> QED
    BY <2>1, <1>10 DEF SetLocation, disk, Typed
<1>11. ASSUME NEW t \in Threads, LocationRow(t) PROVE Typed'
  <2>1. On(t) \in Locations
    BY <1>8, <1>11 DEF LocationRow
  <2>2. db' = db \/ db' = [db EXCEPT !.locs = @ \union {On(t)}]
    BY <1>11 DEF LocationRow
  <2>3. db' \in [locs : SUBSET Locations, cabs : [Cabinets -> Locations \union {None}],
                 lockers : SUBSET Cabinets]
    BY <2>1, <2>2 DEF Typed
  <2> QED
    BY <1>11, <2>3 DEF LocationRow, Typed
<1>22. ASSUME NEW t \in Threads, CabinetData(t) PROVE Typed'
  <2>1. local' \in [Threads -> State \union Locations \union {None}]
    BY <1>22 DEF CabinetData, State, Typed
  <2> QED
    BY <1>22, <2>1 DEF CabinetData, disk, Typed
<1>12. ASSUME NEW t \in Threads, SetCabinet(t) PROVE Typed'
  <2>1. On(t) \in Cabinets
    BY <1>9, <1>12 DEF SetCabinet, OfCabinet
  <2>2. local[t] \in Locations
    BY <1>12 DEF SetCabinet, At, ListInv, Built, Fits
  <2>3. memory' \in State
    BY <1>12, <2>1, <2>2 DEF SetCabinet, State, Typed
  <2> QED
    BY <1>12, <2>3 DEF SetCabinet, disk, Typed
<1>13. ASSUME NEW t \in Threads, CabinetRow(t) PROVE Typed'
  <2>1. On(t) \in Cabinets
    BY <1>9, <1>13 DEF CabinetRow, OfCabinet
  <2> QED
    BY <1>13, <2>1 DEF CabinetRow, Typed
<1>14. ASSUME NEW t \in Threads, LockerRows(t) PROVE Typed'
  <2>1. On(t) \in Cabinets
    BY <1>9, <1>14 DEF LockerRows, OfCabinet
  <2>2. LockersAfter(t) \subseteq Cabinets
    BY <2>1 DEF LockersAfter, Typed
  <2>3. db' \in [locs : SUBSET Locations, cabs : [Cabinets -> Locations \union {None}],
                 lockers : SUBSET Cabinets]
    BY <1>14, <2>2 DEF LockerRows, Typed
  <2> QED
    BY <1>14, <2>3 DEF LockerRows, Typed
<1>15. ASSUME NEW t \in Threads, SetLockers(t) PROVE Typed'
  <2>1. On(t) \in Cabinets
    BY <1>9, <1>15 DEF SetLockers, OfCabinet
  <2> QED
    BY <1>15, <2>1 DEF SetLockers, disk, Typed
<1>16. ASSUME NEW t \in Threads, Build(t) PROVE Typed'
  BY <1>16 DEF Build, disk, Typed
<1>17. ASSUME NEW t \in Threads, OpenFile(t) PROVE Typed'
  BY <1>17 DEF OpenFile, Typed
<1>18. ASSUME NEW t \in Threads, Dump(t) PROVE Typed'
  <2>1. local[t] \in State
    BY <1>18 DEF Dump, At, ListInv, Built, Fits
  <2> QED
    BY <1>18, <2>1 DEF Dump, Typed
<1>19. ASSUME Crash PROVE Typed'
  BY <1>3, <1>19 DEF Crash, disk, Typed
<1>20. ASSUME StartFromFile PROVE Typed'
  <2>1. /\ memory' = json /\ mapped' \subseteq WithLockers(json, db.lockers).lockers
        /\ UNCHANGED <<threads, running, disk>> /\ status' = "up"
    BY <1>20 DEF StartFromFile, ReadLockers
  <2>2. json \in State
    BY <1>20 DEF StartFromFile, Readable, Typed
  <2>3. mapped' \subseteq Cabinets
    BY <2>1, LockersWith DEF Typed
  <2> QED
    BY <2>1, <2>2, <2>3 DEF threads, disk, Typed
<1>23. ASSUME StartFromRows PROVE Typed'
  <2>1. PICK v \in FromRows : /\ memory' \in {v, [v EXCEPT !.cabs = NoCabinets], Blank}
                              /\ mapped' \subseteq db.lockers
    <3>1. PICK v \in FromRows :
            \/ memory' = v /\ mapped' \subseteq WithLockers(v, db.lockers).lockers
            \/ /\ memory' \in {v, [v EXCEPT !.cabs = NoCabinets], Blank}
               /\ mapped' \in SUBSET (db.lockers \intersect Listed(memory'.cabs))
      BY <1>23 DEF StartFromRows, ReadLockers
    <3> QED
      BY <3>1, LockersWith
  <2>2. v \in State
    BY <1>3, <2>1 DEF FromRows, State, Typed
  <2>3. memory' \in State
    BY <1>3, <2>1, <2>2 DEF State
  <2>4. UNCHANGED <<threads, running, disk>> /\ status' \in {"up", "failed"}
    BY <1>23 DEF StartFromRows
  <2> QED
    BY <2>1, <2>3, <2>4 DEF threads, disk, Typed
<1>21. ASSUME UNCHANGED vars PROVE Typed'
  BY <1>21 DEF vars, threads, disk, Typed
<1> QED
  BY <1>2, <1>4, <1>5, <1>7, <1>10, <1>11, <1>12, <1>13, <1>14, <1>15, <1>16, <1>17,
     <1>18, <1>19, <1>20, <1>21, <1>22, <1>23 DEF Next, ThreadStep

LEMMA Invariant == Spec => [](Typed /\ ListInv)
<1>1. Init => Typed /\ ListInv
  <2> SUFFICES ASSUME Init PROVE Typed /\ ListInv
    OBVIOUS
  <2>1. Blank \in State /\ NoRows \in [locs : SUBSET Locations,
            cabs : [Cabinets -> Locations \union {None}], lockers : SUBSET Cabinets]
    BY DEF Blank, State, NoRows, NoCabinets
  <2>2. Typed
    BY <2>1 DEF Init, Typed
  <2>3. Work(<<>>)
    BY NoSteps
  <2>4. ListInv
    BY <2>3 DEF Init, ListInv, Lists, Built, FlagReleased, Idle
  <2> QED
    BY <2>2, <2>4
<1> QED
  BY <1>1, ListStep, TypeStep, PTL DEF Spec

(* However the setups ended, overlapped, raised or were cut by a crash: no *)
(* setup at work, no flag (setup_handler.py's finally clause).             *)
THEOREM FlagComesDown == Spec => []FlagReleased
<1>1. ListInv => FlagReleased
  BY DEF ListInv
<1> QED
  BY <1>1, Invariant, PTL

--------------------------------------------------------------------------------
(* What a thread does next *)

Ahead(t) == IF Idle(t) THEN "nothing" ELSE Head(todo[t]).do

LEMMA AtAhead ==
  ASSUME NEW t \in Threads, NEW what, At(t, what)
  PROVE  Ahead(t) = what /\ ~Idle(t) /\ status = "up"
BY DEF At, Ahead

(* A thread takes a step: what it does next, and what the others do.       *)
LEMMA Moves ==
  ASSUME ListInv, NEW t \in Threads, NEW what, At(t, what), Step(t)
  PROVE  /\ \A u \in Threads \ {t} : todo'[u] = todo[u] /\ Ahead(u)' = Ahead(u)
         /\ todo'[t] = Tail(todo[t]) /\ (Idle(t)' <=> Ahead(t)' = "nothing")
         /\ what = "start" => Ahead(t)' \in {"forget_location", "set_location"}
         /\ what = "forget_location" => Ahead(t)' = "forget_cabinets"
         /\ what = "forget_cabinets" => Ahead(t)' = "unlink"
         /\ what = "unlink" => Ahead(t)' = "clear_rows"
         /\ what = "clear_rows" => Ahead(t)' \in {"nothing", "set_location"}
         /\ what = "set_location" => Ahead(t)' = "location_row" /\ On(t)' = On(t)
         /\ what \in {"location_row", "cabinet_row"} => Ahead(t)' = "build"
         /\ what = "build" => Ahead(t)' = "open"
         /\ what = "open" => Ahead(t)' = "dump"
         /\ what = "dump" => Ahead(t)' \in {"check", "locker_rows", "finish"}
         /\ what = "cabinet_data" => Ahead(t)' = "set_cabinet" /\ On(t)' = On(t)
         /\ what = "set_cabinet" => Ahead(t)' = "cabinet_row" /\ On(t)' = On(t)
         /\ what = "locker_rows" => Ahead(t)' = "set_lockers" /\ On(t)' = On(t)
         /\ what = "set_lockers" => Ahead(t)' \in {"check", "finish"}
         /\ what = "finish" => Ahead(t)' = "nothing"
<1> DEFINE q == todo[t]
           r == Tail(q)
<1>1. Work(q) /\ q # <<>> /\ Head(q).do = what
  BY DEF ListInv, Lists, At, Idle
<1>2. todo' = [todo EXCEPT ![t] = r] /\ todo'[t] = r /\ \A u \in Threads \ {t} : todo'[u] = todo[u]
  BY DEF Step, ListInv, Lists
<1>3. \A u \in Threads \ {t} : Ahead(u)' = Ahead(u)
  BY <1>2 DEF Ahead, Idle
<1>4. /\ r # <<>> => Follows(Head(q), Head(r)) /\ Head(r) \in Steps
      /\ r = <<>> => what \in {"clear_rows", "finish"}
  BY <1>1, TailWork
<1> HIDE DEF r
<1>5. /\ Ahead(t)' = IF r = <<>> THEN "nothing" ELSE Head(r).do
      /\ On(t) = Head(q).x /\ On(t)' = Head(r).x /\ (Idle(t)' <=> r = <<>>)
  BY <1>2 DEF Ahead, Idle, On
<1>6. r # <<>> => Head(r).do # "nothing"
  BY <1>4 DEF Steps, OfLocation, OfCabinet, OfSave, OfClear, Plain
<1> HIDE DEF q
<1>7. r # <<>> =>
        /\ what = "set_location" => Head(r).do = "location_row" /\ Head(r).x = Head(q).x
        /\ what = "cabinet_data" => Head(r).do = "set_cabinet" /\ Head(r).x = Head(q).x
        /\ what = "set_cabinet" => Head(r).do = "cabinet_row" /\ Head(r).x = Head(q).x
        /\ what = "locker_rows" => Head(r).do = "set_lockers" /\ Head(r).x = Head(q).x
  BY <1>1, <1>4, TypedSteps DEF Follows
<1>8. CASE r = <<>>
  <2>1. what \in {"clear_rows", "finish"} /\ Ahead(t)' = "nothing" /\ Idle(t)'
    BY <1>4, <1>5, <1>8
  <2> QED
    BY <1>2, <1>3, <2>1 DEF q, r
<1>9. CASE r # <<>>
  <2>1. Ahead(t)' = Head(r).do /\ ~Idle(t)'
    BY <1>5, <1>9
  <2> QED
    BY <1>1, <1>2, <1>3, <1>4, <1>5, <1>6, <1>7, <1>9, <2>1 DEF Follows, q, r
<1> QED
  BY <1>8, <1>9

(* The file cannot be opened: the dump is left out too.                    *)
LEMMA Skips ==
  ASSUME ListInv, NEW t \in Threads, At(t, "open"),
         todo' = [todo EXCEPT ![t] = Tail(Tail(@))]
  PROVE  /\ \A u \in Threads \ {t} : todo'[u] = todo[u] /\ Ahead(u)' = Ahead(u)
         /\ Ahead(t)' \in {"check", "locker_rows", "finish"}
<1> DEFINE q == todo[t]
           r == Tail(q)
           s == Tail(r)
<1>1. Work(q) /\ q # <<>> /\ Head(q).do = "open"
  BY DEF ListInv, Lists, At, Idle
<1>2. todo'[t] = s /\ \A u \in Threads \ {t} : todo'[u] = todo[u]
  BY DEF ListInv, Lists
<1>3. \A u \in Threads \ {t} : Ahead(u)' = Ahead(u)
  BY <1>2 DEF Ahead, Idle
<1>4. Work(r) /\ r # <<>> /\ Head(r).do = "dump"
  <2>1. /\ Work(r) /\ (r # <<>> => Follows(Head(q), Head(r)))
        /\ r = <<>> => Head(q).do \in {"clear_rows", "finish"}
    BY <1>1, TailWork
  <2> QED
    BY <1>1, <2>1 DEF Follows
<1>5. s # <<>> /\ Head(s).do \in {"check", "locker_rows", "finish"}
  <2> HIDE DEF r
  <2>1. /\ s # <<>> => Follows(Head(r), Head(s))
        /\ s = <<>> => Head(r).do \in {"clear_rows", "finish"}
    BY <1>4, TailWork
  <2> QED
    BY <1>4, <2>1 DEF Follows
<1>6. Ahead(t)' = Head(s).do
  BY <1>2, <1>5 DEF Ahead, Idle
<1> QED
  BY <1>2, <1>3, <1>5, <1>6

LEMMA Breaks ==
  ASSUME ListInv, NEW t \in Threads, NEW what \in OfSetup, At(t, what), Abort(t)
  PROVE  /\ \A u \in Threads \ {t} : todo'[u] = todo[u] /\ Ahead(u)' = Ahead(u)
         /\ Ahead(t)' = "finish"
<1> DEFINE f == Last(todo[t])
<1>1. f.do = "finish"
  BY TailWork DEF ListInv, Lists, At, Idle
<1>2. todo'[t] = <<f>> /\ \A u \in Threads \ {t} : todo'[u] = todo[u]
  BY DEF Abort, ListInv, Lists
<1> HIDE DEF f
<1>3. \A u \in Threads \ {t} : Ahead(u)' = Ahead(u)
  BY <1>2 DEF Ahead, Idle
<1>4. <<f>> # <<>> /\ Head(<<f>>) = f
  OBVIOUS
<1>5. Ahead(t)' = "finish"
  BY <1>1, <1>2, <1>4 DEF Ahead, Idle
<1> QED
  BY <1>2, <1>3, <1>5

LEMMA Checks ==
  ASSUME ListInv, NEW t \in Threads, Check(t)
  PROVE  /\ \A u \in Threads \ {t} : todo'[u] = todo[u] /\ Ahead(u)' = Ahead(u)
         /\ Ahead(t)' \in {"cabinet_data", "locker_rows", "check", "finish"}
         /\ Ahead(t) = "check"
<1>1. PICK q : todo' = [todo EXCEPT ![t] = q] /\ Checked(q)
  BY CheckList
<1>2. todo'[t] = q /\ \A u \in Threads \ {t} : todo'[u] = todo[u]
  BY <1>1 DEF ListInv, Lists
<1>3. \A u \in Threads \ {t} : Ahead(u)' = Ahead(u)
  BY <1>2 DEF Ahead, Idle
<1>4. Ahead(t)' \in {"cabinet_data", "locker_rows", "check", "finish"}
  BY <1>1, <1>2 DEF Ahead, Idle, Checked
<1> QED
  BY <1>2, <1>3, <1>4, AtAhead DEF Check

(* A job begins.                                                           *)
LEMMA Begins ==
  ASSUME ListInv, NEW t \in Threads, Setup(t) \/ Clear(t)
  PROVE  /\ \A u \in Threads \ {t} : todo'[u] = todo[u] /\ Ahead(u)' = Ahead(u)
         /\ Ahead(t)' \in {"start", "forget_location"} /\ Ahead(t) = "nothing"
         /\ Kinds(todo'[t]) \intersect OfCabinet = {} /\ todo'[t] \in Seq(Steps)
<1>1. PICK q : /\ todo' = [todo EXCEPT ![t] = q] /\ Work(q) /\ q # <<>>
               /\ q[1].do \in {"start", "forget_location"} /\ Kinds(q) \intersect OfCabinet = {}
  <2>1. CASE Setup(t)
    <3>1. PICK bulk \in BOOLEAN, l \in Locations, cs \in CabinetLists :
            todo' = [todo EXCEPT ![t] = SetupSteps(bulk, l, cs)]
      BY <2>1 DEF Setup
    <3> QED
      BY <3>1, SetupWork
  <2>2. CASE Clear(t)
    <3>1. todo' = [todo EXCEPT ![t] = ClearSteps]
      BY <2>2 DEF Clear
    <3>2. /\ Work(ClearSteps) /\ ClearSteps # <<>> /\ ClearSteps[1].do = "forget_location"
          /\ Kinds(ClearSteps) \intersect OfCabinet = {}
      BY ClearWork DEF OfCabinet, OfClear
    <3> QED
      BY <3>1, <3>2
  <2> QED
    BY <2>1, <2>2
<1>2. todo'[t] = q /\ (\A u \in Threads \ {t} : todo'[u] = todo[u]) /\ q \in Seq(Steps)
  BY <1>1 DEF ListInv, Lists, Work, Linked
<1>3. \A u \in Threads \ {t} : Ahead(u)' = Ahead(u)
  BY <1>2 DEF Ahead, Idle
<1>4. Ahead(t)' = q[1].do
  BY <1>1, <1>2 DEF Ahead, Idle
<1>5. Ahead(t) = "nothing"
  BY DEF Setup, Clear, Ahead
<1> QED
  BY <1>1, <1>2, <1>3, <1>4, <1>5

--------------------------------------------------------------------------------
(* Who is at work, and the rows *)

(* No two threads at work, unless the history says so; none in a process   *)
(* that is down.                                                           *)
Alone ==
  /\ ~overlapped => \A t, u \in Threads : ~Idle(t) /\ ~Idle(u) => t = u
  /\ status # "up" => \A t \in Threads : Idle(t)

(* The foreign keys hold.                                                  *)
RowsOK ==
  /\ db.lockers \subseteq Listed(db.cabs)
  /\ \A c \in Listed(db.cabs) : db.cabs[c] \in db.locs
  /\ IsFiniteSet(db.locs)

LEMMA OthersStay ==
  ASSUME ListInv, NEW t \in Threads, ThreadStep(t)
  PROVE  /\ \A u \in Threads \ {t} : todo'[u] = todo[u] /\ (Idle(u)' <=> Idle(u))
         /\ ~Idle(t) /\ status = "up" /\ status' = status /\ overlapped' = overlapped
<1>1. ~Idle(t) /\ status = "up" /\ status' = status /\ overlapped' = overlapped
  BY DEF ThreadStep, Start, Finish, ForgetLocation, ForgetCabinets, Unlink, ClearRows, SetLocation,
         LocationRow, Check, CabinetData, SetCabinet, CabinetRow, LockerRows, SetLockers, Build, OpenFile, Dump, At
<1>2. \/ Step(t) \/ Abort(t) \/ Check(t)
      \/ todo' = [todo EXCEPT ![t] = Tail(Tail(@))]
  BY DEF ThreadStep, Start, Finish, ForgetLocation, ForgetCabinets, Unlink, ClearRows, SetLocation,
         LocationRow, CabinetData, SetCabinet, CabinetRow, LockerRows, SetLockers, Build, OpenFile, Dump
<1>3. ASSUME NEW q, todo' = [todo EXCEPT ![t] = q]
      PROVE  \A u \in Threads \ {t} : todo'[u] = todo[u]
  BY <1>3 DEF ListInv, Lists
<1>4. CASE Step(t)
  BY <1>1, <1>3, <1>4 DEF Step, Idle
<1>5. CASE Abort(t)
  BY <1>1, <1>3, <1>5 DEF Abort, Idle
<1>6. CASE Check(t)
  BY <1>1, <1>6, Checks DEF Idle
<1>7. CASE todo' = [todo EXCEPT ![t] = Tail(Tail(@))]
  BY <1>1, <1>3, <1>7 DEF Idle
<1> QED
  BY <1>2, <1>4, <1>5, <1>6, <1>7

LEMMA AloneStep == ListInv /\ Alone /\ [Next]_vars => Alone'
<1> SUFFICES ASSUME ListInv, Alone, [Next]_vars PROVE Alone'
  OBVIOUS
<1>1. ASSUME NEW t \in Threads, Setup(t) \/ Clear(t) PROVE Alone'
  <2>1. \A u \in Threads \ {t} : todo'[u] = todo[u]
    BY <1>1, Begins
  <2>2. /\ status' = "up"
        /\ overlapped' = (overlapped \/ \E u \in Threads : ~Idle(u))
    BY <1>1 DEF Setup, Clear
  <2> QED
    BY <2>1, <2>2 DEF Alone, Idle
<1>2. ASSUME NEW t \in Threads, ThreadStep(t) PROVE Alone'
  BY <1>2, OthersStay DEF Alone, Idle
<1>3. ASSUME Crash PROVE Alone'
  BY <1>3 DEF Crash, Alone, Idle
<1>4. ASSUME StartFromFile \/ StartFromRows PROVE Alone'
  BY <1>4 DEF StartFromFile, StartFromRows, Alone, Idle, threads
<1>5. ASSUME UNCHANGED vars PROVE Alone'
  BY <1>5 DEF vars, Alone, Idle, threads
<1> QED
  BY <1>1, <1>2, <1>3, <1>4, <1>5 DEF Next

(* The rows that steps write.                                              *)
LEMMA RowSteps ==
  ASSUME Typed, ListInv, [Next]_vars, db' # db
  PROVE  \E t \in Threads :
           \/ ClearRows(t) /\ db' = NoRows
           \/ LocationRow(t) /\ On(t) \in Locations /\ db' = [db EXCEPT !.locs = @ \union {On(t)}]
           \/ /\ CabinetRow(t) /\ On(t) \in Cabinets /\ local[t] \in db.locs
              /\ db' = [db EXCEPT !.cabs[On(t)] = local[t]]
           \/ /\ LockerRows(t) /\ On(t) \in Listed(db.cabs)
              /\ db' = [db EXCEPT !.lockers = @ \union {On(t)}]
<1>1. PICK t \in Threads : ClearRows(t) \/ LocationRow(t) \/ CabinetRow(t) \/ LockerRows(t)
  BY DEF Next, ThreadStep, Setup, Clear, Start, Finish, ForgetLocation, ForgetCabinets, Unlink,
         SetLocation, Check, CabinetData, SetCabinet, SetLockers, Build, OpenFile, Dump, Crash,
         StartFromFile, StartFromRows, vars, disk
<1>2. CASE ClearRows(t)
  BY <1>2 DEF ClearRows
<1>3. ~Idle(t) => On(t) = Head(todo[t]).x /\ Head(todo[t]) \in Steps
  BY TailWork DEF ListInv, Lists, Idle, On
<1>4. CASE LocationRow(t)
  <2>1. On(t) \in Locations
    BY <1>3, <1>4 DEF LocationRow, At, Steps, OfLocation, OfCabinet, OfSave, OfClear, Plain
  <2> QED
    BY <1>4, <2>1 DEF LocationRow
<1>5. CASE CabinetRow(t)
  <2>1. On(t) \in Cabinets
    BY <1>3, <1>5 DEF CabinetRow, At, Steps, OfLocation, OfCabinet, OfSave, OfClear, Plain
  <2> QED
    BY <1>5, <2>1 DEF CabinetRow
<1>6. CASE LockerRows(t)
  <2>1. db' = [db EXCEPT !.lockers = LockersAfter(t)]
    BY <1>6 DEF LockerRows
  <2>2. On(t) \in Listed(db.cabs)
    <3> SUFFICES ASSUME On(t) \notin Listed(db.cabs) PROVE FALSE
      OBVIOUS
    <3>1. LockersAfter(t) = db.lockers
      BY DEF LockersAfter
    <3> QED
      BY <2>1, <3>1 DEF Typed
  <2>3. LockersAfter(t) = db.lockers \union {On(t)}
    BY <2>2 DEF LockersAfter
  <2> QED
    BY <1>6, <2>1, <2>2, <2>3 DEF Typed
<1> QED
  BY <1>1, <1>2, <1>4, <1>5, <1>6

LEMMA RowsStep == Typed /\ ListInv /\ RowsOK /\ [Next]_vars => RowsOK'
<1> SUFFICES ASSUME Typed, ListInv, RowsOK, [Next]_vars, db' # db PROVE RowsOK'
  BY DEF RowsOK
<1>0. db \in [locs : SUBSET Locations, cabs : [Cabinets -> Locations \union {None}],
              lockers : SUBSET Cabinets]
  BY DEF Typed
<1>1. PICK t \in Threads :
           \/ ClearRows(t) /\ db' = NoRows
           \/ LocationRow(t) /\ On(t) \in Locations /\ db' = [db EXCEPT !.locs = @ \union {On(t)}]
           \/ /\ CabinetRow(t) /\ On(t) \in Cabinets /\ local[t] \in db.locs
              /\ db' = [db EXCEPT !.cabs[On(t)] = local[t]]
           \/ /\ LockerRows(t) /\ On(t) \in Listed(db.cabs)
              /\ db' = [db EXCEPT !.lockers = @ \union {On(t)}]
  BY RowSteps
<1>2. CASE db' = NoRows
  BY <1>2, FS_EmptySet DEF NoRows, RowsOK, Listed, NoCabinets
<1>3. CASE db' = [db EXCEPT !.locs = @ \union {On(t)}]
  <2>1. db'.locs = db.locs \union {On(t)} /\ db'.cabs = db.cabs /\ db'.lockers = db.lockers
    BY <1>0, <1>3
  <2>2. IsFiniteSet(db.locs \union {On(t)})
    BY FS_AddElement DEF RowsOK
  <2> QED
    BY <2>1, <2>2 DEF RowsOK, Listed
<1>4. CASE On(t) \in Cabinets /\ local[t] \in db.locs /\ db' = [db EXCEPT !.cabs[On(t)] = local[t]]
  <2>1. /\ db'.locs = db.locs /\ db'.lockers = db.lockers
        /\ \A c \in Cabinets : db'.cabs[c] = IF c = On(t) THEN local[t] ELSE db.cabs[c]
    BY <1>0, <1>4
  <2> QED
    BY <1>0, <1>4, <2>1, NoneAssumption DEF RowsOK, Listed
<1>5. CASE On(t) \in Listed(db.cabs) /\ db' = [db EXCEPT !.lockers = @ \union {On(t)}]
  <2>1. db'.locs = db.locs /\ db'.cabs = db.cabs /\ db'.lockers = db.lockers \union {On(t)}
    BY <1>0, <1>5
  <2> QED
    BY <1>5, <2>1 DEF RowsOK, Listed
<1> QED
  BY <1>1, <1>2, <1>3, <1>4, <1>5

--------------------------------------------------------------------------------
(* A location for every cabinet *)

Coherent == {s \in State : s.loc = None => s.cabs = NoCabinets}

(* While no two threads have been at work at once: what is remembered or   *)
(* written has its location, but between the two assignments of clear.     *)
Placed ==
  ~overlapped =>
    /\ Readable => json \in Coherent
    /\ \A t \in Threads : /\ Ahead(t) \in {"open", "dump"} => local[t] \in Coherent
                          /\ Ahead(t) = "set_cabinet" => memory.loc # None
    /\ (\A t \in Threads : Ahead(t) # "forget_cabinets") => memory \in Coherent

(* The others are idle.                                                    *)
LEMMA PlacedOf ==
  ASSUME Alone, Placed, NEW t \in Threads, ~Idle(t), overlapped' = overlapped,
         \A u \in Threads \ {t} : Ahead(u)' = Ahead(u),
         Readable' => json' \in Coherent \/ json' = json,
         Ahead(t)' \in {"open", "dump"} => local'[t] \in Coherent,
         Ahead(t)' = "set_cabinet" => memory'.loc # None,
         Ahead(t)' # "forget_cabinets" => memory' \in Coherent
  PROVE  Placed'
<1> SUFFICES ASSUME ~overlapped PROVE Placed'
  BY DEF Placed
<1>1. \A u \in Threads \ {t} : Ahead(u)' = "nothing"
  BY DEF Alone, Ahead
<1>2. Readable' => json' \in Coherent
  BY DEF Placed, Readable
<1> QED
  BY <1>1, <1>2 DEF Placed

LEMMA PlacedStep == Typed /\ ListInv /\ Alone /\ Placed /\ [Next]_vars => Placed'
<1> SUFFICES ASSUME Typed, ListInv, Alone, Placed, [Next]_vars PROVE Placed'
  OBVIOUS
<1>0. Blank \in Coherent
  BY DEF Blank, Coherent, State, NoCabinets
<1>a. ASSUME NEW t \in Threads, NEW what, At(t, what), ~overlapped, what # "forget_cabinets"
      PROVE  memory \in Coherent
  <2>1. \A u \in Threads : Ahead(u) # "forget_cabinets"
    BY <1>a, AtAhead DEF Alone, Ahead
  <2> QED
    BY <1>a, <2>1 DEF Placed
<1>1. ASSUME NEW t \in Threads, Setup(t) \/ Clear(t) PROVE Placed'
  <2>1. /\ UNCHANGED <<local, memory, json>> /\ (~overlapped' => ~overlapped)
        /\ Ahead(t)' \in {"start", "forget_location"} /\ Ahead(t) = "nothing"
        /\ \A u \in Threads \ {t} : Ahead(u)' = Ahead(u)
    BY <1>1, Begins DEF Setup, Clear, disk
  <2> QED
    BY <2>1 DEF Placed, Readable
<1>2. ASSUME NEW t \in Threads, ThreadStep(t) PROVE Placed'
  <2> SUFFICES ASSUME ~overlapped PROVE Placed'
    BY <1>2, OthersStay DEF Placed
  <2>0. ~Idle(t) /\ overlapped' = overlapped /\ \A u \in Threads \ {t} : Ahead(u)' = Ahead(u)
    BY <1>2, OthersStay DEF Ahead, Idle
  <2>1. ASSUME NEW what \in {"start", "finish", "unlink", "clear_rows", "location_row",
                            "cabinet_row", "set_lockers"},
               At(t, what), Step(t), UNCHANGED <<local, memory>>, json' = json \/ json' = None
        PROVE  Placed'
    <3>1. /\ Ahead(t)' \notin {"open", "dump", "set_cabinet"} /\ memory' \in Coherent
          /\ Readable' => json' = json
      BY <1>a, <2>1, Moves DEF Readable
    <3> QED
      BY <2>0, <3>1, PlacedOf
  <2>2. CASE Start(t) \/ Finish(t) \/ Unlink(t) \/ ClearRows(t) \/ LocationRow(t) \/ CabinetRow(t) \/ SetLockers(t)
    BY <2>1, <2>2 DEF Start, Finish, Unlink, ClearRows, LocationRow, CabinetRow, SetLockers, disk
  <2>3. CASE ForgetLocation(t)
    <3>1. At(t, "forget_location") /\ Step(t) /\ json' = json
      BY <2>3 DEF ForgetLocation, disk
    <3>2. Ahead(t)' = "forget_cabinets"
      BY <3>1, Moves
    <3> QED
      BY <2>0, <3>1, <3>2, PlacedOf
  <2>4. CASE ForgetCabinets(t)
    <3>1. At(t, "forget_cabinets") /\ Step(t) /\ json' = json
      BY <2>4 DEF ForgetCabinets, disk
    <3>2. memory' \in Coherent
      BY <1>0, <2>4 DEF ForgetCabinets, DropCabinets, Typed, State, Coherent, Blank
    <3>3. Ahead(t)' = "unlink"
      BY <3>1, Moves
    <3> QED
      BY <2>0, <3>1, <3>2, <3>3, PlacedOf
  <2>5. CASE SetLocation(t)
    <3>1. At(t, "set_location") /\ Step(t) /\ json' = json /\ memory' = [memory EXCEPT !.loc = On(t)]
      BY <2>5 DEF SetLocation, disk
    <3>2. On(t) \in Locations
      <4>1. Head(todo[t]) \in Steps
        BY <3>1, TailWork DEF At, ListInv, Lists, Idle
      <4> QED
        BY <3>1, <4>1 DEF At, On, Steps, OfLocation, OfCabinet, OfSave, OfClear, Plain
    <3>3. memory' \in Coherent
      BY <3>1, <3>2, NoneAssumption DEF Typed, State, Coherent
    <3>4. Ahead(t)' = "location_row"
      BY <3>1, Moves
    <3> QED
      BY <2>0, <3>1, <3>3, <3>4, PlacedOf
  <2>6. CASE Check(t)
    <3>1. At(t, "check") /\ UNCHANGED <<memory, json>>
      BY <2>6 DEF Check, disk
    <3>2. Ahead(t)' \in {"cabinet_data", "locker_rows", "check", "finish"}
      BY <2>6, Checks
    <3>3. memory' \in Coherent
      BY <1>a, <3>1
    <3> QED
      BY <2>0, <3>1, <3>2, <3>3, PlacedOf
  <2>7. CASE CabinetData(t)
    <3>1. At(t, "cabinet_data") /\ UNCHANGED <<memory, json>>
      BY <2>7 DEF CabinetData, disk
    <3>2. IF memory.loc = None THEN Ahead(t)' = "finish" ELSE Ahead(t)' = "set_cabinet"
      BY <2>7, <3>1, Breaks, Moves DEF CabinetData, OfSetup, OfCabinet
    <3>3. memory' \in Coherent
      BY <1>a, <3>1
    <3> QED
      BY <2>0, <3>1, <3>2, <3>3, PlacedOf
  <2>8. CASE SetCabinet(t)
    <3>1. /\ At(t, "set_cabinet") /\ Step(t) /\ json' = json
          /\ memory' = [memory EXCEPT !.cabs[On(t)] = local[t]]
      BY <2>8 DEF SetCabinet, disk
    <3>2. memory.loc # None
      BY <3>1, AtAhead DEF Placed
    <3>3. memory' \in State
      <4>1. Head(todo[t]) \in Steps /\ local[t] \in Locations
        BY <3>1, TailWork DEF At, ListInv, Lists, Built, Fits, Idle
      <4>2. On(t) \in Cabinets
        BY <3>1, <4>1 DEF At, On, Steps, OfLocation, OfCabinet, OfSave, OfClear, Plain
      <4> QED
        BY <3>1, <4>1, <4>2 DEF Typed, State
    <3>4. memory' \in Coherent
      BY <3>1, <3>2, <3>3 DEF Coherent, Typed, State
    <3>5. Ahead(t)' = "cabinet_row"
      BY <3>1, Moves
    <3> QED
      BY <2>0, <3>1, <3>4, <3>5, PlacedOf
  <2>9. CASE LockerRows(t)
    <3>1. At(t, "locker_rows") /\ UNCHANGED <<memory, json>>
      BY <2>9 DEF LockerRows
    <3>2. Ahead(t)' \in {"set_lockers", "finish"}
      BY <2>9, <3>1, Breaks, Moves DEF LockerRows, OfSetup, OfCabinet
    <3>3. memory' \in Coherent
      BY <1>a, <3>1
    <3> QED
      BY <2>0, <3>1, <3>2, <3>3, PlacedOf
  <2>10. CASE Build(t)
    <3>1. At(t, "build") /\ Step(t) /\ UNCHANGED <<memory, json>> /\ local'[t] = memory
      BY <2>10 DEF Build, disk, Typed
    <3>2. Ahead(t)' = "open" /\ memory \in Coherent
      BY <1>a, <3>1, Moves
    <3> QED
      BY <2>0, <3>1, <3>2, PlacedOf
  <2>11. CASE OpenFile(t)
    <3>1. /\ At(t, "open") /\ UNCHANGED <<local, memory>>
          /\ \/ json' = Empty /\ Step(t)
             \/ json' = json /\ todo' = [todo EXCEPT ![t] = Tail(Tail(@))]
      BY <2>11 DEF OpenFile
    <3>2. Ahead(t)' \in {"dump", "check", "locker_rows", "finish"}
      BY <3>1, Moves, Skips
    <3>3. local[t] \in Coherent /\ memory \in Coherent
      BY <1>a, <3>1, AtAhead DEF Placed
    <3> QED
      BY <2>0, <3>1, <3>2, <3>3, PlacedOf DEF Readable
  <2>12. CASE Dump(t)
    <3>1. /\ At(t, "dump") /\ UNCHANGED <<local, memory>> /\ Step(t)
          /\ json' \in {local[t], Torn, json}
      BY <2>12 DEF Dump
    <3>2. Ahead(t)' \in {"check", "locker_rows", "finish"}
      BY <3>1, Moves
    <3>3. local[t] \in Coherent /\ memory \in Coherent
      BY <1>a, <3>1, AtAhead DEF Placed
    <3> QED
      BY <2>0, <3>1, <3>2, <3>3, PlacedOf DEF Readable
  <2> QED
    BY <1>2, <2>2, <2>3, <2>4, <2>5, <2>6, <2>7, <2>8, <2>9, <2>10, <2>11, <2>12 DEF ThreadStep
<1>3. ASSUME Crash PROVE Placed'
  <2>1. /\ \A t \in Threads : Ahead(t)' = "nothing"
        /\ memory' = Blank /\ json' = json /\ overlapped' = overlapped
    BY <1>3 DEF Crash, disk, Ahead, Idle
  <2> QED
    BY <1>0, <2>1 DEF Placed, Readable
<1>b. ASSUME status # "up", UNCHANGED <<threads, disk, overlapped>>,
             ~overlapped => memory' \in Coherent
      PROVE  Placed'
  <2>1. \A t \in Threads : Ahead(t)' = "nothing"
    BY <1>b DEF Alone, Ahead, Idle, threads
  <2> QED
    BY <1>b, <2>1 DEF Placed, Readable, disk
<1>4. ASSUME StartFromFile PROVE Placed'
  <2>1. /\ memory' = json /\ Readable /\ status # "up" /\ UNCHANGED <<threads, disk, overlapped>>
    BY <1>4 DEF StartFromFile
  <2> QED
    BY <1>b, <2>1 DEF Placed
<1>5. ASSUME StartFromRows PROVE Placed'
  <2>1. PICK v \in FromRows : memory' \in {v, [v EXCEPT !.cabs = NoCabinets], Blank}
    BY <1>5 DEF StartFromRows
  <2>2. v \in Coherent
    BY <1>0, <2>1, NoneAssumption DEF FromRows, Coherent, State, Typed
  <2>3. NoCabinets \in [Cabinets -> Locations \union {None}]
    BY DEF NoCabinets
  <2>4. memory' \in Coherent
    BY <1>0, <2>1, <2>2, <2>3 DEF Coherent, State
  <2>5. status # "up" /\ UNCHANGED <<threads, disk, overlapped>>
    BY <1>5 DEF StartFromRows
  <2> QED
    BY <1>b, <2>4, <2>5
<1>6. ASSUME UNCHANGED vars PROVE Placed'
  BY <1>6 DEF vars, threads, disk, Placed, Readable, Ahead, Idle
<1> QED
  BY <1>1, <1>2, <1>3, <1>4, <1>5, <1>6 DEF Next

(* The variables keep their types with any number of threads at work; and  *)
(* while no two have been at work at once, no cabinet is remembered without*)
(* a location, but between the two assignments of clear: save_cabinet's    *)
(* read of the location and its write of the cabinet then belong together. *)
THEOREM TypeCorrect == Spec => []TypeOK
<1>1. Init => Alone /\ Placed
  BY DEF Init, Alone, Placed, Readable, Ahead, Idle, Blank, Coherent, State, NoCabinets
<1>2. Spec => [](Typed /\ Alone /\ Placed)
  BY <1>1, Invariant, AloneStep, PlacedStep, PTL DEF Spec
<1>3. Typed /\ Alone /\ Placed => TypeOK
  <2> SUFFICES ASSUME Typed, Alone, Placed PROVE TypeOK
    OBVIOUS
  <2>1. (\A t \in Threads : ~At(t, "forget_cabinets")) => \A t \in Threads : Ahead(t) # "forget_cabinets"
    BY DEF Alone, Ahead, At
  <2> QED
    BY <2>1 DEF Typed, Placed, TypeOK, Coherent
<1> QED
  BY <1>2, <1>3, PTL

--------------------------------------------------------------------------------
(* What a start may find while an operation is cut short *)

RowsFound == {WithLockers(s, db.lockers) : s \in FromRows}

FindsAllowed ==
  /\ RowsFound \subseteq allowed
  /\ Readable => WithLockers(json, db.lockers) \in allowed

(* Between an operation's first change of memory and its last of the file. *)
Between == {"forget_cabinets", "unlink", "clear_rows", "location_row", "cabinet_row"} \union OfSave
Midway(t) == Ahead(t) \in Between

(* What t is about to write is what a start may find.                      *)
Writes(t) ==
  /\ Ahead(t) \in {"forget_cabinets", "unlink", "clear_rows"} =>
       /\ WithLockers(Blank, {}) \in allowed
       /\ Readable => WithLockers(json, {}) \in allowed
  /\ Ahead(t) = "location_row" =>
       WithLockers([loc |-> On(t), cabs |-> db.cabs], db.lockers) \in allowed
  /\ Ahead(t) = "cabinet_row" /\ local[t] \in db.locs => \A l \in db.locs :
       WithLockers([loc |-> l, cabs |-> [db.cabs EXCEPT ![On(t)] = local[t]]], db.lockers) \in allowed
  /\ Ahead(t) \in {"location_row", "cabinet_row", "build"} => WithLockers(memory, db.lockers) \in allowed
  /\ Ahead(t) \in {"open", "dump"} => WithLockers(local[t], db.lockers) \in allowed

AtomInv ==
  allowed # {} =>
    /\ FindsAllowed
    /\ \A t, u \in Threads : Midway(t) /\ Midway(u) => t = u
    /\ \A t \in Threads : Writes(t)

LEMMA AtomicInv == AtomInv => CrashAtomic
<1>1. Found = IF Readable THEN {WithLockers(json, db.lockers)} ELSE RowsFound
  BY DEF Found, RowsFound
<1> QED
  BY <1>1 DEF AtomInv, CrashAtomic, FindsAllowed, RowsFound

(* The rows that a start reads, by location.                               *)
LEMMA RowsRead ==
  ASSUME Typed, RowsOK
  PROVE  /\ db.locs = {} => /\ db.cabs = NoCabinets /\ db.lockers = {}
                            /\ RowsFound = {WithLockers([loc |-> None, cabs |-> db.cabs], db.lockers)}
         /\ db.locs # {} =>
              RowsFound = {WithLockers([loc |-> l, cabs |-> db.cabs], db.lockers) : l \in db.locs}
<1>1. CASE db.locs = {}
  <2>1. Listed(db.cabs) = {}
    BY <1>1 DEF RowsOK
  <2>2. db.cabs \in [Cabinets -> Locations \union {None}]
    BY DEF Typed
  <2>3. \A c \in Cabinets : db.cabs[c] = None
    BY <2>1 DEF Listed
  <2>4. db.cabs = NoCabinets
    BY <2>2, <2>3 DEF NoCabinets
  <2>5. db.lockers = {}
    BY <2>1 DEF RowsOK
  <2>6. FromRows = {[loc |-> None, cabs |-> db.cabs]}
    BY <1>1, <2>4 DEF FromRows, Blank
  <2> QED
    BY <1>1, <2>4, <2>5, <2>6 DEF RowsFound
<1>2. CASE db.locs # {}
  <2>1. FromRows = {[loc |-> l, cabs |-> db.cabs] : l \in db.locs}
    BY <1>2 DEF FromRows
  <2> QED
    BY <1>2, <2>1 DEF RowsFound
<1> QED
  BY <1>1, <1>2

LEMMA Promised ==
  ASSUME NEW results, NEW lockers, Promise(results, lockers), allowed' # {}
  PROVE  /\ ~overlapped
         /\ \A s \in results \union FromRows : \A ls \in {db.lockers, lockers} :
              WithLockers(s, ls) \in allowed'
         /\ Readable => \A ls \in {db.lockers, lockers} : WithLockers(json, ls) \in allowed'
<1>1. /\ ~overlapped
      /\ allowed' = {WithLockers(s, ls) : s \in Stored \union results, ls \in {db.lockers, lockers}}
  BY DEF Promise
<1>2. results \union FromRows \subseteq Stored \union results
  BY DEF Stored
<1>3. Readable => json \in Stored \union results
  BY DEF Stored
<1> QED
  BY <1>1, <1>2, <1>3

(* What was stored may be found.                                           *)
LEMMA StoredStays ==
  ASSUME NEW results, NEW lockers, Promise(results, lockers), allowed' # {}, db' = db, json' = json
  PROVE  FindsAllowed'
<1>1. RowsFound' = RowsFound /\ Readable' = Readable
  BY DEF RowsFound, FromRows, Readable
<1>2. RowsFound \subseteq allowed'
  BY Promised DEF RowsFound
<1> QED
  BY <1>1, <1>2, Promised DEF FindsAllowed

(* One thread at most is midway: it is enough to look at that thread.      *)
LEMMA AtomOf ==
  ASSUME NEW t \in Threads, \A u \in Threads \ {t} : ~Midway(u)',
         allowed' # {} => FindsAllowed' /\ Writes(t)'
  PROVE  AtomInv'
<1>1. ASSUME NEW u \in Threads \ {t} PROVE Writes(u)'
  BY <1>1 DEF Midway, Writes, Between, OfSave
<1> QED
  BY <1>1 DEF AtomInv

(* A thread that is midway takes a step.                                   *)
LEMMA AtomMidway ==
  ASSUME AtomInv, NEW t \in Threads, Midway(t),
         \A u \in Threads \ {t} : Ahead(u)' = Ahead(u),
         allowed' # {} => allowed # {} /\ FindsAllowed' /\ Writes(t)'
  PROVE  AtomInv'
<1>1. CASE allowed' = {}
  BY <1>1 DEF AtomInv
<1>2. CASE allowed' # {}
  <2>1. \A u \in Threads \ {t} : ~Midway(u)'
    BY <1>2 DEF AtomInv, Midway
  <2> QED
    BY <2>1, AtomOf
<1> QED
  BY <1>1, <1>2

(* A thread that is alone begins an operation.                             *)
LEMMA AtomPromise ==
  ASSUME ListInv, Alone, NEW t \in Threads, ~Idle(t),
         \A u \in Threads \ {t} : Ahead(u)' = Ahead(u),
         NEW results, NEW lockers, Promise(results, lockers),
         allowed' # {} => FindsAllowed' /\ Writes(t)'
  PROVE  AtomInv'
<1>1. CASE allowed' = {}
  BY <1>1 DEF AtomInv
<1>2. CASE allowed' # {}
  <2>1. \A u \in Threads \ {t} : Idle(u)
    BY <1>2, Promised DEF Alone
  <2>2. \A u \in Threads \ {t} : ~Midway(u)'
    BY <2>1 DEF Midway, Ahead, Between, OfSave
  <2> QED
    BY <2>2, AtomOf
<1> QED
  BY <1>1, <1>2

(* A step that neither is nor leads midway.                                *)
LEMMA AtomAside ==
  ASSUME AtomInv, NEW t \in Threads, Ahead(t)' \notin Between,
         \A u \in Threads \ {t} : /\ todo'[u] = todo[u] /\ Ahead(u)' = Ahead(u)
                                  /\ local'[u] = local[u],
         UNCHANGED <<memory, disk, allowed>>
  PROVE  AtomInv'
<1>1. ~Midway(t)' /\ Writes(t)'
  BY DEF Midway, Writes, Between, OfSave
<1>2. ASSUME NEW u \in Threads \ {t} PROVE (Midway(u)' => Midway(u)) /\ (Writes(u) => Writes(u)')
  <2>1. /\ On(u)' = On(u) /\ local'[u] = local[u] /\ Ahead(u)' = Ahead(u)
        /\ memory' = memory /\ db' = db /\ json' = json /\ allowed' = allowed
    BY DEF On, disk
  <2> QED
    BY <2>1 DEF Midway, Writes, Readable
<1>3. FindsAllowed => FindsAllowed'
  BY DEF FindsAllowed, RowsFound, FromRows, Readable, disk
<1> QED
  BY <1>1, <1>2, <1>3 DEF AtomInv

LEMMA AtomStep ==
  Typed /\ ListInv /\ Alone /\ RowsOK /\ AtomInv /\ [Next]_vars => AtomInv'
<1> SUFFICES ASSUME Typed, ListInv, Alone, RowsOK, AtomInv, [Next]_vars PROVE AtomInv'
  OBVIOUS
<1>0. db \in [locs : SUBSET Locations, cabs : [Cabinets -> Locations \union {None}],
              lockers : SUBSET Cabinets]
  BY DEF Typed
<1>1. ASSUME NEW t \in Threads, Setup(t) \/ Clear(t) PROVE AtomInv'
  <2>1. UNCHANGED <<local, memory, disk, allowed>>
    BY <1>1 DEF Setup, Clear
  <2> QED
    BY <1>1, <2>1, Begins, AtomAside DEF OfSave, Between
<1>2. ASSUME NEW t \in Threads, Start(t) PROVE AtomInv'
  <2>1. UNCHANGED <<local, memory, disk, allowed>> /\ At(t, "start") /\ Step(t)
    BY <1>2 DEF Start
  <2> QED
    BY <2>1, Moves, AtomAside DEF OfSave, Between
<1>3. ASSUME NEW t \in Threads, Finish(t) PROVE AtomInv'
  <2>1. UNCHANGED <<local, memory, disk, allowed>> /\ At(t, "finish") /\ Step(t)
    BY <1>3 DEF Finish
  <2> QED
    BY <2>1, Moves, AtomAside DEF OfSave, Between
<1>4. ASSUME NEW t \in Threads, ForgetLocation(t) PROVE AtomInv'
  <2>1. /\ At(t, "forget_location") /\ Step(t) /\ Promise({Blank}, {})
        /\ db' = db /\ json' = json
    BY <1>4 DEF ForgetLocation, disk
  <2>2. Ahead(t)' = "forget_cabinets" /\ ~Idle(t) /\ \A u \in Threads \ {t} : Ahead(u)' = Ahead(u)
    BY <2>1, Moves, AtAhead
  <2>3. ASSUME allowed' # {} PROVE FindsAllowed' /\ Writes(t)'
    <3>1. FindsAllowed'
      BY <2>1, <2>3, StoredStays
    <3>2. /\ WithLockers(Blank, {}) \in allowed'
          /\ Readable' => WithLockers(json', {}) \in allowed'
      BY <2>1, <2>3, Promised DEF Readable
    <3>3. Writes(t)'
      BY <2>2, <3>2 DEF Writes, OfSave
    <3> QED
      BY <3>1, <3>3
  <2> QED
    BY <2>1, <2>2, <2>3, AtomPromise
<1>20. ASSUME NEW t \in Threads, ForgetCabinets(t) PROVE AtomInv'
  <2>1. /\ At(t, "forget_cabinets") /\ Step(t) /\ UNCHANGED <<db, json, allowed>>
    BY <1>20 DEF ForgetCabinets, disk
  <2>2. /\ Ahead(t)' = "unlink" /\ Ahead(t) = "forget_cabinets"
        /\ \A u \in Threads \ {t} : Ahead(u)' = Ahead(u)
    BY <2>1, Moves, AtAhead
  <2>3. ASSUME allowed' # {} PROVE allowed # {} /\ FindsAllowed' /\ Writes(t)'
    <3>1. allowed # {} /\ FindsAllowed /\ Writes(t)
      BY <2>1, <2>3 DEF AtomInv
    <3>2. FindsAllowed'
      BY <2>1, <3>1 DEF FindsAllowed, RowsFound, FromRows, Readable
    <3>3. /\ WithLockers(Blank, {}) \in allowed'
          /\ Readable' => WithLockers(json', {}) \in allowed'
      BY <2>1, <2>2, <3>1 DEF Writes, Readable
    <3>4. Writes(t)'
      BY <2>2, <3>3 DEF Writes, OfSave
    <3> QED
      BY <3>1, <3>2, <3>4
  <2> QED
    BY <2>2, <2>3, AtomMidway DEF Midway, Between
<1>5. ASSUME NEW t \in Threads, Unlink(t) PROVE AtomInv'
  <2>1. /\ At(t, "unlink") /\ Step(t) /\ db' = db /\ allowed' = allowed
        /\ json' = None \/ json' = json
    BY <1>5 DEF Unlink
  <2>2. /\ Ahead(t)' = "clear_rows" /\ Ahead(t) = "unlink"
        /\ \A u \in Threads \ {t} : Ahead(u)' = Ahead(u)
    BY <2>1, Moves, AtAhead
  <2>3. ASSUME allowed' # {} PROVE allowed # {} /\ FindsAllowed' /\ Writes(t)'
    <3>1. allowed # {} /\ FindsAllowed /\ Writes(t)
      BY <2>1, <2>3 DEF AtomInv
    <3>2. FindsAllowed'
      BY <2>1, <3>1 DEF FindsAllowed, RowsFound, FromRows, Readable
    <3>3. /\ WithLockers(Blank, {}) \in allowed'
          /\ Readable' => WithLockers(json', {}) \in allowed'
      BY <2>1, <2>2, <3>1 DEF Writes, Readable
    <3>4. Writes(t)'
      BY <2>2, <3>3 DEF Writes, OfSave
    <3> QED
      BY <3>1, <3>2, <3>4
  <2> QED
    BY <2>2, <2>3, AtomMidway DEF Midway, Between
<1>6. ASSUME NEW t \in Threads, ClearRows(t) PROVE AtomInv'
  <2>1. /\ At(t, "clear_rows") /\ Step(t) /\ json' = json /\ allowed' = allowed
        /\ db' = NoRows \/ db' = db
    BY <1>6 DEF ClearRows
  <2>2. /\ Ahead(t)' \in {"nothing", "set_location"} /\ Ahead(t) = "clear_rows"
        /\ \A u \in Threads \ {t} : Ahead(u)' = Ahead(u)
    BY <2>1, Moves, AtAhead
  <2>3. ASSUME allowed' # {} PROVE allowed # {} /\ FindsAllowed' /\ Writes(t)'
    <3>1. FindsAllowed /\ Writes(t)
      BY <2>1, <2>3 DEF AtomInv
    <3>2. /\ WithLockers(Blank, {}) \in allowed
          /\ Readable => WithLockers(json, {}) \in allowed
      BY <2>2, <3>1 DEF Writes
    <3>3. ASSUME db' = db PROVE FindsAllowed'
      BY <2>1, <3>1, <3>3 DEF FindsAllowed, RowsFound, FromRows, Readable
    <3>4. ASSUME db' = NoRows PROVE FindsAllowed'
      <4>1. FromRows' = {Blank} /\ db'.lockers = {}
        BY <3>4 DEF FromRows, NoRows, Blank
      <4>2. RowsFound' = {WithLockers(Blank, {})}
        BY <4>1 DEF RowsFound, WithLockers, Listed
      <4>3. Readable' => WithLockers(json', db'.lockers) \in allowed'
        BY <2>1, <3>2, <4>1 DEF Readable
      <4> QED
        BY <2>1, <3>2, <4>2, <4>3 DEF FindsAllowed
    <3>5. Writes(t)'
      BY <2>2 DEF Writes, OfSave
    <3> QED
      BY <2>1, <2>3, <3>3, <3>4, <3>5
  <2> QED
    BY <2>2, <2>3, AtomMidway DEF Midway, Between
<1>7. ASSUME NEW t \in Threads, SetLocation(t) PROVE AtomInv'
  <2> DEFINE x == On(t)
             results == {[s EXCEPT !.loc = x] : s \in FromRows \union {memory}}
  <2>1. /\ At(t, "set_location") /\ Step(t) /\ Promise(results, db.lockers)
        /\ memory' = [memory EXCEPT !.loc = x] /\ db' = db /\ json' = json
    BY <1>7 DEF SetLocation, disk
  <2>2. /\ Ahead(t)' = "location_row" /\ ~Idle(t) /\ On(t)' = x
        /\ \A u \in Threads \ {t} : Ahead(u)' = Ahead(u)
    BY <2>1, Moves, AtAhead
  <2> HIDE DEF x
  <2>3. memory' \in results
    BY <2>1
  <2>4. [loc |-> x, cabs |-> db.cabs] \in results
    <3>1. CASE db.locs = {}
      <4>1. Blank \in FromRows /\ db.cabs = NoCabinets
        BY <3>1, RowsRead DEF FromRows
      <4>2. [Blank EXCEPT !.loc = x] = [loc |-> x, cabs |-> db.cabs]
        BY <4>1 DEF Blank
      <4> QED
        BY <4>1, <4>2
    <3>2. CASE db.locs # {}
      <4>1. PICK l \in db.locs : TRUE
        BY <3>2
      <4>2. [loc |-> l, cabs |-> db.cabs] \in FromRows
        BY <3>2, <4>1 DEF FromRows
      <4>3. [[loc |-> l, cabs |-> db.cabs] EXCEPT !.loc = x] = [loc |-> x, cabs |-> db.cabs]
        OBVIOUS
      <4> QED
        BY <4>2, <4>3
    <3> QED
      BY <3>1, <3>2
  <2> HIDE DEF results
  <2>5. ASSUME allowed' # {} PROVE FindsAllowed' /\ Writes(t)'
    <3>1. FindsAllowed'
      BY <2>1, <2>5, StoredStays
    <3>2. /\ WithLockers(memory', db.lockers) \in allowed'
          /\ WithLockers([loc |-> x, cabs |-> db.cabs], db.lockers) \in allowed'
      <4>1. \A s \in results : WithLockers(s, db.lockers) \in allowed'
        BY <2>1, <2>5, Promised
      <4> QED
        BY <2>3, <2>4, <4>1
    <3>3. Writes(t)'
      BY <2>1, <2>2, <3>2 DEF Writes, OfSave
    <3> QED
      BY <3>1, <3>3
  <2> QED
    BY <2>1, <2>2, <2>5, AtomPromise
<1>8. ASSUME NEW t \in Threads, LocationRow(t) PROVE AtomInv'
  <2>1. /\ At(t, "location_row") /\ Step(t) /\ json' = json /\ memory' = memory
        /\ allowed' = allowed
        /\ db' = db \/ db' = [db EXCEPT !.locs = @ \union {On(t)}]
    BY <1>8 DEF LocationRow
  <2>2. /\ Ahead(t)' = "build" /\ Ahead(t) = "location_row"
        /\ \A u \in Threads \ {t} : Ahead(u)' = Ahead(u)
    BY <2>1, Moves, AtAhead
  <2>3. ASSUME allowed' # {} PROVE allowed # {} /\ FindsAllowed' /\ Writes(t)'
    <3>1. FindsAllowed /\ Writes(t)
      BY <2>1, <2>3 DEF AtomInv
    <3>2. db'.lockers = db.lockers /\ db'.cabs = db.cabs
      BY <1>0, <2>1
    <3>3. Writes(t)'
      BY <2>1, <2>2, <3>1, <3>2 DEF Writes, OfSave
    <3>4. ASSUME db' = db PROVE FindsAllowed'
      BY <2>1, <3>1, <3>4 DEF FindsAllowed, RowsFound, FromRows, Readable
    <3>5. ASSUME db' = [db EXCEPT !.locs = @ \union {On(t)}] PROVE FindsAllowed'
      <4>1. db'.locs = db.locs \union {On(t)}
        BY <1>0, <3>5
      <4>2. \A l \in db.locs : WithLockers([loc |-> l, cabs |-> db.cabs], db.lockers) \in RowsFound
        BY RowsRead
      <4>3. WithLockers([loc |-> On(t), cabs |-> db.cabs], db.lockers) \in allowed
        BY <2>2, <3>1 DEF Writes
      <4>4. RowsFound' = {WithLockers([loc |-> l, cabs |-> db.cabs], db.lockers) : l \in db'.locs}
        BY <3>2, <4>1 DEF RowsFound, FromRows
      <4>5. RowsFound' \subseteq allowed
        BY <3>1, <4>1, <4>2, <4>3, <4>4 DEF FindsAllowed
      <4> QED
        BY <2>1, <3>1, <3>2, <4>5 DEF FindsAllowed, Readable
    <3> QED
      BY <2>1, <2>3, <3>3, <3>4, <3>5
  <2> QED
    BY <2>2, <2>3, AtomMidway DEF Midway, Between
<1>9. ASSUME NEW t \in Threads, Check(t) PROVE AtomInv'
  <2>1. UNCHANGED <<local, memory, disk, allowed>>
    BY <1>9 DEF Check
  <2> QED
    BY <1>9, <2>1, Checks, AtomAside DEF OfSave, Between
<1>21. ASSUME NEW t \in Threads, CabinetData(t) PROVE AtomInv'
  <2>1. /\ At(t, "cabinet_data") /\ (Step(t) \/ Abort(t))
        /\ UNCHANGED <<memory, disk, allowed>>
        /\ \A u \in Threads \ {t} : local'[u] = local[u]
    BY <1>21 DEF CabinetData, Typed
  <2>2. /\ Ahead(t)' \in {"set_cabinet", "finish"}
        /\ \A u \in Threads \ {t} : todo'[u] = todo[u] /\ Ahead(u)' = Ahead(u)
    BY <2>1, Moves, Breaks DEF OfSetup, OfCabinet
  <2>3. Ahead(t)' \notin Between
    BY <2>2 DEF Between, OfSave
  <2> QED
    BY <2>1, <2>2, <2>3, AtomAside
<1>10. ASSUME NEW t \in Threads, SetCabinet(t) PROVE AtomInv'
  <2> DEFINE x == On(t)
             v == local[t]
             cs == [db.cabs EXCEPT ![x] = v]
             results == {[s EXCEPT !.cabs[x] = v] : s \in FromRows \union {memory}}
  <2>1. /\ At(t, "set_cabinet") /\ Step(t) /\ Promise(results, db.lockers)
        /\ memory' = [memory EXCEPT !.cabs[x] = v] /\ db' = db /\ json' = json /\ local' = local
    BY <1>10 DEF SetCabinet, disk
  <2>2. /\ Ahead(t)' = "cabinet_row" /\ ~Idle(t) /\ On(t)' = x /\ local'[t] = v
        /\ \A u \in Threads \ {t} : Ahead(u)' = Ahead(u)
    BY <2>1, Moves, AtAhead
  <2> HIDE DEF x, v
  <2>3. memory' \in results
    BY <2>1
  <2>4. ASSUME NEW l \in db.locs PROVE [loc |-> l, cabs |-> cs] \in results
    <3>1. [loc |-> l, cabs |-> db.cabs] \in FromRows
      BY DEF FromRows
    <3>2. [[loc |-> l, cabs |-> db.cabs] EXCEPT !.cabs[x] = v] = [loc |-> l, cabs |-> cs]
      OBVIOUS
    <3> QED
      BY <3>1, <3>2
  <2>5. [db'.cabs EXCEPT ![On(t)'] = local'[t]] = cs
    BY <2>1, <2>2
  <2> HIDE DEF results, cs
  <2>6. ASSUME allowed' # {} PROVE FindsAllowed' /\ Writes(t)'
    <3>1. FindsAllowed'
      BY <2>1, <2>6, StoredStays
    <3>2. \A s \in results : WithLockers(s, db.lockers) \in allowed'
      BY <2>1, <2>6, Promised
    <3>3. WithLockers(memory', db'.lockers) \in allowed'
      BY <2>1, <2>3, <3>2
    <3>4. \A l \in db'.locs : WithLockers([loc |-> l, cabs |-> cs], db'.lockers) \in allowed'
      BY <2>1, <2>4, <3>2
    <3>5. Writes(t)'
      BY <2>2, <2>5, <3>3, <3>4 DEF Writes, OfSave
    <3> QED
      BY <3>1, <3>5
  <2> QED
    BY <2>1, <2>2, <2>6, AtomPromise
<1>11. ASSUME NEW t \in Threads, CabinetRow(t) PROVE AtomInv'
  <2>1. /\ At(t, "cabinet_row") /\ Step(t) /\ json' = json /\ memory' = memory
        /\ allowed' = allowed
        /\ db' = db \/ (local[t] \in db.locs /\ db' = [db EXCEPT !.cabs[On(t)] = local[t]])
    BY <1>11 DEF CabinetRow
  <2>2. /\ Ahead(t)' = "build" /\ Ahead(t) = "cabinet_row"
        /\ \A u \in Threads \ {t} : Ahead(u)' = Ahead(u)
    BY <2>1, Moves, AtAhead
  <2>3. ASSUME allowed' # {} PROVE allowed # {} /\ FindsAllowed' /\ Writes(t)'
    <3>1. FindsAllowed /\ Writes(t)
      BY <2>1, <2>3 DEF AtomInv
    <3>2. db'.lockers = db.lockers /\ db'.locs = db.locs
      BY <1>0, <2>1
    <3>3. Writes(t)'
      BY <2>1, <2>2, <3>1, <3>2 DEF Writes, OfSave
    <3>4. ASSUME db' = db PROVE FindsAllowed'
      BY <2>1, <3>1, <3>4 DEF FindsAllowed, RowsFound, FromRows, Readable
    <3>5. ASSUME local[t] \in db.locs /\ db' = [db EXCEPT !.cabs[On(t)] = local[t]] PROVE FindsAllowed'
      <4> DEFINE cs == [db.cabs EXCEPT ![On(t)] = local[t]]
      <4>1. db'.cabs = cs
        BY <1>0, <3>5
      <4>2. \A l \in db.locs : WithLockers([loc |-> l, cabs |-> cs], db.lockers) \in allowed
        BY <2>2, <3>1, <3>5 DEF Writes
      <4> HIDE DEF cs
      <4>3. FromRows' = {[loc |-> l, cabs |-> cs] : l \in db.locs}
        BY <3>2, <3>5, <4>1 DEF FromRows
      <4>4. RowsFound' \subseteq allowed
        BY <3>2, <4>2, <4>3 DEF RowsFound
      <4> QED
        BY <2>1, <3>1, <3>2, <4>4 DEF FindsAllowed, Readable
    <3> QED
      BY <2>1, <2>3, <3>3, <3>4, <3>5
  <2> QED
    BY <2>2, <2>3, AtomMidway DEF Midway, Between
<1>12. ASSUME NEW t \in Threads, LockerRows(t) PROVE AtomInv'
  <2> DEFINE ls == LockersAfter(t)
  <2>1. /\ At(t, "locker_rows") /\ (Step(t) \/ Abort(t)) /\ Promise({}, ls)
        /\ json' = json
        /\ db' = db \/ db' = [db EXCEPT !.lockers = ls]
    BY <1>12 DEF LockerRows
  <2>2. /\ Ahead(t)' \in {"set_lockers", "finish"} /\ ~Idle(t)
        /\ \A u \in Threads \ {t} : Ahead(u)' = Ahead(u)
    BY <2>1, Moves, Breaks, AtAhead DEF OfSetup, OfCabinet
  <2> HIDE DEF ls
  <2>3. db'.locs = db.locs /\ db'.cabs = db.cabs /\ db'.lockers \in {db.lockers, ls}
    BY <1>0, <2>1
  <2>4. FromRows' = FromRows
    BY <2>3 DEF FromRows
  <2>5. ASSUME allowed' # {} PROVE FindsAllowed' /\ Writes(t)'
    <3>1. RowsFound' \subseteq allowed'
      BY <2>1, <2>3, <2>4, <2>5, Promised DEF RowsFound
    <3>2. Readable' => WithLockers(json', db'.lockers) \in allowed'
      BY <2>1, <2>3, <2>5, Promised DEF Readable
    <3>3. Writes(t)'
      BY <2>2 DEF Writes, OfSave
    <3> QED
      BY <3>1, <3>2, <3>3 DEF FindsAllowed
  <2> QED
    BY <2>1, <2>2, <2>5, AtomPromise
<1>13. ASSUME NEW t \in Threads, SetLockers(t) PROVE AtomInv'
  <2>1. UNCHANGED <<local, memory, disk, allowed>> /\ At(t, "set_lockers") /\ Step(t)
    BY <1>13 DEF SetLockers
  <2> QED
    BY <2>1, Moves, AtomAside DEF OfSave, Between
<1>14. ASSUME NEW t \in Threads, Build(t) PROVE AtomInv'
  <2>1. /\ At(t, "build") /\ Step(t) /\ db' = db /\ json' = json /\ allowed' = allowed
        /\ local'[t] = memory
    BY <1>14 DEF Build, disk, Typed
  <2>2. /\ Ahead(t)' = "open" /\ Ahead(t) = "build"
        /\ \A u \in Threads \ {t} : Ahead(u)' = Ahead(u)
    BY <2>1, Moves, AtAhead
  <2>3. ASSUME allowed' # {} PROVE allowed # {} /\ FindsAllowed' /\ Writes(t)'
    <3>1. FindsAllowed /\ Writes(t)
      BY <2>1, <2>3 DEF AtomInv
    <3>2. FindsAllowed'
      BY <2>1, <3>1 DEF FindsAllowed, RowsFound, FromRows, Readable
    <3> QED
      BY <2>1, <2>2, <2>3, <3>1, <3>2 DEF Writes, OfSave
  <2> QED
    BY <2>2, <2>3, AtomMidway DEF Midway, Between, OfSave
<1>15. ASSUME NEW t \in Threads, OpenFile(t) PROVE AtomInv'
  <2>1. At(t, "open") /\ db' = db /\ allowed' = allowed /\ local' = local
    BY <1>15 DEF OpenFile
  <2>2. \/ json' = Empty /\ Step(t)
        \/ json' = json /\ todo' = [todo EXCEPT ![t] = Tail(Tail(@))]
    BY <1>15 DEF OpenFile
  <2>3. /\ Ahead(t) = "open" /\ Ahead(t)' \in {"dump", "check", "locker_rows", "finish"}
        /\ \A u \in Threads \ {t} : Ahead(u)' = Ahead(u)
    BY <2>1, <2>2, Moves, Skips, AtAhead
  <2>4. ASSUME allowed' # {} PROVE allowed # {} /\ FindsAllowed' /\ Writes(t)'
    <3>1. FindsAllowed /\ Writes(t)
      BY <2>1, <2>4 DEF AtomInv
    <3>2. FindsAllowed'
      BY <2>1, <2>2, <3>1 DEF FindsAllowed, RowsFound, FromRows, Readable
    <3> QED
      BY <2>1, <2>3, <2>4, <3>1, <3>2 DEF Writes, OfSave
  <2> QED
    BY <2>3, <2>4, AtomMidway DEF Midway, Between, OfSave
<1>16. ASSUME NEW t \in Threads, Dump(t) PROVE AtomInv'
  <2>1. /\ At(t, "dump") /\ Step(t) /\ db' = db /\ allowed' = allowed
        /\ json' \in {local[t], Torn, json}
    BY <1>16 DEF Dump
  <2>2. /\ Ahead(t)' \in {"check", "locker_rows", "finish"} /\ Ahead(t) = "dump"
        /\ \A u \in Threads \ {t} : Ahead(u)' = Ahead(u)
    BY <2>1, Moves, AtAhead
  <2>3. ASSUME allowed' # {} PROVE allowed # {} /\ FindsAllowed' /\ Writes(t)'
    <3>1. FindsAllowed /\ Writes(t)
      BY <2>1, <2>3 DEF AtomInv
    <3>2. WithLockers(local[t], db.lockers) \in allowed
      BY <2>2, <3>1 DEF Writes
    <3>3. FindsAllowed'
      BY <2>1, <3>1, <3>2 DEF FindsAllowed, RowsFound, FromRows, Readable
    <3> QED
      BY <2>1, <2>2, <2>3, <3>3 DEF Writes, OfSave
  <2> QED
    BY <2>2, <2>3, AtomMidway DEF Midway, Between, OfSave
<1>17. ASSUME Crash \/ StartFromFile \/ StartFromRows PROVE AtomInv'
  <2>1. \A t \in Threads : Idle(t)'
    BY <1>17 DEF Crash, StartFromFile, StartFromRows, Alone, Idle, threads
  <2>2. \A t \in Threads : ~Midway(t)' /\ Writes(t)'
    BY <2>1 DEF Midway, Writes, Ahead, Between, OfSave
  <2>3. UNCHANGED <<db, json, allowed>>
    BY <1>17 DEF Crash, StartFromFile, StartFromRows, disk
  <2>4. FindsAllowed => FindsAllowed'
    BY <2>3 DEF FindsAllowed, RowsFound, FromRows, Readable
  <2> QED
    BY <2>2, <2>3, <2>4 DEF AtomInv
<1>18. ASSUME UNCHANGED vars PROVE AtomInv'
  BY <1>18 DEF vars, threads, disk, AtomInv, FindsAllowed, RowsFound, FromRows, Readable,
     Midway, Writes, Ahead, Idle, On, Between
<1> QED
  BY <1>1, <1>2, <1>3, <1>4, <1>5, <1>6, <1>7, <1>8, <1>9, <1>10, <1>11, <1>12, <1>13,
     <1>14, <1>15, <1>16, <1>17, <1>18, <1>20, <1>21 DEF Next, ThreadStep

LEMMA RowsInvariant == Spec => [](Typed /\ ListInv /\ Alone /\ RowsOK)
<1>1. Init => Alone /\ RowsOK
  BY FS_EmptySet DEF Init, Alone, Idle, RowsOK, NoRows, Listed, NoCabinets
<1> QED
  BY <1>1, Invariant, AloneStep, RowsStep, PTL DEF Spec

LEMMA AtomInvariant == Spec => []AtomInv
<1>1. Init => AtomInv
  BY DEF Init, AtomInv
<1> QED
  BY <1>1, RowsInvariant, AtomStep, PTL DEF Spec

(* Wherever an operation is cut short by a crash, whatever one store       *)
(* refused before, a clear's file included, and however far the stores had *)
(* drifted apart: a start that can read the file or the rows finds what    *)
(* one of them held before the last operation, or the result of that       *)
(* operation (save_location, save_cabinet, save_lockers and clear, with    *)
(* _save_to_json's truncated file), as long as no two threads were at work.*)
THEOREM CrashSafe == Spec => []CrashAtomic
<1> QED
  BY AtomInvariant, AtomicInv, PTL

--------------------------------------------------------------------------------
(* Memory, file and rows while no two threads are at work *)

Calm == status = "up" /\ ~overlapped /\ faults = 0

HasLockers(q, c) == \E i \in 1..Len(q) : q[i] = Do("set_lockers", c)

(* The rows of lockers in q find the row of their cabinet.                 *)
RowsBefore(q, rows) ==
  \A i \in 1..Len(q) : q[i].do = "locker_rows" =>
    q[i].x \in rows \/ \E j \in 1..Len(q) : j < i /\ q[j] = Do("cabinet_row", q[i].x)

(* A listed cabinet is in _lockers when its rows are there, or will be.    *)
LockersAgree(t) ==
  \A c \in Listed(memory.cabs) : (c \in db.lockers <=> c \in mapped) \/ HasLockers(todo[t], c)

Stage(t) ==
  /\ LockersAgree(t) /\ RowsBefore(todo[t], Listed(db.cabs))
  /\ Ahead(t) = "forget_cabinets" => memory.loc = None
  /\ Ahead(t) \in {"unlink", "clear_rows"} => memory = Blank
  /\ Ahead(t) = "clear_rows" => json = None
  /\ Ahead(t) = "location_row" => memory.loc = On(t)
  /\ Ahead(t) \in OfSave \union OfCabinet \union {"check", "finish"} => memory.loc \in db.locs
  /\ Ahead(t) \in {"set_cabinet", "cabinet_row"} => local[t] = memory.loc
  /\ Ahead(t) \in {"open", "dump"} => local[t] = memory
  /\ Ahead(t) = "dump" => t \in writing /\ json = Empty
  /\ Ahead(t) \in {"check", "cabinet_data", "set_cabinet", "locker_rows", "set_lockers", "finish"}
       => json = memory
  /\ Ahead(t) = "set_lockers" => On(t) \in db.lockers

Synced ==
  /\ IF Readable THEN json = memory ELSE memory \in FromRows
  /\ \A c \in Listed(memory.cabs) : c \in db.lockers <=> c \in mapped

AgreeInv ==
  Calm => /\ (\A t \in Threads : Idle(t)) => Synced
          /\ \A t \in Threads : ~Idle(t) => Stage(t)

LEMMA AgreesInv == Typed /\ RowsOK /\ AgreeInv => Agreement
<1> SUFFICES ASSUME Typed, RowsOK, AgreeInv, Quiet, ~overlapped, faults = 0,
                    Cardinality(db.locs) <= 1
             PROVE  Found = {Present}
  BY DEF Agreement
<1>1. Synced
  BY DEF AgreeInv, Calm, Quiet
<1>2. db.lockers \intersect Listed(memory.cabs) = mapped \intersect Listed(memory.cabs)
  BY <1>1 DEF Synced
<1>3. WithLockers(memory, db.lockers) = Present
  BY <1>2 DEF WithLockers, Present
<1>4. CASE Readable
  BY <1>1, <1>3, <1>4 DEF Synced, Found
<1>5. CASE ~Readable
  <2>1. ASSUME NEW a \in db.locs, NEW b \in db.locs PROVE a = b
    <3> SUFFICES ASSUME a # b PROVE FALSE
      OBVIOUS
    <3>1. {a, b} \subseteq db.locs /\ IsFiniteSet(db.locs)
      BY DEF RowsOK
    <3>2. Cardinality({a, b}) <= Cardinality(db.locs)
      BY <3>1, FS_Subset
    <3>3. IsFiniteSet({a}) /\ Cardinality({a}) = 1
      BY FS_Singleton
    <3>4. Cardinality({a} \union {b}) = 2
      BY <3>3, FS_AddElement
    <3>5. {a} \union {b} = {a, b} /\ Cardinality(db.locs) \in Nat
      BY <3>1, FS_CardinalityType
    <3> QED
      BY <3>2, <3>4, <3>5
  <2>2. memory \in FromRows
    BY <1>1, <1>5 DEF Synced
  <2>3. FromRows = {memory}
    BY <2>1, <2>2 DEF FromRows
  <2> QED
    BY <1>3, <1>5, <2>3 DEF Found
<1> QED
  BY <1>4, <1>5

(* What the first step of a list leaves to its tail.                       *)
LEMMA TailLeaves ==
  ASSUME NEW q \in Seq(Steps), q # <<>>
  PROVE  /\ \A c : HasLockers(q, c) => Head(q) = Do("set_lockers", c) \/ HasLockers(Tail(q), c)
         /\ \A rows, more :
              /\ RowsBefore(q, rows) /\ rows \subseteq more
              /\ Head(q).do = "cabinet_row" => Head(q).x \in more
              => RowsBefore(Tail(q), more)
<1> DEFINE n == Len(q)
           r == Tail(q)
<1>1. /\ n \in Nat /\ n > 0 /\ Len(r) = n - 1 /\ Head(q) = q[1]
      /\ \A i \in 1..Len(r) : r[i] = q[i + 1]
  OBVIOUS
<1> HIDE DEF n, r
<1>2. \A i \in 1..n : i = 1 \/ (i - 1 \in 1..Len(r) /\ r[i - 1] = q[i])
  <2> SUFFICES ASSUME NEW i \in 1..n, i # 1 PROVE i - 1 \in 1..Len(r) /\ r[i - 1] = q[i]
    OBVIOUS
  <2>1. i - 1 \in 1..Len(r) /\ (i - 1) + 1 = i
    BY <1>1
  <2> QED
    BY <1>1, <2>1
<1>3. ASSUME NEW c, HasLockers(q, c) PROVE Head(q) = Do("set_lockers", c) \/ HasLockers(r, c)
  BY <1>1, <1>2, <1>3 DEF HasLockers, n
<1>4. ASSUME NEW rows, NEW more, RowsBefore(q, rows), rows \subseteq more,
             Head(q).do = "cabinet_row" => Head(q).x \in more
      PROVE  RowsBefore(r, more)
  <2> SUFFICES ASSUME NEW i \in 1..Len(r), r[i].do = "locker_rows", r[i].x \notin more
               PROVE  \E j \in 1..Len(r) : j < i /\ r[j] = Do("cabinet_row", r[i].x)
    BY DEF RowsBefore
  <2>1. i + 1 \in 1..n /\ q[i + 1] = r[i]
    BY <1>1
  <2>2. PICK j \in 1..n : j < i + 1 /\ q[j] = Do("cabinet_row", r[i].x)
    BY <1>4, <2>1 DEF RowsBefore, n
  <2>3. q[j].do = "cabinet_row" /\ q[j].x = r[i].x
    BY <2>2, TypedSteps
  <2>4. j # 1
    BY <1>1, <1>4, <2>3
  <2>5. j - 1 \in 1..Len(r) /\ r[j - 1] = q[j]
    BY <1>2, <2>4
  <2>6. j - 1 < i
    BY <2>2, <1>1
  <2> QED
    BY <2>2, <2>5, <2>6
<1> QED
  BY <1>3, <1>4 DEF r

LEMMA LockersLater ==
  ASSUME ListInv, NEW t \in Threads, NEW what, At(t, what), Step(t), what # "set_lockers",
         LockersAgree(t), memory'.cabs = memory.cabs, db'.lockers = db.lockers, mapped' = mapped
  PROVE  LockersAgree(t)'
<1>1. /\ todo[t] \in Seq(Steps) /\ todo[t] # <<>> /\ Head(todo[t]).do = what
      /\ todo'[t] = Tail(todo[t])
  BY Moves DEF At, Idle, ListInv, Lists
<1>2. \A c : Head(todo[t]) # Do("set_lockers", c)
  BY <1>1, TypedSteps
<1>3. \A c : HasLockers(todo[t], c) => HasLockers(todo'[t], c)
  BY <1>1, <1>2, TailLeaves
<1>4. \A c : HasLockers(todo[t], c)' <=> HasLockers(todo'[t], c)
  BY DEF HasLockers
<1> QED
  BY <1>3, <1>4 DEF LockersAgree

LEMMA RowsLater ==
  ASSUME ListInv, NEW t \in Threads, NEW what, At(t, what), Step(t),
         RowsBefore(todo[t], Listed(db.cabs)), Listed(db.cabs) \subseteq Listed(db'.cabs),
         what = "cabinet_row" => On(t) \in Listed(db'.cabs)
  PROVE  RowsBefore(todo[t], Listed(db.cabs))'
<1>1. /\ todo[t] \in Seq(Steps) /\ todo[t] # <<>> /\ Head(todo[t]).do = what
      /\ todo'[t] = Tail(todo[t]) /\ On(t) = Head(todo[t]).x
  BY Moves DEF At, Idle, ListInv, Lists, On
<1>2. RowsBefore(Tail(todo[t]), Listed(db'.cabs))
  BY <1>1, TailLeaves
<1> QED
  BY <1>1, <1>2 DEF RowsBefore, Listed

(* After a test, and at the end, no lockers are left to be set.            *)
LEMMA NoneLeft ==
  ASSUME NEW q, Work(q), q # <<>>, Head(q).do \in {"check", "finish"}
  PROVE  \A c : ~HasLockers(q, c)
<1>0. \A c : ~HasLockers(<<>>, c)
  BY DEF HasLockers
<1>1. ASSUME NEW r, Work(r), r # <<>>, Head(r).do = "finish"
      PROVE  \A c : ~HasLockers(r, c)
  <2>1. r \in Seq(Steps) /\ (Tail(r) # <<>> => Follows(Head(r), Head(Tail(r))))
    BY <1>1, TailWork DEF Work, Linked
  <2>2. Tail(r) = <<>>
    BY <1>1, <2>1 DEF Follows
  <2>3. \A c : Head(r) # Do("set_lockers", c)
    BY <1>1, TypedSteps
  <2> QED
    BY <1>0, <1>1, <2>1, <2>2, <2>3, TailLeaves
<1>2. CASE Head(q).do = "check"
  <2>1. /\ Work(Tail(q)) /\ q \in Seq(Steps) /\ Tail(q) # <<>>
        /\ Follows(Head(q), Head(Tail(q)))
    BY <1>2, TailWork DEF Work, Linked
  <2>2. Head(Tail(q)).do = "finish"
    BY <1>2, <2>1 DEF Follows
  <2>3. \A c : ~HasLockers(Tail(q), c)
    BY <1>1, <2>1, <2>2
  <2>4. \A c : Head(q) # Do("set_lockers", c)
    BY <1>2, TypedSteps
  <2> QED
    BY <2>1, <2>3, <2>4, TailLeaves
<1> QED
  BY <1>1, <1>2

(* The others are idle.                                                    *)
LEMMA AgreeOf ==
  ASSUME Alone, NEW t \in Threads, ~Idle(t), overlapped' = overlapped,
         \A u \in Threads \ {t} : todo'[u] = todo[u],
         Calm' => IF Idle(t)' THEN Synced' ELSE Stage(t)'
  PROVE  AgreeInv'
<1> SUFFICES ASSUME Calm' PROVE AgreeInv'
  BY DEF AgreeInv
<1>1. \A u \in Threads \ {t} : Idle(u) /\ Idle(u)'
  BY DEF Calm, Alone, Idle
<1> QED
  BY <1>1 DEF AgreeInv

LEMMA NoError ==
  faults \in Nat /\ [Next]_vars => /\ faults' \in Nat
                                   /\ faults' = 0 => faults = 0 /\ ~Fault
<1> SUFFICES ASSUME faults \in Nat, [Next]_vars
             PROVE  faults' \in Nat /\ (faults' = 0 => faults = 0 /\ ~Fault)
  OBVIOUS
<1>1. Fault => faults' = faults + 1
  BY DEF Fault
<1>2. Fault \/ faults' = faults
  BY DEF Next, ThreadStep, Setup, Clear, Start, Finish, ForgetLocation, ForgetCabinets, Unlink,
         ClearRows, SetLocation, LocationRow, Check, CabinetData, SetCabinet, CabinetRow,
         LockerRows, SetLockers, Build, OpenFile, Dump, Crash, StartFromFile, StartFromRows,
         ReadLockers, vars, counters
<1> QED
  BY <1>1, <1>2

LEMMA AgreeStep ==
  /\ Typed /\ ListInv /\ Alone /\ RowsOK /\ AgreeInv /\ faults \in Nat
  /\ Alone' /\ Typed' /\ [Next]_vars
  => AgreeInv'
<1> SUFFICES ASSUME Typed, ListInv, Alone, RowsOK, AgreeInv, faults \in Nat,
                    Alone', Typed', [Next]_vars, Calm'
             PROVE  AgreeInv'
  BY DEF AgreeInv
<1>0. /\ db \in [locs : SUBSET Locations, cabs : [Cabinets -> Locations \union {None}],
                 lockers : SUBSET Cabinets]
      /\ memory.cabs \in [Cabinets -> Locations \union {None}] /\ memory \in State
      /\ None \notin db.locs
  BY NoneAssumption DEF Typed, State
<1>a. faults = 0 /\ ~Fault
  BY NoError DEF Calm
<1>b. ASSUME NEW t \in Threads, NEW what, At(t, what), ~overlapped
      PROVE  /\ Calm /\ Stage(t) /\ ~Idle(t) /\ Ahead(t) = what
             /\ todo[t] \in Seq(Steps) /\ todo[t] # <<>> /\ Work(todo[t])
             /\ Head(todo[t]) \in Steps /\ Head(todo[t]).do = what /\ Head(todo[t]).x = On(t)
  <2>1. ~Idle(t) /\ Ahead(t) = what /\ status = "up"
    BY <1>b, AtAhead
  <2>2. Work(todo[t]) /\ todo[t] # <<>> /\ todo[t] \in Seq(Steps)
    BY <2>1 DEF ListInv, Lists, Idle
  <2> QED
    BY <1>a, <1>b, <2>1, <2>2, TailWork DEF AgreeInv, Calm, At, On
<1>1. ASSUME NEW t \in Threads, Setup(t) \/ Clear(t) PROVE AgreeInv'
  <2>1. \A u \in Threads : Idle(u)
    BY <1>1 DEF Setup, Clear, Calm
  <2>2. UNCHANGED <<memory, mapped, db, json>> /\ status = "up" /\ ~overlapped
    BY <1>1 DEF Setup, Clear, disk, Calm
  <2>3. Synced
    BY <1>a, <2>1, <2>2 DEF AgreeInv, Calm
  <2>4. /\ \A u \in Threads \ {t} : Idle(u)'
        /\ Ahead(t)' \in {"start", "forget_location"} /\ todo'[t] \in Seq(Steps)
        /\ Kinds(todo'[t]) \intersect OfCabinet = {}
    BY <1>1, <2>1, Begins DEF Idle
  <2>5. ~Idle(t)'
    BY <2>4 DEF Ahead
  <2>6. LockersAgree(t)'
    BY <2>2, <2>3 DEF LockersAgree, Synced, Listed
  <2>7. RowsBefore(todo[t], Listed(db.cabs))'
    BY <2>4 DEF RowsBefore, Kinds, OfCabinet
  <2>8. Stage(t)'
    BY <2>4, <2>6, <2>7 DEF Stage, OfSave, OfCabinet
  <2> QED
    BY <2>4, <2>5, <2>8 DEF AgreeInv
<1>2. ASSUME NEW t \in Threads, Start(t) PROVE AgreeInv'
  <2>1. /\ At(t, "start") /\ Step(t) /\ overlapped' = overlapped
        /\ UNCHANGED <<memory, mapped, db, json>>
    BY <1>2 DEF Start, disk
  <2>2. Stage(t) /\ ~Idle(t)
    BY <1>b, <2>1 DEF Calm
  <2>3. LockersAgree(t)' /\ RowsBefore(todo[t], Listed(db.cabs))'
    BY <2>1, <2>2, LockersLater, RowsLater DEF Stage
  <2>4. /\ Ahead(t)' \in {"forget_location", "set_location"} /\ ~Idle(t)'
        /\ \A u \in Threads \ {t} : todo'[u] = todo[u]
    BY <2>1, Moves
  <2>5. Stage(t)'
    BY <2>3, <2>4 DEF Stage, OfSave, OfCabinet
  <2> QED
    BY <2>1, <2>2, <2>4, <2>5, AgreeOf
<1>3. ASSUME NEW t \in Threads, Finish(t) PROVE AgreeInv'
  <2>1. /\ At(t, "finish") /\ Step(t) /\ overlapped' = overlapped
        /\ UNCHANGED <<memory, mapped, db, json>>
    BY <1>3 DEF Finish, disk
  <2>2. Stage(t) /\ ~Idle(t) /\ Ahead(t) = "finish"
    BY <1>b, <2>1 DEF Calm
  <2>3. /\ Idle(t)' /\ \A u \in Threads \ {t} : todo'[u] = todo[u]
    BY <2>1, Moves
  <2>4. \A c : ~HasLockers(todo[t], c)
    BY <1>b, <2>1, NoneLeft DEF Calm
  <2>5. json = memory
    BY <2>2 DEF Stage
  <2>6. json \notin {None, Empty, Torn}
    BY <1>0, <2>5, FileAssumption
  <2>7. Synced'
    BY <2>1, <2>2, <2>4, <2>5, <2>6 DEF Synced, Readable, Stage, LockersAgree, Listed
  <2> QED
    BY <2>1, <2>2, <2>3, <2>7, AgreeOf
<1>4. ASSUME NEW t \in Threads, ForgetLocation(t) PROVE AgreeInv'
  <2>1. /\ At(t, "forget_location") /\ Step(t) /\ overlapped' = overlapped
        /\ memory' = [memory EXCEPT !.loc = None] /\ UNCHANGED <<mapped, db>>
    BY <1>4 DEF ForgetLocation, disk
  <2>2. Stage(t) /\ ~Idle(t) /\ memory'.cabs = memory.cabs /\ memory'.loc = None
    BY <1>b, <1>0, <2>1 DEF Calm, State
  <2>3. /\ Ahead(t)' = "forget_cabinets" /\ ~Idle(t)'
        /\ \A u \in Threads \ {t} : todo'[u] = todo[u]
    BY <2>1, Moves
  <2>4. LockersAgree(t)' /\ RowsBefore(todo[t], Listed(db.cabs))'
    BY <2>1, <2>2, LockersLater, RowsLater DEF Stage
  <2>5. Stage(t)'
    BY <2>2, <2>3, <2>4 DEF Stage, OfSave, OfCabinet
  <2> QED
    BY <2>1, <2>2, <2>3, <2>5, AgreeOf
<1>20. ASSUME NEW t \in Threads, ForgetCabinets(t) PROVE AgreeInv'
  <2>1. /\ At(t, "forget_cabinets") /\ Step(t) /\ overlapped' = overlapped
        /\ memory' = [memory EXCEPT !.cabs = NoCabinets] /\ db' = db
    BY <1>20 DEF ForgetCabinets, DropCabinets, disk
  <2>2. Stage(t) /\ ~Idle(t) /\ memory.loc = None
    BY <1>b, <2>1 DEF Calm, Stage
  <2>3. memory' = Blank
    BY <1>0, <2>1, <2>2 DEF Blank, State
  <2>4. /\ Ahead(t)' = "unlink" /\ ~Idle(t)' /\ \A u \in Threads \ {t} : todo'[u] = todo[u]
    BY <2>1, Moves
  <2>5. RowsBefore(todo[t], Listed(db.cabs))'
    BY <2>1, <2>2, RowsLater DEF Stage
  <2>6. LockersAgree(t)'
    BY <2>3 DEF LockersAgree, Blank, Listed, NoCabinets
  <2>7. Stage(t)'
    BY <2>3, <2>4, <2>5, <2>6 DEF Stage, OfSave, OfCabinet
  <2> QED
    BY <2>1, <2>2, <2>4, <2>7, AgreeOf
<1>5. ASSUME NEW t \in Threads, Unlink(t) PROVE AgreeInv'
  <2>1. /\ At(t, "unlink") /\ Step(t) /\ overlapped' = overlapped
        /\ json' = None /\ UNCHANGED <<memory, mapped, db>>
    BY <1>5, <1>a DEF Unlink
  <2>2. Stage(t) /\ ~Idle(t) /\ memory = Blank
    BY <1>b, <2>1 DEF Calm, Stage
  <2>3. /\ Ahead(t)' = "clear_rows" /\ ~Idle(t)' /\ \A u \in Threads \ {t} : todo'[u] = todo[u]
    BY <2>1, Moves
  <2>4. LockersAgree(t)' /\ RowsBefore(todo[t], Listed(db.cabs))'
    BY <2>1, <2>2, LockersLater, RowsLater DEF Stage
  <2>5. Stage(t)'
    BY <2>1, <2>2, <2>3, <2>4 DEF Stage, OfSave, OfCabinet
  <2> QED
    BY <2>1, <2>2, <2>3, <2>5, AgreeOf
<1>6. ASSUME NEW t \in Threads, ClearRows(t) PROVE AgreeInv'
  <2>1. /\ At(t, "clear_rows") /\ Step(t) /\ overlapped' = overlapped
        /\ db' = NoRows /\ UNCHANGED <<memory, mapped, json>>
    BY <1>6, <1>a DEF ClearRows
  <2>2. /\ Stage(t) /\ ~Idle(t) /\ memory = Blank /\ json = None
    BY <1>b, <2>1 DEF Calm, Stage
  <2>3. /\ Ahead(t)' \in {"nothing", "set_location"} /\ (Idle(t)' <=> Ahead(t)' = "nothing")
        /\ todo'[t] = Tail(todo[t]) /\ \A u \in Threads \ {t} : todo'[u] = todo[u]
    BY <2>1, Moves
  <2>4. Listed(memory'.cabs) = {}
    BY <2>1, <2>2 DEF Blank, Listed, NoCabinets
  <2>5. RowsBefore(todo'[t], {})
    <3>1. Work(todo[t]) /\ todo[t] # <<>> /\ todo[t] \in Seq(Steps) /\ Head(todo[t]).do = "clear_rows"
      BY <1>b, <2>1 DEF Calm
    <3> DEFINE q == todo[t]
               r == Tail(q)
    <3>2. /\ CabinetFirst(q) /\ 1 \in 1..Len(q) /\ Head(q) = q[1] /\ Len(r) \in Nat
          /\ \A i \in 1..Len(r) : i + 1 \in 1..Len(q) /\ r[i] = q[i + 1]
      BY <3>1, TailWork DEF Work
    <3>3. \A i \in 1..Len(r) : 1 < i + 1
      BY <3>2
    <3>4. \A i \in 1..Len(r) : r[i].do = "locker_rows" => q[1].do \in OfCabinet \union OfSave
      BY <3>2, <3>3 DEF CabinetFirst, OfCabinet
    <3>5. \A i \in 1..Len(r) : r[i].do # "locker_rows"
      BY <3>1, <3>2, <3>4 DEF OfCabinet, OfSave
    <3> QED
      BY <2>3, <3>5 DEF RowsBefore
  <2>6. RowsBefore(todo[t], Listed(db.cabs))'
    BY <2>5 DEF RowsBefore
  <2>7. CASE Idle(t)'
    <3>1. Synced'
      BY <2>1, <2>2, <2>4 DEF Synced, Readable, FromRows, NoRows
    <3> QED
      BY <2>1, <2>2, <2>3, <2>7, <3>1, AgreeOf
  <2>8. CASE ~Idle(t)'
    <3>1. Stage(t)'
      BY <2>3, <2>4, <2>6, <2>8 DEF Stage, OfSave, OfCabinet, LockersAgree
    <3> QED
      BY <2>1, <2>2, <2>3, <2>8, <3>1, AgreeOf
  <2> QED
    BY <2>7, <2>8
<1>7. ASSUME NEW t \in Threads, SetLocation(t) PROVE AgreeInv'
  <2>1. /\ At(t, "set_location") /\ Step(t) /\ overlapped' = overlapped
        /\ memory' = [memory EXCEPT !.loc = On(t)] /\ UNCHANGED <<mapped, db>>
    BY <1>7 DEF SetLocation, disk
  <2>2. Stage(t) /\ ~Idle(t) /\ memory'.cabs = memory.cabs /\ memory'.loc = On(t)
    BY <1>b, <1>0, <2>1 DEF Calm, State
  <2>3. /\ Ahead(t)' = "location_row" /\ ~Idle(t)' /\ On(t)' = On(t)
        /\ \A u \in Threads \ {t} : todo'[u] = todo[u]
    BY <2>1, Moves
  <2>4. LockersAgree(t)' /\ RowsBefore(todo[t], Listed(db.cabs))'
    BY <2>1, <2>2, LockersLater, RowsLater DEF Stage
  <2>5. Stage(t)'
    BY <2>2, <2>3, <2>4 DEF Stage, OfSave, OfCabinet
  <2> QED
    BY <2>1, <2>2, <2>3, <2>5, AgreeOf
<1>8. ASSUME NEW t \in Threads, LocationRow(t) PROVE AgreeInv'
  <2>1. /\ At(t, "location_row") /\ Step(t) /\ overlapped' = overlapped
        /\ db' = [db EXCEPT !.locs = @ \union {On(t)}] /\ UNCHANGED <<memory, mapped, json>>
    BY <1>8, <1>a DEF LocationRow
  <2>2. /\ Stage(t) /\ ~Idle(t) /\ memory.loc = On(t)
        /\ db'.locs = db.locs \union {On(t)} /\ db'.cabs = db.cabs /\ db'.lockers = db.lockers
    BY <1>b, <1>0, <2>1 DEF Calm, Stage
  <2>3. /\ Ahead(t)' = "build" /\ ~Idle(t)' /\ \A u \in Threads \ {t} : todo'[u] = todo[u]
    BY <2>1, Moves
  <2>4. LockersAgree(t)' /\ RowsBefore(todo[t], Listed(db.cabs))'
    BY <2>1, <2>2, LockersLater, RowsLater DEF Stage
  <2>5. Stage(t)'
    BY <2>1, <2>2, <2>3, <2>4 DEF Stage, OfSave, OfCabinet
  <2> QED
    BY <2>1, <2>2, <2>3, <2>5, AgreeOf
<1>9. ASSUME NEW t \in Threads, Check(t) PROVE AgreeInv'
  <2>1. /\ At(t, "check") /\ overlapped' = overlapped /\ UNCHANGED <<memory, mapped, db, json>>
    BY <1>9 DEF Check, disk
  <2>2. Stage(t) /\ ~Idle(t) /\ Ahead(t) = "check"
    BY <1>b, <2>1 DEF Calm
  <2>3. memory.loc \in db.locs /\ json = memory
    BY <2>2 DEF Stage
  <2>4. /\ Ahead(t)' \in {"cabinet_data", "locker_rows", "check", "finish"}
        /\ \A u \in Threads \ {t} : todo'[u] = todo[u]
    BY <1>9, Checks
  <2>5. PICK q : todo' = [todo EXCEPT ![t] = q] /\ RowFirst(q)
    BY <1>9, <1>0, <2>3, CheckList
  <2>6. todo'[t] = q
    BY <2>5 DEF ListInv, Lists
  <2>7. RowsBefore(todo[t], Listed(db.cabs))'
    BY <2>5, <2>6 DEF RowsBefore, RowFirst
  <2>8. \A c : ~HasLockers(todo[t], c)
    BY <1>b, <2>1, NoneLeft DEF Calm
  <2>9. LockersAgree(t)'
    BY <2>1, <2>2, <2>8 DEF LockersAgree, Stage, Listed
  <2>10. Stage(t)' /\ ~Idle(t)'
    BY <2>1, <2>3, <2>4, <2>7, <2>9 DEF Stage, Ahead, OfSave, OfCabinet
  <2> QED
    BY <2>1, <2>2, <2>4, <2>10, AgreeOf
<1>21. ASSUME NEW t \in Threads, CabinetData(t) PROVE AgreeInv'
  <2>1. /\ At(t, "cabinet_data") /\ overlapped' = overlapped
        /\ UNCHANGED <<memory, mapped, db, json>>
    BY <1>21 DEF CabinetData, disk
  <2>2. Stage(t) /\ ~Idle(t) /\ Ahead(t) = "cabinet_data"
    BY <1>b, <2>1 DEF Calm
  <2>3. memory.loc \in db.locs /\ json = memory
    BY <2>2 DEF Stage, OfCabinet
  <2>4. Step(t) /\ local' = [local EXCEPT ![t] = memory.loc]
    BY <1>21, <1>0, <2>3 DEF CabinetData
  <2>5. local'[t] = memory.loc
    BY <2>4 DEF Typed
  <2>6. /\ Ahead(t)' = "set_cabinet" /\ ~Idle(t)' /\ \A u \in Threads \ {t} : todo'[u] = todo[u]
    BY <2>1, <2>4, Moves
  <2>7. LockersAgree(t)' /\ RowsBefore(todo[t], Listed(db.cabs))'
    BY <2>1, <2>2, <2>4, LockersLater, RowsLater DEF Stage
  <2>8. Stage(t)'
    BY <2>1, <2>3, <2>5, <2>6, <2>7 DEF Stage, OfSave, OfCabinet
  <2> QED
    BY <2>1, <2>2, <2>6, <2>8, AgreeOf
<1>10. ASSUME NEW t \in Threads, SetCabinet(t) PROVE AgreeInv'
  <2>1. /\ At(t, "set_cabinet") /\ overlapped' = overlapped /\ UNCHANGED <<local, mapped, db, json>>
    BY <1>10 DEF SetCabinet, disk
  <2>2. Stage(t) /\ ~Idle(t) /\ Ahead(t) = "set_cabinet"
    BY <1>b, <2>1 DEF Calm
  <2>3. memory.loc \in db.locs /\ local[t] = memory.loc
    BY <2>2 DEF Stage, OfCabinet
  <2>4. Step(t) /\ memory' = [memory EXCEPT !.cabs[On(t)] = memory.loc]
    BY <1>10, <1>0, <2>3 DEF SetCabinet
  <2>5. On(t) \in Cabinets
    BY <1>b, <2>1 DEF Calm, Steps, OfLocation, OfCabinet, OfSave, OfClear, Plain
  <2>6. /\ memory'.loc = memory.loc /\ local'[t] = memory.loc
        /\ memory'.cabs = [memory.cabs EXCEPT ![On(t)] = memory.loc]
    BY <1>0, <2>1, <2>3, <2>4 DEF State, Typed
  <2>7. /\ Ahead(t)' = "cabinet_row" /\ ~Idle(t)' /\ todo'[t] = Tail(todo[t])
        /\ \A u \in Threads \ {t} : todo'[u] = todo[u]
    BY <2>1, <2>4, Moves
  <2>8. RowsBefore(todo[t], Listed(db.cabs))'
    BY <2>1, <2>2, <2>4, RowsLater DEF Stage
  <2>9. LockersAgree(t)'
    <3> DEFINE q == todo[t]
    <3>1. /\ q \in Seq(Steps) /\ q # <<>> /\ Work(q) /\ Head(q).do = "set_cabinet"
          /\ Head(q).x = On(t)
      BY <1>b, <2>1 DEF Calm
    <3>2. HasLockers(q, On(t))
      <4>1. LockersFollow(q) /\ 1 \in 1..Len(q) /\ q[1] = Head(q)
        BY <3>1 DEF Work
      <4> QED
        BY <3>1, <4>1 DEF LockersFollow, HasLockers
    <3>3. \A c : Head(q) # Do("set_lockers", c)
      BY <3>1, TypedSteps
    <3>4. \A c : HasLockers(q, c) => HasLockers(Tail(q), c)
      BY <3>1, <3>3, TailLeaves
    <3>5. \A c : HasLockers(todo[t], c)' <=> HasLockers(todo'[t], c)
      BY DEF HasLockers
    <3>6. \A c \in Listed(memory'.cabs) : c = On(t) \/ c \in Listed(memory.cabs)
      BY <1>0, <2>6 DEF Listed
    <3> QED
      BY <2>1, <2>2, <2>7, <3>2, <3>4, <3>5, <3>6 DEF LockersAgree, Stage, Listed
  <2>10. Stage(t)'
    BY <2>1, <2>3, <2>6, <2>7, <2>8, <2>9 DEF Stage, OfSave, OfCabinet
  <2> QED
    BY <2>1, <2>2, <2>7, <2>10, AgreeOf
<1>11. ASSUME NEW t \in Threads, CabinetRow(t) PROVE AgreeInv'
  <2>1. /\ At(t, "cabinet_row") /\ Step(t) /\ overlapped' = overlapped
        /\ UNCHANGED <<memory, mapped, json>>
    BY <1>11 DEF CabinetRow
  <2>2. Stage(t) /\ ~Idle(t) /\ Ahead(t) = "cabinet_row"
    BY <1>b, <2>1 DEF Calm
  <2>3. memory.loc \in db.locs /\ local[t] = memory.loc
    BY <2>2 DEF Stage, OfCabinet
  <2>4. db' = [db EXCEPT !.cabs[On(t)] = memory.loc]
    BY <1>11, <1>a, <2>3 DEF CabinetRow
  <2>5. On(t) \in Cabinets
    BY <1>b, <2>1 DEF Calm, Steps, OfLocation, OfCabinet, OfSave, OfClear, Plain
  <2>6. /\ db'.locs = db.locs /\ db'.lockers = db.lockers
        /\ db'.cabs = [db.cabs EXCEPT ![On(t)] = memory.loc]
    BY <1>0, <2>4
  <2>7. /\ Ahead(t)' = "build" /\ ~Idle(t)' /\ \A u \in Threads \ {t} : todo'[u] = todo[u]
    BY <2>1, Moves
  <2>8. Listed(db'.cabs) = Listed(db.cabs) \union {On(t)}
    BY <1>0, <2>3, <2>5, <2>6 DEF Listed
  <2>9. LockersAgree(t)' /\ RowsBefore(todo[t], Listed(db.cabs))'
    BY <2>1, <2>2, <2>6, <2>8, LockersLater, RowsLater DEF Stage
  <2>10. Stage(t)'
    BY <2>1, <2>3, <2>6, <2>7, <2>9 DEF Stage, OfSave, OfCabinet
  <2> QED
    BY <2>1, <2>2, <2>7, <2>10, AgreeOf
<1>12. ASSUME NEW t \in Threads, LockerRows(t) PROVE AgreeInv'
  <2>1. /\ At(t, "locker_rows") /\ Step(t) /\ overlapped' = overlapped
        /\ UNCHANGED <<memory, mapped, json>>
        /\ db' = [db EXCEPT !.lockers = LockersAfter(t)]
    BY <1>12, <1>a DEF LockerRows
  <2>2. Stage(t) /\ ~Idle(t) /\ Ahead(t) = "locker_rows"
    BY <1>b, <2>1 DEF Calm
  <2>3. memory.loc \in db.locs /\ json = memory
    BY <2>2 DEF Stage, OfCabinet
  <2> DEFINE q == todo[t]
  <2>4. /\ q \in Seq(Steps) /\ q # <<>> /\ Work(q) /\ Head(q).do = "locker_rows"
        /\ Head(q).x = On(t)
    BY <1>b, <2>1 DEF Calm
  <2>5. On(t) \in Listed(db.cabs)
    <3>1. RowsBefore(q, Listed(db.cabs)) /\ 1 \in 1..Len(q) /\ q[1] = Head(q)
      BY <2>2, <2>4 DEF Stage
    <3>2. \A j \in 1..Len(q) : ~(j < 1)
      OBVIOUS
    <3> QED
      BY <2>4, <3>1, <3>2 DEF RowsBefore
  <2>6. db'.locs = db.locs /\ db'.cabs = db.cabs /\ db'.lockers = db.lockers \union {On(t)}
    BY <1>0, <2>1, <2>5 DEF LockersAfter
  <2>7. /\ Ahead(t)' = "set_lockers" /\ ~Idle(t)' /\ On(t)' = On(t) /\ todo'[t] = Tail(q)
        /\ \A u \in Threads \ {t} : todo'[u] = todo[u]
    BY <2>1, Moves
  <2>8. RowsBefore(todo[t], Listed(db.cabs))'
    BY <2>1, <2>2, <2>6, RowsLater DEF Stage
  <2>9. LockersAgree(t)'
    <3>1. HasLockers(Tail(q), On(t))
      <4>1. Tail(q) # <<>>
        BY <2>7 DEF Idle
      <4>2. /\ Follows(Head(q), Head(Tail(q))) /\ Tail(q) \in Seq(Steps)
        BY <2>4, <4>1, TailWork
      <4>3. Head(Tail(q)) = Do("set_lockers", On(t))
        BY <2>4, <4>2 DEF Follows
      <4> HIDE DEF q
      <4>4. 1 \in 1..Len(Tail(q)) /\ Tail(q)[1] = Head(Tail(q))
        BY <4>1, <4>2
      <4> QED
        BY <4>3, <4>4 DEF HasLockers
    <3>2. \A c : Head(q) # Do("set_lockers", c)
      BY <2>4, TypedSteps
    <3>3. \A c : HasLockers(q, c) => HasLockers(Tail(q), c)
      BY <2>4, <3>2, TailLeaves
    <3>4. \A c : HasLockers(todo[t], c)' <=> HasLockers(todo'[t], c)
      BY DEF HasLockers
    <3> QED
      BY <2>1, <2>2, <2>6, <2>7, <3>1, <3>3, <3>4 DEF LockersAgree, Stage, Listed
  <2>10. Stage(t)'
    BY <2>1, <2>3, <2>6, <2>7, <2>8, <2>9 DEF Stage, OfSave, OfCabinet
  <2> QED
    BY <2>1, <2>2, <2>7, <2>10, AgreeOf
<1>13. ASSUME NEW t \in Threads, SetLockers(t) PROVE AgreeInv'
  <2>1. /\ At(t, "set_lockers") /\ Step(t) /\ overlapped' = overlapped
        /\ UNCHANGED <<memory, db, json>> /\ mapped' = mapped \union {On(t)}
    BY <1>13 DEF SetLockers, disk
  <2>2. Stage(t) /\ ~Idle(t) /\ Ahead(t) = "set_lockers"
    BY <1>b, <2>1 DEF Calm
  <2>3. memory.loc \in db.locs /\ json = memory /\ On(t) \in db.lockers
    BY <2>2 DEF Stage, OfCabinet
  <2>4. /\ Ahead(t)' \in {"check", "finish"} /\ ~Idle(t)' /\ todo'[t] = Tail(todo[t])
        /\ \A u \in Threads \ {t} : todo'[u] = todo[u]
    BY <2>1, Moves
  <2>5. RowsBefore(todo[t], Listed(db.cabs))'
    BY <2>1, <2>2, RowsLater DEF Stage
  <2>6. LockersAgree(t)'
    <3> DEFINE q == todo[t]
    <3>1. q \in Seq(Steps) /\ q # <<>> /\ Head(q).x = On(t)
      BY <1>b, <2>1 DEF Calm
    <3>2. \A c : Head(q) = Do("set_lockers", c) => c = On(t)
      BY <3>1, TypedSteps
    <3>3. \A c : HasLockers(q, c) => c = On(t) \/ HasLockers(Tail(q), c)
      BY <3>1, <3>2, TailLeaves
    <3>4. \A c : HasLockers(todo[t], c)' <=> HasLockers(todo'[t], c)
      BY DEF HasLockers
    <3> QED
      BY <2>1, <2>2, <2>3, <2>4, <3>3, <3>4 DEF LockersAgree, Stage, Listed
  <2>7. Stage(t)'
    BY <2>1, <2>3, <2>4, <2>5, <2>6 DEF Stage, OfSave, OfCabinet
  <2> QED
    BY <2>1, <2>2, <2>4, <2>7, AgreeOf
<1>14. ASSUME NEW t \in Threads, Build(t) PROVE AgreeInv'
  <2>1. /\ At(t, "build") /\ Step(t) /\ overlapped' = overlapped
        /\ UNCHANGED <<memory, mapped, db, json>> /\ local'[t] = memory
    BY <1>14 DEF Build, disk, Typed
  <2>2. Stage(t) /\ ~Idle(t) /\ memory.loc \in db.locs
    BY <1>b, <2>1 DEF Calm, Stage, OfSave
  <2>3. /\ Ahead(t)' = "open" /\ ~Idle(t)' /\ \A u \in Threads \ {t} : todo'[u] = todo[u]
    BY <2>1, Moves
  <2>4. LockersAgree(t)' /\ RowsBefore(todo[t], Listed(db.cabs))'
    BY <2>1, <2>2, LockersLater, RowsLater DEF Stage
  <2>5. Stage(t)'
    BY <2>1, <2>2, <2>3, <2>4 DEF Stage, OfSave, OfCabinet
  <2> QED
    BY <2>1, <2>2, <2>3, <2>5, AgreeOf
<1>15. ASSUME NEW t \in Threads, OpenFile(t) PROVE AgreeInv'
  <2>1. /\ At(t, "open") /\ Step(t) /\ overlapped' = overlapped
        /\ UNCHANGED <<memory, mapped, db, local>> /\ json' = Empty /\ t \in writing'
    BY <1>15, <1>a DEF OpenFile
  <2>2. Stage(t) /\ ~Idle(t) /\ Ahead(t) = "open"
    BY <1>b, <2>1 DEF Calm
  <2>3. memory.loc \in db.locs /\ local[t] = memory
    BY <2>2 DEF Stage, OfSave
  <2>4. /\ Ahead(t)' = "dump" /\ ~Idle(t)' /\ \A u \in Threads \ {t} : todo'[u] = todo[u]
    BY <2>1, Moves
  <2>5. LockersAgree(t)' /\ RowsBefore(todo[t], Listed(db.cabs))'
    BY <2>1, <2>2, LockersLater, RowsLater DEF Stage
  <2>6. Stage(t)'
    BY <2>1, <2>3, <2>4, <2>5 DEF Stage, OfSave, OfCabinet
  <2> QED
    BY <2>1, <2>2, <2>4, <2>6, AgreeOf
<1>16. ASSUME NEW t \in Threads, Dump(t) PROVE AgreeInv'
  <2>1. /\ At(t, "dump") /\ Step(t) /\ overlapped' = overlapped
        /\ UNCHANGED <<memory, mapped, db>>
    BY <1>16 DEF Dump
  <2>2. Stage(t) /\ ~Idle(t) /\ Ahead(t) = "dump"
    BY <1>b, <2>1 DEF Calm
  <2>3. memory.loc \in db.locs /\ local[t] = memory /\ t \in writing /\ json = Empty
    BY <2>2 DEF Stage, OfSave
  <2>4. json' = memory
    BY <1>16, <1>a, <2>3 DEF Dump
  <2>5. /\ Ahead(t)' \in {"check", "locker_rows", "finish"} /\ ~Idle(t)'
        /\ \A u \in Threads \ {t} : todo'[u] = todo[u]
    BY <2>1, Moves
  <2>6. LockersAgree(t)' /\ RowsBefore(todo[t], Listed(db.cabs))'
    BY <2>1, <2>2, LockersLater, RowsLater DEF Stage
  <2>7. Stage(t)'
    BY <2>1, <2>3, <2>4, <2>5, <2>6 DEF Stage, OfSave, OfCabinet
  <2> QED
    BY <2>1, <2>2, <2>5, <2>7, AgreeOf
<1>17. ASSUME Crash PROVE AgreeInv'
  BY <1>17 DEF Crash, Calm
<1>18. ASSUME StartFromFile \/ StartFromRows PROVE AgreeInv'
  <2>1. \A t \in Threads : Idle(t)'
    BY <1>18 DEF StartFromFile, StartFromRows, Alone, Idle, threads
  <2>2. json' = json /\ db' = db
    BY <1>18 DEF StartFromFile, StartFromRows, disk
  <2>3. PICK v : /\ memory' = v /\ ReadLockers(v)
                 /\ IF Readable THEN v = json ELSE v \in FromRows
    <3>1. CASE StartFromFile
      BY <3>1 DEF StartFromFile
    <3>2. CASE StartFromRows
      BY <1>a, <3>2 DEF StartFromRows
    <3> QED
      BY <1>18, <3>1, <3>2
  <2>4. mapped' = db.lockers \intersect Listed(memory'.cabs)
    BY <1>a, <2>3, LockersWith DEF ReadLockers
  <2>5. Synced'
    BY <2>2, <2>3, <2>4 DEF Synced, Readable, FromRows, Listed
  <2> QED
    BY <2>1, <2>5 DEF AgreeInv
<1>19. ASSUME UNCHANGED vars PROVE AgreeInv'
  <2>1. UNCHANGED <<status, todo, local, writing, memory, mapped, json, db, faults, overlapped>>
    BY <1>19 DEF vars, threads, disk, counters
  <2> QED
    BY <2>1 DEF AgreeInv, Calm, Synced, Stage, Idle, Readable, FromRows, Listed, LockersAgree,
        HasLockers, RowsBefore, Ahead, On
<1> QED
  BY <1>1, <1>2, <1>3, <1>4, <1>5, <1>6, <1>7, <1>8, <1>9, <1>10, <1>11, <1>12, <1>13,
     <1>14, <1>15, <1>16, <1>17, <1>18, <1>19, <1>20, <1>21 DEF Next, ThreadStep

(* With one location, no two threads at work at once and no swallowed      *)
(* error, whatever setups, clears and crashes came before: what load()     *)
(* would return is what memory holds, once no thread is at work.           *)
THEOREM StoresAgree == Spec => []Agreement
<1>1. Init => AgreeInv /\ faults \in Nat
  <2> SUFFICES ASSUME Init PROVE AgreeInv /\ faults \in Nat
    OBVIOUS
  <2>1. Synced
    BY DEF Init, Synced, Readable, FromRows, NoRows, Blank, Listed, NoCabinets
  <2> QED
    BY <2>1 DEF Init, AgreeInv, Idle
<1>2. faults \in Nat /\ [Next]_vars => (faults \in Nat)'
  BY NoError
<1>3. Spec => [](AgreeInv /\ faults \in Nat)
  BY <1>1, <1>2, RowsInvariant, AgreeStep, PTL DEF Spec
<1> QED
  BY <1>3, RowsInvariant, AgreesInv, PTL
================================================================================
