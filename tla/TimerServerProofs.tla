------------------------- MODULE TimerServerProofs --------------------------
(***************************************************************************)
(* Proofs about TimerServer, for every set of clients and timers, every    *)
(* frequency, width of the compare register and bound of the counter, and  *)
(* both devices; and about Mutex, which its threads share, for every       *)
(* finite set of threads.                                                  *)
(*                                                                         *)
(* That the head of the queue is armed rests on the queue being sorted     *)
(* (what insert() and drain_filter() keep) and, on the rpi4, on what the   *)
(* read of the counter after the write of the compare register finds.      *)
(*                                                                         *)
(* MutualExclusion is not inductive.  The strengthening MutexInv says that *)
(* the right to run is one baton: it is in the counter (value = 1), with   *)
(* the holder, with an unlocker about to signal, or in the notification.   *)
(***************************************************************************)
EXTENDS TimerServer, Mutex, WellFoundedInduction, TLAPS

(* The length of two sequences together.                                   *)
LEMMA ConcatLength ==
    ASSUME NEW S, NEW a \in Seq(S), NEW b \in Seq(S)
    PROVE  a \o b \in Seq(S) /\ Len(a \o b) = Len(a) + Len(b)
OBVIOUS

(* Induction over the natural numbers, for sets.                           *)
LEMMA NatSet ==
    ASSUME NEW S, 0 \in S, \A n \in Nat : n \in S => n + 1 \in S
    PROVE  Nat \subseteq S
<1> DEFINE Less == OpToRel(<, Nat)
           T == Nat \ S
<1>1. \A x, y \in Nat : y < x => <<y, x>> \in Less
  BY DEF OpToRel
<1>2. IsWellFoundedOn(Less, Nat)
  BY NatLessThanWellFounded, Zenon
<1> HIDE DEF Less
<1> SUFFICES ASSUME T # {} PROVE FALSE
  OBVIOUS
<1>3. PICK x \in T : \A y \in T : ~(<<y, x>> \in Less)
  BY <1>2, WFMin, Zenon
<1>4. x # 0 /\ x - 1 \in Nat /\ x - 1 < x
  BY <1>3
<1>5. x - 1 \notin T
  BY <1>1, <1>3, <1>4, Zenon
<1> QED
  BY <1>3, <1>4, <1>5

----------------------------------------------------------------------------
(* The recursion of remove_timer() defines a function.                     *)
Body(f, k, q, c, tid) ==
    IF k = 0 THEN <<>>
    ELSE IF q[k].client = c /\ q[k].timer = tid THEN f[k - 1]
    ELSE Append(f[k - 1], q[k])

Drains(f, n, q, c, tid) == f = [k \in 0..n |-> Body(f, k, q, c, tid)]

(* There is such a function, by induction on the length of the queue.      *)
LEMMA DrainedExists ==
    ASSUME NEW q, NEW c, NEW tid, NEW m \in Nat
    PROVE  \E f : Drains(f, m, q, c, tid)
<1> DEFINE S == {n \in Nat : \E f : Drains(f, n, q, c, tid)}
<1>0. \A f, g, k : f[k - 1] = g[k - 1] => Body(f, k, q, c, tid) = Body(g, k, q, c, tid)
  BY Zenon DEF Body
<1>1. 0 \in S
  <2> DEFINE g == [k \in 0..0 |-> <<>>]
  <2>1. Drains(g, 0, q, c, tid)
    BY DEF Drains, Body
  <2> QED
    BY <2>1
<1>2. ASSUME NEW n \in Nat, n \in S PROVE n + 1 \in S
  <2>1. PICK f : Drains(f, n, q, c, tid)
    BY <1>2
  <2> DEFINE g == [k \in 0..n + 1 |-> Body(f, k, q, c, tid)]
  <2>2. \A k \in 0..n : g[k] = f[k]
    BY <2>1 DEF Drains
  <2>3. \A k \in 0..n + 1 : Body(f, k, q, c, tid) = Body(g, k, q, c, tid)
    <3> TAKE k \in 0..n + 1
    <3>1. CASE k = 0
      BY <3>1 DEF Body
    <3>2. CASE k # 0
      <4>1. k - 1 \in 0..n
        BY <3>2
      <4> QED
        BY <4>1, <2>2, <1>0
    <3> QED
      BY <3>1, <3>2
  <2>4. Drains(g, n + 1, q, c, tid)
    BY <2>3 DEF Drains
  <2> HIDE DEF g
  <2> QED
    BY <2>4
<1>3. m \in S
  <2> HIDE DEF S
  <2> QED
    BY <1>1, <1>2, NatSet
<1> QED
  BY <1>3

(* What drain_filter() leaves of a queue: some of its timers, in order, and *)
(* none of the client and identifier.                                       *)
Kept(r, q, n, c, tid) ==
    /\ r \in Seq(Timer)
    /\ \E f \in [1..Len(r) -> 1..n] :
         /\ \A j, k \in 1..Len(r) : j < k => f[j] < f[k]
         /\ \A j \in 1..Len(r) :
              r[j] = q[f[j]] /\ ~(r[j].client = c /\ r[j].timer = tid)

(* remove_timer() leaves what Kept says.                                   *)
LEMMA RemoveTimer ==
    ASSUME NEW q \in Seq(Timer), NEW c, NEW tid
    PROVE  Kept(remove_timer(q, c, tid), q, Len(q), c, tid)
<1> DEFINE K == CHOOSE f : Drains(f, Len(q), q, c, tid)
<1>1. remove_timer(q, c, tid) = K[Len(q)]
  BY DEF remove_timer, Drains, Body
<1>2. K = [k \in 0..Len(q) |-> Body(K, k, q, c, tid)]
  <2>1. \E f : Drains(f, Len(q), q, c, tid)
    <3>1. Len(q) \in Nat
      OBVIOUS
    <3> QED
      BY <3>1, DrainedExists, Zenon
  <2>2. Drains(K, Len(q), q, c, tid)
    BY <2>1
  <2> QED
    BY <2>2 DEF Drains
<1> HIDE DEF K
<1>3. K[0] = <<>> /\ \A k \in 1..Len(q) : K[k] = Body(K, k, q, c, tid)
  <2>1. \A k \in 0..Len(q) : K[k] = Body(K, k, q, c, tid)
    BY <1>2
  <2>2. K[0] = <<>>
    BY <2>1 DEF Body
  <2> QED
    BY <2>1, <2>2
<1> DEFINE S == {n \in Nat : n <= Len(q) => Kept(K[n], q, n, c, tid)}
<1>4. 0 \in S
  <2> DEFINE f == [j \in 1..Len(K[0]) |-> 1]
  <2>1. K[0] \in Seq(Timer) /\ Len(K[0]) = 0 /\ \A j \in 1..Len(K[0]) : FALSE
    BY <1>3
  <2>2. f \in [1..Len(K[0]) -> 1..0]
    BY <2>1
  <2> HIDE DEF f
  <2> QED
    BY <2>1, <2>2 DEF Kept
<1>5. ASSUME NEW n \in Nat, n \in S PROVE n + 1 \in S
  <2> SUFFICES ASSUME n + 1 <= Len(q) PROVE Kept(K[n + 1], q, n + 1, c, tid)
    OBVIOUS
  <2>0. n + 1 \in 1..Len(q) /\ q[n + 1] \in Timer
    OBVIOUS
  <2>1. Kept(K[n], q, n, c, tid)
    BY <1>5
  <2>2. PICK f \in [1..Len(K[n]) -> 1..n] :
            /\ \A j, k \in 1..Len(K[n]) : j < k => f[j] < f[k]
            /\ \A j \in 1..Len(K[n]) :
                 K[n][j] = q[f[j]] /\ ~(K[n][j].client = c /\ K[n][j].timer = tid)
    BY <2>1 DEF Kept
  <2>3. CASE q[n + 1].client = c /\ q[n + 1].timer = tid
    <3>1. K[n + 1] = K[n]
      BY <1>3, <2>0, <2>3 DEF Body
    <3>2. f \in [1..Len(K[n]) -> 1..n + 1]
      OBVIOUS
    <3> QED
      <4>1. \E h \in [1..Len(K[n]) -> 1..n + 1] : h = f
        BY <3>2
      <4>2. Kept(K[n], q, n + 1, c, tid)
        BY <2>1, <2>2, <4>1 DEF Kept
      <4> QED
        BY <4>2, <3>1
  <2>4. CASE ~(q[n + 1].client = c /\ q[n + 1].timer = tid)
    <3>1. K[n + 1] = Append(K[n], q[n + 1])
      <4>1. K[n + 1] = Body(K, n + 1, q, c, tid) /\ n + 1 # 0 /\ n + 1 - 1 = n
        BY <1>3, <2>0
      <4> QED
        BY <4>1, <2>4 DEF Body
    <3> DEFINE L == Len(K[n])
               g == [j \in 1..L + 1 |-> IF j = L + 1 THEN n + 1 ELSE f[j]]
    <3>2. /\ K[n + 1] \in Seq(Timer) /\ Len(K[n + 1]) = L + 1 /\ L \in Nat
          /\ K[n + 1][L + 1] = q[n + 1] /\ \A j \in 1..L : K[n + 1][j] = K[n][j]
      BY <2>0, <2>1, <3>1 DEF Kept
    <3>3. g \in [1..L + 1 -> 1..n + 1]
      BY <3>2
    <3>4. \A j, k \in 1..L + 1 : j < k => g[j] < g[k]
      <4> SUFFICES ASSUME NEW j \in 1..L + 1, NEW k \in 1..L + 1, j < k PROVE g[j] < g[k]
        BY Zenon
      <4>1. j \in 1..L /\ g[j] = f[j] /\ f[j] \in 1..n
        <5>1. j \in 1..L /\ j # L + 1
          BY <3>2
        <5>2. f[j] \in 1..n
          BY <5>1
        <5> QED
          BY <5>1, <5>2
      <4>2. CASE k = L + 1
        BY <4>1, <4>2
      <4>3. CASE k # L + 1
        <5>1. k \in 1..L /\ g[k] = f[k]
          BY <3>2, <4>3
        <5> QED
          BY <2>2, <4>1, <5>1
      <4> QED
        BY <4>2, <4>3
    <3>5. \A j \in 1..L + 1 :
              K[n + 1][j] = q[g[j]] /\ ~(K[n + 1][j].client = c /\ K[n + 1][j].timer = tid)
      <4> TAKE j \in 1..L + 1
      <4>1. CASE j = L + 1
        <5>1. g[j] = n + 1
          BY <4>1
        <5> QED
          BY <5>1, <4>1, <2>4, <3>2
      <4>2. CASE j # L + 1
        <5>1. j \in 1..L /\ g[j] = f[j]
          BY <3>2, <4>2
        <5> QED
          BY <5>1, <2>2, <3>2, Zenon
      <4> QED
        BY <4>1, <4>2
    <3> HIDE DEF g
    <3> QED
      BY <3>2, <3>3, <3>4, <3>5, Zenon DEF Kept
  <2> QED
    BY <2>3, <2>4
<1>6. Len(q) \in S
  <2> HIDE DEF S
  <2> QED
    BY <1>4, <1>5, NatSet
<1> QED
  BY <1>1, <1>6

----------------------------------------------------------------------------
(* The order of the queue, and one timer for a client and an identifier.   *)
Ordered(q) ==
    \A j, k \in DOMAIN q : j < k =>
        /\ q[j].compare <= q[k].compare
        /\ <<q[j].client, q[j].timer>> # <<q[k].client, q[k].timer>>

NoTimer(q, c, tid) == \A j \in DOMAIN q : ~(q[j].client = c /\ q[j].timer = tid)

(* A queue whose timers are timers of another one, in order, is ordered.    *)
LEMMA RemoveOrdered ==
    ASSUME NEW q \in Seq(Timer), Ordered(q), NEW c, NEW tid, NEW r, r = remove_timer(q, c, tid)
    PROVE  /\ r \in Seq(Timer) /\ Ordered(r) /\ NoTimer(r, c, tid)
           /\ r # <<>> => q # <<>> /\ Head(q).compare <= Head(r).compare
<1>1. r \in Seq(Timer) /\ DOMAIN r = 1..Len(r) /\ DOMAIN q = 1..Len(q) /\ Len(q) \in Nat
  BY RemoveTimer DEF Kept
<1>2. PICK f \in [1..Len(r) -> 1..Len(q)] :
          /\ \A j, k \in 1..Len(r) : j < k => f[j] < f[k]
          /\ \A j \in 1..Len(r) : r[j] = q[f[j]] /\ ~(r[j].client = c /\ r[j].timer = tid)
  <2>1. Kept(r, q, Len(q), c, tid)
    BY RemoveTimer
  <2> QED
    BY <2>1 DEF Kept
<1>3. Ordered(r)
  <2> SUFFICES ASSUME NEW j \in 1..Len(r), NEW k \in 1..Len(r), j < k
               PROVE  /\ r[j].compare <= r[k].compare
                      /\ <<r[j].client, r[j].timer>> # <<r[k].client, r[k].timer>>
    BY <1>1 DEF Ordered
  <2>1. f[j] \in DOMAIN q /\ f[k] \in DOMAIN q /\ f[j] < f[k] /\ r[j] = q[f[j]] /\ r[k] = q[f[k]]
    BY <1>1, <1>2
  <2> QED
    BY <2>1 DEF Ordered
<1>4. NoTimer(r, c, tid)
  BY <1>1, <1>2 DEF NoTimer
<1>5. ASSUME r # <<>> PROVE q # <<>> /\ Head(q).compare <= Head(r).compare
  <2>1. 1 \in 1..Len(r) /\ Head(r) = r[1]
    BY <1>1, <1>5
  <2>2. f[1] \in 1..Len(q) /\ r[1] = q[f[1]]
    BY <1>2, <2>1
  <2>3. q # <<>> /\ Head(q) = q[1] /\ 1 \in DOMAIN q /\ q[1].compare \in Nat
    <3>1. q # <<>> /\ Head(q) = q[1] /\ 1 \in DOMAIN q /\ q[1] \in Timer
      BY <1>1, <2>2
    <3> QED
      BY <3>1 DEF Timer
  <2>4. f[1] = 1 \/ 1 < f[1]
    BY <2>2
  <2> QED
    BY <1>1, <2>1, <2>2, <2>3, <2>4 DEF Ordered
<1> QED
  BY <1>1, <1>3, <1>4, <1>5

(* Timers::insert(): the new timer is between those before and after it,   *)
(* and the queue stays in order.                                            *)
LEMMA InsertOrdered ==
    ASSUME NEW q \in Seq(Timer), Ordered(q), NEW t \in Timer, NoTimer(q, t.client, t.timer),
           NEW r \in insert(q, t)
    PROVE  /\ r \in Seq(Timer) /\ Ordered(r)
           /\ \E p \in DOMAIN r : r[p] = t
           /\ \A j \in DOMAIN r : r[j] = t \/ \E k \in DOMAIN q : r[j] = q[k]
<1>1. PICK p \in 1..Len(q) + 1 :
          /\ r = InsertedAt(q, p, t)
          /\ \A j \in 1..p - 1 : q[j].compare <= t.compare
          /\ \A j \in p..Len(q) : t.compare <= q[j].compare
  <2> DEFINE equal == {k \in DOMAIN q : q[k].compare = t.compare}
             place == {k \in 1..Len(q) + 1 :
                          /\ \A j \in 1..k - 1 : q[j].compare < t.compare
                          /\ \A j \in k..Len(q) : q[j].compare > t.compare}
  <2>0. t.compare \in Nat /\ Len(q) \in Nat /\ DOMAIN q = 1..Len(q) /\ \A j \in DOMAIN q : q[j].compare \in Nat
    <3>1. Len(q) \in Nat /\ DOMAIN q = 1..Len(q) /\ \A j \in DOMAIN q : q[j] \in Timer
      OBVIOUS
    <3>2. \A s \in Timer : s.compare \in Nat
      BY DEF Timer
    <3> QED
      BY <3>1, <3>2
  <2>1. CASE equal # {}
    <3>1. PICK k \in equal : r = InsertedAt(q, k, t)
      BY <2>1 DEF insert
    <3>2. \A j \in 1..k - 1 : q[j].compare <= t.compare
      BY <2>0, <3>1 DEF Ordered
    <3>3. \A j \in k..Len(q) : t.compare <= q[j].compare
      BY <2>0, <3>1 DEF Ordered
    <3>4. k \in 1..Len(q) + 1
      BY <2>0
    <3> QED
      BY <3>1, <3>2, <3>3, <3>4
  <2>2. CASE equal = {}
    <3>1. PICK k \in place : r = InsertedAt(q, k, t)
      BY <2>2 DEF insert
    <3>2. \A j \in 1..k - 1 : q[j].compare <= t.compare
      BY <2>0, <3>1
    <3>3. \A j \in k..Len(q) : t.compare <= q[j].compare
      BY <2>0, <3>1
    <3> QED
      BY <3>1, <3>2, <3>3
  <2> QED
    BY <2>1, <2>2
<1>2. /\ r \in Seq(Timer) /\ Len(r) = Len(q) + 1 /\ DOMAIN r = 1..Len(q) + 1
      /\ r[p] = t
      /\ \A j \in 1..p - 1 : r[j] = q[j]
      /\ \A j \in p + 1..Len(q) + 1 : r[j] = q[j - 1]
  <2> DEFINE a == SubSeq(q, 1, p - 1)
             b == SubSeq(q, p, Len(q))
  <2>1. /\ a \in Seq(Timer) /\ Len(a) = p - 1 /\ \A j \in 1..p - 1 : a[j] = q[j]
    OBVIOUS
  <2>2. /\ b \in Seq(Timer) /\ Len(b) = Len(q) - p + 1
        /\ \A j \in 1..Len(q) - p + 1 : b[j] = q[p + j - 1]
    OBVIOUS
  <2>3. r = (a \o <<t>>) \o b
    BY <1>1 DEF InsertedAt
  <2>4. p \in Int /\ Len(q) \in Nat /\ 1 <= p /\ p <= Len(q) + 1
    OBVIOUS
  <2> HIDE DEF a, b
  <2>5. r \in Seq(Timer) /\ Len(r) = Len(q) + 1
    <3>1. <<t>> \in Seq(Timer) /\ Len(<<t>>) = 1
      OBVIOUS
    <3>2. a \o <<t>> \in Seq(Timer) /\ Len(a \o <<t>>) = p
      BY <2>1, <2>4, <3>1
    <3>3. r \in Seq(Timer) /\ Len(r) = p + Len(b)
      BY <2>2, <2>3, <3>2, ConcatLength, Zenon
    <3> QED
      BY <2>2, <2>4, <3>3
  <2>6. r[p] = t /\ \A j \in 1..p - 1 : r[j] = q[j]
    BY <2>1, <2>2, <2>3, <2>4
  <2>7. ASSUME NEW j \in p + 1..Len(q) + 1 PROVE r[j] = q[j - 1]
    <3>1. r[j] = b[j - p] /\ j - p \in 1..Len(q) - p + 1
      BY <2>1, <2>2, <2>3, <2>4
    <3>2. b[j - p] = q[p + (j - p) - 1] /\ p + (j - p) - 1 = j - 1
      BY <3>1, <2>2, <2>4
    <3> QED
      BY <3>1, <3>2
  <2> QED
    BY <2>5, <2>6, <2>7
<1>3. DOMAIN q = 1..Len(q) /\ Len(q) \in Nat /\ t.compare \in Nat
  BY DEF Timer
<1>4. Ordered(r)
  <2> SUFFICES ASSUME NEW j \in 1..Len(q) + 1, NEW k \in 1..Len(q) + 1, j < k
               PROVE  /\ r[j].compare <= r[k].compare
                      /\ <<r[j].client, r[j].timer>> # <<r[k].client, r[k].timer>>
    BY <1>2 DEF Ordered
  <2>1. CASE k < p
    BY <1>2, <1>3, <2>1 DEF Ordered
  <2>2. CASE k = p
    BY <1>1, <1>2, <1>3, <2>2 DEF NoTimer
  <2>3. CASE p < k
    <3>1. r[k] = q[k - 1] /\ k - 1 \in DOMAIN q
      BY <1>2, <1>3, <2>3
    <3>2. CASE j < p
      <4>1. r[j] = q[j] /\ j \in DOMAIN q /\ j < k - 1
        BY <1>2, <1>3, <2>3, <3>2
      <4> QED
        BY <3>1, <4>1 DEF Ordered
    <3>3. CASE j = p
      BY <1>1, <1>2, <1>3, <3>1, <3>3 DEF NoTimer
    <3>4. CASE p < j
      <4>1. r[j] = q[j - 1] /\ j - 1 \in DOMAIN q /\ j - 1 < k - 1
        <5>1. j \in p + 1..Len(q) + 1 /\ j - 1 \in 1..Len(q)
          BY <1>3, <3>4
        <5> QED
          BY <1>2, <1>3, <5>1
      <4> QED
        BY <3>1, <4>1 DEF Ordered
    <3> QED
      BY <3>2, <3>3, <3>4
  <2> QED
    BY <2>1, <2>2, <2>3
<1>5. \A j \in DOMAIN r : r[j] = t \/ \E k \in DOMAIN q : r[j] = q[k]
  <2> TAKE j \in DOMAIN r
  <2>1. CASE j < p
    BY <1>2, <1>3, <2>1
  <2>2. CASE j = p
    BY <1>2, <2>2
  <2>3. CASE p < j
    <3>1. r[j] = q[j - 1] /\ j - 1 \in DOMAIN q
      BY <1>2, <1>3, <2>3
    <3> QED
      BY <3>1
  <2> QED
    BY <1>2, <2>1, <2>2, <2>3
<1> QED
  BY <1>2, <1>4, <1>5, Zenon

----------------------------------------------------------------------------
(* The device is armed for the head of the queue: that of virt for no later *)
(* a moment, that of rpi4 for a moment that is to come, unless it has come. *)
Armed ==
    IF plat = "virt" THEN enable /\ compare <= Head(outstanding).compare
    ELSE \/ latch \/ irq
         \/ \E n \in count + 1..Head(outstanding).compare : n % Width = compare

(* The rpi4's set_compare() has written the register and not yet looked at  *)
(* the counter: the moment of the head is latched if it is now.             *)
Set ==
    /\ plat = "rpi4" /\ outstanding # <<>>
    /\ compare = Head(outstanding).compare % Width
    /\ Head(outstanding).compare = count => latch

(* The interrupt is masked from when the kernel takes it to its ack().      *)
Masks ==
    /\ handling => masked /\ ~irq /\ pc # "idle"
    /\ masked => irq \/ handling

IInv ==
    /\ TypeOK /\ plat \in {"virt", "rpi4"}
    /\ Ordered(outstanding)
    /\ pc = "idle" /\ outstanding # <<>> => Armed
    /\ pc = "set_compare" => Set
    /\ Masks

(* Between two events the invariant says that the head is armed.           *)
LEMMA InvImplies == IInv => HeadIsArmed
<1> SUFFICES ASSUME IInv PROVE HeadIsArmed
  OBVIOUS
<1>1. ASSUME pc = "idle", outstanding # <<>>
      PROVE  \/ irq
             \/ ~masked /\ (Line \/ \E n \in count + 1..Head(outstanding).compare : WillMatch(n))
  <2>1. Armed /\ (masked => irq)
    BY <1>1 DEF IInv, Masks
  <2>2. CASE plat = "virt"
    <3>1. Head(outstanding) \in Timer
      BY <1>1 DEF IInv, TypeOK
    <3>2. Head(outstanding).compare \in Nat /\ count \in Nat /\ compare \in Nat
      BY <3>1 DEF IInv, TypeOK, Timer
    <3>3. CASE count >= compare
      BY <2>1, <2>2, <3>3 DEF Armed, Line
    <3>4. CASE count < compare
      <4>1. Head(outstanding).compare \in count + 1..Head(outstanding).compare
        BY <2>1, <2>2, <3>2, <3>4 DEF Armed
      <4>2. WillMatch(Head(outstanding).compare)
        BY <2>1, <2>2, <3>2 DEF Armed, WillMatch
      <4> QED
        BY <2>1, <4>1, <4>2
    <3> QED
      BY <3>2, <3>3, <3>4
  <2>3. CASE plat = "rpi4"
    BY <2>1, <2>3 DEF Armed, Line, WillMatch
  <2> QED
    BY <2>2, <2>3 DEF IInv
<1> QED
  BY <1>1 DEF IInv, HeadIsArmed, Ordered

(* At the start no timer is outstanding.                                   *)
LEMMA InitIInv == Init => IInv
<1> SUFFICES ASSUME Init PROVE IInv
  OBVIOUS
<1>1. TypeOK
  <2>1. count \in 0..MaxCount /\ now \in 0..count /\ compare \in Nat
    BY TimerAssumption DEF Init
  <2>2. outstanding \in Seq(Timer) /\ notified \subseteq Client
    BY DEF Init
  <2>3. {enable, latch, masked, irq, handling} \subseteq BOOLEAN
    BY Zenon DEF Init
  <2> QED
    BY <2>1, <2>2, <2>3 DEF Init, TypeOK
<1> QED
  BY <1>1, TimerAssumption DEF Init, IInv, Ordered, Masks

(* The counter advances: what has come is latched.                         *)
LEMMA TickIInv ==
    ASSUME IInv, UNCHANGED plat, Tick
    PROVE  IInv'
<1>1. TypeOK'
  BY TimerAssumption DEF IInv, TypeOK, Tick, kernel, Matches
<1>2. Ordered(outstanding)' /\ plat' \in {"virt", "rpi4"}
  BY DEF IInv, Tick
<1>3. ASSUME outstanding # <<>>
      PROVE  Head(outstanding).compare \in Nat
  <2>1. Head(outstanding) \in Timer
    BY <1>3 DEF IInv, TypeOK
  <2> QED
    BY <2>1 DEF Timer
<1>4. ASSUME pc' = "idle", outstanding' # <<>> PROVE Armed'
  <2>1. Armed /\ count \in Nat /\ Head(outstanding).compare \in Nat
    BY <1>3, <1>4 DEF IInv, Tick, TypeOK
  <2>2. CASE plat = "virt"
    BY <2>1, <2>2 DEF Armed, Tick
  <2>3. CASE plat = "rpi4"
    <3>1. CASE latch \/ irq
      BY <2>3, <3>1, Zenon DEF Armed, Tick, kernel, Matches
    <3>2. CASE ~(latch \/ irq)
      <4>1. PICK n \in count + 1..Head(outstanding).compare : n % Width = compare
        BY <2>1, <2>3, <3>2 DEF Armed
      <4>2. CASE n = count + 1
        <5>1. latch'
          BY <2>3, <4>1, <4>2, Zenon DEF Tick, Matches
        <5> QED
          BY <2>3, <5>1 DEF Armed
      <4>3. CASE n # count + 1
        <5>1. n \in count' + 1..Head(outstanding').compare /\ n % Width = compare'
          BY <2>1, <4>1, <4>3 DEF Tick
        <5> QED
          BY <2>3, <5>1 DEF Armed
      <4> QED
        BY <4>2, <4>3
    <3> QED
      BY <3>1, <3>2
  <2> QED
    BY <2>2, <2>3 DEF IInv
<1>5. ASSUME pc' = "set_compare" PROVE Set'
  <2>1. Set
    BY <1>5 DEF IInv, Tick
  <2> QED
    BY <2>1, Zenon DEF Set, Tick, Matches
<1>6. Masks'
  BY DEF IInv, Tick, kernel, Masks
<1> QED
  BY <1>1, <1>2, <1>4, <1>5, <1>6 DEF IInv

(* Steps that leave the queue, the counter and the device alone.            *)
LEMMA QuietIInv ==
    ASSUME IInv, UNCHANGED plat,
           TakeInterrupt \/ \E c \in Client : ClientRecv(c)
    PROVE  IInv'
<1>1. TypeOK'
  <2>1. CASE TakeInterrupt
    BY <2>1 DEF IInv, TypeOK, TakeInterrupt, device, kernel
  <2>2. ASSUME NEW c \in Client, ClientRecv(c) PROVE TypeOK'
    BY <2>2 DEF IInv, TypeOK, ClientRecv, device, kernel
  <2> QED
    BY <2>1, <2>2
<1>2. UNCHANGED <<plat, count, outstanding, compare, enable, latch, pc>> /\ (irq => irq')
  BY DEF TakeInterrupt, ClientRecv, device, kernel
<1>3. Masks'
  BY DEF IInv, TypeOK, Masks, TakeInterrupt, ClientRecv, kernel
<1> QED
  BY <1>1, <1>2, <1>3 DEF IInv, Armed, Set

(* The requests: the queue stays in order, and update() is to come.         *)
LEMMA SetTimerIInv ==
    ASSUME IInv, UNCHANGED plat, NEW c \in Client, NEW tid \in TimerId,
           NEW when \in Nat, NEW period \in Nat, SetTimer(c, tid, when, period)
    PROVE  IInv'
<1> DEFINE t == [client |-> c, timer |-> tid, compare |-> when, period |-> period]
           q == remove_timer(outstanding, c, tid)
<1>1. t \in Timer /\ t.client = c /\ t.timer = tid
  BY DEF Timer
<1>2. q \in Seq(Timer) /\ Ordered(q) /\ NoTimer(q, c, tid)
  BY RemoveOrdered DEF IInv, TypeOK
<1>3. outstanding' \in insert(q, t)
  BY DEF SetTimer
<1> HIDE DEF t, q
<1>4. outstanding' \in Seq(Timer) /\ Ordered(outstanding')
  BY <1>1, <1>2, <1>3, InsertOrdered
<1>5. /\ now' = count /\ pc' = "update_timers"
      /\ UNCHANGED <<count, compare, enable, latch, masked, irq, notified, handling>>
  BY Zenon DEF SetTimer, device, kernel
<1>6. TypeOK'
  <2>1. TypeOK
    BY Zenon DEF IInv
  <2>2. now' \in 0..count'
    BY <1>5, <2>1 DEF TypeOK
  <2> QED
    BY <1>4, <1>5, <2>1, <2>2, Zenon DEF TypeOK
<1> QED
  BY <1>4, <1>5, <1>6 DEF IInv, Masks

(* The conversion of nanoseconds has a result.                             *)
LEMMA TicksAreNatural ==
    ASSUME NEW ns \in Ns
    PROVE  ns_to_tick(ns) \in Nat
<1>1. ns \in Nat /\ Freq \in Nat /\ NsPerS \in Nat \ {0}
  BY TimerAssumption
<1>2. ns * Freq \in Nat
  BY <1>1
<1> QED
  BY <1>1, <1>2 DEF ns_to_tick

(* stop(): the head of the queue can only be later.                        *)
LEMMA StopIInv ==
    ASSUME IInv, UNCHANGED plat, NEW c \in Client, NEW tid \in TimerId, stop(c, tid)
    PROVE  IInv'
<1> DEFINE q == remove_timer(outstanding, c, tid)
<1>1. /\ q \in Seq(Timer) /\ Ordered(q)
      /\ q # <<>> => outstanding # <<>> /\ Head(outstanding).compare <= Head(q).compare
  BY RemoveOrdered, Zenon DEF IInv, TypeOK
<1>2. outstanding' = q
  BY DEF stop
<1> HIDE DEF q
<1>3. TypeOK'
  BY <1>1, <1>2 DEF IInv, TypeOK, stop, device, kernel
<1>4. ASSUME q # <<>> PROVE Armed'
  <2>1. Armed /\ outstanding # <<>> /\ Head(outstanding).compare <= Head(q).compare
    BY <1>1, <1>4 DEF IInv, stop
  <2>2. Head(outstanding) \in Timer /\ Head(q) \in Timer
    BY <1>1, <1>4, <2>1 DEF IInv, TypeOK
  <2>3. Head(outstanding).compare \in Nat /\ Head(q).compare \in Nat
    BY <2>2 DEF Timer
  <2>4. count \in Nat /\ compare \in Nat
    BY DEF IInv, TypeOK
  <2>5. UNCHANGED <<plat, count, compare, enable, latch, irq>>
    BY DEF stop, device, kernel
  <2>6. CASE plat = "virt"
    BY <1>2, <2>1, <2>3, <2>4, <2>5, <2>6 DEF Armed
  <2>7. CASE plat = "rpi4"
    BY <1>2, <2>1, <2>3, <2>4, <2>5, <2>7 DEF Armed
  <2> QED
    BY <2>6, <2>7 DEF IInv
<1> QED
  BY <1>1, <1>2, <1>3, <1>4 DEF IInv, stop, kernel, Masks

(* The four requests of a client.                                          *)
LEMMA RequestIInv ==
    ASSUME IInv, UNCHANGED plat, NEW c \in Client, NEW tid \in TimerId, Request(c, tid)
    PROVE  IInv'
<1>1. count \in Nat
  BY DEF IInv, TypeOK
<1>2. ASSUME NEW ns \in Ns, oneshot_relative(c, tid, ns) PROVE IInv'
  BY <1>1, <1>2, TicksAreNatural, SetTimerIInv DEF oneshot_relative
<1>3. ASSUME NEW ns \in Ns, oneshot_absolute(c, tid, ns) PROVE IInv'
  BY <1>3, TicksAreNatural, SetTimerIInv DEF oneshot_absolute
<1>4. ASSUME NEW ns \in Ns, periodic(c, tid, ns) PROVE IInv'
  BY <1>1, <1>4, TicksAreNatural, SetTimerIInv DEF periodic
<1> QED
  BY <1>2, <1>3, <1>4, StopIInv DEF Request

(* handle_interrupt() reads the counter and acknowledges the device.       *)
LEMMA HandleInterruptIInv ==
    ASSUME IInv, UNCHANGED plat, handle_interrupt
    PROVE  IInv'
<1>1. TypeOK'
  <2>1. now' \in 0..count' /\ count' \in 0..MaxCount
    BY DEF IInv, TypeOK, handle_interrupt
  <2>2. {enable, latch, masked, irq, handling}' \subseteq BOOLEAN /\ (irq => masked)'
    BY Zenon DEF IInv, TypeOK, handle_interrupt
  <2> QED
    BY <2>1, <2>2 DEF IInv, TypeOK, handle_interrupt
<1>2. Masks'
  BY DEF IInv, TypeOK, Masks, handle_interrupt
<1> QED
  BY <1>1, <1>2 DEF IInv, handle_interrupt

(* One iteration of update_timers(): the head goes, and comes back later if *)
(* it is periodic.                                                          *)
LEMMA ExpireStep ==
    ASSUME IInv, Expire
    PROVE  /\ outstanding # <<>> /\ Head(outstanding) \in Timer
           /\ outstanding' \in Seq(Timer) /\ Ordered(outstanding')
           /\ Head(outstanding) \notin Range(outstanding')
           /\ Head(outstanding).period > 0 =>
                [Head(outstanding) EXCEPT !.compare = @ + Head(outstanding).period] \in Range(outstanding')
<1> DEFINE t == Head(outstanding)
           s == [t EXCEPT !.compare = @ + t.period]
           q == Tail(outstanding)
<1>1. outstanding \in Seq(Timer) /\ outstanding # <<>> /\ Ordered(outstanding)
  BY DEF Expire, Due, IInv, TypeOK
<1>2. /\ t \in Timer /\ t = outstanding[1] /\ 1 \in DOMAIN outstanding
      /\ q \in Seq(Timer) /\ DOMAIN q = 1..Len(outstanding) - 1
      /\ \A j \in DOMAIN q : q[j] = outstanding[j + 1] /\ j + 1 \in DOMAIN outstanding
  BY <1>1
<1>3. /\ t.compare \in Nat /\ t.period \in Nat
      /\ s \in Timer /\ s.client = t.client /\ s.timer = t.timer /\ s.compare = t.compare + t.period
  <2>1. t.compare \in Nat /\ t.period \in Nat
    BY <1>2 DEF Timer
  <2>2. t.compare + t.period \in Nat
    BY <2>1
  <2> QED
    BY <1>2, <2>1, <2>2 DEF Timer
<1>4. \/ t.period = 0 /\ outstanding' = q
      \/ t.period > 0 /\ outstanding' \in insert(q, s)
  BY DEF Expire
<1> HIDE DEF t, s, q
<1>5. Ordered(q) /\ NoTimer(q, t.client, t.timer)
  <2>1. ASSUME NEW j \in DOMAIN q, NEW k \in DOMAIN q, j < k
        PROVE  /\ q[j].compare <= q[k].compare
               /\ <<q[j].client, q[j].timer>> # <<q[k].client, q[k].timer>>
    <3>1. j + 1 \in DOMAIN outstanding /\ k + 1 \in DOMAIN outstanding /\ j + 1 < k + 1
      BY <1>2, <2>1
    <3> QED
      BY <1>1, <1>2, <3>1 DEF Ordered
  <2>2. ASSUME NEW j \in DOMAIN q PROVE <<q[j].client, q[j].timer>> # <<t.client, t.timer>>
    <3>1. j + 1 \in DOMAIN outstanding /\ 1 < j + 1
      BY <1>2
    <3> QED
      BY <1>1, <1>2, <3>1 DEF Ordered
  <2> QED
    BY <2>1, <2>2 DEF Ordered, NoTimer
<1>6. \A j \in DOMAIN q : q[j] # t
  BY <1>5 DEF NoTimer
<1>7. CASE t.period = 0 /\ outstanding' = q
  BY <1>1, <1>2, <1>5, <1>6, <1>7 DEF Range, t
<1>8. CASE t.period > 0 /\ outstanding' \in insert(q, s)
  <2>1. /\ outstanding' \in Seq(Timer) /\ Ordered(outstanding')
        /\ \E p \in DOMAIN outstanding' : outstanding'[p] = s
        /\ \A j \in DOMAIN outstanding' :
              outstanding'[j] = s \/ \E k \in DOMAIN q : outstanding'[j] = q[k]
    BY <1>2, <1>3, <1>5, <1>8, InsertOrdered, Zenon
  <2>2. s # t
    BY <1>3, <1>8
  <2>3. t \notin Range(outstanding') /\ s \in Range(outstanding')
    BY <1>6, <2>1, <2>2 DEF Range
  <2> QED
    BY <1>1, <1>2, <2>1, <2>3 DEF t, s
<1> QED
  BY <1>4, <1>7, <1>8

(* The loop of update_timers(), to its end.                                *)
LEMMA UpdateTimersIInv ==
    ASSUME IInv, UNCHANGED plat, Expire \/ NoneDue
    PROVE  IInv'
<1>1. CASE Expire
  <2>1. /\ outstanding' \in Seq(Timer) /\ Ordered(outstanding')
        /\ outstanding # <<>> /\ Head(outstanding).client \in Client
    BY <1>1, ExpireStep DEF Timer
  <2>2. notified' \subseteq Client
    BY <1>1, <2>1 DEF Expire, IInv, TypeOK
  <2>3. TypeOK'
    BY <1>1, <2>1, <2>2 DEF IInv, TypeOK, Expire, device, kernel
  <2> QED
    BY <1>1, <2>1, <2>3 DEF IInv, Expire, kernel, Masks
<1>2. CASE NoneDue
  <2>1. TypeOK'
    BY <1>2 DEF IInv, TypeOK, NoneDue, device, kernel
  <2> QED
    BY <1>2, <2>1 DEF IInv, NoneDue, kernel, Masks
<1> QED
  BY <1>1, <1>2

(* update_device() and set_compare(): the device is armed for the head, or  *)
(* the update begins anew.                                                  *)
LEMMA UpdateDeviceIInv ==
    ASSUME IInv, UNCHANGED plat, ArmVirt \/ ArmBcm \/ InTime \/ TooLate \/ Disarm
    PROVE  IInv'
<1>0. /\ count \in Nat /\ Width \in Nat \ {0} /\ plat \in {"virt", "rpi4"}
      /\ outstanding \in Seq(Timer) /\ Ordered(outstanding)
  BY TimerAssumption DEF IInv, TypeOK
<1>1. ASSUME outstanding # <<>> PROVE Head(outstanding).compare \in Nat
  <2>1. Head(outstanding) \in Timer
    BY <1>0, <1>1
  <2> QED
    BY <2>1 DEF Timer
<1>2. CASE ArmVirt
  <2>1. TypeOK'
    BY <1>1, <1>2, Zenon DEF IInv, TypeOK, Masks, ArmVirt, Return
  <2> QED
    <3>1. Armed'
      BY <1>1, <1>2 DEF ArmVirt, Return, Armed
    <3>2. Masks'
      BY <1>2 DEF IInv, TypeOK, Masks, ArmVirt, Return
    <3> QED
      BY <1>0, <1>2, <2>1, <3>1, <3>2 DEF IInv, ArmVirt, Return
<1>3. CASE ArmBcm
  <2>1. compare' \in Nat
    BY <1>0, <1>1, <1>3 DEF ArmBcm
  <2>2. TypeOK'
    BY <1>3, <2>1 DEF IInv, TypeOK, ArmBcm, kernel, Matches
  <2>3. Set'
    BY <1>0, <1>1, <1>3, Zenon DEF ArmBcm, Set, Matches
  <2> QED
    BY <1>0, <1>3, <2>2, <2>3 DEF IInv, ArmBcm, kernel, Masks
<1>4. CASE InTime
  <2>1. TypeOK'
    BY <1>4, Zenon DEF IInv, TypeOK, Masks, InTime, Return, device
  <2>2. Set /\ Head(outstanding).compare \in Nat /\ Head(outstanding).compare >= count
    BY <1>1, <1>4 DEF IInv, InTime, Set
  <2>3. Armed'
    <3>1. CASE Head(outstanding).compare = count
      BY <1>4, <2>2, <3>1 DEF Set, Armed, InTime, Return, device
    <3>2. CASE Head(outstanding).compare # count
      <4>1. Head(outstanding).compare \in count + 1..Head(outstanding).compare
        BY <1>0, <2>2, <3>2
      <4> QED
        BY <1>4, <2>2, <4>1 DEF Set, Armed, InTime, Return, device
    <3> QED
      BY <3>1, <3>2
  <2> QED
    BY <1>0, <1>4, <2>1, <2>3, Zenon DEF IInv, InTime, Return, Masks
<1>5. CASE TooLate
  <2>1. TypeOK'
    BY <1>5 DEF IInv, TypeOK, TooLate, device, kernel
  <2> QED
    BY <1>0, <1>5, <2>1 DEF IInv, TooLate, kernel, Masks
<1>6. CASE Disarm
  <2>1. TypeOK'
    BY <1>6, Zenon DEF IInv, TypeOK, Masks, Disarm, Return
  <2> QED
    BY <1>0, <1>6, <2>1, Zenon DEF IInv, Disarm, Return, Masks
<1> QED
  BY <1>2, <1>3, <1>4, <1>5, <1>6

(* Every step of the server, its clients, the kernel and the device        *)
(* preserves the invariant.                                                *)
LEMMA NextIInv == IInv /\ [Next]_vars => IInv'
<1> SUFFICES ASSUME IInv, [Next]_vars PROVE IInv'
  OBVIOUS
<1>1. CASE UNCHANGED vars
  BY <1>1 DEF vars, device, kernel, IInv, TypeOK, Armed, Set, Masks
<1>2. CASE Next
  BY <1>2, TickIInv, QuietIInv, RequestIInv, HandleInterruptIInv, UpdateTimersIInv, UpdateDeviceIInv
     DEF Next, Update
<1> QED
  BY <1>1, <1>2

(* Between events a timer that is outstanding will raise an interrupt: the *)
(* device is armed for the head of the queue or has raised it already,     *)
(* whichever requests, expiries and ticks came before.                     *)
THEOREM SpecHeadIsArmed == Spec => []HeadIsArmed
<1>1. Init => IInv
  BY InitIInv
<1>2. IInv /\ [Next]_vars => IInv'
  BY NextIInv
<1>3. IInv => HeadIsArmed
  BY InvImplies
<1> QED
  BY <1>1, <1>2, <1>3, PTL DEF Spec

(* update_timers() notifies a client only for a timer of its own that is   *)
(* due; the timer leaves the queue, and a periodic one comes back for the  *)
(* next period.                                                            *)
THEOREM SpecNotifiedForDueTimer == Spec => NotifiedForDueTimer
<1> DEFINE A == \A c \in notified' \ notified :
                  \E t \in Range(outstanding) :
                     /\ t.client = c /\ t.compare <= count
                     /\ t \notin Range(outstanding')
                     /\ t.period > 0 =>
                          [t EXCEPT !.compare = @ + t.period] \in Range(outstanding')
<1>1. IInv /\ [Next]_vars => [A]_vars
  <2> SUFFICES ASSUME IInv, Next PROVE A
    OBVIOUS
  <2>1. CASE Expire
    <3> DEFINE t == Head(outstanding)
    <3>1. /\ outstanding # <<>> /\ t \in Timer
          /\ t \notin Range(outstanding')
          /\ t.period > 0 => [t EXCEPT !.compare = @ + t.period] \in Range(outstanding')
      BY <2>1, ExpireStep
    <3>2. notified' \ notified \subseteq {t.client} /\ t.compare <= now
      BY <2>1 DEF Expire, Due
    <3>3. t \in Range(outstanding)
      BY <3>1 DEF Range, IInv, TypeOK
    <3>4. t.compare <= count
      BY <3>1, <3>2 DEF IInv, TypeOK, Timer
    <3> HIDE DEF t
    <3> QED
      BY <3>1, <3>2, <3>3, <3>4
  <2>2. CASE ~Expire
    <3>1. notified' \subseteq notified
      BY <2>2, Zenon DEF Next, Tick, TakeInterrupt, ClientRecv, Request, oneshot_relative, oneshot_absolute,
                  periodic, SetTimer, stop, handle_interrupt, Update, NoneDue, ArmVirt, ArmBcm, InTime,
                  TooLate, Disarm, Return
    <3> QED
      BY <3>1
  <2> QED
    BY <2>1, <2>2
<1>2. Init => IInv
  BY InitIInv
<1>3. IInv /\ [Next]_vars => IInv'
  BY NextIInv
<1>4. Spec => [][A]_vars
  BY <1>1, <1>2, <1>3, PTL DEF Spec
<1> QED
  BY <1>4 DEF NotifiedForDueTimer

----------------------------------------------------------------------------
(* The mutex.                                                              *)
INSTANCE FiniteSetTheorems
INSTANCE SequenceTheorems

TypeBasic ==
    /\ value \in Int
    /\ pending \in {0, 1}
    /\ queue \in Seq(Thread)
    /\ stage \in [Thread -> Stage]

MutexInv == TypeBasic /\ QueueExact /\ WakeupInFlight

----------------------------------------------------------------------------
(* The contending threads are finitely many, so they can be counted.       *)
LEMMA ContendingFinite ==
    ASSUME TypeBasic
    PROVE  /\ IsFiniteSet(Contending)
           /\ Cardinality(Contending) \in Nat
           /\ Cardinality(Contending) <= Cardinality(Thread)
           /\ Cardinality(Contending) = 0 <=> Contending = {}
<1>1. Contending \in SUBSET Thread
  BY DEF Contending
<1>2. IsFiniteSet(Contending) /\ Cardinality(Contending) <= Cardinality(Thread)
  BY <1>1, FS_Subset, ThreadAssumption
<1> QED
  BY <1>2, FS_CardinalityType, FS_EmptySet

(* One step moves at most one thread in or out of Contending: a thread     *)
(* that joins adds one to the count, a thread that leaves takes one away.  *)
LEMMA ContendingCount ==
    ASSUME TypeBasic, NEW t \in Thread
    PROVE  /\ t \notin Contending
                => Cardinality(Contending \cup {t}) = Cardinality(Contending) + 1
           /\ t \in Contending
                => Cardinality(Contending \ {t}) = Cardinality(Contending) - 1
BY ContendingFinite, FS_AddElement, FS_RemoveElement, Zenon

(* A new mutex: the counter is 1, nobody contends and no signal is out.    *)
THEOREM InitMutexInv == MutexInit => MutexInv
<1> SUFFICES ASSUME MutexInit PROVE MutexInv
  OBVIOUS
<1>1. TypeBasic
  BY DEF MutexInit, TypeBasic, Stage
<1>2. QueueExact
  BY DEF MutexInit, QueueExact
<1>3. Contending = {} /\ Baton = {}
  BY DEF MutexInit, Contending, Baton
<1>4. WakeupInFlight
  BY <1>3, FS_EmptySet DEF MutexInit, WakeupInFlight
<1> QED
  BY <1>1, <1>2, <1>4 DEF MutexInv

(* The fetch_sub of lock(): the thread joins the contenders, and holds the *)
(* mutex if the counter was 1.                                             *)
LEMMA LockFetchSubInv ==
    ASSUME MutexInv, NEW t \in Thread, LockFetchSub(t)
    PROVE  MutexInv'
<1> USE DEF MutexInv, TypeBasic, LockFetchSub, Stage
<1>1. TypeBasic'
  OBVIOUS
<1>2. QueueExact'
  BY DEF QueueExact
<1>3. t \notin Contending /\ Contending' = Contending \cup {t}
  BY DEF Contending
<1>4. value' = 1 - Cardinality(Contending')
  <2>1. Cardinality(Contending \cup {t}) = Cardinality(Contending) + 1
    BY <1>3, ContendingCount
  <2>2. Cardinality(Contending) \in Nat
    BY ContendingFinite
  <2> QED
    BY <1>3, <2>1, <2>2 DEF WakeupInFlight
<1>5. CASE value <= 0
  <2>1. Contending # {} /\ Baton' = Baton /\ Contending' # {}
    BY <1>3, <1>5, ContendingFinite DEF Baton, WakeupInFlight
  <2> QED
    BY <2>1, <1>1, <1>2, <1>4 DEF WakeupInFlight
<1>6. CASE value > 0
  <2>1. Contending = {}
    BY <1>6, ContendingFinite DEF WakeupInFlight
  <2>2. Baton = {} /\ pending = 0
    BY <2>1 DEF WakeupInFlight
  <2>3. Baton' = {t} /\ Contending' = {t}
    BY <2>1, <2>2, <1>3, <1>6 DEF Baton
  <2> QED
    BY <2>2, <2>3, <1>1, <1>2, <1>4 DEF WakeupInFlight
<1> QED
  BY <1>5, <1>6

(* The wait() of lock(): the sleeper takes the signal, and with it the     *)
(* mutex.                                                                  *)
LEMMA LockWaitInv ==
    ASSUME MutexInv, NEW t \in Thread, LockWait(t)
    PROVE  MutexInv'
<1> USE DEF MutexInv, TypeBasic, LockWait, Stage
<1>1. TypeBasic'
  <2>1. stage' \in [Thread -> Stage]
    OBVIOUS
  <2>2. queue' \in Seq(Thread)
    OBVIOUS
  <2> QED
    BY <2>1, <2>2
<1>2. Contending' = Contending /\ t \in Contending
  BY DEF Contending
<1>3. CASE pending = 1
  <2>1. QueueExact'
    BY <1>3 DEF QueueExact
  <2>2. Baton = {} /\ Baton' = {t}
    BY <1>3 DEF WakeupInFlight, Baton
  <2> QED
    BY <1>1, <1>2, <1>3, <2>1, <2>2 DEF WakeupInFlight
<1>4. CASE pending = 0
  <2>1. QueueExact'
    <3>1. \A i \in 1..Len(queue) : queue[i] # t
      BY DEF QueueExact
    <3>2. /\ Len(queue') = Len(queue) + 1
          /\ queue'[Len(queue) + 1] = t
          /\ \A i \in 1..Len(queue) : queue'[i] = queue[i]
      BY <1>4
    <3>3. \A s \in Thread : stage'[s] = "blocked" <=> \E i \in 1..Len(queue') : queue'[i] = s
      BY <1>4, <3>2 DEF QueueExact
    <3>4. \A i, j \in 1..Len(queue') : queue'[i] = queue'[j] => i = j
      BY <3>1, <3>2 DEF QueueExact
    <3> QED
      BY <1>4, <3>3, <3>4 DEF QueueExact
  <2>2. Baton' = Baton
    BY <1>4 DEF Baton
  <2> QED
    BY <1>1, <1>2, <1>4, <2>1, <2>2 DEF WakeupInFlight
<1> QED
  BY <1>3, <1>4

(* The fetch_add of unlock(): the holder leaves, and owes a signal if the  *)
(* counter says that others contend.                                       *)
LEMMA UnlockFetchAddInv ==
    ASSUME MutexInv, NEW t \in Thread, UnlockFetchAdd(t)
    PROVE  MutexInv'
<1> USE DEF MutexInv, TypeBasic, UnlockFetchAdd, Stage
<1>1. TypeBasic'
  OBVIOUS
<1>2. QueueExact'
  BY DEF QueueExact
<1>3. t \in Contending /\ Contending' = Contending \ {t}
  BY DEF Contending
<1>4. value' = 1 - Cardinality(Contending')
  <2>1. Cardinality(Contending \ {t}) = Cardinality(Contending) - 1
    BY <1>3, ContendingCount
  <2>2. Cardinality(Contending) \in Nat
    BY ContendingFinite
  <2> QED
    BY <1>3, <2>1, <2>2 DEF WakeupInFlight
<1>5. Baton = {t} /\ pending = 0
  BY DEF Baton, WakeupInFlight
<1>6. /\ Cardinality(Contending') \in Nat
      /\ Cardinality(Contending') = 0 <=> Contending' = {}
  <2>1. IsFiniteSet(Contending')
    BY <1>3, ContendingFinite, FS_RemoveElement
  <2> QED
    BY <2>1, FS_CardinalityType, FS_EmptySet
<1>7. CASE value < 0
  <2>1. Baton' = {t}
    BY <1>5, <1>7 DEF Baton
  <2>2. Contending' # {}
    BY <1>4, <1>6, <1>7
  <2> QED
    BY <1>1, <1>2, <1>4, <1>5, <2>1, <2>2 DEF WakeupInFlight
<1>8. CASE value >= 0
  <2>1. Baton' = {}
    BY <1>5, <1>8 DEF Baton
  <2>2. Contending' = {}
    BY <1>4, <1>6, <1>8
  <2> QED
    BY <1>1, <1>2, <1>4, <1>5, <2>1, <2>2 DEF WakeupInFlight
<1> QED
  BY <1>7, <1>8

(* The signal() of unlock(): the signal that was owed is out, for one of   *)
(* the contenders that sleep or are about to.                              *)
LEMMA UnlockSignalInv ==
    ASSUME MutexInv, NEW t \in Thread, UnlockSignal(t)
    PROVE  MutexInv'
<1> USE DEF MutexInv, TypeBasic, UnlockSignal, Stage
<1>1. Baton = {t} /\ pending = 0
  BY DEF Baton, WakeupInFlight
<1>2. CASE queue # <<>>
  <2> DEFINE h == Head(queue)
  <2>1. /\ h \in Thread /\ h = queue[1] /\ 1 \in 1..Len(queue)
        /\ Len(queue') = Len(queue) - 1
        /\ \A i \in 1..Len(queue') : queue'[i] = queue[i + 1]
    BY <1>2
  <2>2. stage[h] = "blocked" /\ h # t
    BY <2>1 DEF QueueExact
  <2>3. stage' = [stage EXCEPT ![t] = "idle", ![h] = "cs"]
    BY <1>2
  <2>4. TypeBasic'
    <3>1. queue' \in Seq(Thread)
      BY <1>2, HeadTailProperties
    <3>2. stage' \in [Thread -> Stage]
      BY <2>1, <2>3
    <3> QED
      BY <1>2, <3>1, <3>2
  <2>5. QueueExact'
    <3>1. \A s \in Thread : stage'[s] = "blocked" <=> stage[s] = "blocked" /\ s # h
      BY <2>2, <2>3
    <3>2. \A i \in 2..Len(queue) : queue[i] # h
      BY <2>1 DEF QueueExact
    <3>3. \A s \in Thread : (\E i \in 1..Len(queue') : queue'[i] = s)
                              <=> (\E i \in 2..Len(queue) : queue[i] = s)
      <4>1. ASSUME NEW s \in Thread, NEW i \in 2..Len(queue), queue[i] = s
            PROVE  \E j \in 1..Len(queue') : queue'[j] = s
        <5>1. i - 1 \in 1..Len(queue') /\ queue'[i - 1] = s
          BY <2>1, <4>1
        <5> QED
          BY <5>1
      <4>2. ASSUME NEW s \in Thread, NEW i \in 1..Len(queue'), queue'[i] = s
            PROVE  \E j \in 2..Len(queue) : queue[j] = s
        <5>1. i + 1 \in 2..Len(queue) /\ queue[i + 1] = s
          BY <2>1, <4>2
        <5> QED
          BY <5>1
      <4> QED
        BY <4>1, <4>2
    <3>4. \A s \in Thread : stage'[s] = "blocked" <=> \E i \in 1..Len(queue') : queue'[i] = s
      BY <2>1, <3>1, <3>2, <3>3 DEF QueueExact
    <3>5. \A i, j \in 1..Len(queue') : queue'[i] = queue'[j] => i = j
      BY <2>1 DEF QueueExact
    <3> QED
      BY <1>1, <1>2, <3>4, <3>5 DEF QueueExact
  <2>6. Contending' = Contending /\ Baton' = {h}
    BY <1>1, <2>1, <2>2, <2>3 DEF Contending, Baton
  <2> QED
    BY <1>1, <1>2, <2>4, <2>5, <2>6 DEF WakeupInFlight
<1>3. CASE queue = <<>>
  <2>1. TypeBasic'
    BY <1>3
  <2>2. QueueExact'
    BY <1>3 DEF QueueExact
  <2>3. Contending' = Contending /\ Baton' = {}
    BY <1>1, <1>3 DEF Contending, Baton
  <2> QED
    BY <1>1, <1>3, <2>1, <2>2, <2>3 DEF WakeupInFlight
<1> QED
  BY <1>2, <1>3

(* Every atomic access and system call of the mutex keeps the invariant.   *)
THEOREM NextMutexInv == MutexInv /\ [MutexNext]_mutexVars => MutexInv'
<1> SUFFICES ASSUME MutexInv, [MutexNext]_mutexVars PROVE MutexInv'
  OBVIOUS
<1>1. CASE MutexNext
  <2>1. PICK t \in Thread : LockFetchSub(t) \/ Progress(t)
    BY <1>1 DEF MutexNext
  <2> QED
    BY <2>1, LockFetchSubInv, LockWaitInv, UnlockFetchAddInv, UnlockSignalInv
    DEF Progress
<1>2. CASE UNCHANGED mutexVars
  BY <1>2 DEF mutexVars, MutexInv, TypeBasic, QueueExact, WakeupInFlight, Contending, Baton
<1> QED
  BY <1>1, <1>2

(* Every reachable state of the mutex satisfies the inductive invariant.   *)
LEMMA SpecMutexInv == MutexSpec => []MutexInv
BY InitMutexInv, NextMutexInv, PTL DEF MutexSpec

(* For any number of threads: the counter counts the contenders and the    *)
(* wake-up is never lost and never doubled (RawGenericMutex lock, unlock). *)
THEOREM SpecWakeupInFlight == MutexSpec => []WakeupInFlight
<1>1. MutexInv => WakeupInFlight
  BY DEF MutexInv
<1> QED
  BY <1>1, SpecMutexInv, PTL

(* For any number of threads: at most one holds the guard.                 *)
THEOREM SpecMutualExclusion == MutexSpec => []MutualExclusion
<1>1. MutexInv => MutualExclusion
  BY DEF MutexInv, WakeupInFlight, Baton, MutualExclusion
<1> QED
  BY <1>1, SpecMutexInv, PTL

(* For any number N of threads the counter stays within 1 - N .. 1.        *)
THEOREM SpecTypeOK == MutexSpec => []MutexTypeOK
<1>1. MutexInv => MutexTypeOK
  <2> SUFFICES ASSUME MutexInv PROVE MutexTypeOK
    OBVIOUS
  <2>1. Cardinality(Thread) \in Nat
    BY FS_CardinalityType, ThreadAssumption
  <2>2. value \in (1 - Cardinality(Thread))..1
    BY <2>1, ContendingFinite DEF MutexInv, TypeBasic, WakeupInFlight
  <2> QED
    BY <2>2 DEF MutexInv, TypeBasic, MutexTypeOK
<1> QED
  BY <1>1, SpecMutexInv, PTL

(* For any number of threads the mutex implements the abstract lock: an    *)
(* uncontended fetch_sub and a hand-over by signal() or wait() are Enter,  *)
(* a contended fetch_sub is Ask, fetch_add in unlock() is Exit, the other  *)
(* steps are invisible.                                                    *)
THEOREM SpecImplementsLock == MutexSpec => ImplementsLock
<1>1. MutexInit => Lock!Init
  BY DEF MutexInit, Lock!Init, Phase
<1>2. MutexInv /\ [MutexNext]_mutexVars => [Lock!Next]_Phase
  <2> SUFFICES ASSUME MutexInv, [MutexNext]_mutexVars PROVE [Lock!Next]_Phase
    OBVIOUS
  <2> USE DEF MutexInv, TypeBasic, Stage
  <2>1. ASSUME NEW t \in Thread, LockFetchSub(t)
        PROVE  Lock!Ask(t) \/ Lock!Enter(t)
    <3>1. CASE value <= 0
      BY <2>1, <3>1, Zenon DEF LockFetchSub, Lock!Ask, Phase
    <3>2. CASE value > 0
      <4>1. Contending = {}
        BY <3>2, ContendingFinite DEF WakeupInFlight
      <4>2. \A s \in Thread : stage[s] # "cs"
        BY <4>1 DEF Contending
      <4>3. stage[t] = "idle" /\ stage' = [stage EXCEPT ![t] = "cs"]
        <5>1. (IF value <= 0 THEN "wait" ELSE "cs") = "cs"
          BY <3>2
        <5> QED
          BY <2>1, <5>1, Zenon DEF LockFetchSub
      <4>4. Lock!Enter(t)
        BY <4>2, <4>3, Zenon DEF Lock!Enter, Lock!NobodyInside, Phase
      <4> QED
        BY <4>4
    <3> QED
      BY <3>1, <3>2
  <2>2. ASSUME NEW t \in Thread, LockWait(t)
        PROVE  Lock!Enter(t) \/ UNCHANGED Phase
    <3>1. CASE pending = 1
      <4>1. \A s \in Thread : stage[s] # "cs"
        BY <3>1 DEF WakeupInFlight, Baton
      <4> QED
        BY <2>2, <3>1, <4>1, Zenon DEF LockWait, Lock!Enter, Lock!NobodyInside, Phase
    <3>2. CASE pending = 0
      BY <2>2, <3>2 DEF LockWait, Phase
    <3> QED
      BY <3>1, <3>2
  <2>3. ASSUME NEW t \in Thread, UnlockFetchAdd(t)
        PROVE  Lock!Exit(t)
    BY <2>3, Zenon DEF UnlockFetchAdd, Lock!Exit, Phase
  <2>4. ASSUME NEW t \in Thread, UnlockSignal(t)
        PROVE  (\E s \in Thread : Lock!Enter(s)) \/ UNCHANGED Phase
    <3>1. CASE queue # <<>>
      <4>1. Head(queue) \in Thread /\ stage[Head(queue)] = "blocked"
        BY <3>1 DEF QueueExact
      <4>2. \A s \in Thread : stage[s] # "cs"
        BY <2>4 DEF UnlockSignal, WakeupInFlight, Baton
      <4>3. Lock!Enter(Head(queue))
        BY <2>4, <3>1, <4>1, <4>2, Zenon DEF UnlockSignal, Lock!Enter, Lock!NobodyInside, Phase
      <4> QED
        BY <4>1, <4>3
    <3>2. CASE queue = <<>>
      BY <2>4, <3>2 DEF UnlockSignal, Phase
    <3> QED
      BY <3>1, <3>2
  <2>5. CASE UNCHANGED mutexVars
    BY <2>5 DEF mutexVars, Phase
  <2> QED
    BY <2>1, <2>2, <2>3, <2>4, <2>5 DEF MutexNext, Progress, Lock!Next
<1> QED
  BY <1>1, <1>2, SpecMutexInv, PTL DEF MutexSpec, ImplementsLock, Lock!Spec
=============================================================================
