------------------------ MODULE WaitableEventsProofs ------------------------
(***************************************************************************)
(* TLAPS: what Signal, Wait, TimedWait and WaitMany keep, whichever        *)
(* threads call them in whichever order.  The theorems about the system    *)
(* these calls belong to are in MessageLoopProofs.                         *)
(***************************************************************************)
EXTENDS WaitableEvents, FiniteSetTheorems, TLAPS

-----------------------------------------------------------------------------
(***************************************************************************)
(* Numbers and sequences.                                                  *)
(***************************************************************************)

\* Every set of natural numbers that has an element has a least one.
LEMMA LeastNumber ==
  ASSUME NEW S \in SUBSET Nat, S # {}
  PROVE  \E x \in S : \A y \in S : x <= y
<1>1. OpToRel(<, Nat) = {ss \in Nat \X Nat : ss[1] < ss[2]}
  BY DEF OpToRel
<1>2. \E x \in S : \A y \in S : ~(<<y, x>> \in OpToRel(<, Nat))
  BY WFMin, NatLessThanWellFounded
<1>3. PICK x \in S : \A y \in S : ~(<<y, x>> \in {ss \in Nat \X Nat : ss[1] < ss[2]})
  BY <1>1, <1>2, Zenon
<1>4. ASSUME NEW y \in S PROVE x <= y
  <2>1. x \in Nat /\ y \in Nat
    OBVIOUS
  <2>2. <<y, x>> \in {ss \in Nat \X Nat : ss[1] < ss[2]} <=> y < x
    BY <2>1
  <2> QED
    BY <2>1, <2>2, <1>3
<1> QED
  BY <1>4

\* Finite sets of natural numbers can be enumerated in order, which is what
\* InLockOrder does.
LEMMA IncreasingEnumeration ==
  ASSUME NEW n \in Nat, NEW S \in SUBSET Nat, IsFiniteSet(S), Cardinality(S) = n
  PROVE  \E f \in Bijection(1 .. n, S) : \A i, j \in 1 .. n : i < j => f[i] < f[j]
<1> DEFINE Orders(f, k, T) == /\ f \in [1 .. k -> T]
                              /\ \A x \in T : \E i \in 1 .. k : f[i] = x
                              /\ \A i, j \in 1 .. k : i < j => f[i] < f[j]
           Fails == {k \in Nat : \E T \in SUBSET Nat :
                       /\ IsFiniteSet(T) /\ Cardinality(T) = k
                       /\ ~ \E f \in [1 .. k -> T] : Orders(f, k, T)}
<1>1. Fails = {}
  <2> SUFFICES ASSUME Fails # {} PROVE FALSE
    OBVIOUS
  <2>1. PICK k \in Fails : \A j \in Fails : k <= j
    BY LeastNumber
  <2>2. PICK T \in SUBSET Nat : /\ IsFiniteSet(T) /\ Cardinality(T) = k
                                /\ ~ \E f \in [1 .. k -> T] : Orders(f, k, T)
    OBVIOUS
  <2>3. k \in Nat
    OBVIOUS
  <2>4. CASE k = 0
    <3>1. T = {}
      BY <2>2, <2>4, FS_EmptySet
    <3>2. Orders([i \in 1 .. 0 |-> 0], 0, {})
      OBVIOUS
    <3> QED
      BY <3>1, <3>2, <2>2, <2>4
  <2>5. CASE k # 0
    <3>1. T # {}
      BY <2>2, <2>5, FS_EmptySet
    <3>2. PICK m \in T : \A x \in T : m <= x
      BY <3>1, LeastNumber
    <3>3. IsFiniteSet(T \ {m}) /\ Cardinality(T \ {m}) = k - 1
      BY <2>2, FS_RemoveElement
    <3>4. k - 1 \in Nat /\ k - 1 \notin Fails
      BY <2>1, <2>3, <2>5
    <3>5. PICK f \in [1 .. k - 1 -> T \ {m}] : Orders(f, k - 1, T \ {m})
      <4>1. T \ {m} \in SUBSET Nat
        OBVIOUS
      <4> QED
        BY <3>3, <3>4, <4>1
    <3> DEFINE g == [i \in 1 .. k |-> IF i = 1 THEN m ELSE f[i - 1]]
    <3>6. g \in [1 .. k -> T]
      BY <3>5, <2>3, <2>5
    <3>7. ASSUME NEW x \in T PROVE \E i \in 1 .. k : g[i] = x
      <4>1. CASE x = m
        BY <4>1, <2>3, <2>5
      <4>2. CASE x # m
        <5>1. PICK i \in 1 .. k - 1 : f[i] = x
          BY <3>5, <4>2
        <5>2. i + 1 \in 1 .. k /\ g[i + 1] = x
          BY <5>1, <2>3
        <5> QED
          BY <5>2
      <4> QED
        BY <4>1, <4>2
    <3>8. ASSUME NEW i \in 1 .. k, NEW j \in 1 .. k, i < j PROVE g[i] < g[j]
      <4>1. j - 1 \in 1 .. k - 1 /\ g[j] = f[j - 1]
        BY <3>8, <2>3
      <4>2. f[j - 1] \in T \ {m}
        BY <4>1, <3>5
      <4>3. CASE i = 1
        <5>1. m \in Nat /\ f[j - 1] \in Nat /\ m <= f[j - 1] /\ f[j - 1] # m
          BY <4>2, <3>2
        <5> QED
          BY <5>1, <4>1, <4>3
      <4>4. CASE i # 1
        BY <4>1, <4>4, <3>8, <3>5, <2>3
      <4> QED
        BY <4>3, <4>4
    <3> QED
      BY <3>6, <3>7, <3>8, <2>2
  <2> QED
    BY <2>4, <2>5
<1>2. PICK f \in [1 .. n -> S] : Orders(f, n, S)
  BY <1>1
<1>3. f \in Bijection(1 .. n, S)
  <2>1. ASSUME NEW i \in 1 .. n, NEW j \in 1 .. n, f[i] = f[j] PROVE i = j
    <3>1. i \in Nat /\ j \in Nat /\ f[i] \in Nat /\ f[j] \in Nat
      <4>1. f[i] \in S /\ f[j] \in S
        OBVIOUS
      <4>2. \A x \in S : x \in Nat
        OBVIOUS
      <4>3. \A k \in 1 .. n : k \in Nat
        OBVIOUS
      <4> QED
        BY <4>1, <4>2, <4>3, Zenon
    <3>2. ~(i < j) /\ ~(j < i)
      BY <3>1, <2>1, <1>2
    <3> QED
      BY <3>1, <3>2
  <2> QED
    BY <2>1, <1>2 DEF Bijection, Injection, Surjection, IsInjective
<1> QED
  BY <1>2, <1>3

\* WaitMany takes the lock of each of its events, and of no other.
LEMMA LockOrder ==
  ASSUME NEW raw, IsArray(raw)
  PROVE  /\ InLockOrder(raw) \in [DOMAIN raw -> ToSet(raw)]
         /\ \A e \in ToSet(raw) : \E i \in DOMAIN raw : InLockOrder(raw)[i] = e
<1> DEFINE n == Len(raw)
<1>1. /\ raw \in Seq(Event) /\ DOMAIN raw = 1 .. n /\ n \in Nat
      /\ \A i, j \in 1 .. n : raw[i] = raw[j] => i = j
  BY DEF IsArray
<1>2. ToSet(raw) \subseteq Nat
  <2>1. \A i \in 1 .. n : raw[i] \in Event
    BY <1>1
  <2> QED
    BY <2>1, <1>1, EventAssumption DEF ToSet
<1>3. raw \in Bijection(1 .. n, ToSet(raw))
  BY <1>1 DEF Bijection, Injection, Surjection, IsInjective, ToSet
<1>4. IsFiniteSet(ToSet(raw)) /\ Cardinality(ToSet(raw)) = n
  <2>1. IsFiniteSet(1 .. n) /\ Cardinality(1 .. n) = n
    BY <1>1, FS_Interval
  <2>2. ExistsBijection(1 .. n, ToSet(raw))
    BY <1>3 DEF ExistsBijection
  <2> QED
    BY <2>1, <2>2, <1>1, FS_Bijection, FS_CardinalityType
<1>5. \E s \in Bijection(DOMAIN raw, ToSet(raw)) :
        \A i, j \in DOMAIN raw : i < j => s[i] < s[j]
  BY <1>1, <1>2, <1>4, IncreasingEnumeration
<1>6. InLockOrder(raw) \in Bijection(DOMAIN raw, ToSet(raw))
  BY <1>5 DEF InLockOrder
<1> QED
  BY <1>6 DEF Bijection, Injection, Surjection

\* The place Winner names is one of the sequence, and 0 if there is none.
LEMMA FirstPlace ==
  ASSUME NEW s, Len(s) \in Nat, NEW I \in SUBSET (1 .. Len(s))
  PROVE  I # {} => Min(I) \in I /\ \A i \in I : Min(I) <= i
<1> SUFFICES ASSUME I # {} PROVE Min(I) \in I /\ \A i \in I : Min(I) <= i
  OBVIOUS
<1>1. I \in SUBSET Nat
  OBVIOUS
<1>2. \E x \in I : \A y \in I : x <= y
  BY <1>1, LeastNumber
<1> QED
  BY <1>2 DEF Min

\* Dequeue takes a waiter out of a list and leaves the others in it.
LEMMA RemoveFirstFacts ==
  ASSUME NEW S, NEW s \in Seq(S), NEW e,
         \A i, j \in 1 .. Len(s) : s[i] = s[j] => i = j
  PROVE  LET r == RemoveFirst(s, e) IN
         /\ r \in Seq(S)
         /\ \A i \in 1 .. Len(r) : r[i] # e /\ \E k \in 1 .. Len(s) : r[i] = s[k]
         /\ \A i, j \in 1 .. Len(r) : r[i] = r[j] => i = j
<1>1. CASE ~ \E i \in 1 .. Len(s) : s[i] = e
  <2>1. RemoveFirst(s, e) = s
    BY <1>1 DEF RemoveFirst
  <2> QED
    BY <1>1, <2>1
<1>2. CASE \E i \in 1 .. Len(s) : s[i] = e
  <2> DEFINE I == {i \in 1 .. Len(s) : s[i] = e}
             k == Min(I)
             r == RemoveFirst(s, e)
  <2>1. I # {} /\ I \in SUBSET (1 .. Len(s)) /\ Len(s) \in Nat
    BY <1>2
  <2>2. k \in I
    BY <2>1, FirstPlace
  <2>3. k \in 1 .. Len(s) /\ s[k] = e
    BY <2>2
  <2>4. r = SubSeq(s, 1, k - 1) \o SubSeq(s, k + 1, Len(s))
    BY <1>2, <2>1 DEF RemoveFirst, RemoveAt, SelectInSeq
  <2> HIDE DEF k, r, I
  <2>5. /\ SubSeq(s, 1, k - 1) \in Seq(S) /\ Len(SubSeq(s, 1, k - 1)) = k - 1
        /\ \A i \in 1 .. k - 1 : SubSeq(s, 1, k - 1)[i] = s[i]
    BY <2>1, <2>3
  <2>6. /\ SubSeq(s, k + 1, Len(s)) \in Seq(S)
        /\ Len(SubSeq(s, k + 1, Len(s))) = Len(s) - k
        /\ \A i \in 1 .. Len(s) - k : SubSeq(s, k + 1, Len(s))[i] = s[k + i]
    BY <2>1, <2>3
  <2>7. /\ r \in Seq(S) /\ Len(r) = Len(s) - 1
        /\ \A i \in 1 .. Len(r) : r[i] = IF i < k THEN s[i] ELSE s[i + 1]
    <3> DEFINE a == SubSeq(s, 1, k - 1)
               b == SubSeq(s, k + 1, Len(s))
    <3> HIDE DEF a, b
    <3>1. r = a \o b /\ a \in Seq(S) /\ b \in Seq(S) /\ Len(a) = k - 1 /\ Len(b) = Len(s) - k
      BY <2>4, <2>5, <2>6 DEF a, b
    <3>2. r \in Seq(S) /\ Len(r) = Len(s) - 1
      <4>1. r \in Seq(S) /\ Len(r) = Len(a) + Len(b)
        BY <3>1
      <4>2. Len(a) + Len(b) = Len(s) - 1
        BY <3>1, <2>1, <2>3
      <4> QED
        BY <4>1, <4>2
    <3>3. \A i \in 1 .. Len(r) : r[i] = IF i < k THEN a[i] ELSE b[i - (k - 1)]
      BY <3>1, <3>2, <2>1, <2>3
    <3>4. ASSUME NEW i \in 1 .. Len(r) PROVE r[i] = IF i < k THEN s[i] ELSE s[i + 1]
      <4>1. CASE i < k
        <5>1. i \in 1 .. k - 1
          BY <4>1, <3>2, <2>1, <2>3
        <5> QED
          BY <5>1, <3>3, <2>5, <4>1 DEF a
      <4>2. CASE ~(i < k)
        <5>1. i - (k - 1) \in 1 .. Len(s) - k /\ k + (i - (k - 1)) = i + 1
          BY <4>2, <3>2, <2>1, <2>3
        <5> QED
          BY <5>1, <3>3, <2>6, <4>2 DEF b
      <4> QED
        BY <4>1, <4>2
    <3> QED
      BY <3>2, <3>4
  <2>8. ASSUME NEW i \in 1 .. Len(r)
        PROVE  \E m \in 1 .. Len(s) : r[i] = s[m] /\ m # k /\ m = IF i < k THEN i ELSE i + 1
    <3>1. (IF i < k THEN i ELSE i + 1) \in 1 .. Len(s) /\ (IF i < k THEN i ELSE i + 1) # k
      BY <2>7, <2>1, <2>3
    <3> QED
      BY <2>7, <3>1
  <2>9. \A i \in 1 .. Len(r) : r[i] # e /\ \E m \in 1 .. Len(s) : r[i] = s[m]
    BY <2>8, <2>3
  <2>10. ASSUME NEW i \in 1 .. Len(r), NEW j \in 1 .. Len(r), r[i] = r[j] PROVE i = j
    <3>1. PICK m \in 1 .. Len(s) : r[i] = s[m] /\ m = IF i < k THEN i ELSE i + 1
      BY <2>8
    <3>2. PICK o \in 1 .. Len(s) : r[j] = s[o] /\ o = IF j < k THEN j ELSE j + 1
      BY <2>8
    <3>3. m = o
      BY <3>1, <3>2, <2>10
    <3> QED
      BY <3>1, <3>2, <3>3, <2>3, <2>7, <2>1
  <2> QED
    BY <2>7, <2>9, <2>10 DEF r
<1> QED
  BY <1>1, <1>2

-----------------------------------------------------------------------------
(***************************************************************************)
(* The inductive invariant.                                                *)
(***************************************************************************)

CallType ==
  [op : {"none", "signal", "wait"},
   at : {"out", "lock", "fire", "unlock", "asleep", "dequeue"},
   raw : Seq(Event), timed : BOOLEAN, count : Nat, fired : BOOLEAN,
   by : Event \cup {NoEvent}, result : Event \cup {NoEvent},
   woke : SUBSET Thread]

Types ==
  /\ kernel \in [Event -> Kernel]
  /\ call \in [Thread -> CallType]
  /\ ledger \in [Event -> Int]

Signals(t) == call[t].at \in {"fire", "unlock"}
Blocked(t) == call[t].at \in {"asleep", "dequeue"}

\* What a call knows at each of its places.
CallWellFormed(c) ==
  /\ c.op = "none" => c = Idle
  /\ c.op = "signal" => /\ c.at \in {"lock", "fire", "unlock"}
                        /\ Len(c.raw) = 1
                        /\ ~c.fired /\ c.by = NoEvent
  /\ c.op = "wait" => /\ c.at \in {"lock", "asleep", "dequeue"}
                      /\ IsArray(c.raw) /\ c.count < Len(c.raw)
                      /\ c.woke = {}
  /\ c.at = "lock" => ~c.fired /\ c.by = NoEvent /\ c.result = NoEvent /\ c.woke = {}
  /\ c.at = "asleep" => c.count = 0 /\ c.result = NoEvent
  /\ c.at = "dequeue" => c.fired /\ c.result = c.by
  /\ c.by # NoEvent => c.fired

\* The events whose lock a thread holds.
Holds(t, e) ==
  \/ Signals(t) /\ call[t].raw[1] = e
  \/ /\ call[t].op = "wait" /\ call[t].at = "lock"
     /\ \E i \in 1 .. call[t].count : InLockOrder(call[t].raw)[i] = e

LocksHeld ==
  \A e \in Event : \A t \in Thread : kernel[e].lock = t <=> Holds(t, e)

\* The waiter has not yet taken itself out of the list of e.
Listed(w, e) ==
  /\ Blocked(w)
  /\ \E j \in DOMAIN call[w].raw : call[w].count < j /\ call[w].raw[j] = e

\* A list names threads that are still waiting, each of them once.
ListsExact ==
  \A e \in Event :
    /\ \A i \in DOMAIN kernel[e].waiters : Listed(kernel[e].waiters[i], e)
    /\ \A i, j \in DOMAIN kernel[e].waiters :
         kernel[e].waiters[i] = kernel[e].waiters[j] => i = j

\* Signal goes on only if the event was not signaled, and it stays so while
\* Signal has the lock.
UnsignaledMeanwhile ==
  \A t \in Thread : Signals(t) => ~kernel[call[t].raw[1]].signaled

\* A thread woken by a call of Signal that has not returned has still to take
\* the lock of that event.
WokenMustLock ==
  \A t \in Thread : \A w \in call[t].woke :
    /\ Signals(t)
    /\ Listed(w, call[t].raw[1])

EventInv ==
  /\ Types
  /\ \A t \in Thread : CallWellFormed(call[t])
  /\ LocksHeld
  /\ ListsExact
  /\ UnsignaledMeanwhile
  /\ WokenMustLock

\* What happens to events, whoever does it.
EventNext ==
  \E t \in Thread :
    \/ EventStep(t)
    \/ Expire(t)
    \/ \E e \in Event : CallSignal(t, e) \/ Reset(t, e) \/ IsSignaled(t, e)
    \/ \E raw, timed : /\ IsArray(raw) /\ timed \in BOOLEAN
                       /\ CallWait(t, raw, timed)

-----------------------------------------------------------------------------
(***************************************************************************)
(* Each step keeps the invariant.                                          *)
(***************************************************************************)

LEMMA InitInv == InitEvents => EventInv
<1> SUFFICES ASSUME InitEvents PROVE EventInv
  OBVIOUS
<1>1. \A t \in Thread : call[t] = Idle
  BY DEF InitEvents
<1>2. Idle \in CallType /\ CallWellFormed(Idle)
  BY DEF Idle, CallType, CallWellFormed
<1>3. Types
  BY <1>2 DEF InitEvents, Types, Kernel
<1>4. LocksHeld /\ UnsignaledMeanwhile /\ WokenMustLock
  BY <1>1, NoneAssumption
  DEF InitEvents, LocksHeld, UnsignaledMeanwhile, WokenMustLock, Holds, Signals, Idle
<1>5. ListsExact
  BY DEF InitEvents, ListsExact
<1> QED
  BY <1>1, <1>2, <1>3, <1>4, <1>5 DEF EventInv

LEMMA CallFacts ==
  ASSUME EventInv, NEW t \in Thread
  PROVE  call[t] \in CallType /\ CallWellFormed(call[t])
BY DEF EventInv, Types

LEMMA KernelFacts ==
  ASSUME EventInv, NEW e \in Event
  PROVE  /\ kernel[e] \in Kernel
         /\ kernel[e].waiters \in Seq(Thread)
         /\ kernel[e].signaled \in BOOLEAN
         /\ kernel[e].lock \in Thread \cup {NoThread}
BY DEF EventInv, Types, Kernel

LEMMA EnteredType ==
  ASSUME ledger \in [Event -> Int], NEW e \in Event, NEW n \in Int
  PROVE  Entered(e, n) \in [Event -> Int]
BY DEF Entered

\* A call of Signal is about one event, whose lock it has once it goes on.
LEMMA SignalerFacts ==
  ASSUME EventInv, NEW t \in Thread, Signals(t) \/ call[t].op = "signal"
  PROVE  /\ call[t].op = "signal"
         /\ call[t].raw[1] \in Event
         /\ Signals(t) => kernel[call[t].raw[1]].lock = t
<1>1. call[t] \in CallType /\ CallWellFormed(call[t])
  BY CallFacts
<1>2. call[t].op = "signal"
  BY <1>1 DEF CallType, CallWellFormed, Signals, Idle
<1>3. call[t].raw \in Seq(Event) /\ Len(call[t].raw) = 1
  BY <1>1, <1>2 DEF CallType, CallWellFormed
<1>4. call[t].raw[1] \in Event
  BY <1>3
<1> QED
  BY <1>2, <1>4 DEF EventInv, LocksHeld, Holds

\* A wait that sleeps or leaves its lists knows its events.
LEMMA WaiterFacts ==
  ASSUME EventInv, NEW t \in Thread, Blocked(t) \/ call[t].op = "wait"
  PROVE  /\ call[t].op = "wait" /\ IsArray(call[t].raw)
         /\ call[t].raw \in Seq(Event) /\ Len(call[t].raw) \in Nat
         /\ DOMAIN call[t].raw = 1 .. Len(call[t].raw)
         /\ \A i \in 1 .. Len(call[t].raw) : call[t].raw[i] \in Event
         /\ call[t].count \in Nat /\ call[t].count < Len(call[t].raw)
         /\ call[t].woke = {}
<1>1. call[t] \in CallType /\ CallWellFormed(call[t])
  BY CallFacts
<1>2. call[t].op = "wait"
  BY <1>1 DEF CallType, CallWellFormed, Blocked, Idle
<1>3. /\ IsArray(call[t].raw) /\ call[t].raw \in Seq(Event)
      /\ call[t].count \in Nat /\ call[t].count < Len(call[t].raw)
      /\ call[t].woke = {}
  BY <1>1, <1>2 DEF CallType, CallWellFormed
<1> QED
  BY <1>2, <1>3

\* Steps that leave the lists alone.
LEMMA ListsKept ==
  ASSUME EventInv, \A f \in Event : kernel'[f].waiters = kernel[f].waiters,
         \A u \in Thread, f \in Event : Listed(u, f) => Listed(u, f)'
  PROVE  ListsExact'
<1>1. \A f \in Event : \A i \in DOMAIN kernel[f].waiters : kernel[f].waiters[i] \in Thread
  BY KernelFacts
<1> QED
  BY <1>1 DEF ListsExact, EventInv

\* Steps in which no call of Signal wakes a thread.
LEMMA WokenKept ==
  ASSUME EventInv,
         \A u \in Thread, f \in Event : Listed(u, f) => Listed(u, f)',
         \A u \in Thread : call'[u].woke # {} =>
             /\ call'[u].woke = call[u].woke
             /\ Signals(u)'
             /\ call'[u].raw = call[u].raw
  PROVE  WokenMustLock'
<1> SUFFICES ASSUME NEW u \in Thread, NEW w \in call'[u].woke
             PROVE  Signals(u)' /\ Listed(w, call[u].raw[1])'
  BY DEF WokenMustLock
<1>1. w \in call[u].woke /\ Signals(u)' /\ call'[u].raw = call[u].raw
  OBVIOUS
<1>2. w \in Thread
  BY <1>1, CallFacts DEF CallType
<1>3. Signals(u) /\ Listed(w, call[u].raw[1])
  BY <1>1 DEF EventInv, WokenMustLock
<1>4. PICK f \in Event : f = call[u].raw[1]
  BY <1>3, SignalerFacts
<1>5. Listed(w, f)'
  BY <1>2, <1>3, <1>4
<1>6. call'[u].raw[1] = f
  BY <1>1, <1>4
<1> QED
  BY <1>1, <1>5, <1>6 DEF Listed

\* Steps in which no call of Signal gets its lock.
LEMMA UnsignaledKept ==
  ASSUME EventInv,
         \A u \in Thread : Signals(u)' =>
             /\ Signals(u)
             /\ call'[u].raw = call[u].raw
             /\ kernel'[call[u].raw[1]].signaled = kernel[call[u].raw[1]].signaled
  PROVE  UnsignaledMeanwhile'
BY DEF EventInv, UnsignaledMeanwhile, Signals

\* A call that has taken no lock, or no call.
Quiet(c) ==
  /\ c.at \in {"out", "lock"}
  /\ c.op = "wait" => c.count = 0
  /\ c.woke = {}

\* A thread begins a call, or returns from one that has done nothing.
LEMMA QuietInv ==
  ASSUME EventInv, NEW t \in Thread, NEW c \in CallType,
         Quiet(call[t]), Quiet(c), CallWellFormed(c),
         call' = [call EXCEPT ![t] = c], UNCHANGED <<kernel, ledger>>
  PROVE  EventInv'
<1>1. Types' /\ \A u \in Thread : CallWellFormed(call[u])'
  BY DEF Types, CallWellFormed, EventInv
<1>2. /\ \A u \in Thread \ {t} : call'[u] = call[u]
      /\ call'[t] = c
  BY DEF Types, EventInv
<1>4. ASSUME NEW u \in Thread, NEW e \in Event
      PROVE  /\ Holds(u, e)' <=> Holds(u, e)
             /\ Listed(u, e)' <=> Listed(u, e)
             /\ Signals(u)' <=> Signals(u)
  <2>1. CASE u = t
    BY <2>1, <1>2 DEF Holds, Listed, Signals, Blocked, Quiet
  <2>2. CASE u # t
    BY <2>2, <1>2 DEF Holds, Listed, Signals, Blocked
  <2> QED
    BY <2>1, <2>2
<1>5. LocksHeld'
  BY <1>4 DEF LocksHeld, EventInv
<1>6. ListsExact'
  BY <1>4, ListsKept
<1>7. UnsignaledMeanwhile'
  <2>1. ~Signals(t)'
    BY <1>2 DEF Quiet, Signals
  <2> QED
    BY <1>2, <2>1, UnsignaledKept DEF Signals
<1>8. WokenMustLock'
  <2>1. ASSUME NEW u \in Thread, call'[u].woke # {}
        PROVE  /\ call'[u].woke = call[u].woke
               /\ Signals(u)'
               /\ call'[u].raw = call[u].raw
    <3>1. u # t
      BY <2>1, <1>2 DEF Quiet
    <3> QED
      BY <3>1, <2>1, <1>2 DEF EventInv, WokenMustLock, Signals
  <2> QED
    BY <2>1, <1>4, WokenKept
<1> QED
  BY <1>1, <1>5, <1>6, <1>7, <1>8 DEF EventInv

LEMMA CallSignalInv ==
  ASSUME EventInv, NEW t \in Thread, NEW e \in Event, CallSignal(t, e)
  PROVE  EventInv'
<1>1. PICK raw : raw = <<e>>
  OBVIOUS
<1>2. raw \in Seq(Event) /\ Len(raw) = 1
  BY <1>1
<1> DEFINE c == [Idle EXCEPT !.op = "signal", !.at = "lock", !.raw = raw]
<1>3. c \in CallType 
  BY <1>2 DEF Idle, CallType
<1>4. CallWellFormed(c)
  BY <1>2 DEF Idle, CallWellFormed
<1>5. call' = [call EXCEPT ![t] = c]
  BY <1>1, Zenon DEF CallSignal
<1>6. Quiet(c) /\ Quiet(call[t])
  BY DEF Quiet, Idle, CallSignal
<1> HIDE DEF c
<1> QED
  BY <1>3, <1>4, <1>5, <1>6, QuietInv DEF CallSignal

LEMMA CallWaitInv ==
  ASSUME EventInv, NEW t \in Thread, NEW raw, IsArray(raw), NEW timed \in BOOLEAN,
         CallWait(t, raw, timed)
  PROVE  EventInv'
<1> DEFINE c == [Idle EXCEPT !.op = "wait", !.at = "lock", !.raw = raw, !.timed = timed]
<1>1. c \in CallType 
  BY DEF Idle, CallType, IsArray
<1>2. CallWellFormed(c)
  <2>1. raw \in Seq(Event) /\ raw # <<>>
    BY DEF IsArray
  <2>2. Len(raw) > 0
    BY <2>1
  <2> QED
    BY <2>2 DEF Idle, CallWellFormed
<1>3. Quiet(c) /\ Quiet(call[t])
  BY DEF Quiet, Idle, CallWait
<1> QED
  BY <1>1, <1>2, <1>3, QuietInv DEF CallWait

\* Reset and IsSignaled change the flag of an event whose lock is free.
LEMMA FlagInv ==
  ASSUME EventInv, NEW e \in Event, IsFree(e), NEW flag \in BOOLEAN,
         kernel' = [kernel EXCEPT ![e].signaled = flag],
         NEW n \in Int, ledger' = Entered(e, n), UNCHANGED call
  PROVE  EventInv'
<1> USE DEF EventInv
<1>1. Types'
  <2>1. kernel' \in [Event -> Kernel]
    BY DEF Types, Kernel
  <2>2. ledger' \in [Event -> Int]
    BY EnteredType DEF Types
  <2> QED
    BY <2>1, <2>2 DEF Types
<1>2. ASSUME NEW f \in Event
      PROVE  kernel'[f].lock = kernel[f].lock /\ kernel'[f].waiters = kernel[f].waiters
  BY DEF Types, Kernel
<1>3. \A u \in Thread : CallWellFormed(call[u])'
  OBVIOUS
<1>4. LocksHeld'
  BY <1>2 DEF LocksHeld, Holds, Signals
<1>5. ListsExact'
  BY <1>2 DEF ListsExact, Listed, Blocked
<1>6. UnsignaledMeanwhile'
  <2> SUFFICES ASSUME NEW u \in Thread, Signals(u) PROVE ~kernel'[call[u].raw[1]].signaled
    BY DEF UnsignaledMeanwhile, Signals
  <2>1. call[u].raw[1] \in Event /\ kernel[call[u].raw[1]].lock = u
    BY SignalerFacts
  <2>3. call[u].raw[1] # e
    BY <2>1, NoneAssumption DEF IsFree
  <2> QED
    BY <2>1, <2>3 DEF UnsignaledMeanwhile, Types
<1>7. WokenMustLock'
  BY DEF WokenMustLock, Signals, Listed, Blocked
<1> QED
  BY <1>1, <1>3, <1>4, <1>5, <1>6, <1>7

LEMMA ResetInv ==
  ASSUME EventInv, NEW t \in Thread, NEW e \in Event, Reset(t, e) \/ IsSignaled(t, e)
  PROVE  EventInv'
<1>1. kernel[e].signaled \in BOOLEAN
  BY DEF EventInv, Types, Kernel
<1>2. (IF kernel[e].signaled THEN -1 ELSE 0) \in Int
  OBVIOUS
<1>3. CASE Reset(t, e)
  BY <1>2, <1>3, FlagInv DEF Reset
<1>4. CASE IsSignaled(t, e)
  <2>1. (kernel[e].signaled /\ ~AutoReset(e)) \in BOOLEAN
    BY <1>1
  <2>2. kernel' = [kernel EXCEPT ![e].signaled = kernel[e].signaled /\ ~AutoReset(e)]
    BY <1>4 DEF IsSignaled
  <2> QED
    BY <1>2, <1>4, <2>1, <2>2, FlagInv DEF IsSignaled
<1> QED
  BY <1>3, <1>4

LEMMA SignalLockInv ==
  ASSUME EventInv, NEW t \in Thread, SignalLock(t)
  PROVE  EventInv'
<1> DEFINE e == call[t].raw[1]
<1>1. /\ call[t].op = "signal" /\ call[t].at = "lock" /\ IsFree(e) /\ UNCHANGED ledger
      /\ e \in Event
  BY SignalerFacts DEF SignalLock
<1>2. call[t] \in CallType /\ CallWellFormed(call[t])
  BY CallFacts
<1>3. CASE kernel[e].signaled
  <2>1. call' = [call EXCEPT ![t] = Idle] /\ UNCHANGED <<kernel, ledger>>
    BY <1>3, <1>1 DEF SignalLock
  <2>2. Idle \in CallType /\ CallWellFormed(Idle) /\ Quiet(Idle)
    BY DEF Idle, CallType, CallWellFormed, Quiet
  <2>3. Quiet(call[t])
    BY <1>1, <1>2 DEF Quiet, CallWellFormed
  <2> QED
    BY <2>1, <2>2, <2>3, QuietInv
<1>4. CASE ~kernel[e].signaled
  <2>1. /\ call' = [call EXCEPT ![t].at = "fire"]
        /\ kernel' = [kernel EXCEPT ![e].lock = t]
    BY <1>4 DEF SignalLock
  <2> HIDE DEF e
  <2>2. /\ \A u \in Thread \ {t} : call'[u] = call[u]
        /\ call'[t] = [call[t] EXCEPT !.at = "fire"]
    BY <2>1 DEF Types, EventInv
  <2>3. /\ \A f \in Event \ {e} : kernel'[f] = kernel[f]
        /\ kernel'[e] = [kernel[e] EXCEPT !.lock = t]
    BY <2>1, <1>1 DEF Types, EventInv
  <2>4. /\ call'[t].op = "signal" /\ call'[t].at = "fire" /\ call'[t].woke = {}
        /\ call'[t].raw = call[t].raw /\ CallWellFormed(call[t])' /\ call'[t] \in CallType
    BY <2>2, <1>1, <1>2 DEF CallType, CallWellFormed
  <2>5. /\ kernel'[e].lock = t /\ kernel'[e].signaled = kernel[e].signaled
        /\ kernel'[e].waiters = kernel[e].waiters /\ kernel'[e] \in Kernel
    BY <2>3, <1>1, KernelFacts DEF Kernel
  <2>6. Types' /\ \A u \in Thread : CallWellFormed(call[u])'
    <3>1. Types'
      BY <2>1, <2>3, <2>5, <2>2, <2>4, <1>1 DEF Types, EventInv
    <3>2. ASSUME NEW u \in Thread PROVE CallWellFormed(call[u])'
      BY <2>2, <2>4, CallFacts
    <3> QED
      BY <3>1, <3>2
  <2>7. ASSUME NEW u \in Thread \ {t}, NEW f \in Event
        PROVE  /\ Holds(u, f)' <=> Holds(u, f)
               /\ Listed(u, f)' <=> Listed(u, f)
               /\ Signals(u)' <=> Signals(u)
    BY <2>2 DEF Holds, Listed, Signals, Blocked
  <2>8. ASSUME NEW f \in Event
        PROVE  /\ Holds(t, f)' <=> f = e
               /\ ~Holds(t, f)
               /\ ~Listed(t, f)
               /\ Signals(t)'
    BY <2>4, <1>1 DEF Holds, Listed, Signals, Blocked, e
  <2>9. LocksHeld'
    <3>1. ASSUME NEW f \in Event, NEW u \in Thread
          PROVE  kernel'[f].lock = u <=> Holds(u, f)'
      <4>1. kernel[f].lock = u <=> Holds(u, f)
        BY DEF EventInv, LocksHeld
      <4>2. f = e => kernel[f].lock # u
        BY <1>1, NoneAssumption DEF IsFree, e
      <4>3. CASE u = t
        BY <4>1, <4>3, <2>8, <2>5, <2>3
      <4>4. CASE u # t
        BY <4>1, <4>2, <4>4, <2>7, <2>5, <2>3
      <4> QED
        BY <4>3, <4>4
    <3> QED
      BY <3>1 DEF LocksHeld
  <2>10. ListsExact'
    BY <2>3, <2>5, <2>7, <2>8, ListsKept
  <2>11. UnsignaledMeanwhile'
    <3>1. ASSUME NEW u \in Thread, Signals(u)' PROVE ~kernel'[call'[u].raw[1]].signaled
      <4>1. CASE u = t
        BY <4>1, <2>4, <2>5, <1>4 DEF e
      <4>2. CASE u # t
        <5>1. Signals(u) /\ call'[u] = call[u]
          BY <4>2, <3>1, <2>7, <2>2, <1>1
        <5>2. call[u].raw[1] \in Event
          BY <5>1, SignalerFacts
        <5>3. ~kernel[call[u].raw[1]].signaled
          BY <5>1 DEF EventInv, UnsignaledMeanwhile
        <5> QED
          BY <5>1, <5>2, <5>3, <2>3, <2>5
      <4> QED
        BY <4>1, <4>2
    <3> QED
      BY <3>1 DEF UnsignaledMeanwhile, Signals
  <2>12. WokenMustLock'
    <3>1. ASSUME NEW u \in Thread, call'[u].woke # {}
          PROVE  /\ call'[u].woke = call[u].woke
                 /\ Signals(u)'
                 /\ call'[u].raw = call[u].raw
      <4>1. u # t
        BY <3>1, <2>4
      <4> QED
        BY <4>1, <3>1, <2>2 DEF EventInv, WokenMustLock, Signals
    <3> QED
      BY <3>1, <2>7, <2>8, WokenKept
  <2> QED
    BY <2>6, <2>9, <2>10, <2>11, <2>12 DEF EventInv
<1> QED
  BY <1>3, <1>4

LEMMA SignalUnlockInv ==
  ASSUME EventInv, NEW t \in Thread, SignalUnlock(t)
  PROVE  EventInv'
<1> DEFINE e == call[t].raw[1]
<1>1. /\ Signals(t) /\ e \in Event /\ kernel[e].lock = t
  BY SignalerFacts DEF SignalUnlock, Signals
<1>2. PICK flag \in BOOLEAN : flag = (call[t].at = "fire")
  OBVIOUS
<1>3. /\ kernel' = [kernel EXCEPT ![e].signaled = flag, ![e].lock = NoThread]
      /\ call' = [call EXCEPT ![t] = Idle]
      /\ ledger' = Entered(e, 1)
  BY <1>2 DEF SignalUnlock
<1> HIDE DEF e
<1>4. /\ \A u \in Thread \ {t} : call'[u] = call[u]
      /\ call'[t] = Idle
  BY <1>3 DEF Types, EventInv
<1>5. /\ \A f \in Event \ {e} : kernel'[f] = kernel[f]
      /\ kernel'[e] = [kernel[e] EXCEPT !.signaled = flag, !.lock = NoThread]
  BY <1>3, <1>1 DEF Types, EventInv
<1>6. /\ kernel'[e].lock = NoThread
      /\ kernel'[e].waiters = kernel[e].waiters /\ kernel'[e] \in Kernel
  BY <1>5, <1>1, KernelFacts DEF Kernel
<1>7. Idle \in CallType /\ CallWellFormed(Idle) /\ Quiet(Idle)
  BY DEF Idle, CallType, CallWellFormed, Quiet
<1>8. Types' /\ \A u \in Thread : CallWellFormed(call[u])'
  <2>1. ledger' \in [Event -> Int]
    <3>1. Entered(e, 1) \in [Event -> Int]
      BY <1>1, EnteredType DEF EventInv, Types
    <3> QED
      BY <3>1, <1>3
  <2>2. Types'
    BY <2>1, <1>3, <1>4, <1>5, <1>6, <1>7, <1>1 DEF Types, EventInv
  <2>3. ASSUME NEW u \in Thread PROVE CallWellFormed(call[u])'
    BY <1>4, <1>7, CallFacts
  <2> QED
    BY <2>2, <2>3
<1>9. ASSUME NEW u \in Thread \ {t}, NEW f \in Event
      PROVE  /\ Holds(u, f)' <=> Holds(u, f)
             /\ Listed(u, f)' <=> Listed(u, f)
             /\ Signals(u)' <=> Signals(u)
  BY <1>4 DEF Holds, Listed, Signals, Blocked
<1>10. ASSUME NEW f \in Event
       PROVE  /\ ~Holds(t, f)'
              /\ ~Listed(t, f)
              /\ ~Signals(t)'
  BY <1>4, <1>1 DEF Holds, Listed, Signals, Blocked, Idle
<1>11. LocksHeld'
  <2>1. ASSUME NEW f \in Event, NEW u \in Thread
        PROVE  kernel'[f].lock = u <=> Holds(u, f)'
    <3>1. kernel[f].lock = u <=> Holds(u, f)
      BY DEF EventInv, LocksHeld
    <3>2. CASE u = t
      <4>1. f # e => kernel[f].lock # t
        BY <1>1, SignalerFacts DEF EventInv, LocksHeld, Holds, Signals, e
      <4> QED
        BY <3>1, <3>2, <4>1, <1>10, <1>6, <1>5, NoneAssumption
    <3>3. CASE u # t
      BY <3>1, <3>3, <1>9, <1>6, <1>5, <1>1, NoneAssumption
    <3> QED
      BY <3>2, <3>3
  <2> QED
    BY <2>1 DEF LocksHeld
<1>12. ListsExact'
  BY <1>5, <1>6, <1>9, <1>10, ListsKept
<1>13. UnsignaledMeanwhile'
  <2>1. ASSUME NEW u \in Thread, Signals(u)'
        PROVE  /\ Signals(u)
               /\ call'[u].raw = call[u].raw
               /\ kernel'[call[u].raw[1]].signaled = kernel[call[u].raw[1]].signaled
    <3>1. u # t
      BY <2>1, <1>10, <1>1
    <3>2. Signals(u) /\ call'[u] = call[u]
      BY <3>1, <2>1, <1>9, <1>4, <1>1
    <3>3. call[u].raw[1] \in Event /\ kernel[call[u].raw[1]].lock = u
      BY <3>2, SignalerFacts
    <3>4. call[u].raw[1] # e
      BY <3>1, <3>3, <1>1
    <3> QED
      BY <3>2, <3>3, <3>4, <1>5
  <2> QED
    BY <2>1, UnsignaledKept
<1>14. WokenMustLock'
  <2>1. ASSUME NEW u \in Thread, call'[u].woke # {}
        PROVE  /\ call'[u].woke = call[u].woke
               /\ Signals(u)'
               /\ call'[u].raw = call[u].raw
    <3>1. u # t
      BY <2>1, <1>4 DEF Idle
    <3> QED
      BY <3>1, <2>1, <1>4 DEF EventInv, WokenMustLock, Signals
  <2> QED
    BY <2>1, <1>9, <1>10, WokenKept
<1> QED
  BY <1>8, <1>11, <1>12, <1>13, <1>14 DEF EventInv

\* The end of a sleep: WakeUp and Expire.
LEMMA SleepEndsInv ==
  ASSUME EventInv, NEW t \in Thread, WakeUp(t) \/ Expire(t)
  PROVE  EventInv'
<1>1. call[t].at = "asleep" /\ UNCHANGED <<kernel, ledger>>
  BY DEF WakeUp, Expire
<1>2. call[t] \in CallType /\ CallWellFormed(call[t])
  BY CallFacts
<1>3. call[t].op = "wait" /\ call[t].woke = {}
  BY <1>1, WaiterFacts DEF Blocked
<1>4. \A u \in Thread \ {t} : call'[u] = call[u]
  BY DEF Types, EventInv, WakeUp, Expire
<1>5. /\ call'[t] \in CallType /\ call'[t].at = "dequeue" /\ call'[t].raw = call[t].raw
      /\ call'[t].count = call[t].count /\ call'[t].woke = {} /\ CallWellFormed(call[t])'
  <2>1. CASE WakeUp(t)
    <3>1. call'[t] = [call[t] EXCEPT !.at = "dequeue", !.result = call[t].by] /\ call[t].fired
      BY <2>1 DEF WakeUp, EventInv, Types
    <3> QED
      BY <3>1, <1>1, <1>2, <1>3 DEF CallType, CallWellFormed
  <2>2. CASE Expire(t)
    <3>1. call'[t] = [call[t] EXCEPT !.at = "dequeue", !.fired = TRUE] /\ ~call[t].fired
      BY <2>2 DEF Expire, EventInv, Types
    <3> QED
      BY <3>1, <1>1, <1>2, <1>3 DEF CallType, CallWellFormed
  <2> QED
    BY <2>1, <2>2
<1>6. Types' /\ \A u \in Thread : CallWellFormed(call[u])'
  <2>1. call' \in [Thread -> CallType]
    <3>1. DOMAIN call' = Thread /\ call' = [u \in Thread |-> call'[u]]
      BY DEF WakeUp, Expire, EventInv, Types
    <3> QED
      BY <3>1, <1>4, <1>5, CallFacts
  <2>2. ASSUME NEW u \in Thread PROVE CallWellFormed(call[u])'
    BY <1>4, <1>5, CallFacts
  <2> QED
    BY <2>1, <2>2, <1>1 DEF Types, EventInv
<1>7. ASSUME NEW u \in Thread, NEW f \in Event
      PROVE  /\ Holds(u, f)' <=> Holds(u, f)
             /\ Listed(u, f)' <=> Listed(u, f)
             /\ Signals(u)' <=> Signals(u)
  <2>1. CASE u = t
    BY <2>1, <1>1, <1>5 DEF Holds, Listed, Signals, Blocked
  <2>2. CASE u # t
    BY <2>2, <1>4 DEF Holds, Listed, Signals, Blocked
  <2> QED
    BY <2>1, <2>2
<1>8. LocksHeld'
  BY <1>1, <1>7 DEF LocksHeld, EventInv
<1>9. ListsExact'
  BY <1>1, <1>7, ListsKept
<1>10. UnsignaledMeanwhile'
  <2>1. ~Signals(t)'
    BY <1>5 DEF Signals
  <2> QED
    BY <1>1, <1>4, <2>1, UnsignaledKept DEF Signals
<1>11. WokenMustLock'
  <2>1. ASSUME NEW u \in Thread, call'[u].woke # {}
        PROVE  /\ call'[u].woke = call[u].woke
               /\ Signals(u)'
               /\ call'[u].raw = call[u].raw
    <3>1. u # t
      BY <2>1, <1>5
    <3> QED
      BY <3>1, <2>1, <1>4 DEF EventInv, WokenMustLock, Signals
  <2> QED
    BY <2>1, <1>7, WokenKept
<1> QED
  BY <1>6, <1>8, <1>9, <1>10, <1>11 DEF EventInv

LEMMA SignalFireInv ==
  ASSUME EventInv, NEW t \in Thread, SignalFire(t)
  PROVE  EventInv'
<1>1. PICK e \in Event : /\ e = call[t].raw[1] /\ Signals(t) /\ call[t].at = "fire"
                         /\ call[t].op = "signal" /\ kernel[e].waiters # <<>>
  BY SignalerFacts DEF SignalFire, Signals
<1>2. PICK q \in Seq(Thread) : q = kernel[e].waiters
  BY <1>1, KernelFacts
<1>3. PICK w \in Thread : w = Head(q) /\ w = q[1] /\ 1 \in DOMAIN q
  BY <1>1, <1>2
<1>4. Listed(w, e)
  BY <1>2, <1>3 DEF EventInv, ListsExact
<1>5. w # t /\ Blocked(w)
  BY <1>4, <1>1 DEF Listed, Blocked, Signals
<1>6. /\ kernel' = [kernel EXCEPT ![e].waiters = Tail(@)] /\ UNCHANGED ledger
      /\ call' = [call EXCEPT
                  ![w] = Fired(w, e),
                  ![t].woke = IF ~call[w].fired THEN @ \cup {w} ELSE @,
                  ![t].at = IF ~call[w].fired /\ AutoReset(e) THEN "unlock" ELSE @]
  BY <1>1, <1>2, <1>3 DEF SignalFire
<1>7. /\ \A u \in Thread \ {t, w} : call'[u] = call[u]
      /\ call'[w] = Fired(w, e)
      /\ call'[t] = [call[t] EXCEPT
                       !.woke = IF ~call[w].fired THEN @ \cup {w} ELSE @,
                       !.at = IF ~call[w].fired /\ AutoReset(e) THEN "unlock" ELSE @]
      /\ call' = [u \in Thread |-> call'[u]]
  <2>1. call \in [Thread -> CallType]
    BY DEF EventInv, Types
  <2> QED
    BY <1>6, <1>3, <1>5, <2>1
<1>8. /\ \A f \in Event \ {e} : kernel'[f] = kernel[f]
      /\ kernel'[e] = [kernel[e] EXCEPT !.waiters = Tail(q)]
      /\ kernel' = [f \in Event |-> kernel'[f]]
  <2> QED
    BY <1>6, <1>2 DEF EventInv, Types
<1>9. /\ call[t] \in CallType /\ CallWellFormed(call[t])
      /\ call[w] \in CallType /\ CallWellFormed(call[w])
  BY CallFacts, <1>3
<1>10. /\ call'[w] \in CallType /\ CallWellFormed(call[w])'
       /\ call'[w].op = call[w].op /\ call'[w].at = call[w].at /\ call'[w].raw = call[w].raw
       /\ call'[w].count = call[w].count /\ call'[w].woke = {}
  <2>1. /\ call[w].op = "wait" /\ call[w].woke = {} /\ call[w].at \in {"asleep", "dequeue"}
    BY <1>5, <1>3, WaiterFacts DEF Blocked
  <2>2. CASE call[w].fired
    BY <2>1, <2>2, <1>7, <1>9 DEF Fired
  <2>3. CASE ~call[w].fired
    <3>1. call'[w] = [call[w] EXCEPT !.fired = TRUE, !.by = e]
      BY <2>3, <1>7 DEF Fired
    <3>2. call[w].at = "asleep"
      BY <2>1, <2>3, <1>9 DEF CallWellFormed
    <3> QED
      BY <3>1, <3>2, <2>1, <1>1, <1>9 DEF CallType, CallWellFormed
  <2> QED
    BY <2>2, <2>3
<1>11. /\ call'[t] \in CallType /\ CallWellFormed(call[t])'
       /\ call'[t].op = "signal" /\ call'[t].at \in {"fire", "unlock"} /\ call'[t].raw = call[t].raw
       /\ call'[t].woke \subseteq call[t].woke \cup {w}
  <2>1. PICK woke \in SUBSET Thread :
          woke = (IF ~call[w].fired THEN call[t].woke \cup {w} ELSE call[t].woke)
    BY <1>9 DEF CallType
  <2>2. PICK at \in {"fire", "unlock"} :
          at = (IF ~call[w].fired /\ AutoReset(e) THEN "unlock" ELSE call[t].at)
    BY <1>1
  <2>3. call'[t] = [call[t] EXCEPT !.woke = woke, !.at = at]
    BY <1>7, <2>1, <2>2
  <2>4. call'[t].woke = woke
    BY <1>9, <2>3 DEF CallType
  <2>5. call'[t].woke \subseteq call[t].woke \cup {w}
    BY <2>1, <2>4
  <2> QED
    BY <2>3, <2>5, <1>1, <1>9 DEF CallType, CallWellFormed
<1>12. /\ kernel'[e].lock = kernel[e].lock /\ kernel'[e].signaled = kernel[e].signaled
       /\ kernel'[e].waiters = Tail(q) /\ kernel'[e] \in Kernel
  <2>1. Tail(q) \in Seq(Thread)
    BY <1>1, <1>2
  <2>2. kernel[e] \in Kernel
    BY <1>1, KernelFacts
  <2> QED
    BY <2>1, <2>2, <1>8 DEF Kernel
<1>13. Types' /\ \A u \in Thread : CallWellFormed(call[u])'
  <2>1. ASSUME NEW u \in Thread PROVE call'[u] \in CallType /\ CallWellFormed(call[u])'
    <3>1. CASE u \notin {t, w}
      <4>1. call'[u] = call[u]
        BY <3>1, <1>7
      <4>2. call[u] \in CallType /\ CallWellFormed(call[u])
        BY CallFacts
      <4> QED
        BY <4>1, <4>2
    <3> QED
      BY <3>1, <1>10, <1>11
  <2>2. ASSUME NEW f \in Event PROVE kernel'[f] \in Kernel
    BY <1>8, <1>12, KernelFacts
  <2>3. call' \in [Thread -> CallType]
    BY <2>1, <1>7
  <2>4. kernel' \in [Event -> Kernel]
    BY <2>2, <1>8
  <2> QED
    BY <2>1, <2>3, <2>4, <1>6 DEF Types, EventInv
<1>14. ASSUME NEW u \in Thread, NEW f \in Event
       PROVE  /\ Holds(u, f)' <=> Holds(u, f)
              /\ Listed(u, f)' <=> Listed(u, f)
              /\ Signals(u)' <=> Signals(u)
              /\ call'[u].raw = call[u].raw
  <2>1. CASE u = t
    BY <2>1, <1>1, <1>11 DEF Holds, Listed, Signals, Blocked
  <2>2. CASE u = w
    BY <2>2, <1>5, <1>10 DEF Holds, Listed, Signals, Blocked
  <2>3. CASE u \notin {t, w}
    <3>1. call'[u] = call[u]
      BY <2>3, <1>7
    <3> QED
      BY <3>1 DEF Holds, Listed, Signals, Blocked
  <2> QED
    BY <2>1, <2>2, <2>3
<1>15. LocksHeld'
  <2>1. \A f \in Event : kernel'[f].lock = kernel[f].lock
    BY <1>8, <1>12
  <2> QED
    BY <2>1, <1>14 DEF LocksHeld, EventInv
<1>16. ListsExact'
  <2>1. ASSUME NEW f \in Event
        PROVE  /\ \A i \in DOMAIN kernel'[f].waiters : Listed(kernel[f].waiters[i], f)'
               /\ \A i, j \in DOMAIN kernel'[f].waiters :
                     kernel'[f].waiters[i] = kernel'[f].waiters[j] => i = j
    <3>1. /\ \A i \in DOMAIN kernel[f].waiters : Listed(kernel[f].waiters[i], f)
          /\ \A i, j \in DOMAIN kernel[f].waiters :
               kernel[f].waiters[i] = kernel[f].waiters[j] => i = j
      BY DEF EventInv, ListsExact
    <3>2. \A i \in DOMAIN kernel[f].waiters : kernel[f].waiters[i] \in Thread
      BY KernelFacts
    <3>3. \A i \in DOMAIN kernel'[f].waiters : \E j \in DOMAIN kernel[f].waiters :
              /\ kernel'[f].waiters[i] = kernel[f].waiters[j]
              /\ j = IF f = e THEN i + 1 ELSE i
      <4>1. CASE f = e
        <5>1. /\ DOMAIN q = 1 .. Len(q) /\ Len(q) \in Nat /\ DOMAIN Tail(q) = 1 .. Len(q) - 1
              /\ \A i \in 1 .. Len(q) - 1 : Tail(q)[i] = q[i + 1]
          BY <1>1, <1>2
        <5>2. kernel'[f].waiters = Tail(q) /\ kernel[f].waiters = q
          BY <4>1, <1>12, <1>2
        <5>3. \A i \in 1 .. Len(q) - 1 : i + 1 \in 1 .. Len(q)
          BY <5>1
        <5> QED
          BY <5>1, <5>2, <5>3, <4>1
      <4>2. CASE f # e
        BY <4>2, <1>8
      <4> QED
        BY <4>1, <4>2
    <3>4. DOMAIN kernel'[f].waiters \subseteq Int
      <4>1. kernel'[f].waiters \in Seq(Thread)
        BY <1>13 DEF Types, Kernel
      <4> QED
        BY <4>1
    <3>5. ASSUME NEW i \in DOMAIN kernel'[f].waiters PROVE Listed(kernel[f].waiters[i], f)'
      <4>1. PICK u \in Thread : u = kernel'[f].waiters[i] /\ Listed(u, f)
        BY <3>1, <3>2, <3>3
      <4>2. Listed(u, f)'
        BY <4>1, <1>14
      <4> QED
        BY <4>1, <4>2 DEF Listed, Blocked
    <3>6. ASSUME NEW i \in DOMAIN kernel'[f].waiters, NEW j \in DOMAIN kernel'[f].waiters,
                 kernel'[f].waiters[i] = kernel'[f].waiters[j]
          PROVE  i = j
      <4>1. (IF f = e THEN i + 1 ELSE i) = (IF f = e THEN j + 1 ELSE j)
        BY <3>1, <3>3, <3>6
      <4> QED
        BY <4>1, <3>4
    <3> QED
      BY <3>5, <3>6
  <2> QED
    BY <2>1 DEF ListsExact
<1>17. UnsignaledMeanwhile'
  <2>1. ASSUME NEW u \in Thread, Signals(u)'
        PROVE  /\ Signals(u)
               /\ call'[u].raw = call[u].raw
               /\ kernel'[call[u].raw[1]].signaled = kernel[call[u].raw[1]].signaled
    <3>1. Signals(u) /\ call'[u].raw = call[u].raw
      BY <2>1, <1>14, <1>1
    <3>2. call[u].raw[1] \in Event
      BY <3>1, SignalerFacts
    <3> QED
      BY <3>1, <3>2, <1>8, <1>12
  <2> QED
    BY <2>1, UnsignaledKept
<1>18. WokenMustLock'
  <2> SUFFICES ASSUME NEW u \in Thread, NEW x \in call'[u].woke
               PROVE  Signals(u)' /\ Listed(x, call[u].raw[1])'
    BY DEF WokenMustLock
  <2>1. u # w
    BY <1>10
  <2>2. CASE u # t
    <3>1. x \in call[u].woke /\ call'[u].raw = call[u].raw
      BY <2>1, <2>2, <1>7
    <3>2. x \in Thread
      BY <3>1, CallFacts DEF CallType
    <3>3. Signals(u) /\ Listed(x, call[u].raw[1])
      BY <3>1 DEF EventInv, WokenMustLock
    <3>4. PICK f \in Event : f = call[u].raw[1]
      BY <3>3, SignalerFacts
    <3>5. Listed(x, f)' /\ Signals(u)'
      BY <3>2, <3>3, <3>4, <1>14
    <3> QED
      BY <3>1, <3>4, <3>5 DEF Listed
  <2>3. CASE u = t
    <3>1. x \in Thread /\ Listed(x, e)
      <4>1. CASE x = w
        BY <4>1, <1>3, <1>4
      <4>2. CASE x # w
        <5>1. x \in call[t].woke
          BY <4>2, <2>3, <1>11
        <5> QED
          BY <5>1, <1>1, <1>9 DEF EventInv, WokenMustLock, CallType
      <4> QED
        BY <4>1, <4>2
    <3>2. Listed(x, e)' /\ Signals(t)'
      BY <3>1, <1>1, <1>14
    <3>3. call'[t].raw[1] = e
      BY <1>11, <1>1
    <3> QED
      BY <2>3, <3>2, <3>3 DEF Listed
  <2> QED
    BY <2>2, <2>3
<1> QED
  BY <1>13, <1>15, <1>16, <1>17, <1>18 DEF EventInv

\* What a WaitMany about to take a lock knows: which one it is, which ones it
\* has, and, if it is the last, that it will have them all.
LEMMA WaitLockFacts ==
  ASSUME EventInv, NEW t \in Thread, WaitLock(t)
  PROVE  \E e \in Event :
           /\ e = InLockOrder(call[t].raw)[call[t].count + 1]
           /\ kernel[e].lock = NoThread
           /\ \A f \in Event :
                ((\E i \in 1 .. call[t].count + 1 : InLockOrder(call[t].raw)[i] = f)
                   <=> f = e \/ kernel[f].lock = t)
           /\ call[t].count + 1 = Len(call[t].raw) =>
                \A f \in Event : f \in ToSet(call[t].raw) <=> f = e \/ kernel[f].lock = t
<1> DEFINE raw == call[t].raw
           n == call[t].count + 1
           s == InLockOrder(raw)
<1>1. call[t].op = "wait" /\ call[t].at = "lock" /\ IsFree(s[n])
  BY DEF WaitLock
<1>2. /\ IsArray(raw) /\ Len(raw) \in Nat /\ DOMAIN raw = 1 .. Len(raw)
      /\ \A i \in 1 .. Len(raw) : raw[i] \in Event
      /\ call[t].count \in Nat /\ n \in 1 .. Len(raw)
  BY <1>1, WaiterFacts
<1>3. /\ s \in [1 .. Len(raw) -> ToSet(raw)]
      /\ \A f \in ToSet(raw) : \E i \in 1 .. Len(raw) : s[i] = f
  BY <1>2, LockOrder
<1>4. ToSet(raw) \subseteq Event
  BY <1>2 DEF ToSet
<1>5. PICK e \in Event : e = s[n]
  BY <1>2, <1>3, <1>4
<1>6. ASSUME NEW f \in Event
      PROVE (\E i \in 1 .. call[t].count : s[i] = f) <=> kernel[f].lock = t
  BY <1>1 DEF EventInv, LocksHeld, Holds, Signals
<1>7. \A i : i \in 1 .. n <=> i \in 1 .. call[t].count \/ i = n
  BY <1>2
<1> HIDE DEF s, n, raw
<1>8. ASSUME NEW f \in Event
      PROVE  (\E i \in 1 .. n : s[i] = f) <=> f = e \/ kernel[f].lock = t
  BY <1>5, <1>6, <1>7
<1>9. n = Len(raw) =>
        \A f \in Event : f \in ToSet(raw) <=> f = e \/ kernel[f].lock = t
  <2> SUFFICES ASSUME n = Len(raw), NEW f \in Event
               PROVE  f \in ToSet(raw) <=> \E i \in 1 .. n : s[i] = f
    BY <1>8
  <2> QED
    BY <1>3
<1> QED
  BY <1>1, <1>5, <1>8, <1>9 DEF s, n, raw, IsFree

LEMMA WaitLockInv ==
  ASSUME EventInv, NEW t \in Thread, WaitLock(t), call[t].count + 1 # Len(call[t].raw)
  PROVE  EventInv'
<1>1. PICK e \in Event :
           /\ e = InLockOrder(call[t].raw)[call[t].count + 1]
           /\ kernel[e].lock = NoThread
           /\ \A f \in Event :
                ((\E i \in 1 .. call[t].count + 1 : InLockOrder(call[t].raw)[i] = f)
                   <=> f = e \/ kernel[f].lock = t)
  BY WaitLockFacts
<1>2. PICK n : n = call[t].count + 1
  OBVIOUS
<1>3. /\ kernel' = [kernel EXCEPT ![e].lock = t]
      /\ call' = [call EXCEPT ![t].count = n]
      /\ call[t].op = "wait" /\ call[t].at = "lock" /\ UNCHANGED ledger
  BY <1>1, <1>2 DEF WaitLock
<1>4. n \in Nat /\ n < Len(call[t].raw)
  BY <1>2, <1>3, WaiterFacts
<1>5. /\ \A u \in Thread \ {t} : call'[u] = call[u]
      /\ call'[t] = [call[t] EXCEPT !.count = n]
  BY <1>3 DEF Types, EventInv
<1>6. /\ \A f \in Event \ {e} : kernel'[f] = kernel[f]
      /\ kernel'[e] = [kernel[e] EXCEPT !.lock = t]
  BY <1>3 DEF Types, EventInv
<1>7. call[t] \in CallType /\ CallWellFormed(call[t])
  BY CallFacts
<1>8. /\ call'[t].op = "wait" /\ call'[t].at = "lock" /\ call'[t].woke = {} /\ call'[t].count = n
      /\ call'[t].raw = call[t].raw /\ CallWellFormed(call[t])' /\ call'[t] \in CallType
  BY <1>3, <1>4, <1>5, <1>7 DEF CallType, CallWellFormed
<1>9. /\ kernel'[e].lock = t /\ kernel'[e].signaled = kernel[e].signaled
      /\ kernel'[e].waiters = kernel[e].waiters /\ kernel'[e] \in Kernel
  BY <1>6, KernelFacts DEF Kernel
<1>10. Types' /\ \A u \in Thread : CallWellFormed(call[u])'
  <2>1. Types'
    BY <1>3, <1>5, <1>6, <1>8, <1>9 DEF Types, EventInv
  <2>2. ASSUME NEW u \in Thread PROVE CallWellFormed(call[u])'
    BY <1>5, <1>8, CallFacts
  <2> QED
    BY <2>1, <2>2
<1>11. ASSUME NEW u \in Thread \ {t}, NEW f \in Event
       PROVE  /\ Holds(u, f)' <=> Holds(u, f)
              /\ Listed(u, f)' <=> Listed(u, f)
              /\ Signals(u)' <=> Signals(u)
  BY <1>5 DEF Holds, Listed, Signals, Blocked
<1>12. ASSUME NEW f \in Event
       PROVE  /\ Holds(t, f)' <=> f = e \/ kernel[f].lock = t
              /\ ~Listed(t, f)
              /\ ~Signals(t)'
  <2>1. Holds(t, f)' <=> \E i \in 1 .. n : InLockOrder(call[t].raw)[i] = f
    BY <1>8 DEF Holds, Signals
  <2> QED
    BY <2>1, <1>1, <1>2, <1>3, <1>8 DEF Listed, Signals, Blocked
<1>13. LocksHeld'
  <2>1. ASSUME NEW f \in Event, NEW u \in Thread
        PROVE  kernel'[f].lock = u <=> Holds(u, f)'
    <3>1. kernel[f].lock = u <=> Holds(u, f)
      BY DEF EventInv, LocksHeld
    <3>2. CASE u = t
      BY <3>1, <3>2, <1>12, <1>9, <1>6
    <3>3. CASE u # t
      <4>1. Holds(u, f)' <=> kernel[f].lock = u
        BY <3>1, <3>3, <1>11
      <4>2. CASE f = e
        BY <4>1, <4>2, <3>3, <1>9, <1>1, NoneAssumption
      <4>3. CASE f # e
        BY <4>1, <4>3, <1>6
      <4> QED
        BY <4>2, <4>3
    <3> QED
      BY <3>2, <3>3
  <2> QED
    BY <2>1 DEF LocksHeld
<1>14. ListsExact'
  <2>1. \A f \in Event : kernel'[f].waiters = kernel[f].waiters
    BY <1>6, <1>9
  <2>2. \A u \in Thread, f \in Event : Listed(u, f) => Listed(u, f)'
    BY <1>11, <1>12
  <2> QED
    BY <2>1, <2>2, ListsKept
<1>15. UnsignaledMeanwhile'
  <2>1. ASSUME NEW u \in Thread, Signals(u)'
        PROVE  /\ Signals(u)
               /\ call'[u].raw = call[u].raw
               /\ kernel'[call[u].raw[1]].signaled = kernel[call[u].raw[1]].signaled
    <3>1. u # t
      BY <2>1, <1>12
    <3>2. Signals(u) /\ call'[u] = call[u]
      BY <3>1, <2>1, <1>11, <1>5
    <3>3. call[u].raw[1] \in Event
      BY <3>2, SignalerFacts
    <3> QED
      BY <3>2, <3>3, <1>6, <1>9
  <2> QED
    BY <2>1, UnsignaledKept
<1>16. WokenMustLock'
  <2>1. ASSUME NEW u \in Thread, call'[u].woke # {}
        PROVE  /\ call'[u].woke = call[u].woke
               /\ Signals(u)'
               /\ call'[u].raw = call[u].raw
    <3>1. u # t
      BY <2>1, <1>8
    <3> QED
      BY <3>1, <2>1, <1>5 DEF EventInv, WokenMustLock, Signals
  <2> QED
    BY <2>1, <1>11, <1>12, WokenKept
<1> QED
  BY <1>10, <1>13, <1>14, <1>15, <1>16 DEF EventInv

\* The place Winner names is that of a signaled event.
LEMMA WinnerFacts ==
  ASSUME EventInv, NEW raw \in Seq(Event)
  PROVE  /\ Winner(raw) # 0 => /\ Winner(raw) \in 1 .. Len(raw)
                               /\ raw[Winner(raw)] \in ToSet(raw)
                               /\ raw[Winner(raw)] \in Event
                               /\ kernel[raw[Winner(raw)]].signaled
         /\ Winner(raw) = 0 => \A e \in ToSet(raw) : ~kernel[e].signaled
<1> DEFINE I == {i \in 1 .. Len(raw) : kernel[raw[i]].signaled}
<1>1. Len(raw) \in Nat /\ I \in SUBSET (1 .. Len(raw)) /\ DOMAIN raw = 1 .. Len(raw)
  OBVIOUS
<1>2. Winner(raw) = IF I # {} THEN Min(I) ELSE 0
  BY DEF Winner, SelectInSeq
<1>3. I # {} => Min(I) \in I
  BY <1>1, FirstPlace
<1>4. CASE I # {}
  <2>1. Winner(raw) \in I
    BY <1>2, <1>3, <1>4
  <2>2. Winner(raw) \in 1 .. Len(raw) /\ kernel[raw[Winner(raw)]].signaled
    BY <2>1
  <2>3. raw[Winner(raw)] \in ToSet(raw) /\ raw[Winner(raw)] \in Event
    BY <2>2, <1>1 DEF ToSet
  <2>4. Winner(raw) # 0
    BY <2>2, <1>1
  <2> QED
    BY <2>2, <2>3, <2>4
<1>5. CASE I = {}
  <2>1. Winner(raw) = 0
    BY <1>2, <1>5
  <2>2. \A e \in ToSet(raw) : ~kernel[e].signaled
    BY <1>5, <1>1 DEF ToSet
  <2> QED
    BY <2>1, <2>2
<1> QED
  BY <1>4, <1>5

\* What both outcomes of EnqueueMany have in common: the locks are free again,
\* and a flag changes only under its lock.
LEMMA DecideFrame ==
  ASSUME EventInv, NEW t \in Thread, WaitLock(t), call[t].count + 1 = Len(call[t].raw),
         Types', CallWellFormed(call[t])', call'[t].woke = {}, call'[t].at \in {"out", "asleep"},
         \A u \in Thread \ {t} : call'[u] = call[u],
         \A f \in Event : f \notin ToSet(call[t].raw) => kernel'[f] = kernel[f],
         \A f \in ToSet(call[t].raw) : kernel'[f].lock = NoThread
  PROVE  /\ \A u \in Thread : CallWellFormed(call[u])'
         /\ LocksHeld' /\ UnsignaledMeanwhile' /\ WokenMustLock'
         /\ \A u \in Thread, f \in Event : Listed(u, f) => u # t /\ Listed(u, f)'
<1>1. PICK e \in Event :
         /\ kernel[e].lock = NoThread
         /\ \A f \in Event : f \in ToSet(call[t].raw) <=> f = e \/ kernel[f].lock = t
  BY WaitLockFacts
<1>2. call[t].op = "wait" /\ call[t].at = "lock"
  BY DEF WaitLock
<1>3. \A u \in Thread : CallWellFormed(call[u])'
  <2>1. ASSUME NEW u \in Thread PROVE CallWellFormed(call[u])'
    BY CallFacts
  <2> QED
    BY <2>1
<1>4. ASSUME NEW u \in Thread \ {t}, NEW f \in Event
      PROVE  /\ Holds(u, f)' <=> Holds(u, f)
             /\ Listed(u, f)' <=> Listed(u, f)
             /\ Signals(u)' <=> Signals(u)
  BY DEF Holds, Listed, Signals, Blocked
<1>5. ASSUME NEW f \in Event
      PROVE  ~Holds(t, f)' /\ ~Listed(t, f) /\ ~Signals(t)'
  BY <1>2 DEF Holds, Listed, Signals, Blocked
<1>6. LocksHeld'
  <2>1. ASSUME NEW f \in Event, NEW u \in Thread
        PROVE  kernel'[f].lock = u <=> Holds(u, f)'
    <3>1. kernel[f].lock = u <=> Holds(u, f)
      BY DEF EventInv, LocksHeld
    <3>2. CASE f \in ToSet(call[t].raw)
      <4>1. kernel'[f].lock # u
        BY <3>2, NoneAssumption
      <4>2. u # t => kernel[f].lock # u
        BY <3>2, <1>1, NoneAssumption
      <4> QED
        BY <4>1, <4>2, <3>1, <1>4, <1>5
    <3>3. CASE f \notin ToSet(call[t].raw)
      <4>1. kernel'[f].lock = kernel[f].lock /\ kernel[f].lock # t
        BY <3>3, <1>1
      <4> QED
        BY <4>1, <3>1, <1>4, <1>5
    <3> QED
      BY <3>2, <3>3
  <2> QED
    BY <2>1 DEF LocksHeld
<1>7. UnsignaledMeanwhile'
  <2>1. ASSUME NEW u \in Thread, Signals(u)'
        PROVE  /\ Signals(u)
               /\ call'[u].raw = call[u].raw
               /\ kernel'[call[u].raw[1]].signaled = kernel[call[u].raw[1]].signaled
    <3>1. u # t
      BY <2>1, <1>5, <1>1
    <3>2. Signals(u) /\ call'[u] = call[u]
      BY <3>1, <2>1, <1>4, <1>1
    <3>3. call[u].raw[1] \in Event /\ kernel[call[u].raw[1]].lock = u
      BY <3>2, SignalerFacts
    <3>4. call[u].raw[1] \notin ToSet(call[t].raw)
      BY <3>1, <3>3, <1>1, NoneAssumption
    <3> QED
      BY <3>2, <3>3, <3>4
  <2> QED
    BY <2>1, UnsignaledKept
<1>8. \A u \in Thread, f \in Event : Listed(u, f) => u # t /\ Listed(u, f)'
  BY <1>4, <1>5
<1>9. WokenMustLock'
  <2>1. ASSUME NEW u \in Thread, call'[u].woke # {}
        PROVE  /\ call'[u].woke = call[u].woke
               /\ Signals(u)'
               /\ call'[u].raw = call[u].raw
    <3>1. u # t
      BY <2>1
    <3> QED
      BY <3>1, <2>1 DEF EventInv, WokenMustLock, Signals
  <2> QED
    BY <2>1, <1>8, WokenKept
<1> QED
  BY <1>3, <1>6, <1>7, <1>8, <1>9

LEMMA DecideInv ==
  ASSUME EventInv, NEW t \in Thread, WaitLock(t), call[t].count + 1 = Len(call[t].raw)
  PROVE  EventInv'
<1>1. PICK raw \in Seq(Event) : raw = call[t].raw /\ raw # <<>>
  BY WaiterFacts DEF WaitLock, IsArray
<1>2. call[t].op = "wait" /\ call[t].at = "lock" /\ Decide(t)
  BY DEF WaitLock
<1>3. ToSet(raw) \subseteq Event /\ DOMAIN raw = 1 .. Len(raw)
  BY DEF ToSet
<1>4. call[t] \in CallType /\ CallWellFormed(call[t])
  BY CallFacts
<1>5. CASE Winner(raw) # 0
  <2>1. PICK v \in Event : v = raw[Winner(raw)]
    BY <1>5, WinnerFacts
  <2>2. /\ call' = [call EXCEPT ![t] = Idle]
        /\ kernel' = [e \in Event |->
              IF e \notin ToSet(raw) THEN kernel[e]
              ELSE [kernel[e] EXCEPT
                      !.lock = NoThread,
                      !.signaled = IF e = v THEN @ /\ ~AutoReset(e) ELSE @]]
        /\ ledger' = Entered(v, -1)
    BY <1>1, <1>2, <1>5, <2>1 DEF Decide
  <2>3. Idle \in CallType /\ CallWellFormed(Idle) /\ Idle.woke = {} /\ Idle.at = "out"
    BY DEF Idle, CallType, CallWellFormed
  <2>4. call' \in [Thread -> CallType] /\ call'[t] = Idle
        /\ \A u \in Thread \ {t} : call'[u] = call[u]
    BY <2>2, <2>3 DEF EventInv, Types
  <2>5. ASSUME NEW f \in Event
        PROVE  /\ kernel'[f] \in Kernel
               /\ f \in ToSet(raw) => kernel'[f].lock = NoThread
               /\ f \notin ToSet(raw) => kernel'[f] = kernel[f]
               /\ kernel'[f].waiters = kernel[f].waiters
    <3>1. kernel[f] \in Kernel
      BY KernelFacts
    <3>2. CASE f \notin ToSet(raw)
      BY <3>1, <3>2, <2>2
    <3>3. CASE f \in ToSet(raw)
      <4>1. PICK flag \in BOOLEAN : flag = IF f = v THEN kernel[f].signaled /\ ~AutoReset(f)
                                            ELSE kernel[f].signaled
        BY <3>1 DEF Kernel
      <4>2. kernel'[f] = [kernel[f] EXCEPT !.lock = NoThread, !.signaled = flag]
        BY <3>3, <4>1, <2>2
      <4> QED
        BY <3>1, <3>3, <4>2 DEF Kernel
    <3> QED
      BY <3>2, <3>3
  <2>6. Types'
    <3>1. kernel' \in [Event -> Kernel]
      <4>1. kernel' = [f \in Event |-> kernel'[f]]
        BY <2>2
      <4> QED
        BY <4>1, <2>5
    <3>2. ledger' \in [Event -> Int]
      <4>1. Entered(v, -1) \in [Event -> Int]
        BY EnteredType DEF EventInv, Types
      <4> QED
        BY <4>1, <2>2
    <3> QED
      BY <3>1, <3>2, <2>4 DEF Types
  <2>7. CallWellFormed(call[t])' /\ call'[t].woke = {} /\ call'[t].at \in {"out", "asleep"}
    BY <2>3, <2>4
  <2>8. /\ \A u \in Thread : CallWellFormed(call[u])'
        /\ LocksHeld' /\ UnsignaledMeanwhile' /\ WokenMustLock'
        /\ \A u \in Thread, f \in Event : Listed(u, f) => u # t /\ Listed(u, f)'
    BY <1>1, <1>3, <2>4, <2>5, <2>6, <2>7, DecideFrame
  <2>9. ListsExact'
    BY <2>5, <2>8, ListsKept
  <2> QED
    BY <2>6, <2>8, <2>9 DEF EventInv
<1>6. CASE Winner(raw) = 0
  <2>2. /\ call' = [call EXCEPT ![t].at = "asleep", ![t].count = 0]
        /\ kernel' = [e \in Event |->
              IF e \notin ToSet(raw) THEN kernel[e]
              ELSE [kernel[e] EXCEPT !.lock = NoThread, !.waiters = Append(@, t)]]
        /\ UNCHANGED ledger
    BY <1>1, <1>2, <1>6 DEF Decide
  <2>3. call'[t] = [call[t] EXCEPT !.at = "asleep", !.count = 0]
        /\ \A u \in Thread \ {t} : call'[u] = call[u]
    BY <2>2 DEF EventInv, Types
  <2>4. /\ call'[t] \in CallType /\ CallWellFormed(call[t])' /\ call'[t].woke = {}
        /\ call'[t].at = "asleep" /\ call'[t].raw = raw /\ call'[t].count = 0
    <3>1. Len(raw) > 0 /\ IsArray(raw)
      BY <1>1, <1>2, <1>4 DEF CallWellFormed
    <3>2. call'[t] \in CallType
      <4>1. \A c \in CallType : [c EXCEPT !.at = "asleep", !.count = 0] \in CallType
        BY DEF CallType
      <4> QED
        BY <4>1, <1>4, <2>3
    <3>3. /\ call'[t].at = "asleep" /\ call'[t].count = 0 /\ call'[t].raw = raw
          /\ call'[t].op = "wait" /\ call'[t].woke = call[t].woke /\ call'[t].by = call[t].by
          /\ call'[t].fired = call[t].fired /\ call'[t].result = call[t].result
      BY <1>1, <1>2, <1>4, <2>3 DEF CallType
    <3> QED
      BY <1>2, <1>4, <3>1, <3>2, <3>3 DEF CallWellFormed
  <2>5. ASSUME NEW f \in Event
        PROVE  /\ kernel'[f] \in Kernel
               /\ f \in ToSet(raw) => /\ kernel'[f].lock = NoThread
                                      /\ kernel'[f].waiters = Append(kernel[f].waiters, t)
               /\ f \notin ToSet(raw) => kernel'[f] = kernel[f]
    <3>1. kernel[f] \in Kernel /\ kernel[f].waiters \in Seq(Thread)
      BY KernelFacts
    <3>2. CASE f \notin ToSet(raw)
      BY <3>1, <3>2, <2>2
    <3>3. CASE f \in ToSet(raw)
      <4>1. PICK q \in Seq(Thread) : q = Append(kernel[f].waiters, t)
        <5>1. \A q \in Seq(Thread) : Append(q, t) \in Seq(Thread)
          OBVIOUS
        <5> QED
          BY <3>1, <5>1
      <4>2. kernel'[f] = [kernel[f] EXCEPT !.lock = NoThread, !.waiters = q]
        BY <3>3, <4>1, <2>2
      <4>3. kernel'[f] \in Kernel /\ kernel'[f].lock = NoThread /\ kernel'[f].waiters = q
        BY <3>1, <4>2 DEF Kernel
      <4> QED
        BY <3>3, <4>1, <4>3
    <3> QED
      BY <3>2, <3>3
  <2>6. Types'
    <3>1. kernel' \in [Event -> Kernel]
      <4>1. kernel' = [f \in Event |-> kernel'[f]]
        BY <2>2
      <4> QED
        BY <4>1, <2>5
    <3>2. call' \in [Thread -> CallType]
      BY <2>2, <2>3, <2>4 DEF EventInv, Types
    <3> QED
      BY <3>1, <3>2, <2>2 DEF Types, EventInv
  <2>7. CallWellFormed(call[t])' /\ call'[t].woke = {} /\ call'[t].at \in {"out", "asleep"}
    BY <2>4
  <2>8. /\ \A u \in Thread : CallWellFormed(call[u])'
        /\ LocksHeld' /\ UnsignaledMeanwhile' /\ WokenMustLock'
        /\ \A u \in Thread, f \in Event : Listed(u, f) => u # t /\ Listed(u, f)'
    BY <1>1, <1>3, <2>3, <2>5, <2>6, <2>7, DecideFrame
  <2>9. ListsExact'
    <3>1. ASSUME NEW f \in Event
          PROVE  /\ \A i \in DOMAIN kernel'[f].waiters : Listed(kernel[f].waiters[i], f)'
                 /\ \A i, j \in DOMAIN kernel'[f].waiters :
                       kernel'[f].waiters[i] = kernel'[f].waiters[j] => i = j
      <4>1. PICK q \in Seq(Thread) :
              /\ q = kernel[f].waiters
              /\ \A i \in 1 .. Len(q) : Listed(q[i], f)
              /\ \A i, j \in 1 .. Len(q) : q[i] = q[j] => i = j
        BY KernelFacts DEF EventInv, ListsExact
      <4>2. \A i \in 1 .. Len(q) : q[i] \in Thread /\ q[i] # t /\ Listed(q[i], f)'
        BY <4>1, <2>8
      <4>3. CASE f \notin ToSet(raw)
        <5>1. kernel'[f].waiters = q
          BY <4>1, <4>3, <2>5
        <5>2. DOMAIN q = 1 .. Len(q)
          OBVIOUS
        <5>3. \A i \in 1 .. Len(q) : Listed(kernel[f].waiters[i], f)'
          BY <5>1, <4>2 DEF Listed, Blocked
        <5> QED
          BY <5>1, <5>2, <5>3, <4>1
      <4>4. CASE f \in ToSet(raw)
        <5>1. PICK r : r = Append(q, t)
          OBVIOUS
        <5>2. kernel'[f].waiters = r
          BY <5>1, <4>1, <4>4, <2>5
        <5>3. /\ DOMAIN r = 1 .. Len(q) + 1 /\ Len(q) \in Nat
              /\ \A i \in 1 .. Len(q) : r[i] = q[i]
              /\ r[Len(q) + 1] = t
          BY <5>1
        <5>4. Listed(t, f)'
          <6>1. PICK j \in DOMAIN raw : raw[j] = f
            BY <4>4 DEF ToSet
          <6>2. 0 < j
            BY <1>3
          <6> QED
            BY <6>1, <6>2, <2>4 DEF Listed, Blocked
        <5>5. \A i \in 1 .. Len(q) + 1 : i \in 1 .. Len(q) \/ i = Len(q) + 1
          BY <5>3
        <5>6. ASSUME NEW i \in 1 .. Len(q) + 1 PROVE Listed(kernel[f].waiters[i], f)'
          <6>1. CASE i \in 1 .. Len(q)
            BY <6>1, <5>2, <5>3, <4>2 DEF Listed, Blocked
          <6>2. CASE i = Len(q) + 1
            BY <6>2, <5>2, <5>3, <5>4 DEF Listed, Blocked
          <6> QED
            BY <6>1, <6>2, <5>5
        <5>7. ASSUME NEW i \in 1 .. Len(q) + 1, NEW j \in 1 .. Len(q) + 1, r[i] = r[j]
              PROVE  i = j
          BY <5>7, <5>3, <5>5, <4>1, <4>2
        <5> QED
          BY <5>2, <5>3, <5>6, <5>7
      <4> QED
        BY <4>3, <4>4
    <3> QED
      BY <3>1 DEF ListsExact
  <2> QED
    BY <2>6, <2>8, <2>9 DEF EventInv
<1> QED
  BY <1>5, <1>6

LEMMA DequeueInv ==
  ASSUME EventInv, NEW t \in Thread, Dequeue(t)
  PROVE  EventInv'
<1>1. PICK n : n = call[t].count + 1
  OBVIOUS
<1>2. /\ call[t].at = "dequeue" /\ Blocked(t) /\ IsFree(call[t].raw[n])
  BY <1>1 DEF Dequeue, Blocked
<1>3. /\ call[t].op = "wait" /\ call[t].woke = {} /\ n \in Nat /\ n \in 1 .. Len(call[t].raw)
      /\ Len(call[t].raw) \in Nat /\ DOMAIN call[t].raw = 1 .. Len(call[t].raw)
      /\ \A i \in 1 .. Len(call[t].raw) : call[t].raw[i] \in Event
  BY <1>1, <1>2, WaiterFacts
<1>4. PICK e \in Event : e = call[t].raw[n] /\ kernel[e].lock = NoThread
  BY <1>2, <1>3 DEF IsFree
<1>5. PICK q \in Seq(Thread) :
        /\ q = kernel[e].waiters
        /\ \A i \in 1 .. Len(q) : Listed(q[i], e)
        /\ \A i, j \in 1 .. Len(q) : q[i] = q[j] => i = j
  BY KernelFacts DEF EventInv, ListsExact
<1>6. PICK r \in Seq(Thread) :
        /\ r = RemoveFirst(q, t)
        /\ \A i \in 1 .. Len(r) : r[i] # t /\ \E k \in 1 .. Len(q) : r[i] = q[k]
        /\ \A i, j \in 1 .. Len(r) : r[i] = r[j] => i = j
  BY <1>5, RemoveFirstFacts
<1>7. /\ kernel' = [kernel EXCEPT ![e].waiters = r]
      /\ IF n = Len(call[t].raw)
           THEN /\ call' = [call EXCEPT ![t] = Idle]
                /\ ledger' = IF call[t].result = NoEvent THEN ledger
                             ELSE Entered(call[t].result, -1)
           ELSE /\ call' = [call EXCEPT ![t].count = n]
                /\ UNCHANGED ledger
  BY <1>1, <1>4, <1>5, <1>6 DEF Dequeue
<1>8. /\ \A u \in Thread \ {t} : call'[u] = call[u]
      /\ IF n = Len(call[t].raw) THEN call'[t] = Idle
         ELSE call'[t] = [call[t] EXCEPT !.count = n]
      /\ call' = [u \in Thread |-> call'[u]]
  BY <1>7 DEF EventInv, Types
<1>9. /\ \A f \in Event \ {e} : kernel'[f] = kernel[f]
      /\ kernel'[e] = [kernel[e] EXCEPT !.waiters = r]
      /\ kernel' = [f \in Event |-> kernel'[f]]
  BY <1>7 DEF EventInv, Types
<1>10. /\ kernel'[e].lock = kernel[e].lock /\ kernel'[e].signaled = kernel[e].signaled
       /\ kernel'[e].waiters = r /\ kernel'[e] \in Kernel
  BY <1>9, KernelFacts DEF Kernel
<1>11. call[t] \in CallType /\ CallWellFormed(call[t])
  BY CallFacts
<1>12. /\ call'[t] \in CallType /\ CallWellFormed(call[t])' /\ call'[t].woke = {}
       /\ call'[t].at \in {"out", "dequeue"}
  <2>1. CASE n = Len(call[t].raw)
    <3>1. Idle \in CallType /\ CallWellFormed(Idle) /\ Idle.woke = {} /\ Idle.at = "out"
      BY DEF Idle, CallType, CallWellFormed
    <3> QED
      BY <2>1, <3>1, <1>8
  <2>2. CASE n # Len(call[t].raw)
    <3>1. n < Len(call[t].raw)
      BY <2>2, <1>3
    <3>2. call'[t] = [call[t] EXCEPT !.count = n]
      BY <2>2, <1>8
    <3> QED
      BY <3>1, <3>2, <1>2, <1>3, <1>11 DEF CallType, CallWellFormed
  <2> QED
    BY <2>1, <2>2
<1>13. Types' /\ \A u \in Thread : CallWellFormed(call[u])'
  <2>1. ASSUME NEW u \in Thread PROVE call'[u] \in CallType /\ CallWellFormed(call[u])'
    BY <1>8, <1>12, CallFacts
  <2>2. ASSUME NEW f \in Event PROVE kernel'[f] \in Kernel
    BY <1>9, <1>10, KernelFacts
  <2>3. ledger' \in [Event -> Int]
    <3>1. ledger \in [Event -> Int]
      BY DEF EventInv, Types
    <3>2. call[t].result # NoEvent => Entered(call[t].result, -1) \in [Event -> Int]
      <4>1. call[t].result \in Event \cup {NoEvent}
        BY <1>11 DEF CallType
      <4>2. ASSUME NEW f \in Event PROVE Entered(f, -1) \in [Event -> Int]
        <5>1. -1 \in Int
          OBVIOUS
        <5> QED
          BY <3>1, <5>1, EnteredType
      <4> QED
        BY <4>1, <4>2
    <3> QED
      BY <3>1, <3>2, <1>7
  <2> QED
    BY <2>1, <2>2, <2>3, <1>8, <1>9 DEF Types
<1>14. ASSUME NEW u \in Thread, NEW f \in Event
       PROVE  /\ Holds(u, f)' <=> Holds(u, f)
              /\ Signals(u)' <=> Signals(u)
              /\ u # t \/ f # e => (Listed(u, f) => Listed(u, f)')
  <2>1. CASE u # t
    BY <2>1, <1>8 DEF Holds, Listed, Signals, Blocked
  <2>2. CASE u = t
    <3>1. ~Holds(t, f)' /\ ~Holds(t, f) /\ ~Signals(t)' /\ ~Signals(t)
      BY <1>2, <1>12 DEF Holds, Signals
    <3>2. ASSUME f # e, Listed(t, f) PROVE Listed(t, f)'
      <4>1. PICK j \in 1 .. Len(call[t].raw) : call[t].count < j /\ call[t].raw[j] = f
        BY <3>2, <1>3 DEF Listed
      <4>2. j # n
        BY <4>1, <3>2, <1>4
      <4>3. n < j /\ n # Len(call[t].raw)
        BY <4>1, <4>2, <1>1, <1>3, <1>11 DEF CallType
      <4>4. call'[t] = [call[t] EXCEPT !.count = n]
        BY <4>3, <1>8
      <4>5. call'[t].count = n /\ call'[t].raw = call[t].raw /\ call'[t].at = "dequeue"
        BY <4>4, <1>11, <1>2 DEF CallType
      <4> QED
        BY <4>1, <4>3, <4>5, <1>3 DEF Listed, Blocked
    <3> QED
      BY <2>2, <3>1, <3>2
  <2> QED
    BY <2>1, <2>2
<1>15. LocksHeld'
  <2>1. \A f \in Event : kernel'[f].lock = kernel[f].lock
    BY <1>9, <1>10
  <2> QED
    BY <2>1, <1>14 DEF LocksHeld, EventInv
<1>16. ListsExact'
  <2>1. ASSUME NEW f \in Event
        PROVE  /\ \A i \in DOMAIN kernel'[f].waiters : Listed(kernel[f].waiters[i], f)'
               /\ \A i, j \in DOMAIN kernel'[f].waiters :
                     kernel'[f].waiters[i] = kernel'[f].waiters[j] => i = j
    <3>1. CASE f = e
      <4>1. kernel'[f].waiters = r /\ DOMAIN r = 1 .. Len(r)
        BY <3>1, <1>10
      <4>2. ASSUME NEW i \in 1 .. Len(r) PROVE Listed(kernel[f].waiters[i], f)'
        <5>1. PICK u \in Thread : u = r[i] /\ u # t /\ Listed(u, f)
          BY <1>5, <1>6, <3>1
        <5>2. Listed(u, f)'
          BY <5>1, <1>14
        <5> QED
          BY <5>1, <5>2, <4>1 DEF Listed, Blocked
      <4> QED
        BY <4>1, <4>2, <1>6
    <3>2. CASE f # e
      <4>1. kernel'[f].waiters = kernel[f].waiters
        BY <3>2, <1>9
      <4>2. ASSUME NEW i \in DOMAIN kernel[f].waiters PROVE Listed(kernel[f].waiters[i], f)'
        <5>1. PICK u \in Thread : u = kernel[f].waiters[i] /\ Listed(u, f)
          BY KernelFacts DEF EventInv, ListsExact
        <5>2. Listed(u, f)'
          BY <5>1, <3>2, <1>14
        <5> QED
          BY <5>1, <5>2, <4>1 DEF Listed, Blocked
      <4> QED
        BY <4>1, <4>2 DEF EventInv, ListsExact
    <3> QED
      BY <3>1, <3>2
  <2> QED
    BY <2>1 DEF ListsExact
<1>17. UnsignaledMeanwhile'
  <2>1. ASSUME NEW u \in Thread, Signals(u)'
        PROVE  /\ Signals(u)
               /\ call'[u].raw = call[u].raw
               /\ kernel'[call[u].raw[1]].signaled = kernel[call[u].raw[1]].signaled
    <3>1. u # t
      BY <2>1, <1>12 DEF Signals
    <3>2. Signals(u) /\ call'[u] = call[u]
      BY <3>1, <2>1, <1>14, <1>8
    <3>3. call[u].raw[1] \in Event
      BY <3>2, SignalerFacts
    <3> QED
      BY <3>2, <3>3, <1>9, <1>10
  <2> QED
    BY <2>1, UnsignaledKept
<1>18. WokenMustLock'
  <2> SUFFICES ASSUME NEW u \in Thread, NEW x \in call'[u].woke
               PROVE  Signals(u)' /\ Listed(x, call[u].raw[1])'
    BY DEF WokenMustLock
  <2>1. u # t
    BY <1>12
  <2>2. x \in call[u].woke /\ call'[u] = call[u]
    BY <2>1, <1>8
  <2>3. x \in Thread
    BY <2>2, CallFacts DEF CallType
  <2>4. Signals(u) /\ Listed(x, call[u].raw[1])
    BY <2>2 DEF EventInv, WokenMustLock
  <2>5. PICK f \in Event : f = call[u].raw[1] /\ kernel[f].lock = u
    BY <2>4, SignalerFacts
  <2>6. f # e
    BY <2>5, <1>4, NoneAssumption
  <2>7. Listed(x, f)' /\ Signals(u)'
    BY <2>3, <2>4, <2>5, <2>6, <1>14
  <2> QED
    BY <2>2, <2>5, <2>7 DEF Listed
<1> QED
  BY <1>13, <1>15, <1>16, <1>17, <1>18 DEF EventInv

\* Whatever happens to events keeps EventInv.
LEMMA EventNextInv ==
  ASSUME EventInv, [EventNext]_eventVars
  PROVE  EventInv'
<1>1. CASE UNCHANGED eventVars
  <2>1. kernel' = kernel /\ call' = call /\ ledger' = ledger
    BY <1>1 DEF eventVars
  <2> QED
    BY <2>1 DEF EventInv, Types, CallWellFormed, LocksHeld, Holds, ListsExact, Listed,
                UnsignaledMeanwhile, WokenMustLock, Signals, Blocked
<1>2. CASE EventNext
  <2>1. PICK t \in Thread :
          \/ EventStep(t)
          \/ Expire(t)
          \/ \E e \in Event : CallSignal(t, e) \/ Reset(t, e) \/ IsSignaled(t, e)
          \/ \E raw, timed : /\ IsArray(raw) /\ timed \in BOOLEAN
                             /\ CallWait(t, raw, timed)
    BY <1>2 DEF EventNext
  <2>2. CASE EventStep(t)
    BY <2>2, SignalLockInv, SignalFireInv, SignalUnlockInv, WaitLockInv, DecideInv,
       SleepEndsInv, DequeueInv DEF EventStep
  <2>3. CASE Expire(t)
    BY <2>3, SleepEndsInv
  <2>4. CASE \E e \in Event : CallSignal(t, e) \/ Reset(t, e) \/ IsSignaled(t, e)
    BY <2>4, CallSignalInv, ResetInv
  <2>5. CASE \E raw, timed : /\ IsArray(raw) /\ timed \in BOOLEAN
                             /\ CallWait(t, raw, timed)
    BY <2>5, CallWaitInv
  <2> QED
    BY <2>1, <2>2, <2>3, <2>4, <2>5
<1> QED
  BY <1>1, <1>2

-----------------------------------------------------------------------------
(***************************************************************************)
(* A signal is neither lost nor used twice: both sides of SignalConserved  *)
(* change by the same amount, because each step moves one thread in or out *)
(* of Completing and one in or out of Releasing.                           *)
(***************************************************************************)

One(b) == IF b THEN 1 ELSE 0

Conserved(e) ==
  ledger[e] + Cardinality(Completing(e)) =
    Cardinality(Releasing(e)) + One(kernel[e].signaled)

\* The size of a set of threads one thread has joined or left.
LEMMA OneThread ==
  ASSUME NEW A \in SUBSET Thread, NEW B \in SUBSET Thread, NEW t \in Thread,
         \A u \in Thread : u # t => (u \in A <=> u \in B)
  PROVE  /\ Cardinality(A) \in Nat /\ Cardinality(B) \in Nat
         /\ Cardinality(B) = Cardinality(A) + One(t \in B) - One(t \in A)
<1>1. /\ IsFiniteSet(A) /\ Cardinality(A) \in Nat
      /\ IsFiniteSet(B) /\ Cardinality(B) \in Nat
  BY ThreadAssumption, FS_Subset, FS_CardinalityType
<1>2. CASE t \in A /\ t \notin B
  <2>1. B = A \ {t}
    BY <1>2
  <2>2. Cardinality(A \ {t}) = Cardinality(A) - 1
    BY <1>1, <1>2, FS_RemoveElement
  <2> QED
    BY <1>1, <1>2, <2>1, <2>2 DEF One
<1>3. CASE t \notin A /\ t \in B
  <2>1. A = B \ {t}
    BY <1>3
  <2>2. Cardinality(B \ {t}) = Cardinality(B) - 1
    BY <1>1, <1>3, FS_RemoveElement
  <2> QED
    BY <1>1, <1>3, <2>1, <2>2 DEF One
<1>4. CASE t \in A <=> t \in B
  <2>1. A = B
    BY <1>4
  <2> QED
    BY <1>1, <2>1 DEF One
<1> QED
  BY <1>2, <1>3, <1>4

LEMMA BalanceStep ==
  ASSUME EventInv, EventInv', NEW e \in Event, Conserved(e),
         NEW t \in Thread, NEW w \in Thread,
         \A u \in Thread : u # t => (u \in Completing(e)' <=> u \in Completing(e)),
         \A u \in Thread : u # w => (u \in Releasing(e)' <=> u \in Releasing(e)),
         ledger'[e] - ledger[e] + One(t \in Completing(e)') - One(t \in Completing(e))
           = One(w \in Releasing(e)') - One(w \in Releasing(e))
             + One(kernel'[e].signaled) - One(kernel[e].signaled)
  PROVE  Conserved(e)'
<1> DEFINE C == Completing(e)  D == Completing(e)'
           R == Releasing(e)   S == Releasing(e)'
<1>1. C \in SUBSET Thread /\ D \in SUBSET Thread /\ R \in SUBSET Thread /\ S \in SUBSET Thread
  BY DEF Completing, Releasing
<1>2. /\ Cardinality(C) \in Nat /\ Cardinality(D) \in Nat
      /\ Cardinality(D) = Cardinality(C) + One(t \in D) - One(t \in C)
  <2>1. \A u \in Thread : u # t => (u \in C <=> u \in D)
    OBVIOUS
  <2> HIDE DEF C, D
  <2> QED
    BY <1>1, <2>1, OneThread
<1>3. /\ Cardinality(R) \in Nat /\ Cardinality(S) \in Nat
      /\ Cardinality(S) = Cardinality(R) + One(w \in S) - One(w \in R)
  <2>1. \A u \in Thread : u # w => (u \in R <=> u \in S)
    OBVIOUS
  <2> HIDE DEF R, S
  <2> QED
    BY <1>1, <2>1, OneThread
<1>4. ledger[e] \in Int /\ ledger'[e] \in Int
  BY DEF EventInv, Types
<1>5. \A b : One(b) \in Int
  BY DEF One
<1>6. ledger[e] + Cardinality(C) = Cardinality(R) + One(kernel[e].signaled)
  BY DEF Conserved
<1>7. ledger'[e] - ledger[e] + One(t \in D) - One(t \in C)
           = One(w \in S) - One(w \in R)
             + One(kernel'[e].signaled) - One(kernel[e].signaled)
  OBVIOUS
<1> HIDE DEF C, D, R, S
<1>8. ledger'[e] + Cardinality(D) = Cardinality(S) + One(kernel'[e].signaled)
  <2>1. PICK p \in Int, q \in Int : p = One(t \in D) /\ q = One(t \in C)
    BY <1>5
  <2>2. PICK x \in Int, y \in Int : x = One(w \in S) /\ y = One(w \in R)
    BY <1>5
  <2>3. PICK g \in Int, f \in Int : g = One(kernel'[e].signaled) /\ f = One(kernel[e].signaled)
    BY <1>5
  <2>4. PICK c \in Int, d \in Int : c = Cardinality(C) /\ d = Cardinality(D) /\ d = c + p - q
    BY <1>2, <2>1
  <2>5. PICK r \in Int, s \in Int : r = Cardinality(R) /\ s = Cardinality(S) /\ s = r + x - y
    BY <1>3, <2>2
  <2>6. PICK a \in Int, b \in Int : a = ledger[e] /\ b = ledger'[e]
    BY <1>4
  <2>7. a + c = r + f /\ b - a + p - q = x - y + g - f
    BY <1>6, <1>7, <2>1, <2>2, <2>3, <2>4, <2>5, <2>6
  <2>8. b + d = s + g
    <3>1. /\ p \in Int /\ q \in Int /\ x \in Int /\ y \in Int /\ g \in Int /\ f \in Int
          /\ c \in Int /\ d \in Int /\ r \in Int /\ s \in Int /\ a \in Int /\ b \in Int
          /\ d = c + p - q /\ s = r + x - y
      BY <2>1, <2>2, <2>3, <2>4, <2>5, <2>6
    <3> QED
      BY <3>1, <2>7
  <2> QED
    BY <2>3, <2>4, <2>5, <2>6, <2>8
<1> QED
  BY <1>8 DEF Conserved, D, S, One

\* Where a thread is in the balance of an event.
LEMMA InBalance ==
  ASSUME NEW t \in Thread, NEW e \in Event
  PROVE  /\ t \in Completing(e) <=> call[t].at = "unlock" /\ call[t].raw[1] = e
         /\ t \in Releasing(e) <=> \/ call[t].at = "asleep" /\ call[t].by = e
                                   \/ call[t].at = "dequeue" /\ call[t].result = e
         /\ t \in Completing(e)' <=> call'[t].at = "unlock" /\ call'[t].raw[1] = e
         /\ t \in Releasing(e)' <=> \/ call'[t].at = "asleep" /\ call'[t].by = e
                                    \/ call'[t].at = "dequeue" /\ call'[t].result = e
BY DEF Completing, Releasing

\* Steps of one thread.
LEMMA OneThreadStep ==
  ASSUME EventInv, EventInv', NEW e \in Event, Conserved(e), NEW t \in Thread,
         \A u \in Thread \ {t} : call'[u] = call[u],
         ledger'[e] - ledger[e] + One(t \in Completing(e)') - One(t \in Completing(e))
           = One(t \in Releasing(e)') - One(t \in Releasing(e))
             + One(kernel'[e].signaled) - One(kernel[e].signaled)
  PROVE  Conserved(e)'
<1>1. ASSUME NEW u \in Thread, u # t
      PROVE  /\ u \in Completing(e)' <=> u \in Completing(e)
             /\ u \in Releasing(e)' <=> u \in Releasing(e)
  BY <1>1, InBalance
<1> QED
  BY <1>1, BalanceStep

\* ... that leave the flag and the ledger alone, and the thread in its place.
LEMMA IdleStep ==
  ASSUME EventInv, EventInv', NEW e \in Event, Conserved(e), NEW t \in Thread,
         \A u \in Thread \ {t} : call'[u] = call[u],
         ledger'[e] = ledger[e], kernel'[e].signaled = kernel[e].signaled,
         t \in Completing(e)' <=> t \in Completing(e),
         t \in Releasing(e)' <=> t \in Releasing(e)
  PROVE  Conserved(e)'
<1>1. ledger[e] \in Int
  BY DEF EventInv, Types
<1>2. \A b : One(b) \in Int
  BY DEF One
<1>3. /\ One(t \in Completing(e)') = One(t \in Completing(e))
      /\ One(t \in Releasing(e)') = One(t \in Releasing(e))
  BY DEF One
<1>4. ledger'[e] - ledger[e] + One(t \in Completing(e)') - One(t \in Completing(e))
           = One(t \in Releasing(e)') - One(t \in Releasing(e))
             + One(kernel'[e].signaled) - One(kernel[e].signaled)
  BY <1>1, <1>2, <1>3
<1> QED
  BY <1>4, OneThreadStep

\* What Entered adds to the ledger of an event.
LEMMA EnteredFacts ==
  ASSUME EventInv, NEW e \in Event, NEW f \in Event \ ManualReset, NEW n \in Int
  PROVE  Entered(e, n)[f] = IF f = e THEN ledger[f] + n ELSE ledger[f]
BY DEF Entered, AutoReset, EventInv, Types

LEMMA BeginBalance ==
  ASSUME EventInv, EventInv', NEW f \in Event, Conserved(f), NEW t \in Thread,
         \/ \E e : CallSignal(t, e)
         \/ \E raw, timed : CallWait(t, raw, timed)
         \/ WakeUp(t) \/ Expire(t)
  PROVE  Conserved(f)'
<1>1. UNCHANGED <<kernel, ledger>> /\ \A u \in Thread \ {t} : call'[u] = call[u]
  BY DEF CallSignal, CallWait, WakeUp, Expire, EventInv, Types
<1>2. /\ call[t] \in CallType /\ CallWellFormed(call[t])
      /\ call'[t] \in CallType /\ CallWellFormed(call[t])'
  BY DEF EventInv, Types
<1>3. (t \in Completing(f)' <=> t \in Completing(f)) /\ (t \in Releasing(f)' <=> t \in Releasing(f))
  <2>1. CASE \E e : CallSignal(t, e) \/ \E raw, timed : CallWait(t, raw, timed)
    <3>1. call[t].at = "out" /\ call'[t].at = "lock"
      <4>1. call[t] = Idle /\ Idle.at = "out"
        BY <2>1 DEF CallSignal, CallWait, Idle
      <4>2. CASE \E e : CallSignal(t, e)
        <5>1. PICK c : call' = [call EXCEPT ![t] = c] /\ c.at = "lock"
          <6>1. PICK raw : call' = [call EXCEPT ![t] =
                     [Idle EXCEPT !.op = "signal", !.at = "lock", !.raw = raw]]
            BY <4>2 DEF CallSignal
          <6>2. [Idle EXCEPT !.op = "signal", !.at = "lock", !.raw = raw].at = "lock"
            BY DEF Idle
          <6> QED
            BY <6>1, <6>2
        <5> QED
          BY <4>1, <5>1 DEF EventInv, Types
      <4>3. CASE \E raw, timed : CallWait(t, raw, timed)
        <5>1. PICK c : call' = [call EXCEPT ![t] = c] /\ c.at = "lock"
          <6>1. PICK raw, timed : call' = [call EXCEPT ![t] =
                     [Idle EXCEPT !.op = "wait", !.at = "lock", !.raw = raw, !.timed = timed]]
            BY <4>3 DEF CallWait
          <6>2. [Idle EXCEPT !.op = "wait", !.at = "lock", !.raw = raw, !.timed = timed].at = "lock"
            BY DEF Idle
          <6> QED
            BY <6>1, <6>2
        <5> QED
          BY <4>1, <5>1 DEF EventInv, Types
      <4> QED
        BY <2>1, <4>2, <4>3
    <3> QED
      BY <3>1, InBalance
  <2>2. CASE WakeUp(t)
    <3>1. call[t].at = "asleep" /\ call'[t] = [call[t] EXCEPT !.at = "dequeue", !.result = call[t].by]
      BY <2>2 DEF WakeUp, EventInv, Types
    <3>2. call'[t].at = "dequeue" /\ call'[t].result = call[t].by
      BY <3>1, <1>2 DEF CallType
    <3> QED
      BY <3>1, <3>2, InBalance
  <2>3. CASE Expire(t)
    <3>1. /\ call[t].at = "asleep" /\ ~call[t].fired
          /\ call'[t] = [call[t] EXCEPT !.at = "dequeue", !.fired = TRUE]
      BY <2>3 DEF Expire, EventInv, Types
    <3>2. call'[t].at = "dequeue" /\ call'[t].result = NoEvent /\ call[t].by = NoEvent
      BY <3>1, <1>2 DEF CallType, CallWellFormed
    <3>3. f # NoEvent
      BY NoneAssumption
    <3> QED
      BY <3>1, <3>2, <3>3, InBalance
  <2> QED
    BY <2>1, <2>2, <2>3
<1> QED
  BY <1>1, <1>3, IdleStep

LEMMA ResetBalance ==
  ASSUME EventInv, EventInv', NEW f \in Event \ ManualReset, Conserved(f), NEW t \in Thread,
         NEW e \in Event, Reset(t, e) \/ IsSignaled(t, e)
  PROVE  Conserved(f)'
<1>1. call' = call
  BY DEF Reset, IsSignaled
<1>2. kernel[f] \in Kernel /\ kernel[f].signaled \in BOOLEAN /\ ledger[f] \in Int
  BY DEF EventInv, Types, Kernel
<1>3. /\ f # e => kernel'[f].signaled = kernel[f].signaled
      /\ f = e => kernel'[f].signaled = FALSE
  <2>1. CASE Reset(t, e)
    BY <1>2, <2>1 DEF Reset, EventInv, Types, Kernel
  <2>2. CASE IsSignaled(t, e)
    <3>1. f = e => (kernel[e].signaled /\ ~AutoReset(e)) = FALSE
      BY <1>2 DEF AutoReset
    <3>2. kernel' = [kernel EXCEPT ![e].signaled = kernel[e].signaled /\ ~AutoReset(e)]
      BY <2>2 DEF IsSignaled
    <3> QED
      BY <1>2, <3>1, <3>2 DEF EventInv, Types, Kernel
  <2> QED
    BY <2>1, <2>2
<1>4. PICK n \in Int : n = (IF kernel[e].signaled THEN -1 ELSE 0) /\ ledger' = Entered(e, n)
  BY DEF Reset, IsSignaled
<1>5. ledger'[f] = IF f = e THEN ledger[f] + n ELSE ledger[f]
  BY <1>4, EnteredFacts
<1>6. /\ Completing(f)' = Completing(f) /\ Releasing(f)' = Releasing(f)
  BY <1>1 DEF Completing, Releasing
<1>7. ledger'[f] - ledger[f] = One(kernel'[f].signaled) - One(kernel[f].signaled)
  BY <1>2, <1>3, <1>4, <1>5 DEF One
<1>8. \A b : One(b) \in Int
  BY DEF One
<1>9. ledger'[f] - ledger[f] + One(t \in Completing(f)') - One(t \in Completing(f))
           = One(t \in Releasing(f)') - One(t \in Releasing(f))
             + One(kernel'[f].signaled) - One(kernel[f].signaled)
  <2>1. ledger'[f] \in Int
    BY DEF EventInv, Types
  <2> QED
    BY <1>2, <1>6, <1>7, <1>8, <2>1
<1> QED
  BY <1>1, <1>9, OneThreadStep

LEMMA SignalLockBalance ==
  ASSUME EventInv, EventInv', NEW f \in Event, Conserved(f), NEW t \in Thread, SignalLock(t)
  PROVE  Conserved(f)'
<1>1. PICK e \in Event : e = call[t].raw[1] /\ call[t].at = "lock"
  BY SignalerFacts DEF SignalLock
<1>2. UNCHANGED ledger /\ \A u \in Thread \ {t} : call'[u] = call[u]
  BY DEF SignalLock, EventInv, Types
<1>3. kernel'[f].signaled = kernel[f].signaled
  <2>1. kernel' = kernel \/ kernel' = [kernel EXCEPT ![e].lock = t]
    BY <1>1 DEF SignalLock
  <2> QED
    BY <2>1 DEF EventInv, Types, Kernel
<1>4. call'[t].at \in {"out", "fire"}
  BY DEF SignalLock, EventInv, Types, CallType, Idle
<1> QED
  BY <1>1, <1>2, <1>3, <1>4, InBalance, IdleStep

LEMMA SignalUnlockBalance ==
  ASSUME EventInv, EventInv', NEW f \in Event \ ManualReset, Conserved(f), NEW t \in Thread,
         SignalUnlock(t)
  PROVE  Conserved(f)'
<1>1. PICK e \in Event : e = call[t].raw[1] /\ Signals(t) /\ ~kernel[e].signaled
  BY SignalerFacts DEF SignalUnlock, Signals, EventInv, UnsignaledMeanwhile
<1>2. PICK flag \in BOOLEAN : flag = (call[t].at = "fire")
  OBVIOUS
<1>3. /\ kernel' = [kernel EXCEPT ![e].signaled = flag, ![e].lock = NoThread]
      /\ call' = [call EXCEPT ![t] = Idle]
      /\ ledger' = Entered(e, 1)
  BY <1>1, <1>2 DEF SignalUnlock
<1>4. (\A u \in Thread \ {t} : call'[u] = call[u]) /\ call'[t].at = "out"
  BY <1>3 DEF EventInv, Types, Idle
<1>5. /\ f # e => kernel'[f].signaled = kernel[f].signaled
      /\ f = e => kernel'[f].signaled = flag
  BY <1>3 DEF EventInv, Types, Kernel
<1>6. ledger'[f] = IF f = e THEN ledger[f] + 1 ELSE ledger[f]
  BY <1>3, EnteredFacts
<1>7. ledger[f] \in Int
  BY DEF EventInv, Types
<1>8. /\ t \notin Completing(f)' /\ t \notin Releasing(f)' /\ t \notin Releasing(f)
      /\ t \in Completing(f) <=> ~flag /\ f = e
  BY <1>1, <1>2, <1>4, InBalance DEF Signals
<1>9. ledger'[f] - ledger[f] + One(t \in Completing(f)') - One(t \in Completing(f))
           = One(t \in Releasing(f)') - One(t \in Releasing(f))
             + One(kernel'[f].signaled) - One(kernel[f].signaled)
  <2>1. CASE f # e
    <3>1. \A b : One(b) \in Int
      BY DEF One
    <3>2. /\ One(t \in Completing(f)') = 0 /\ One(t \in Completing(f)) = 0
          /\ One(t \in Releasing(f)') = 0 /\ One(t \in Releasing(f)) = 0
      BY <2>1, <1>8 DEF One
    <3>3. One(kernel'[f].signaled) = One(kernel[f].signaled) /\ ledger'[f] = ledger[f]
      BY <2>1, <1>5, <1>6
    <3> QED
      BY <3>1, <3>2, <3>3, <1>7
  <2>2. CASE f = e
    <3>2. /\ One(t \in Completing(f)') = 0 /\ One(t \in Completing(f)) = One(~flag)
          /\ One(t \in Releasing(f)') = 0 /\ One(t \in Releasing(f)) = 0
          /\ One(kernel[f].signaled) = 0 /\ One(kernel'[f].signaled) = One(flag)
      BY <2>2, <1>1, <1>5, <1>8 DEF One
    <3>3. One(flag) = 1 - One(~flag) /\ One(~flag) \in Int
      BY DEF One
    <3> QED
      BY <2>2, <3>2, <3>3, <1>6, <1>7
  <2> QED
    BY <2>1, <2>2
<1> QED
  BY <1>4, <1>9, OneThreadStep

LEMMA SignalFireBalance ==
  ASSUME EventInv, EventInv', NEW f \in Event \ ManualReset, Conserved(f), NEW t \in Thread,
         SignalFire(t)
  PROVE  Conserved(f)'
<1>1. PICK e \in Event : /\ e = call[t].raw[1] /\ Signals(t) /\ call[t].at = "fire"
                         /\ kernel[e].waiters # <<>>
  BY SignalerFacts DEF SignalFire, Signals
<1>2. PICK w \in Thread : w = Head(kernel[e].waiters) /\ Listed(w, e)
  <2>1. kernel[e].waiters \in Seq(Thread)
    BY KernelFacts
  <2>2. Head(kernel[e].waiters) = kernel[e].waiters[1] /\ 1 \in DOMAIN kernel[e].waiters
        /\ kernel[e].waiters[1] \in Thread
    BY <1>1, <2>1
  <2> QED
    BY <2>2 DEF EventInv, ListsExact
<1>3. w # t /\ Blocked(w)
  BY <1>1, <1>2 DEF Listed, Blocked, Signals
<1>4. /\ kernel' = [kernel EXCEPT ![e].waiters = Tail(@)] /\ UNCHANGED ledger
      /\ call' = [call EXCEPT
                  ![w] = Fired(w, e),
                  ![t].woke = IF ~call[w].fired THEN @ \cup {w} ELSE @,
                  ![t].at = IF ~call[w].fired /\ AutoReset(e) THEN "unlock" ELSE @]
  BY <1>1, <1>2 DEF SignalFire
<1>5. /\ \A u \in Thread \ {t, w} : call'[u] = call[u]
      /\ call'[w] = Fired(w, e)
      /\ call'[t] = [call[t] EXCEPT
                       !.woke = IF ~call[w].fired THEN @ \cup {w} ELSE @,
                       !.at = IF ~call[w].fired /\ AutoReset(e) THEN "unlock" ELSE @]
  <2>1. call \in [Thread -> CallType]
    BY DEF EventInv, Types
  <2> QED
    BY <1>3, <1>4, <2>1
<1>6. /\ call[t] \in CallType /\ call[w] \in CallType /\ CallWellFormed(call[w])
  BY CallFacts
<1>7. /\ call'[t].raw[1] = e
      /\ call'[t].at = IF ~call[w].fired /\ AutoReset(e) THEN "unlock" ELSE "fire"
  BY <1>1, <1>5, <1>6 DEF CallType
<1>8. call'[w].at = call[w].at /\ call'[w].result = call[w].result
      /\ call'[w].by = IF call[w].fired THEN call[w].by ELSE e
  BY <1>5, <1>6 DEF CallType, Fired
<1>9. kernel'[f].signaled = kernel[f].signaled
  BY <1>4 DEF EventInv, Types, Kernel
<1>10. ASSUME NEW u \in Thread
       PROVE  /\ u # t => (u \in Completing(f)' <=> u \in Completing(f))
              /\ u # w => (u \in Releasing(f)' <=> u \in Releasing(f))
  <2>1. CASE u \notin {t, w}
    BY <2>1, <1>5, InBalance
  <2>2. CASE u = t
    BY <2>2, <1>1, <1>7, InBalance
  <2>3. CASE u = w
    BY <2>3, <1>3, <1>8, InBalance DEF Blocked
  <2> QED
    BY <2>1, <2>2, <2>3
<1>11. /\ One(t \in Completing(f)) = 0
       /\ One(t \in Completing(f)') = One(~call[w].fired /\ f = e)
  BY <1>1, <1>7, InBalance DEF One, AutoReset
<1>12. One(w \in Releasing(f)') = One(w \in Releasing(f)) + One(~call[w].fired /\ f = e)
  <2>1. CASE call[w].fired
    <3>1. w \in Releasing(f)' <=> w \in Releasing(f)
      BY <2>1, <1>8, InBalance
    <3> QED
      BY <2>1, <3>1 DEF One
  <2>2. CASE ~call[w].fired
    <3>1. call[w].at = "asleep" /\ call[w].by = NoEvent
      BY <2>2, <1>3, <1>6 DEF Blocked, CallWellFormed
    <3>2. f # NoEvent
      BY NoneAssumption
    <3>3. w \notin Releasing(f)
      BY <3>1, <3>2, InBalance
    <3>4. w \in Releasing(f)' <=> f = e
      BY <2>2, <3>1, <1>8, InBalance
    <3> QED
      BY <2>2, <3>3, <3>4 DEF One
  <2> QED
    BY <2>1, <2>2
<1>13. ledger'[f] - ledger[f] + One(t \in Completing(f)') - One(t \in Completing(f))
           = One(w \in Releasing(f)') - One(w \in Releasing(f))
             + One(kernel'[f].signaled) - One(kernel[f].signaled)
  <2>1. \A b : One(b) \in Int
    BY DEF One
  <2>2. ledger[f] \in Int /\ ledger'[f] = ledger[f]
    BY <1>4 DEF EventInv, Types
  <2>3. One(kernel'[f].signaled) = One(kernel[f].signaled)
    BY <1>9
  <2>4. /\ One(w \in Releasing(f)) \in Int /\ One(~call[w].fired /\ f = e) \in Int
        /\ One(kernel[f].signaled) \in Int
    BY <2>1
  <2> HIDE DEF One
  <2> QED
    BY <2>2, <2>3, <2>4, <1>11, <1>12
<1> QED
  BY <1>10, <1>13, BalanceStep

LEMMA WaitLockBalance ==
  ASSUME EventInv, EventInv', NEW f \in Event \ ManualReset, Conserved(f), NEW t \in Thread,
         WaitLock(t)
  PROVE  Conserved(f)'
<1>1. PICK raw \in Seq(Event) : raw = call[t].raw
  BY WaiterFacts DEF WaitLock
<1>2. call[t].at = "lock"
  BY DEF WaitLock
<1>3. /\ t \notin Completing(f) /\ t \notin Releasing(f)
  BY <1>2, InBalance
<1>4. \A u \in Thread \ {t} : call'[u] = call[u]
  BY DEF WaitLock, Decide, EventInv, Types
<1>5. call[t] \in CallType /\ CallWellFormed(call[t]) /\ kernel[f] \in Kernel
  BY CallFacts, KernelFacts
<1>6. CASE call[t].count + 1 # Len(call[t].raw)
  <2>1. UNCHANGED ledger /\ call'[t].at = "lock"
    BY <1>2, <1>5, <1>6 DEF WaitLock, CallType, EventInv, Types
  <2>2. kernel'[f].signaled = kernel[f].signaled
    <3>1. PICK e : kernel' = [kernel EXCEPT ![e].lock = t]
      BY <1>6 DEF WaitLock
    <3> QED
      BY <3>1, <1>5 DEF EventInv, Types, Kernel
  <2> QED
    BY <1>3, <1>4, <2>1, <2>2, InBalance, IdleStep
<1>7. CASE call[t].count + 1 = Len(call[t].raw)
  <2>1. Decide(t)
    BY <1>7 DEF WaitLock
  <2>2. CASE Winner(raw) = 0
    <3>1. /\ call' = [call EXCEPT ![t].at = "asleep", ![t].count = 0]
          /\ kernel' = [e \in Event |->
                IF e \notin ToSet(raw) THEN kernel[e]
                ELSE [kernel[e] EXCEPT !.lock = NoThread, !.waiters = Append(@, t)]]
          /\ UNCHANGED ledger
      BY <2>1, <2>2, <1>1 DEF Decide
    <3>2. kernel'[f].signaled = kernel[f].signaled
      BY <3>1, <1>5 DEF Kernel
    <3>3. call'[t].at = "asleep" /\ call'[t].by = NoEvent
      <4>1. call'[t] = [call[t] EXCEPT !.at = "asleep", !.count = 0]
        BY <3>1 DEF EventInv, Types
      <4>2. call[t].by = NoEvent
        BY <1>2, <1>5 DEF CallWellFormed
      <4> QED
        BY <4>1, <4>2, <1>5 DEF CallType
    <3>4. f # NoEvent
      BY NoneAssumption
    <3>5. /\ t \notin Completing(f)' /\ t \notin Releasing(f)'
      BY <3>3, <3>4, InBalance
    <3>6. ledger'[f] = ledger[f]
      BY <3>1
    <3> QED
      BY <1>3, <1>4, <3>2, <3>5, <3>6, IdleStep
  <2>3. CASE Winner(raw) # 0
    <3>1. PICK v \in Event : v = raw[Winner(raw)] /\ kernel[v].signaled /\ v \in ToSet(raw)
      BY <2>3, WinnerFacts
    <3>2. /\ call' = [call EXCEPT ![t] = Idle]
          /\ kernel' = [e \in Event |->
                IF e \notin ToSet(raw) THEN kernel[e]
                ELSE [kernel[e] EXCEPT
                        !.lock = NoThread,
                        !.signaled = IF e = v THEN @ /\ ~AutoReset(e) ELSE @]]
          /\ ledger' = Entered(v, -1)
      BY <1>1, <2>1, <2>3, <3>1 DEF Decide
    <3>3. /\ f # v => kernel'[f].signaled = kernel[f].signaled
          /\ f = v => kernel'[f].signaled = FALSE
      <4>1. CASE f \notin ToSet(raw)
        BY <3>1, <3>2, <4>1
      <4>2. CASE f \in ToSet(raw)
        <5>1. PICK flag : flag = IF f = v THEN kernel[f].signaled /\ ~AutoReset(f)
                                  ELSE kernel[f].signaled
          OBVIOUS
        <5>2. kernel'[f] = [kernel[f] EXCEPT !.lock = NoThread, !.signaled = flag]
          BY <3>2, <4>2, <5>1
        <5>3. f = v => flag = FALSE
          BY <5>1 DEF AutoReset
        <5> QED
          BY <1>5, <5>1, <5>2, <5>3 DEF Kernel
      <4> QED
        BY <4>1, <4>2
    <3>4. call'[t].at = "out"
      BY <3>2 DEF Idle, EventInv, Types
    <3>5. /\ t \notin Completing(f)' /\ t \notin Releasing(f)'
      BY <3>4, InBalance
    <3>6. ledger'[f] = IF f = v THEN ledger[f] + (-1) ELSE ledger[f]
      <4>1. -1 \in Int
        OBVIOUS
      <4> QED
        BY <3>2, <4>1, EnteredFacts
    <3>7. ledger'[f] - ledger[f] + One(t \in Completing(f)') - One(t \in Completing(f))
           = One(t \in Releasing(f)') - One(t \in Releasing(f))
             + One(kernel'[f].signaled) - One(kernel[f].signaled)
      <4>1. /\ One(t \in Completing(f)') = 0 /\ One(t \in Completing(f)) = 0
            /\ One(t \in Releasing(f)') = 0 /\ One(t \in Releasing(f)) = 0
        BY <1>3, <3>5 DEF One
      <4>2. One(kernel'[f].signaled) - One(kernel[f].signaled) = IF f = v THEN -1 ELSE 0
        BY <3>1, <3>3 DEF One
      <4>3. One(kernel'[f].signaled) \in Int /\ One(kernel[f].signaled) \in Int
        BY DEF One
      <4>4. ledger[f] \in Int
        BY DEF EventInv, Types
      <4> QED
        BY <3>6, <4>1, <4>2, <4>3, <4>4
    <3> QED
      BY <1>4, <3>7, OneThreadStep
  <2> QED
    BY <2>2, <2>3
<1> QED
  BY <1>6, <1>7

LEMMA DequeueBalance ==
  ASSUME EventInv, EventInv', NEW f \in Event \ ManualReset, Conserved(f), NEW t \in Thread,
         Dequeue(t)
  PROVE  Conserved(f)'
<1>1. call[t].at = "dequeue" /\ \A u \in Thread \ {t} : call'[u] = call[u]
  BY DEF Dequeue, EventInv, Types
<1>2. kernel'[f].signaled = kernel[f].signaled
  BY DEF Dequeue, EventInv, Types, Kernel
<1>3. call[t] \in CallType /\ ledger[f] \in Int
  BY DEF EventInv, Types
<1>4. CASE call[t].count + 1 # Len(call[t].raw)
  <2>1. UNCHANGED ledger /\ call' = [call EXCEPT ![t].count = call[t].count + 1]
    BY <1>4 DEF Dequeue
  <2>2. call'[t].at = "dequeue" /\ call'[t].result = call[t].result
    BY <2>1, <1>1, <1>3 DEF CallType, EventInv, Types
  <2> QED
    BY <1>1, <1>2, <2>1, <2>2, InBalance, IdleStep
<1>5. CASE call[t].count + 1 = Len(call[t].raw)
  <2>1. /\ call' = [call EXCEPT ![t] = Idle]
        /\ ledger' = IF call[t].result = NoEvent THEN ledger
                     ELSE Entered(call[t].result, -1)
    BY <1>5 DEF Dequeue
  <2>2. call'[t].at = "out"
    BY <2>1 DEF Idle, EventInv, Types
  <2>3. f # NoEvent /\ call[t].result \in Event \cup {NoEvent}
    BY <1>3, NoneAssumption DEF CallType
  <2>4. ledger'[f] = IF f = call[t].result THEN ledger[f] + (-1) ELSE ledger[f]
    <3>1. -1 \in Int
      OBVIOUS
    <3>2. CASE call[t].result = NoEvent
      BY <2>1, <2>3, <3>2
    <3>3. CASE call[t].result # NoEvent
      <4>1. PICK e \in Event : e = call[t].result
        BY <2>3, <3>3
      <4>2. Entered(e, -1)[f] = IF f = e THEN ledger[f] + (-1) ELSE ledger[f]
        BY <3>1, EnteredFacts
      <4> QED
        BY <2>1, <3>3, <4>1, <4>2
    <3> QED
      BY <3>2, <3>3
  <2>5. /\ One(t \in Completing(f)') = 0 /\ One(t \in Completing(f)) = 0
        /\ One(t \in Releasing(f)') = 0
        /\ One(t \in Releasing(f)) = IF f = call[t].result THEN 1 ELSE 0
    BY <1>1, <2>2, InBalance DEF One
  <2>6. One(kernel'[f].signaled) = One(kernel[f].signaled) /\ One(kernel[f].signaled) \in Int
    BY <1>2 DEF One
  <2>7. ledger'[f] - ledger[f] + One(t \in Completing(f)') - One(t \in Completing(f))
           = One(t \in Releasing(f)') - One(t \in Releasing(f))
             + One(kernel'[f].signaled) - One(kernel[f].signaled)
    BY <1>3, <2>4, <2>5, <2>6
  <2> QED
    BY <1>1, <2>7, OneThreadStep
<1> QED
  BY <1>4, <1>5

-----------------------------------------------------------------------------
(* "Wait's return happens after Signal has completed": a thread that a call of
   Signal has woken has still to take the lock that call holds, to leave the
   list of the event. *)
LEMMA ReturnsLast == EventInv => WaitReturnsLast
BY DEF EventInv, WaitReturnsLast, WokenMustLock, Listed, Blocked

\* Nothing has been signaled at first.
LEMMA InitConserved == InitEvents => SignalConserved
<1> SUFFICES ASSUME InitEvents, NEW e \in Event \ ManualReset
             PROVE  ledger[e] + Cardinality(Completing(e)) =
                      Cardinality(Releasing(e)) + (IF kernel[e].signaled THEN 1 ELSE 0)
  BY DEF SignalConserved
<1>1. Completing(e) = {} /\ Releasing(e) = {}
  BY DEF InitEvents, Completing, Releasing, Idle
<1>2. Cardinality({}) = 0
  BY FS_EmptySet
<1>3. ledger[e] = 0 /\ kernel[e].signaled = FALSE
  BY DEF InitEvents
<1> QED
  BY <1>1, <1>2, <1>3

\* Whatever happens to events loses no signal of an auto-reset event.
LEMMA EventNextConserves ==
  ASSUME EventInv, SignalConserved, [EventNext]_eventVars
  PROVE  SignalConserved'
<1>1. EventInv'
  BY EventNextInv
<1>2. ASSUME NEW f \in Event \ ManualReset PROVE Conserved(f)'
  <2>1. Conserved(f)
    BY DEF SignalConserved, Conserved, One
  <2>2. CASE UNCHANGED eventVars
    <3>1. kernel' = kernel /\ call' = call /\ ledger' = ledger
      BY <2>2 DEF eventVars
    <3> QED
      BY <2>1, <3>1 DEF Conserved, Completing, Releasing, One
  <2>3. CASE EventNext
    <3>1. PICK t \in Thread :
            \/ EventStep(t)
            \/ Expire(t)
            \/ \E e \in Event : CallSignal(t, e) \/ Reset(t, e) \/ IsSignaled(t, e)
            \/ \E raw, timed : /\ IsArray(raw) /\ timed \in BOOLEAN
                               /\ CallWait(t, raw, timed)
      BY <2>3 DEF EventNext
    <3>2. CASE EventStep(t)
      BY <1>1, <2>1, <3>2, SignalLockBalance, SignalFireBalance, SignalUnlockBalance,
         WaitLockBalance, BeginBalance, DequeueBalance DEF EventStep
    <3>3. CASE Expire(t)
      BY <1>1, <2>1, <3>3, BeginBalance
    <3>4. CASE \E e \in Event : CallSignal(t, e) \/ Reset(t, e) \/ IsSignaled(t, e)
      <4>1. PICK e \in Event : CallSignal(t, e) \/ Reset(t, e) \/ IsSignaled(t, e)
        BY <3>4
      <4>2. CASE CallSignal(t, e)
        BY <1>1, <2>1, <4>2, BeginBalance
      <4>3. CASE Reset(t, e) \/ IsSignaled(t, e)
        BY <1>1, <2>1, <4>3, ResetBalance
      <4> QED
        BY <4>1, <4>2, <4>3
    <3>5. CASE \E raw, timed : /\ IsArray(raw) /\ timed \in BOOLEAN
                               /\ CallWait(t, raw, timed)
      BY <1>1, <2>1, <3>5, BeginBalance
    <3> QED
      BY <3>1, <3>2, <3>3, <3>4, <3>5
  <2> QED
    BY <2>2, <2>3
<1> QED
  BY <1>2 DEF SignalConserved, Conserved, One
=============================================================================
