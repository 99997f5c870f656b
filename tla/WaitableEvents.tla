--------------------------- MODULE WaitableEvents ---------------------------
(***************************************************************************)
(* base::WaitableEvent on POSIX (base/synchronization/                     *)
(* waitable_event_posix.cc): a flag, a list of waiters and a lock, and     *)
(* for each blocked thread a SyncWaiter on its stack.                      *)
(*                                                                         *)
(* A step is what a thread does between two acquisitions of the lock of an *)
(* event.  The lock of a SyncWaiter is only ever held for one step: its    *)
(* thread holds it from Enqueue until it sleeps on the condition variable, *)
(* and Fire takes and releases it.  Wait, TimedWait and WaitMany share     *)
(* their steps, Wait being a WaitMany of one event.                        *)
(***************************************************************************)
EXTENDS Integers, Sequences, SequencesExt

CONSTANTS
  Thread,       \* threads
  Event,        \* events: numbers, in the order of their addresses
  ManualReset,  \* the events whose manual_reset_ is set
  NoThread,     \* the holder of a lock that is free
  NoEvent       \* the result of a wait that timed out

ASSUME EventAssumption == Event \subseteq Nat /\ ManualReset \subseteq Event
ASSUME NoneAssumption == NoThread \notin Thread /\ NoEvent \notin Event
ASSUME ThreadAssumption == IsFiniteSet(Thread)

VARIABLES
  kernel,  \* signaled_, waiters_ and lock_ of each event
  call,    \* the call each thread is in, with its SyncWaiter
  ledger   \* history: signals of an auto-reset event that released no wait yet

eventVars == <<kernel, call, ledger>>

Idle == [op |-> "none", at |-> "out", raw |-> <<>>, timed |-> FALSE,
         count |-> 0, fired |-> FALSE, by |-> NoEvent,
         result |-> NoEvent, woke |-> {}]

Kernel == [signaled : BOOLEAN, waiters : Seq(Thread),
           lock : Thread \cup {NoThread}]

InitEvents ==
    /\ kernel = [e \in Event |->
                   [signaled |-> FALSE, waiters |-> <<>>, lock |-> NoThread]]
    /\ call = [t \in Thread |-> Idle]
    /\ ledger = [e \in Event |-> 0]

AutoReset(e) == e \notin ManualReset
IsFree(e) == kernel[e].lock = NoThread
Entered(e, n) ==
    IF AutoReset(e) THEN [ledger EXCEPT ![e] = @ + n] ELSE ledger

\* What WaitMany may be given: "must be distinct".
IsArray(raw) ==
    /\ raw \in Seq(Event)
    /\ raw # <<>>
    /\ \A i, j \in DOMAIN raw : raw[i] = raw[j] => i = j

-----------------------------------------------------------------------------
(* Calls. *)

CallSignal(t, e) ==
    /\ call[t] = Idle
    /\ call' = [call EXCEPT ![t] = [Idle EXCEPT !.op = "signal", !.at = "lock",
                                                !.raw = <<e>>]]
    /\ UNCHANGED <<kernel, ledger>>

CallWait(t, raw, timed) ==
    /\ call[t] = Idle
    /\ call' = [call EXCEPT ![t] = [Idle EXCEPT !.op = "wait", !.at = "lock",
                                                !.raw = raw, !.timed = timed]]
    /\ UNCHANGED <<kernel, ledger>>

\* Reset and IsSignaled hold the lock throughout.
Reset(t, e) ==
    /\ call[t] = Idle
    /\ IsFree(e)
    /\ kernel' = [kernel EXCEPT ![e].signaled = FALSE]
    /\ ledger' = Entered(e, IF kernel[e].signaled THEN -1 ELSE 0)
    /\ UNCHANGED call

IsSignaled(t, e) ==
    /\ call[t] = Idle
    /\ IsFree(e)
    /\ kernel' = [kernel EXCEPT ![e].signaled = @ /\ ~AutoReset(e)]
    /\ ledger' = Entered(e, IF kernel[e].signaled THEN -1 ELSE 0)
    /\ UNCHANGED call

-----------------------------------------------------------------------------
(* Signal, which keeps the lock of the event while it fires waiters. *)

SignalLock(t) ==
    LET e == call[t].raw[1] IN
    /\ call[t].op = "signal"
    /\ call[t].at = "lock"
    /\ IsFree(e)
    /\ IF kernel[e].signaled
         THEN /\ call' = [call EXCEPT ![t] = Idle]
              /\ UNCHANGED kernel
         ELSE /\ call' = [call EXCEPT ![t].at = "fire"]
              /\ kernel' = [kernel EXCEPT ![e].lock = t]
    /\ UNCHANGED ledger

\* SyncWaiter::Fire: a waiter that has fired already refuses.
Fired(w, e) == IF call[w].fired THEN call[w]
               ELSE [call[w] EXCEPT !.fired = TRUE, !.by = e]

\* The loops of SignalAll and SignalOne; the latter stops at the first waiter
\* that accepts.
SignalFire(t) ==
    LET e == call[t].raw[1]
        w == Head(kernel[e].waiters)
        accepted == ~call[w].fired
    IN
    /\ call[t].at = "fire"
    /\ kernel[e].waiters # <<>>
    /\ kernel' = [kernel EXCEPT ![e].waiters = Tail(@)]
    /\ call' = [call EXCEPT
                  ![w] = Fired(w, e),
                  ![t].woke = IF accepted THEN @ \cup {w} ELSE @,
                  ![t].at = IF accepted /\ AutoReset(e) THEN "unlock" ELSE @]
    /\ UNCHANGED ledger

\* An auto-reset event that woke somebody stays unsignaled.
SignalUnlock(t) ==
    LET e == call[t].raw[1] IN
    /\ \/ call[t].at = "unlock"
       \/ call[t].at = "fire" /\ kernel[e].waiters = <<>>
    /\ kernel' = [kernel EXCEPT ![e].signaled = call[t].at = "fire",
                                ![e].lock = NoThread]
    /\ call' = [call EXCEPT ![t] = Idle]
    /\ ledger' = Entered(e, 1)

-----------------------------------------------------------------------------
(* Wait, TimedWait and WaitMany. *)

\* Mutant of InLockOrder: WaitMany locks in the order of its argument.
AsGiven(raw) == raw

\* WaitMany sorts the events, which are distinct, by address.
InLockOrder(raw) ==
    CHOOSE s \in Bijection(DOMAIN raw, ToSet(raw)) :
        \A i, j \in DOMAIN raw : i < j => s[i] < s[j]

\* The lowest index in raw of a signaled event, 0 if there is none.
Winner(raw) == SelectInSeq(raw, LAMBDA e : kernel[e].signaled)

\* With the last lock: an event that is signaled ends the call, otherwise the
\* waiter joins every list.  Either way the locks are released.
Decide(t) ==
    LET raw == call[t].raw
        win == Winner(raw)
    IN
    IF win # 0
      THEN /\ call' = [call EXCEPT ![t] = Idle]
           /\ kernel' = [e \in Event |->
                IF e \notin ToSet(raw) THEN kernel[e]
                ELSE [kernel[e] EXCEPT
                        !.lock = NoThread,
                        !.signaled = IF e = raw[win] THEN @ /\ ~AutoReset(e)
                                     ELSE @]]
           /\ ledger' = Entered(raw[win], -1)
      ELSE /\ call' = [call EXCEPT ![t].at = "asleep", ![t].count = 0]
           /\ kernel' = [e \in Event |->
                IF e \notin ToSet(raw) THEN kernel[e]
                ELSE [kernel[e] EXCEPT !.lock = NoThread,
                                       !.waiters = Append(@, t)]]
           /\ UNCHANGED ledger

\* EnqueueMany takes the locks one by one.
WaitLock(t) ==
    LET n == call[t].count + 1
        e == InLockOrder(call[t].raw)[n]
    IN
    /\ call[t].op = "wait"
    /\ call[t].at = "lock"
    /\ IsFree(e)
    /\ IF n = Len(call[t].raw)
         THEN Decide(t)
         ELSE /\ kernel' = [kernel EXCEPT ![e].lock = t]
              /\ call' = [call EXCEPT ![t].count = n]
              /\ UNCHANGED ledger

WakeUp(t) ==
    /\ call[t].at = "asleep"
    /\ call[t].fired
    /\ call' = [call EXCEPT ![t].at = "dequeue", ![t].result = call[t].by]
    /\ UNCHANGED <<kernel, ledger>>

\* Mutant of Expire: without Disable.
ExpireEnabled(t) ==
    /\ call[t].at = "asleep"
    /\ call[t].timed
    /\ ~call[t].fired
    /\ call' = [call EXCEPT ![t].at = "dequeue"]
    /\ UNCHANGED <<kernel, ledger>>

\* The time is over: Disable makes a Fire that comes now refuse.
Expire(t) ==
    /\ call[t].at = "asleep"
    /\ call[t].timed
    /\ ~call[t].fired
    /\ call' = [call EXCEPT ![t].at = "dequeue", ![t].fired = TRUE]
    /\ UNCHANGED <<kernel, ledger>>

\* Mutant of Dequeue: the lock of the event that fired is not taken.
DequeueOthers(t) ==
    LET n == call[t].count + 1
        e == call[t].raw[n]
    IN
    /\ call[t].at = "dequeue"
    /\ e = call[t].by \/ IsFree(e)
    /\ kernel' = [kernel EXCEPT ![e].waiters = RemoveFirst(@, t)]
    /\ IF n = Len(call[t].raw)
         THEN /\ call' = [call EXCEPT ![t] = Idle]
              /\ ledger' = IF call[t].result = NoEvent THEN ledger
                           ELSE Entered(call[t].result, -1)
         ELSE /\ call' = [call EXCEPT ![t].count = n]
              /\ UNCHANGED ledger

\* The waiter leaves each list under the lock of the event, also that of the
\* event that fired it; after the last one the call returns.
Dequeue(t) ==
    LET n == call[t].count + 1
        e == call[t].raw[n]
    IN
    /\ call[t].at = "dequeue"
    /\ IsFree(e)
    /\ kernel' = [kernel EXCEPT ![e].waiters = RemoveFirst(@, t)]
    /\ IF n = Len(call[t].raw)
         THEN /\ call' = [call EXCEPT ![t] = Idle]
              /\ ledger' = IF call[t].result = NoEvent THEN ledger
                           ELSE Entered(call[t].result, -1)
         ELSE /\ call' = [call EXCEPT ![t].count = n]
              /\ UNCHANGED ledger

\* What a call does once it has begun, but for running out of time.
EventStep(t) ==
    \/ SignalLock(t)
    \/ SignalFire(t)
    \/ SignalUnlock(t)
    \/ WaitLock(t)
    \/ WakeUp(t)
    \/ Dequeue(t)

-----------------------------------------------------------------------------
EventTypeOK ==
    /\ kernel \in [Event -> Kernel]
    /\ \A t \in Thread :
         /\ call[t].op \in {"none", "signal", "wait"}
         /\ call[t].at \in
              {"out", "lock", "fire", "unlock", "asleep", "dequeue"}
         /\ call[t].raw \in Seq(Event)
         /\ {call[t].by, call[t].result} \subseteq Event \cup {NoEvent}
         /\ call[t].woke \subseteq Thread
         /\ call[t].count \in 0..Len(call[t].raw)
    /\ ledger \in [Event -> Int]

\* Waits that are bound to report e.
Releasing(e) == {t \in Thread : \/ call[t].at = "asleep" /\ call[t].by = e
                                \/ call[t].at = "dequeue" /\ call[t].result = e}

\* Calls of Signal that have woken their waiter and not returned.
Completing(e) == {t \in Thread : call[t].at = "unlock" /\ call[t].raw[1] = e}

(* A signal of an auto-reset event (Signal, SignalOne) is neither lost nor
   used twice: it either keeps the event signaled or releases exactly one
   wait, which then reports it -- also when that wait runs out of time, or
   another event of its WaitMany fires, at the same moment. *)
SignalConserved ==
    \A e \in Event \ ManualReset :
        ledger[e] + Cardinality(Completing(e)) =
          Cardinality(Releasing(e)) + (IF kernel[e].signaled THEN 1 ELSE 0)

(* "Wait's return happens after Signal has completed", so that an event can
   synchronise its own destruction (waitable_event.h): as long as Signal holds
   the lock, the threads it has woken are inside their waits. *)
WaitReturnsLast ==
    \A t \in Thread : \A w \in call[t].woke :
        call[w].at \in {"asleep", "dequeue"}

(* No call of Signal, Wait, TimedWait or WaitMany hangs on a lock: each one
   returns, unless it waits for a signal; several WaitMany do not lock each
   other out. *)
CallsReturn ==
    \A t \in Thread : []<>(call[t].at \in {"out", "asleep"})
=============================================================================
