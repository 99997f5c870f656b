-------------------------- MODULE MessageLoopProofs --------------------------
(***************************************************************************)
(* TLAPS: the message loop.                                                *)
(*                                                                         *)
(* First, the loop, the threads that post to it and the threads that use   *)
(* events without it only ever do to events what WaitableEventsProofs is   *)
(* about: the theorems on signals and waits.  Then LoopBasics, what the    *)
(* state of the loop looks like in every reachable state; Resting, which   *)
(* is why the pump never sleeps beside work (SleepsWhenIdle); and          *)
(* OrderInv, which is why tasks start in order (TasksOrdered).             *)
(***************************************************************************)
EXTENDS MessageLoop, WaitableEventsProofs

\* Wait and TimedWait are a WaitMany of one event.
LEMMA SingleArray ==
  ASSUME NEW e \in Event
  PROVE  IsArray(<<e>>)
<1>1. PICK raw : raw = <<e>>
  OBVIOUS
<1>2. raw \in Seq(Event) /\ raw # <<>> /\ DOMAIN raw = {1}
  BY <1>1
<1>3. IsArray(raw)
  BY <1>2 DEF IsArray
<1> QED
  BY <1>1, <1>3

LEMMA CallsAreSteps ==
  ASSUME NEW t \in Thread, NEW e \in Event
  PROVE  /\ CallSignal(t, e) => EventNext
         /\ Reset(t, e) => EventNext
         /\ IsSignaled(t, e) => EventNext
         /\ \A timed \in BOOLEAN : CallWait(t, <<e>>, timed) => EventNext
         /\ Expire(t) => EventNext
         /\ EventStep(t) => EventNext
BY SingleArray DEF EventNext

\* Every step of the system is a step of the events or leaves them alone.
LEMMA EventSteps == [Next]_vars => [EventNext]_eventVars
<1> SUFFICES ASSUME [Next]_vars PROVE EventNext \/ UNCHANGED eventVars
  OBVIOUS
<1> USE LoopAssumption
<1>1. CASE UNCHANGED vars
  BY <1>1 DEF vars
<1>2. CASE Tick
  BY <1>2 DEF Tick
<1>3. ASSUME NEW t \in Thread, PostTask(t)
      PROVE  EventNext \/ UNCHANGED eventVars
  BY <1>3 DEF PostTask
<1>4. ASSUME NEW t \in Thread, OtherCall(t)
      PROVE  EventNext \/ UNCHANGED eventVars
  <2>1. CASE \E e \in Event : \/ CallSignal(t, e) \/ Reset(t, e) \/ IsSignaled(t, e)
                              \/ \E timed \in BOOLEAN : CallWait(t, <<e>>, timed)
    BY <2>1, CallsAreSteps
  <2>2. CASE \E raw \in Waits : CallWait(t, raw, FALSE)
    BY <2>2, WaitsAssumption DEF EventNext
  <2> QED
    BY <1>4, <2>1, <2>2 DEF OtherCall
<1>5. ASSUME NEW t \in Thread, OtherTimeUp(t) \/ EventStepOf(t)
      PROVE  EventNext \/ UNCHANGED eventVars
  BY <1>5, CallsAreSteps DEF OtherTimeUp, EventStepOf
<1>6. ASSUME NEW t \in Thread, PostStep(t)
      PROVE  EventNext \/ UNCHANGED eventVars
  <2>1. CASE PostPendingTask(t)
    BY <2>1 DEF PostPendingTask
  <2>2. CASE DidQueueTask(t)
    BY <2>2, CallsAreSteps DEF DidQueueTask
  <2>3. CASE Scheduled(t)
    BY <2>3 DEF Scheduled
  <2> QED
    BY <1>6, <2>1, <2>2, <2>3 DEF PostStep
<1>7. ASSUME LoopStep
      PROVE  EventNext \/ UNCHANGED eventVars
  <2>1. CASE BindToCurrentThread
    BY <2>1, CallsAreSteps DEF BindToCurrentThread
  <2>2. CASE Sleep
    <3>1. (pump.delayedWorkTime # NoTime) \in BOOLEAN
      OBVIOUS
    <3> QED
      BY <2>2, <3>1, CallsAreSteps DEF Sleep
  <2>3. CASE TimeUp
    BY <2>3, CallsAreSteps DEF TimeUp
  <2>4. CASE DoTask
    <3>1. ASSUME NEW l, RunNested(l)
          PROVE  EventNext \/ UNCHANGED eventVars
      BY <3>1, CallsAreSteps DEF RunNested
    <3> QED
      BY <2>4, <3>1 DEF DoTask
  <2>5. CASE Bound \/ Run \/ Leave \/ DeletePendingTasks \/ TasksRemain
             \/ DisconnectFromParent \/ Shutdown
    BY <2>5 DEF Bound, Run, Leave, DeletePendingTasks, TasksRemain,
                DisconnectFromParent, Shutdown
  <2>6. CASE DoWorkRefused \/ DoWork \/ DoDelayedWorkNone \/ DoDelayedWorkEarly
             \/ DoDelayedWork \/ DoIdleWork \/ Awake \/ EndTask
    <3>1. UNCHANGED unchangedByPump
      BY <2>6 DEF DoWorkRefused, DoWork, DoDelayedWorkNone, DoDelayedWorkEarly,
                  DoDelayedWork, DoIdleWork, Awake, EndTask
    <3> QED
      BY <3>1 DEF unchangedByPump
  <2> QED
    BY <1>7, <2>1, <2>2, <2>3, <2>4, <2>5, <2>6 DEF LoopStep
<1> QED
  BY <1>1, <1>2, <1>3, <1>4, <1>5, <1>6, <1>7 DEF Next, ThreadStep

\* EventInv in every state.
LEMMA EventInvariant == Spec => []EventInv
<1>1. Init => EventInv
  BY InitInv DEF Init
<1>2. EventInv /\ [Next]_vars => EventInv'
  BY EventSteps, EventNextInv
<1> QED
  BY <1>1, <1>2, PTL DEF Spec

(* A signal of an auto-reset event (Signal, SignalOne) is neither lost nor used
   twice, for any number of threads and events, any timeouts and any arrays
   given to WaitMany. *)
THEOREM SignalsConserved == Spec => []SignalConserved
<1>1. Init => SignalConserved
  BY InitConserved DEF Init
<1>2. EventInv /\ SignalConserved /\ [Next]_vars => SignalConserved'
  BY EventSteps, EventNextConserves
<1> QED
  BY <1>1, <1>2, EventInvariant, PTL DEF Spec

(* "Wait's return happens after Signal has completed" (waitable_event.h): the
   threads that a call of Signal has woken are inside their waits until it has
   given up the lock of the event. *)
THEOREM WaitsReturnLast == Spec => []WaitReturnsLast
BY EventInvariant, ReturnsLast, PTL

-----------------------------------------------------------------------------
(***************************************************************************)
(* The loop: types.                                                        *)
(***************************************************************************)
Places == {"work", "delayed", "idle", "wait", "waiting", "task", "ending", "leave"}

FrameType ==
  [loop : RunLoop, at : Places, did : BOOLEAN, from : Places,
   task : Task \cup {NoTask}, keep : BOOLEAN, forced : BOOLEAN]

QueueType ==
  [incoming : Seq(Task), triage : Seq(Task), delayed : SUBSET Task,
   deferred : Seq(Task), accept : BOOLEAN, triageEmpty : BOOLEAN]

ControlType == [ready : BOOLEAN, pending : BOOLEAN, connected : BOOLEAN]
PumpType == [keepRunning : BOOLEAN, delayedWorkTime : Nat \cup {NoTime}]
PostType == [at : {"out", "queue", "notify", "scheduling"},
             task : Task \cup {NoTask}, wasEmpty : BOOLEAN]
ClockType == [now : Nat, recent : Nat]

QueueTypes ==
  /\ queue \in QueueType
  /\ post \in [Thread -> PostType]
  /\ due \in [Task -> Nat \cup {NoTime}]
  /\ toPost \in SUBSET Task
  /\ accepted \in Seq(Task)
  /\ before \in [Task -> SUBSET Task]

PumpTypes ==
  /\ control \in ControlType
  /\ pump \in PumpType
  /\ stack \in Seq(FrameType)
  /\ allowed \in BOOLEAN
  /\ clock \in ClockType
  /\ started \in Seq(Task)

\* A run below another is in the task that runs it.
StackShape ==
  /\ stack # <<>> <=> life = "running"
  /\ \A i \in 1 .. Len(stack) - 1 : stack[i].at = "ending"
  /\ stack # <<>> /\ Top.at = "task" => Top.task \in Task

\* While there is a loop, its event is the only one, and only it waits.
CallShape ==
  life # "gone" =>
    /\ calls = 0
    /\ \A t \in Thread : call[t].op # "none" =>
         call[t].raw = <<PumpEvent>> /\ (call[t].op = "wait" => t = Loop)
    /\ call[Loop].op = "wait" =>
         /\ stack # <<>> /\ Top.at = "waiting"
         /\ call[Loop].timed = (pump.delayedWorkTime # NoTime)

ControlShape ==
  /\ life \notin {"unbound", "gone"} => control.ready
  /\ life \notin {"stopping", "gone"} => control.connected

LoopShape == StackShape /\ CallShape /\ ControlShape

\* A task is posted once, and its run time is settled by then.
PostsOnce ==
  /\ ToSet(accepted) \cap toPost = {}
  /\ \A t \in Thread : post[t].at # "out" => post[t].task \in Task \ toPost
  /\ ToSet(queue.incoming) \cup ToSet(queue.triage) \cup queue.delayed
       \subseteq ToSet(accepted)
  /\ \A x \in queue.delayed : due[x] # NoTime

LoopBasics == QueueTypes /\ PumpTypes /\ LoopShape /\ PostsOnce

-----------------------------------------------------------------------------
\* The innermost run.
LEMMA TopFacts ==
  ASSUME PumpTypes, stack # <<>>
  PROVE  /\ Len(stack) \in Nat \ {0} /\ DOMAIN stack = 1 .. Len(stack)
         /\ Top \in FrameType
         /\ \A i \in 1 .. Len(stack) : stack[i] \in FrameType
<1>1. stack \in Seq(FrameType)
  BY DEF PumpTypes
<1>2. Len(stack) \in Nat \ {0} /\ DOMAIN stack = 1 .. Len(stack)
  BY <1>1
<1>3. \A i \in 1 .. Len(stack) : stack[i] \in FrameType
  BY <1>1
<1>4. QED
  BY <1>2, <1>3 DEF Top

\* The innermost run goes to another place; the others stay as they are.
Moved(at, did, task) ==
  /\ stack' \in Seq(FrameType) /\ stack' # <<>> /\ Len(stack') = Len(stack)
  /\ Top'.at = at /\ Top'.did = did /\ Top'.task = task
  /\ \A i \in 1 .. Len(stack) - 1 : stack'[i] = stack[i]

LEMMA SetTop ==
  ASSUME PumpTypes, stack # <<>>, NEW f \in FrameType,
         stack' = [stack EXCEPT ![Len(stack)] = f]
  PROVE  Moved(f.at, f.did, f.task)
<1>1. Len(stack) \in Nat \ {0} /\ DOMAIN stack = 1 .. Len(stack)
        /\ stack \in Seq(FrameType)
  BY TopFacts DEF PumpTypes
<1>2. stack' \in Seq(FrameType) /\ Len(stack') = Len(stack)
  BY <1>1
<1>3. stack'[Len(stack)] = f /\ \A i \in 1 .. Len(stack) - 1 : stack'[i] = stack[i]
  <2>1. Len(stack) \in DOMAIN stack
    BY <1>1
  <2> DEFINE n == Len(stack)
  <2>2. ASSUME NEW i \in 1 .. n - 1 PROVE i \in DOMAIN stack /\ i # n
    <3>1. n \in Nat \ {0} /\ DOMAIN stack = 1 .. n
      BY <1>1
    <3> HIDE DEF n
    <3>2. i \in 1 .. n /\ i # n
      BY <3>1
    <3>3. QED
      BY <3>1, <3>2
  <2>3. QED
    BY <2>1, <2>2
<1>4. stack' # <<>> /\ Top' = f
  BY <1>1, <1>2, <1>3 DEF Top
<1>5. QED
  BY <1>2, <1>3, <1>4 DEF Moved

\* What follows a method of the delegate.
LEMMA AfterFacts ==
  /\ \A m, d : After(m, d, FALSE) = "leave"
  /\ \A d : After("work", d, TRUE) = "delayed"
  /\ After("delayed", TRUE, TRUE) = "work" /\ After("delayed", FALSE, TRUE) = "idle"
  /\ After("idle", FALSE, TRUE) = "wait"
  /\ \A m : m # "work" => After(m, TRUE, TRUE) = "work"
BY DEF After

LEMMA AfterPlaces ==
  ASSUME NEW m, NEW d \in BOOLEAN, NEW k \in BOOLEAN,
         m \in {"work", "delayed", "idle"} \/ d
  PROVE  After(m, d, k) \in Places
BY AfterFacts DEF Places

LEMMA ReturnMoves ==
  ASSUME PumpTypes, stack # <<>>, Top.at \in {"work", "delayed", "idle"},
         NEW d \in BOOLEAN, NEW k \in BOOLEAN, Return(d, k)
  PROVE  Moved(After(Top.at, d, k), d, Top.task)
<1> DEFINE p == After(Top.at, d, k)
           f == [Top EXCEPT !.at = p, !.did = d]
<1>1. Top \in FrameType /\ Len(stack) \in DOMAIN stack /\ p \in Places
  BY TopFacts, AfterPlaces
<1>2. stack' = [stack EXCEPT ![Len(stack)] = [stack[Len(stack)] EXCEPT !.at = p, !.did = d]]
  BY <1>1 DEF Return
<1>3. stack' = [stack EXCEPT ![Len(stack)] = f]
  BY <1>2 DEF Top
<1> HIDE DEF p
<1>4. f \in FrameType /\ f.at = p /\ f.did = d /\ f.task = Top.task
  BY <1>1 DEF FrameType
<1> HIDE DEF f
<1>5. Moved(f.at, f.did, f.task)
  BY <1>3, <1>4, SetTop
<1>6. QED
  BY <1>4, <1>5 DEF p

LEMMA RunTaskMoves ==
  ASSUME PumpTypes, stack # <<>>, NEW x \in Task, RunTask(x)
  PROVE  Moved("task", Top.did, x)
<1> DEFINE f == [Top EXCEPT !.at = "task", !.from = Top.at, !.task = x]
<1>1. Top \in FrameType /\ Len(stack) \in DOMAIN stack
  BY TopFacts
<1>2. stack' = [stack EXCEPT ![Len(stack)] =
                  [stack[Len(stack)] EXCEPT !.at = "task", !.from = Top.at, !.task = x]]
  BY <1>1 DEF RunTask
<1>3. stack' = [stack EXCEPT ![Len(stack)] = f]
  BY <1>2 DEF Top
<1>4. f \in FrameType /\ f.at = "task" /\ f.did = Top.did /\ f.task = x
  BY <1>1 DEF FrameType, Places
<1> HIDE DEF f
<1>5. Moved(f.at, f.did, f.task)
  BY <1>3, <1>4, SetTop
<1>6. QED
  BY <1>4, <1>5

\* Only the place changes.
LEMMA PlaceMoves ==
  ASSUME PumpTypes, stack # <<>>, NEW p \in Places,
         stack' = [stack EXCEPT ![Len(stack)].at = p]
  PROVE  Moved(p, Top.did, Top.task)
<1> DEFINE f == [Top EXCEPT !.at = p]
<1>1. Top \in FrameType /\ Len(stack) \in DOMAIN stack
  BY TopFacts
<1>2. stack' = [stack EXCEPT ![Len(stack)] = [stack[Len(stack)] EXCEPT !.at = p]]
  BY <1>1
<1>3. stack' = [stack EXCEPT ![Len(stack)] = f]
  BY <1>2 DEF Top
<1>4. f \in FrameType /\ f.at = p /\ f.did = Top.did /\ f.task = Top.task
  BY <1>1 DEF FrameType
<1> HIDE DEF f
<1>5. Moved(f.at, f.did, f.task)
  BY <1>3, <1>4, SetTop
<1>6. QED
  BY <1>4, <1>5

LEMMA EndTaskMoves ==
  ASSUME PumpTypes, EndTask
  PROVE  Moved(After(Top.from, TRUE, pump.keepRunning), TRUE, NoTask)
<1> DEFINE p == After(Top.from, TRUE, pump.keepRunning)
           f == [Top EXCEPT !.at = p, !.did = TRUE, !.task = NoTask]
<1>0. stack # <<>> /\ pump.keepRunning \in BOOLEAN
  BY DEF EndTask, At, PumpTypes, PumpType
<1>1. Top \in FrameType /\ Len(stack) \in DOMAIN stack /\ p \in Places
  <2>1. Top \in FrameType /\ Len(stack) \in DOMAIN stack
    BY <1>0, TopFacts
  <2>2. After(Top.from, TRUE, TRUE) \in Places /\ After(Top.from, TRUE, FALSE) \in Places
    BY AfterPlaces
  <2>3. QED
    BY <1>0, <2>1, <2>2
<1>2. stack' = [stack EXCEPT ![Len(stack)] =
                  [stack[Len(stack)] EXCEPT !.at = p, !.did = TRUE, !.task = NoTask]]
  BY <1>1 DEF EndTask
<1>3. stack' = [stack EXCEPT ![Len(stack)] = f]
  BY <1>2 DEF Top
<1> HIDE DEF p
<1>4. f \in FrameType /\ f.at = p /\ f.did = TRUE /\ f.task = NoTask
  BY <1>1 DEF FrameType
<1> HIDE DEF f
<1>5. Moved(f.at, f.did, f.task)
  BY <1>0, <1>3, <1>4, SetTop
<1>6. QED
  BY <1>4, <1>5 DEF p

-----------------------------------------------------------------------------
(***************************************************************************)
(* The queues.                                                             *)
(***************************************************************************)
\* Sequences of tasks, at both ends.
LEMMA TaskSeq ==
  ASSUME NEW s \in Seq(Task)
  PROVE  /\ ToSet(s) \subseteq Task
         /\ s # <<>> => /\ Head(s) \in ToSet(s) /\ Tail(s) \in Seq(Task)
                        /\ ToSet(s) = ToSet(Tail(s)) \cup {Head(s)}
         /\ \A x \in Task : /\ Append(s, x) \in Seq(Task) /\ Append(s, x) # <<>>
                            /\ ToSet(Append(s, x)) = ToSet(s) \cup {x}
<1>1. DOMAIN s = 1 .. Len(s) /\ Len(s) \in Nat /\ \A i \in 1 .. Len(s) : s[i] \in Task
  OBVIOUS
<1>2. ToSet(s) \subseteq Task
  BY <1>1 DEF ToSet
<1>3. ASSUME s # <<>>
      PROVE  /\ Head(s) \in ToSet(s) /\ Tail(s) \in Seq(Task)
             /\ ToSet(s) = ToSet(Tail(s)) \cup {Head(s)}
  <2>1. /\ Tail(s) \in Seq(Task) /\ Len(Tail(s)) = Len(s) - 1 /\ Head(s) = s[1]
        /\ \A i \in 1 .. Len(s) - 1 : Tail(s)[i] = s[i + 1]
    BY <1>3
  <2>2. DOMAIN Tail(s) = 1 .. Len(s) - 1 /\ 1 \in 1 .. Len(s)
    BY <1>1, <1>3, <2>1
  <2>3. ToSet(Tail(s)) \cup {Head(s)} \subseteq ToSet(s)
    <3>1. \A i \in 1 .. Len(s) - 1 : i + 1 \in 1 .. Len(s)
      BY <1>1
    <3>2. QED
      BY <1>1, <2>1, <2>2, <3>1 DEF ToSet
  <2>4. ASSUME NEW x \in ToSet(s) PROVE x \in ToSet(Tail(s)) \cup {Head(s)}
    <3>1. PICK i \in 1 .. Len(s) : x = s[i]
      BY <1>1 DEF ToSet
    <3>2. CASE i # 1
      <4>1. i - 1 \in 1 .. Len(s) - 1 /\ (i - 1) + 1 = i
        BY <1>1, <3>2
      <4>2. Tail(s)[i - 1] = x
        BY <2>1, <3>1, <4>1
      <4>3. QED
        BY <2>2, <4>1, <4>2 DEF ToSet
    <3>3. QED
      BY <2>1, <3>1, <3>2
  <2>5. QED
    BY <1>1, <2>1, <2>2, <2>3, <2>4
<1>4. ASSUME NEW x \in Task
      PROVE  /\ Append(s, x) \in Seq(Task) /\ Append(s, x) # <<>>
             /\ ToSet(Append(s, x)) = ToSet(s) \cup {x}
  <2> DEFINE a == Append(s, x)
             n == Len(s)
  <2>1. /\ a \in Seq(Task) /\ a # <<>> /\ DOMAIN a = 1 .. n + 1 /\ a[n + 1] = x
        /\ \A i \in 1 .. n : a[i] = s[i]
    OBVIOUS
  <2>2. n \in Nat /\ DOMAIN s = 1 .. n
    OBVIOUS
  <2> HIDE DEF a, n
  <2>3. 1 .. n + 1 = (1 .. n) \cup {n + 1}
    BY <2>2
  <2>4. ToSet(a) = ToSet(s) \cup {x}
    BY <2>1, <2>2, <2>3 DEF ToSet
  <2>5. QED
    BY <2>1, <2>4 DEF a
<1>5. QED
  BY <1>2, <1>3, <1>4

LEMMA EmptyIsSeq == <<>> \in Seq(Task)
OBVIOUS

LEMMA EmptySet == ToSet(<<>>) = {}
BY DEF ToSet

\* ReloadWorkQueue.
LEMMA ReloadedFacts ==
  ASSUME NEW q \in QueueType
  PROVE  /\ Reloaded(q) \in QueueType
         /\ Reloaded(q).delayed = q.delayed /\ Reloaded(q).deferred = q.deferred
         /\ Reloaded(q).accept = q.accept
         /\ q.triage # <<>> => Reloaded(q) = q
         /\ q.triage = <<>> => /\ Reloaded(q).triage = q.incoming
                               /\ Reloaded(q).incoming = <<>>
                               /\ Reloaded(q).triageEmpty = (q.incoming = <<>>)
         /\ ToSet(Reloaded(q).incoming) \cup ToSet(Reloaded(q).triage)
              = ToSet(q.incoming) \cup ToSet(q.triage)
<1>1. CASE q.triage # <<>>
  BY <1>1 DEF Reloaded
<1>2. CASE q.triage = <<>>
  <2>1. Reloaded(q) = [q EXCEPT !.triage = q.incoming, !.incoming = <<>>,
                                !.triageEmpty = q.incoming = <<>>]
    BY <1>2 DEF Reloaded
  <2>2. (q.incoming = <<>>) \in BOOLEAN
    OBVIOUS
  <2>3. /\ Reloaded(q) \in QueueType
        /\ Reloaded(q).delayed = q.delayed /\ Reloaded(q).deferred = q.deferred
        /\ Reloaded(q).accept = q.accept
        /\ Reloaded(q).triage = q.incoming
        /\ Reloaded(q).incoming = <<>>
        /\ Reloaded(q).triageEmpty = (q.incoming = <<>>)
    BY <2>1, <2>2, EmptyIsSeq DEF QueueType
  <2>4. ToSet(Reloaded(q).incoming) = {} /\ ToSet(q.triage) = {}
    BY <1>2, <2>3, EmptySet
  <2>5. QED
    BY <1>2, <2>3, <2>4
<1>3. QED
  BY <1>1, <1>2

\* sequence_num is the place of a task among the accepted ones.
LEMMA SequenceNumFacts ==
  ASSUME accepted \in Seq(Task), NEW x \in ToSet(accepted)
  PROVE  /\ SequenceNum(x) \in Nat /\ SequenceNum(x) \in DOMAIN accepted
         /\ accepted[SequenceNum(x)] = x
<1> DEFINE I == {i \in 1 .. Len(accepted) : accepted[i] = x}
<1>1. /\ Len(accepted) \in Nat /\ I \in SUBSET (1 .. Len(accepted))
      /\ DOMAIN accepted = 1 .. Len(accepted)
  OBVIOUS
<1>2. I # {}
  BY <1>1 DEF ToSet
<1>3. SequenceNum(x) = Min(I)
  BY <1>2 DEF SequenceNum, SelectInSeq
<1>4. SequenceNum(x) \in I
  BY <1>1, <1>2, <1>3, FirstPlace
<1>5. QED
  BY <1>1, <1>4

\* DelayedTaskQueue has a first task.
LEMMA FirstFacts ==
  ASSUME QueueTypes, NEW d \in SUBSET ToSet(accepted), d # {},
         \A x \in d : due[x] # NoTime
  PROVE  /\ First(d) \in d
         /\ \A y \in d \ {First(d)} : Sooner(First(d), y)
<1>1. \A x \in d : due[x] \in Nat
  BY TaskSeq DEF QueueTypes
<1> DEFINE D == {due[x] : x \in d}
<1>2. PICK m \in D : \A k \in D : m <= k
  <2>1. D \in SUBSET Nat /\ D # {}
    BY <1>1
  <2>2. QED
    BY <2>1, LeastNumber
<1> DEFINE T == {x \in d : due[x] = m}
           N == {SequenceNum(x) : x \in T}
<1>3. \A x \in d : SequenceNum(x) \in Nat /\ accepted[SequenceNum(x)] = x
  BY SequenceNumFacts DEF QueueTypes
<1>4. PICK n \in N : \A k \in N : n <= k
  <2>1. N \in SUBSET Nat /\ N # {}
    BY <1>2, <1>3
  <2>2. QED
    BY <2>1, LeastNumber
<1>5. PICK x \in T : SequenceNum(x) = n
  BY <1>4
<1>6. ASSUME NEW y \in d \ {x} PROVE Sooner(x, y)
  <2>1. m <= due[y] /\ due[x] = m /\ due[y] \in Nat /\ m \in Nat
    BY <1>1, <1>2, <1>5
  <2>2. CASE due[y] = m
    <3>1. SequenceNum(y) \in N
      BY <2>2
    <3>2. n <= SequenceNum(y) /\ n \in Nat /\ SequenceNum(y) \in Nat
      BY <1>3, <1>4, <1>5, <3>1
    <3>3. SequenceNum(y) # n
      BY <1>3, <1>5
    <3>4. n < SequenceNum(y)
      BY <3>2, <3>3
    <3>5. QED
      BY <1>5, <2>1, <2>2, <3>4 DEF Sooner
  <2>3. CASE due[y] # m
    <3>1. m < due[y]
      BY <2>1, <2>3
    <3>2. QED
      BY <2>1, <3>1 DEF Sooner
  <2>4. QED
    BY <2>2, <2>3
<1>7. \E z \in d : \A y \in d \ {z} : Sooner(z, y)
  BY <1>5, <1>6
<1>8. QED
  BY <1>7 DEF First

\* HasTasks removes only cancelled tasks.
LEMMA SweptFacts ==
  ASSUME NEW d
  PROVE  Swept(d) \subseteq d /\ d \ cancelled \subseteq Swept(d)
BY DEF Swept

\* What is left of deferred_tasks.
LEMMA DeferredFacts ==
  ASSUME queue \in QueueType
  PROVE  Deferred \in Seq(Task) /\ ToSet(Deferred) \subseteq ToSet(queue.deferred)
<1> DEFINE s == queue.deferred
           I == {i \in 1 .. Len(s) : s[i] \notin cancelled}
           j == SelectInSeq(s, LAMBDA x : x \notin cancelled)
<1>1. s \in Seq(Task)
  BY DEF QueueType
<1>0. /\ j = IF I # {} THEN Min(I) ELSE 0
      /\ Deferred = IF j = 0 THEN <<>> ELSE SubSeq(s, j, Len(s))
  BY DEF SelectInSeq, Deferred
<1> HIDE DEF j
<1>2. Len(s) \in Nat /\ I \in SUBSET (1 .. Len(s)) /\ DOMAIN s = 1 .. Len(s)
  BY <1>1
<1>3. CASE I = {}
  <2>1. Deferred = <<>>
    BY <1>0, <1>3
  <2>2. PICK e : e = Deferred
    OBVIOUS
  <2>3. e = <<>>
    BY <2>1, <2>2
  <2>4. e \in Seq(Task) /\ ToSet(e) = {}
    BY <2>3, EmptySet, EmptyIsSeq
  <2>5. QED
    BY <2>2, <2>4
<1>4. CASE I # {}
  <2> DEFINE k == Min(I)
  <2>1. k \in 1 .. Len(s)
    BY <1>2, <1>4, FirstPlace
  <2>2. Deferred = SubSeq(s, k, Len(s))
    <3>1. j = k /\ k # 0
      BY <1>0, <1>2, <1>4, <2>1
    <3>2. QED
      BY <1>0, <3>1
  <2> HIDE DEF k, s
  <2>3. /\ SubSeq(s, k, Len(s)) \in Seq(Task)
        /\ \A i \in DOMAIN SubSeq(s, k, Len(s)) :
             SubSeq(s, k, Len(s))[i] = s[k + i - 1] /\ k + i - 1 \in 1 .. Len(s)
    BY <1>1, <1>2, <2>1
  <2>4. QED
    BY <1>2, <2>2, <2>3 DEF ToSet, s
<1>5. QED
  BY <1>3, <1>4

-----------------------------------------------------------------------------
(***************************************************************************)
(* The event of the pump.                                                  *)
(***************************************************************************)
\* A call goes on or ends.
Continues(u) ==
  \/ call'[u] = Idle
  \/ /\ call'[u].op = call[u].op /\ call'[u].raw = call[u].raw
     /\ call'[u].timed = call[u].timed

\* The loop's thread waits, and nothing has ended its wait.
Pending == /\ call[Loop].op = "wait" /\ call[Loop].at \in {"lock", "asleep"}
           /\ ~call[Loop].fired

\* A call of Signal by a thread that has posted, and is not through with it.
Ringing(t) == /\ post[t].at = "scheduling" /\ call[t].op = "signal"
              /\ call[t].at \in {"lock", "fire"}

\* The event is signaled, or it will be.
Alarm ==
  \/ kernel[PumpEvent].signaled
  \/ \E t \in Thread : \/ post[t].at = "notify" /\ post[t].wasEmpty
                       \/ Ringing(t)

\* While it sleeps it is on the list, and then the event is not signaled.
SleepSound ==
  life # "gone" /\ call[Loop].at = "asleep" /\ ~call[Loop].fired =>
    ~kernel[PumpEvent].signaled /\ kernel[PumpEvent].waiters # <<>>

\* What the steps of a call leave as it should be.
Rings ==
  /\ \A u \in Thread : Continues(u)
  /\ Pending' => Pending
  /\ Alarm => Alarm' \/ (call[Loop].op = "wait" /\ ~Pending')
  /\ SleepSound'

\* The calls of a loop that is not gone are about its event.
LEMMA OneEvent ==
  ASSUME EventInv, CallShape, life # "gone", NEW t \in Thread
  PROVE  /\ call[t].op # "none" => call[t].raw[1] = PumpEvent /\ Len(call[t].raw) = 1
         /\ call[t].op = "wait" \/ Blocked(t) => t = Loop
         /\ call[t].op = "wait" => ToSet(call[t].raw) = {PumpEvent} /\ call[t].count = 0
<1>1. call[t].op # "none" => call[t].raw = <<PumpEvent>>
  BY DEF CallShape
<1>2. call[t].op # "none" => call[t].raw[1] = PumpEvent /\ Len(call[t].raw) = 1
  BY <1>1
<1>3. call[t].op = "wait" \/ Blocked(t) => t = Loop
  BY WaiterFacts DEF CallShape
<1>4. ASSUME call[t].op = "wait"
      PROVE  ToSet(call[t].raw) = {PumpEvent} /\ call[t].count = 0
  <2>1. /\ call[t].raw[1] = PumpEvent /\ Len(call[t].raw) = 1
        /\ call[t].count \in Nat /\ call[t].count < Len(call[t].raw)
        /\ DOMAIN call[t].raw = 1 .. Len(call[t].raw)
    BY <1>2, <1>4, WaiterFacts
  <2>2. DOMAIN call[t].raw = {1} /\ call[t].count = 0
    BY <2>1
  <2>3. QED
    BY <2>1, <2>2 DEF ToSet
<1>5. QED
  BY <1>2, <1>3, <1>4

\* Only the loop's thread is on the list.
LEMMA OneWaiter ==
  ASSUME EventInv, CallShape, life # "gone"
  PROVE  /\ kernel[PumpEvent].waiters \in Seq(Thread)
         /\ kernel[PumpEvent].waiters # <<>> =>
              Head(kernel[PumpEvent].waiters) = Loop /\ Blocked(Loop)
<1>1. PumpEvent \in Event
  BY LoopAssumption
<1>2. kernel[PumpEvent].waiters \in Seq(Thread)
  BY <1>1, KernelFacts
<1>3. ASSUME kernel[PumpEvent].waiters # <<>>
      PROVE  Head(kernel[PumpEvent].waiters) = Loop /\ Blocked(Loop)
  <2>1. /\ 1 \in DOMAIN kernel[PumpEvent].waiters
        /\ Head(kernel[PumpEvent].waiters) = kernel[PumpEvent].waiters[1]
        /\ kernel[PumpEvent].waiters[1] \in Thread
    BY <1>2, <1>3
  <2>2. Listed(kernel[PumpEvent].waiters[1], PumpEvent)
    BY <1>1, <2>1 DEF EventInv, ListsExact
  <2>3. QED
    BY <2>1, <2>2, OneEvent DEF Listed
<1>4. QED
  BY <1>2, <1>3

\* A step that changes nothing of the event but one call.
LEMMA RingsOfOne ==
  ASSUME EventInv, SleepSound, UNCHANGED <<post, life>>,
         NEW t \in Thread, Continues(t), \A u \in Thread \ {t} : call'[u] = call[u],
         kernel'[PumpEvent].signaled = kernel[PumpEvent].signaled,
         kernel'[PumpEvent].waiters = kernel[PumpEvent].waiters,
         t = Loop => ~Pending' /\ (call'[Loop].at # "asleep" \/ call'[Loop].fired),
         Ringing(t) => Ringing(t)' \/ kernel[PumpEvent].signaled
  PROVE  Rings
<1>1. Loop \in Thread
  BY LoopAssumption
<1>2. \A u \in Thread : Continues(u)
  BY DEF Continues
<1>3. Pending' => Pending
  BY <1>1 DEF Pending
<1>4. ASSUME Alarm PROVE Alarm' \/ (call[Loop].op = "wait" /\ ~Pending')
  <2>1. ASSUME NEW u \in Thread, Ringing(u), u # t PROVE Ringing(u)'
    BY <2>1 DEF Ringing
  <2>2. QED
    BY <1>4, <2>1 DEF Alarm
<1>5. SleepSound'
  <2>1. CASE t # Loop
    BY <1>1, <2>1 DEF SleepSound
  <2>2. CASE t = Loop
    BY <2>2 DEF SleepSound, Pending
  <2>3. QED
    BY <2>1, <2>2
<1>6. QED
  BY <1>2, <1>3, <1>4, <1>5 DEF Rings

LEMMA SignalLockRings ==
  ASSUME EventInv, CallShape, SleepSound, life # "gone", UNCHANGED <<post, life>>,
         NEW t \in Thread, SignalLock(t)
  PROVE  Rings
<1>1. call \in [Thread -> CallType] /\ kernel \in [Event -> Kernel] /\ PumpEvent \in Event
  BY LoopAssumption DEF EventInv, Types
<1>2. /\ call[t].op = "signal" /\ call[t].at = "lock" /\ call[t].raw[1] = PumpEvent
      /\ call[t] \in CallType
  BY <1>1, OneEvent DEF SignalLock
<1>3. CASE kernel[PumpEvent].signaled
  <2>1. call' = [call EXCEPT ![t] = Idle] /\ UNCHANGED kernel
    BY <1>2, <1>3 DEF SignalLock
  <2>2. call'[t] = Idle /\ \A u \in Thread \ {t} : call'[u] = call[u]
    BY <1>1, <2>1
  <2>3. t = Loop => ~Pending' /\ call'[Loop].at # "asleep"
    BY <2>2 DEF Pending, Idle
  <2>4. QED
    BY <1>3, <2>1, <2>2, <2>3, RingsOfOne DEF Continues
<1>4. CASE ~kernel[PumpEvent].signaled
  <2>1. call' = [call EXCEPT ![t].at = "fire"] /\ kernel' = [kernel EXCEPT ![PumpEvent].lock = t]
    BY <1>2, <1>4 DEF SignalLock
  <2>2. call'[t] = [call[t] EXCEPT !.at = "fire"] /\ \A u \in Thread \ {t} : call'[u] = call[u]
    BY <1>1, <2>1
  <2>3. /\ call'[t].op = "signal" /\ call'[t].at = "fire" /\ call'[t].raw = call[t].raw
        /\ call'[t].timed = call[t].timed
    BY <1>2, <2>2 DEF CallType
  <2>4. /\ kernel'[PumpEvent].signaled = kernel[PumpEvent].signaled
        /\ kernel'[PumpEvent].waiters = kernel[PumpEvent].waiters
    BY <1>1, <2>1 DEF Kernel
  <2>5. t = Loop => ~Pending' /\ call'[Loop].at # "asleep"
    BY <2>3 DEF Pending
  <2>6. Ringing(t) => Ringing(t)'
    BY <2>3 DEF Ringing
  <2>7. Continues(t)
    BY <1>2, <2>3 DEF Continues
  <2>8. QED
    BY <2>2, <2>4, <2>5, <2>6, <2>7, RingsOfOne
<1>5. QED
  BY <1>3, <1>4

LEMMA SignalFireRings ==
  ASSUME EventInv, CallShape, SleepSound, life # "gone", UNCHANGED <<post, life>>,
         NEW t \in Thread, SignalFire(t)
  PROVE  Rings
<1>1. call \in [Thread -> CallType] /\ kernel \in [Event -> Kernel] /\ PumpEvent \in Event
      /\ Loop \in Thread
  BY LoopAssumption DEF EventInv, Types
<1>2. /\ call[t].op = "signal" /\ call[t].at = "fire" /\ call[t].raw[1] = PumpEvent
      /\ call[t] \in CallType /\ kernel[PumpEvent].waiters # <<>>
  <2>1. call[t].at = "fire"
    BY DEF SignalFire
  <2>2. call[t].op = "signal"
    BY <2>1, SignalerFacts DEF Signals
  <2>3. QED
    BY <1>1, <2>1, <2>2, OneEvent DEF SignalFire
<1>3. Head(kernel[PumpEvent].waiters) = Loop /\ Blocked(Loop) /\ call[Loop].op = "wait"
  BY <1>1, <1>2, OneWaiter, WaiterFacts
<1>4. Loop # t
  BY <1>2, <1>3
<1>5. /\ kernel' = [kernel EXCEPT ![PumpEvent].waiters = Tail(@)]
      /\ call' = [call EXCEPT
                  ![Loop] = Fired(Loop, PumpEvent),
                  ![t].woke = IF ~call[Loop].fired THEN @ \cup {Loop} ELSE @,
                  ![t].at = IF ~call[Loop].fired /\ AutoReset(PumpEvent) THEN "unlock" ELSE @]
  BY <1>2, <1>3 DEF SignalFire
<1>6. /\ \A u \in Thread \ {t, Loop} : call'[u] = call[u]
      /\ call'[Loop] = Fired(Loop, PumpEvent)
      /\ call'[t] = [call[t] EXCEPT
                       !.woke = IF ~call[Loop].fired THEN @ \cup {Loop} ELSE @,
                       !.at = IF ~call[Loop].fired /\ AutoReset(PumpEvent) THEN "unlock" ELSE @]
  BY <1>1, <1>4, <1>5
<1>7. /\ call'[Loop].op = "wait" /\ call'[Loop].raw = call[Loop].raw /\ call'[Loop].fired
      /\ call'[Loop].timed = call[Loop].timed
  <2>1. call[Loop] \in CallType
    BY <1>1
  <2>2. CASE call[Loop].fired
    BY <1>3, <1>6, <2>2 DEF Fired
  <2>3. CASE ~call[Loop].fired
    BY <1>3, <1>6, <2>1, <2>3 DEF Fired, CallType
  <2>4. QED
    BY <2>2, <2>3
<1>8. /\ call'[t].op = call[t].op /\ call'[t].raw = call[t].raw
      /\ call'[t].timed = call[t].timed
  BY <1>2, <1>6 DEF CallType
<1>9. ASSUME NEW u \in Thread PROVE Continues(u)
  <2>1. CASE u = Loop
    BY <1>3, <1>7, <2>1 DEF Continues
  <2>2. CASE u = t
    BY <1>8, <2>2 DEF Continues
  <2>3. CASE u \notin {t, Loop}
    BY <1>6, <2>3 DEF Continues
  <2>4. QED
    BY <2>1, <2>2, <2>3
<1>10. ~Pending' /\ SleepSound'
  BY <1>7 DEF Pending, SleepSound
<1>11. QED
  BY <1>3, <1>9, <1>10 DEF Rings

LEMMA SignalUnlockRings ==
  ASSUME EventInv, CallShape, SleepSound, life # "gone", UNCHANGED <<post, life>>,
         NEW t \in Thread, SignalUnlock(t)
  PROVE  Rings
<1>1. call \in [Thread -> CallType] /\ kernel \in [Event -> Kernel] /\ PumpEvent \in Event
      /\ Loop \in Thread
  BY LoopAssumption DEF EventInv, Types
<1>2. Signals(t) /\ call[t].op = "signal" /\ call[t].raw[1] = PumpEvent
      /\ ~kernel[PumpEvent].signaled
  <2>1. Signals(t)
    BY DEF SignalUnlock, Signals
  <2>2. call[t].op = "signal"
    BY <2>1, SignalerFacts
  <2>3. call[t].raw[1] = PumpEvent
    BY <2>2, OneEvent
  <2>4. QED
    BY <2>1, <2>2, <2>3 DEF EventInv, UnsignaledMeanwhile
<1>3. /\ kernel' = [kernel EXCEPT ![PumpEvent].signaled = call[t].at = "fire",
                                  ![PumpEvent].lock = NoThread]
      /\ call' = [call EXCEPT ![t] = Idle]
      /\ call[t].at = "unlock" \/ (call[t].at = "fire" /\ kernel[PumpEvent].waiters = <<>>)
  BY <1>2 DEF SignalUnlock
<1>4. call'[t] = Idle /\ \A u \in Thread \ {t} : call'[u] = call[u]
  BY <1>1, <1>3
<1>5. /\ kernel'[PumpEvent].signaled = (call[t].at = "fire")
      /\ kernel'[PumpEvent].waiters = kernel[PumpEvent].waiters
  BY <1>1, <1>3 DEF Kernel
<1>6. \A u \in Thread : Continues(u)
  BY <1>4 DEF Continues
<1>7. Pending' => Pending
  BY <1>1, <1>4 DEF Pending, Idle
<1>8. ASSUME Alarm PROVE Alarm'
  <2>1. CASE call[t].at = "fire"
    BY <1>5, <2>1 DEF Alarm
  <2>2. CASE call[t].at # "fire"
    <3>1. ~Ringing(t)
      BY <1>2, <2>2 DEF Ringing, Signals
    <3>2. ASSUME NEW u \in Thread, Ringing(u) PROVE Ringing(u)'
      BY <1>4, <3>1, <3>2 DEF Ringing
    <3>3. QED
      BY <1>2, <1>8, <3>2 DEF Alarm
  <2>3. QED
    BY <2>1, <2>2
<1>9. SleepSound'
  <2> SUFFICES ASSUME call'[Loop].at = "asleep", ~call'[Loop].fired
               PROVE  ~kernel'[PumpEvent].signaled /\ kernel'[PumpEvent].waiters # <<>>
    BY DEF SleepSound
  <2>1. Loop # t
    BY <1>4 DEF Idle
  <2>2. kernel[PumpEvent].waiters # <<>>
    BY <1>1, <1>4, <2>1 DEF SleepSound
  <2>3. QED
    BY <1>3, <1>5, <2>2
<1>10. QED
  BY <1>6, <1>7, <1>8, <1>9 DEF Rings

LEMMA WaitLockRings ==
  ASSUME EventInv, CallShape, SleepSound, life # "gone", UNCHANGED <<post, life>>,
         NEW t \in Thread, WaitLock(t)
  PROVE  Rings
<1>1. call \in [Thread -> CallType] /\ kernel \in [Event -> Kernel] /\ PumpEvent \in Event
      /\ Loop \in Thread
  BY LoopAssumption DEF EventInv, Types
<1> DEFINE raw == call[t].raw
           win == Winner(raw)
<1>2. /\ t = Loop /\ call[t].op = "wait" /\ call[t].at = "lock" /\ call[t].count = 0
      /\ Len(raw) = 1 /\ raw[1] = PumpEvent /\ ToSet(raw) = {PumpEvent}
      /\ raw \in Seq(Event) /\ call[t] \in CallType
  BY <1>1, OneEvent, WaiterFacts DEF WaitLock
<1>3. Decide(t)
  BY <1>2 DEF WaitLock
<1>4. ~call[t].fired
  BY <1>2, CallFacts DEF CallWellFormed
<1>5. /\ win # 0 => win \in 1 .. Len(raw)
      /\ win = 0 => \A e \in ToSet(raw) : ~kernel[e].signaled
  BY <1>2, WinnerFacts
<1>6. CASE win # 0
  <2>1. call' = [call EXCEPT ![t] = Idle]
    BY <1>3, <1>6 DEF Decide
  <2>2. call'[t] = Idle /\ \A u \in Thread \ {t} : call'[u] = call[u]
    BY <1>1, <2>1
  <2>3. ~Pending' /\ SleepSound'
    BY <1>2, <2>2 DEF Pending, SleepSound, Idle
  <2>4. \A u \in Thread : Continues(u)
    BY <2>2 DEF Continues
  <2>5. QED
    BY <1>2, <2>3, <2>4 DEF Rings
<1>7. CASE win = 0
  <2>1. /\ call' = [call EXCEPT ![t].at = "asleep", ![t].count = 0]
        /\ kernel' = [e \in Event |->
             IF e \notin ToSet(raw) THEN kernel[e]
             ELSE [kernel[e] EXCEPT !.lock = NoThread, !.waiters = Append(@, t)]]
    BY <1>3, <1>7 DEF Decide
  <2>2. /\ call'[t] = [call[t] EXCEPT !.at = "asleep", !.count = 0]
        /\ \A u \in Thread \ {t} : call'[u] = call[u]
    BY <1>1, <2>1
  <2>3. /\ call'[t].op = call[t].op /\ call'[t].raw = call[t].raw
        /\ call'[t].timed = call[t].timed
    BY <1>2, <2>2 DEF CallType
  <2>4. kernel'[PumpEvent] = [kernel[PumpEvent] EXCEPT !.lock = NoThread,
                                                       !.waiters = Append(@, t)]
    BY <1>1, <1>2, <2>1
  <2>5. /\ kernel'[PumpEvent].signaled = kernel[PumpEvent].signaled
        /\ kernel'[PumpEvent].waiters = Append(kernel[PumpEvent].waiters, t)
    BY <1>1, <2>4 DEF Kernel
  <2>6. ~kernel[PumpEvent].signaled
    BY <1>2, <1>5, <1>7
  <2>7. kernel'[PumpEvent].waiters # <<>>
    <3>1. kernel[PumpEvent].waiters \in Seq(Thread)
      BY <1>1 DEF Kernel
    <3>2. QED
      BY <2>5, <3>1
  <2>8. SleepSound'
    BY <2>5, <2>6, <2>7 DEF SleepSound
  <2>9. \A u \in Thread : Continues(u)
    BY <2>2, <2>3 DEF Continues
  <2>10. Pending
    BY <1>2, <1>4 DEF Pending
  <2>11. ASSUME Alarm PROVE Alarm'
    <3>1. ~Ringing(t)
      BY <1>2 DEF Ringing
    <3>2. ASSUME NEW u \in Thread, Ringing(u) PROVE Ringing(u)'
      BY <2>2, <3>1, <3>2 DEF Ringing
    <3>3. QED
      BY <2>6, <2>11, <3>2 DEF Alarm
  <2>12. QED
    BY <2>8, <2>9, <2>10, <2>11 DEF Rings
<1>8. QED
  BY <1>6, <1>7

\* A wait that is over.
LEMMA WakeRings ==
  ASSUME EventInv, CallShape, SleepSound, life # "gone", UNCHANGED <<post, life>>,
         NEW t \in Thread, WakeUp(t) \/ Expire(t) \/ Dequeue(t)
  PROVE  Rings
<1>1. call \in [Thread -> CallType] /\ kernel \in [Event -> Kernel] /\ PumpEvent \in Event
      /\ Loop \in Thread
  BY LoopAssumption DEF EventInv, Types
<1>2. /\ call[t].at \in {"asleep", "dequeue"} /\ t = Loop /\ call[t].op = "wait"
      /\ call[t].raw[1] = PumpEvent /\ Len(call[t].raw) = 1 /\ call[t].count = 0
      /\ call[t] \in CallType
  <2>1. Blocked(t)
    BY DEF WakeUp, Expire, Dequeue, Blocked
  <2>2. QED
    BY <1>1, <2>1, OneEvent, WaiterFacts DEF Blocked
<1>3. ~Ringing(t)
  BY <1>2 DEF Ringing
<1>4. CASE WakeUp(t)
  <2>1. call' = [call EXCEPT ![t].at = "dequeue", ![t].result = call[t].by] /\ UNCHANGED kernel
    BY <1>4 DEF WakeUp
  <2>2. /\ call'[t] = [call[t] EXCEPT !.at = "dequeue", !.result = call[t].by]
        /\ \A u \in Thread \ {t} : call'[u] = call[u]
    BY <1>1, <2>1
  <2>3. /\ call'[t].op = call[t].op /\ call'[t].raw = call[t].raw /\ call'[t].at = "dequeue"
        /\ call'[t].timed = call[t].timed
    BY <1>2, <2>2 DEF CallType
  <2>4. Continues(t) /\ ~Pending' /\ call'[Loop].at # "asleep"
    BY <1>2, <2>3 DEF Continues, Pending
  <2>5. QED
    BY <1>3, <2>1, <2>2, <2>4, RingsOfOne
<1>5. CASE Expire(t)
  <2>1. call' = [call EXCEPT ![t].at = "dequeue", ![t].fired = TRUE] /\ UNCHANGED kernel
    BY <1>5 DEF Expire
  <2>2. /\ call'[t] = [call[t] EXCEPT !.at = "dequeue", !.fired = TRUE]
        /\ \A u \in Thread \ {t} : call'[u] = call[u]
    BY <1>1, <2>1
  <2>3. /\ call'[t].op = call[t].op /\ call'[t].raw = call[t].raw /\ call'[t].at = "dequeue"
        /\ call'[t].timed = call[t].timed
    BY <1>2, <2>2 DEF CallType
  <2>4. Continues(t) /\ ~Pending' /\ call'[Loop].at # "asleep"
    BY <1>2, <2>3 DEF Continues, Pending
  <2>5. QED
    BY <1>3, <2>1, <2>2, <2>4, RingsOfOne
<1>6. CASE Dequeue(t)
  <2>1. call' = [call EXCEPT ![t] = Idle]
    BY <1>2, <1>6 DEF Dequeue
  <2>2. call'[t] = Idle /\ \A u \in Thread \ {t} : call'[u] = call[u]
    BY <1>1, <2>1
  <2>3. ~Pending' /\ SleepSound'
    BY <1>2, <2>2 DEF Pending, SleepSound, Idle
  <2>4. \A u \in Thread : Continues(u)
    BY <2>2 DEF Continues
  <2>5. QED
    BY <1>2, <2>3, <2>4 DEF Rings
<1>7. QED
  BY <1>4, <1>5, <1>6

LEMMA StepRings ==
  ASSUME EventInv, CallShape, SleepSound, life # "gone", UNCHANGED <<post, life>>,
         NEW t \in Thread, EventStep(t) \/ Expire(t)
  PROVE  Rings
BY SignalLockRings, SignalFireRings, SignalUnlockRings, WaitLockRings, WakeRings DEF EventStep

-----------------------------------------------------------------------------
(***************************************************************************)
(* The stack of runs.                                                      *)
(***************************************************************************)
\* The task of the innermost run is done.
LEMMA TaskDoneFacts ==
  ASSUME PumpTypes, stack # <<>>
  PROVE  /\ TaskDone \in Seq(FrameType) /\ Len(TaskDone) = Len(stack)
         /\ TaskDone[Len(stack)].at = "ending" /\ TaskDone[Len(stack)].task = Top.task
         /\ \A i \in 1 .. Len(stack) - 1 : TaskDone[i] = stack[i]
<1> DEFINE n == Len(stack)
           f == [Top EXCEPT !.at = "ending"]
<1>1. /\ stack \in Seq(FrameType) /\ n \in Nat \ {0} /\ DOMAIN stack = 1 .. n
      /\ Top \in FrameType /\ n \in DOMAIN stack
  BY TopFacts DEF PumpTypes
<1>2. TaskDone = [stack EXCEPT ![n] = f]
  BY <1>1 DEF TaskDone, Top
<1>3. f \in FrameType /\ f.at = "ending" /\ f.task = Top.task
  BY <1>1 DEF FrameType, Places
<1> HIDE DEF f
<1>4. TaskDone \in Seq(FrameType) /\ Len(TaskDone) = n /\ TaskDone[n] = f
  BY <1>1, <1>2, <1>3
<1>5. ASSUME NEW i \in 1 .. n - 1 PROVE TaskDone[i] = stack[i]
  <2> HIDE DEF n
  <2>1. i \in 1 .. n /\ i # n
    BY <1>1
  <2>2. QED
    BY <1>1, <1>2, <2>1
<1>6. QED
  BY <1>3, <1>4, <1>5

\* A run begins, over the others.
LEMMA PushFacts ==
  ASSUME PumpTypes, NEW l \in RunLoop, NEW frames \in Seq(FrameType), Push(l, frames)
  PROVE  /\ stack' \in Seq(FrameType) /\ stack' # <<>> /\ Len(stack') = Len(frames) + 1
         /\ Top'.at = "work" /\ Top'.did = FALSE /\ Top'.task = NoTask
         /\ \A i \in 1 .. Len(frames) : stack'[i] = frames[i]
<1> DEFINE f == Frame(l)
           n == Len(frames)
<1>1. f \in FrameType /\ f.at = "work" /\ f.did = FALSE /\ f.task = NoTask
  <2>1. pump.keepRunning \in BOOLEAN /\ (~allowed /\ (stack = <<>> \/ l \in Allowing)) \in BOOLEAN
    BY DEF PumpTypes, PumpType
  <2>2. QED
    BY <2>1 DEF Frame, FrameType, Places
<1>2. stack' = Append(frames, f)
  BY DEF Push
<1> HIDE DEF f
<1>3. /\ stack' \in Seq(FrameType) /\ stack' # <<>> /\ Len(stack') = n + 1
      /\ stack'[n + 1] = f /\ \A i \in 1 .. n : stack'[i] = frames[i]
  BY <1>1, <1>2
<1>4. Top' = f
  BY <1>3 DEF Top
<1>5. QED
  BY <1>1, <1>3, <1>4

\* The innermost run ends.
LEMMA LeaveFacts ==
  ASSUME PumpTypes, Leave
  PROVE  /\ stack # <<>> /\ stack' \in Seq(FrameType) /\ Len(stack') = Len(stack) - 1
         /\ \A i \in 1 .. Len(stack) - 1 : stack'[i] = stack[i]
         /\ life' = IF stack' = <<>> THEN "clearing" ELSE life
<1>1. stack # <<>> /\ stack' = SubSeq(stack, 1, Len(stack) - 1)
      /\ life' = IF stack' = <<>> THEN "clearing" ELSE life
  BY DEF Leave, At
<1>2. stack \in Seq(FrameType) /\ Len(stack) \in Nat \ {0}
  BY <1>1, TopFacts DEF PumpTypes
<1> DEFINE n == Len(stack) - 1
           s == SubSeq(stack, 1, n)
<1>3. n \in Nat /\ n <= Len(stack)
  BY <1>2
<1> HIDE DEF n
<1>4. s \in Seq(FrameType) /\ Len(s) = n /\ \A i \in 1 .. n : s[i] = stack[i]
  BY <1>2, <1>3
<1> HIDE DEF s
<1>5. stack' = s
  BY <1>1 DEF s, n
<1>6. QED
  BY <1>1, <1>4, <1>5 DEF n

LEMMA StackMoved ==
  ASSUME PumpTypes, StackShape, UNCHANGED life, stack # <<>>,
         NEW at, NEW did, NEW task, Moved(at, did, task), at = "task" => task \in Task
  PROVE  StackShape'
<1>1. Len(stack) \in Nat \ {0}
  BY TopFacts
<1>2. stack' # <<>> /\ Len(stack') = Len(stack) /\ Top'.at = at /\ Top'.task = task
      /\ \A i \in 1 .. Len(stack) - 1 : stack'[i] = stack[i]
  BY DEF Moved
<1>3. \A i \in 1 .. Len(stack') - 1 : stack'[i].at = "ending"
  BY <1>2 DEF StackShape
<1>4. QED
  BY <1>2, <1>3 DEF StackShape

LEMMA StackSame ==
  ASSUME StackShape, UNCHANGED <<stack, life>>
  PROVE  StackShape'
BY DEF StackShape, Top

LEMMA StackPushed ==
  ASSUME PumpTypes, StackShape, UNCHANGED life, stack # <<>>,
         NEW l \in RunLoop, Push(l, TaskDone)
  PROVE  StackShape'
<1>1. Len(stack) \in Nat \ {0}
  BY TopFacts
<1>2. /\ TaskDone \in Seq(FrameType) /\ Len(TaskDone) = Len(stack)
      /\ TaskDone[Len(stack)].at = "ending"
      /\ \A i \in 1 .. Len(stack) - 1 : TaskDone[i] = stack[i]
  BY TaskDoneFacts
<1>3. /\ stack' # <<>> /\ Len(stack') = Len(stack) + 1 /\ Top'.at = "work"
      /\ \A i \in 1 .. Len(stack) : stack'[i] = TaskDone[i]
  BY <1>2, PushFacts
<1>4. ASSUME NEW i \in 1 .. Len(stack') - 1 PROVE stack'[i].at = "ending"
  <2>1. i \in 1 .. Len(stack) /\ (i = Len(stack) \/ i \in 1 .. Len(stack) - 1)
    BY <1>1, <1>3
  <2>2. QED
    BY <1>2, <1>3, <2>1 DEF StackShape
<1>5. QED
  BY <1>3, <1>4 DEF StackShape

LEMMA StackLeft ==
  ASSUME PumpTypes, StackShape, Leave
  PROVE  StackShape'
<1>1. /\ stack # <<>> /\ stack' \in Seq(FrameType) /\ Len(stack') = Len(stack) - 1
      /\ \A i \in 1 .. Len(stack) - 1 : stack'[i] = stack[i]
      /\ life' = IF stack' = <<>> THEN "clearing" ELSE life
  BY LeaveFacts
<1>2. Len(stack) \in Nat \ {0} /\ life = "running"
  BY <1>1, TopFacts DEF StackShape
<1>3. ASSUME NEW i \in 1 .. Len(stack') PROVE stack'[i].at = "ending"
  <2>1. i \in 1 .. Len(stack) - 1
    BY <1>1
  <2>2. QED
    BY <1>1, <2>1 DEF StackShape
<1>4. \A i \in 1 .. Len(stack') - 1 : i \in 1 .. Len(stack')
  BY <1>1, <1>2
<1>5. stack' # <<>> => Top'.at = "ending"
  <2>1. ASSUME stack' # <<>> PROVE Len(stack') \in 1 .. Len(stack')
    BY <1>1, <2>1
  <2>2. QED
    BY <1>3, <2>1 DEF Top
<1>6. QED
  BY <1>1, <1>2, <1>3, <1>4, <1>5 DEF StackShape

-----------------------------------------------------------------------------
(***************************************************************************)
(* What the methods of the delegate do.                                    *)
(***************************************************************************)
\* incoming_queue_ and triage_tasks_ stay as they are.
QueuesKept ==
  /\ queue'.incoming = queue.incoming /\ queue'.triage = queue.triage
  /\ queue'.triageEmpty = queue.triageEmpty

\* The pump's Run takes the next step after a method has returned.
Returns(did, keep) == Moved(After(Top.at, did, keep), did, Top.task)

\* The innermost run starts a task.
Runs(x) == /\ Moved("task", Top.did, x) /\ allowed' = FALSE
           /\ started' = Append(started, x)

NoRun == UNCHANGED <<allowed, started>>

LEMMA AtFacts ==
  ASSUME PumpTypes, NEW p, At(p)
  PROVE  /\ stack # <<>> /\ Top.at = p /\ call[Loop] = Idle /\ post[Loop] = NotPosting
         /\ Top \in FrameType /\ Top.did \in BOOLEAN
         /\ pump \in PumpType /\ pump.keepRunning \in BOOLEAN
         /\ pump.delayedWorkTime \in Nat \cup {NoTime}
<1>1. stack # <<>> /\ Top.at = p /\ call[Loop] = Idle /\ post[Loop] = NotPosting
  BY DEF At
<1>2. Top \in FrameType
  BY <1>1, TopFacts
<1>3. Top.did \in BOOLEAN
  BY <1>2 DEF FrameType
<1>4. pump \in PumpType
  BY DEF PumpTypes
<1>5. pump.keepRunning \in BOOLEAN /\ pump.delayedWorkTime \in Nat \cup {NoTime}
  BY <1>4 DEF PumpType
<1>6. QED
  BY <1>1, <1>2, <1>3, <1>4, <1>5

LEMMA RunTaskRuns ==
  ASSUME PumpTypes, stack # <<>>, NEW x \in Task, RunTask(x)
  PROVE  Runs(x)
BY RunTaskMoves DEF Runs, RunTask

LEMMA DoWorkRefusedFacts ==
  ASSUME PumpTypes, DoWorkRefused
  PROVE  /\ At("work") /\ ~allowed /\ Returns(FALSE, pump.keepRunning) /\ NoRun
         /\ UNCHANGED unchangedByPump /\ UNCHANGED <<queue, pump, clock>>
<1>1. At("work") /\ ~allowed /\ Return(FALSE, pump.keepRunning)
      /\ UNCHANGED unchangedByPump /\ UNCHANGED <<queue, pump, clock>> /\ NoRun
  BY DEF DoWorkRefused, NoRun
<1>2. stack # <<>> /\ Top.at = "work" /\ pump.keepRunning \in BOOLEAN
  BY <1>1, AtFacts
<1>3. Returns(FALSE, pump.keepRunning)
  BY <1>1, <1>2, ReturnMoves DEF Returns
<1>4. QED
  BY <1>1, <1>3

\* A turn of DoWork finds nothing, or takes the first task of triage_tasks_.
WorkEmpty(q) == /\ q.triage = <<>> /\ queue' = q
                /\ Returns(FALSE, pump.keepRunning) /\ NoRun /\ UNCHANGED pump

WorkTakes(q, x) ==
  /\ q.triage # <<>> /\ x = Head(q.triage) /\ x \in Task
  /\ queue'.incoming = q.incoming /\ queue'.triage = Tail(q.triage)
  /\ queue'.triageEmpty = q.triageEmpty

WorkDrops(q, x) ==
  /\ x \in cancelled /\ queue'.delayed = q.delayed /\ queue'.deferred = q.deferred
  /\ NoRun /\ UNCHANGED <<pump, stack>>

WorkDelays(q, x) ==
  /\ due[x] # NoTime
  /\ queue'.delayed = q.delayed \cup {x} /\ queue'.deferred = q.deferred
  /\ NoRun /\ UNCHANGED stack /\ pump'.keepRunning = pump.keepRunning

WorkRuns(q, x) ==
  /\ due[x] = NoTime /\ CanRun(x)
  /\ queue'.delayed = q.delayed /\ queue'.deferred = q.deferred
  /\ Runs(x) /\ UNCHANGED pump

WorkDefers(q, x) ==
  /\ due[x] = NoTime /\ ~CanRun(x)
  /\ queue'.delayed = q.delayed /\ queue'.deferred = Append(q.deferred, x)
  /\ NoRun /\ UNCHANGED <<pump, stack>>

LEMMA DoWorkFacts ==
  ASSUME QueueTypes, PumpTypes, DoWork
  PROVE  /\ At("work") /\ allowed /\ UNCHANGED unchangedByPump /\ UNCHANGED clock
         /\ queue' \in QueueType /\ pump' \in PumpType
         /\ \/ WorkEmpty(Reloaded(queue))
            \/ \E x : /\ WorkTakes(Reloaded(queue), x)
                      /\ \/ WorkDrops(Reloaded(queue), x) \/ WorkDelays(Reloaded(queue), x)
                         \/ WorkRuns(Reloaded(queue), x) \/ WorkDefers(Reloaded(queue), x)
<1> DEFINE q == Reloaded(queue)
           x == Head(q.triage)
           rest == [q EXCEPT !.triage = Tail(@)]
<1>0. At("work") /\ allowed /\ UNCHANGED unchangedByPump /\ UNCHANGED clock
  BY DEF DoWork
<1>1. stack # <<>> /\ Top.at = "work" /\ pump.keepRunning \in BOOLEAN /\ pump \in PumpType
  BY <1>0, AtFacts
<1>2. q \in QueueType
  BY ReloadedFacts DEF QueueTypes
<1>3. \/ /\ q.triage = <<>> /\ queue' = q /\ Return(FALSE, pump.keepRunning)
         /\ UNCHANGED <<pump, allowed, started>>
      \/ /\ q.triage # <<>> /\ x \in cancelled /\ queue' = rest
         /\ UNCHANGED <<pump, stack, allowed, started>>
      \/ /\ q.triage # <<>> /\ x \notin cancelled /\ due[x] # NoTime
         /\ queue' = [rest EXCEPT !.delayed = @ \cup {x}]
         /\ pump' = IF First(queue'.delayed) = x
                    THEN [pump EXCEPT !.delayedWorkTime = due[x]] ELSE pump
         /\ UNCHANGED <<stack, allowed, started>>
      \/ /\ q.triage # <<>> /\ x \notin cancelled /\ due[x] = NoTime /\ CanRun(x)
         /\ queue' = rest /\ RunTask(x) /\ UNCHANGED pump
      \/ /\ q.triage # <<>> /\ x \notin cancelled /\ due[x] = NoTime /\ ~CanRun(x)
         /\ queue' = [rest EXCEPT !.deferred = Append(@, x)]
         /\ UNCHANGED <<pump, stack, allowed, started>>
  BY DEF DoWork
<1> HIDE DEF q
<1>4. CASE q.triage = <<>>
  <2>1. queue' = q /\ Return(FALSE, pump.keepRunning) /\ UNCHANGED <<pump, allowed, started>>
    BY <1>3, <1>4
  <2>2. Returns(FALSE, pump.keepRunning)
    BY <1>1, <2>1, ReturnMoves DEF Returns
  <2>3. WorkEmpty(q)
    BY <1>4, <2>1, <2>2 DEF WorkEmpty, NoRun
  <2>4. QED
    BY <1>0, <1>1, <1>2, <2>1, <2>3 DEF q
<1>5. CASE q.triage # <<>>
  <2>1. q.triage \in Seq(Task) /\ q.deferred \in Seq(Task) /\ q.delayed \in SUBSET Task
    BY <1>2 DEF QueueType
  <2>2. x \in Task /\ Tail(q.triage) \in Seq(Task) /\ Append(q.deferred, x) \in Seq(Task)
    BY <1>5, <2>1, TaskSeq
  <2> DEFINE tl == Tail(q.triage)
  <2>3. rest = [q EXCEPT !.triage = tl]
    OBVIOUS
  <2> HIDE DEF tl, rest, x
  <2>4. tl \in Seq(Task) /\ x \in Task /\ Append(q.deferred, x) \in Seq(Task)
    BY <2>2 DEF tl, x
  <2>5. /\ rest \in QueueType /\ rest.triage = tl /\ rest.incoming = q.incoming
        /\ rest.delayed = q.delayed /\ rest.deferred = q.deferred
        /\ rest.triageEmpty = q.triageEmpty
    BY <1>2, <2>3, <2>4 DEF QueueType
  <2>6. ASSUME queue' = rest, UNCHANGED pump
        PROVE  queue' \in QueueType /\ pump' \in PumpType /\ WorkTakes(q, x)
    BY <1>1, <1>5, <2>4, <2>5, <2>6 DEF WorkTakes, tl, x
  <2>10. CASE x \in cancelled /\ queue' = rest /\ UNCHANGED <<pump, stack, allowed, started>>
    <3>1. WorkDrops(q, x)
      BY <2>5, <2>10 DEF WorkDrops, NoRun
    <3>2. QED
      BY <1>0, <2>6, <2>10, <3>1 DEF q
  <2>11. CASE due[x] = NoTime /\ CanRun(x) /\ queue' = rest /\ RunTask(x) /\ UNCHANGED pump
    <3>1. Runs(x)
      BY <1>1, <2>4, <2>11, RunTaskRuns
    <3>2. WorkRuns(q, x)
      BY <2>5, <2>11, <3>1 DEF WorkRuns
    <3>3. QED
      BY <1>0, <2>6, <2>11, <3>2 DEF q
  <2>7. CASE /\ due[x] # NoTime
             /\ queue' = [rest EXCEPT !.delayed = @ \cup {x}]
             /\ pump' = IF First(queue'.delayed) = x
                    THEN [pump EXCEPT !.delayedWorkTime = due[x]] ELSE pump
             /\ UNCHANGED <<stack, allowed, started>>
    <3> DEFINE dd == q.delayed \cup {x}
    <3>1. dd \in SUBSET Task /\ queue' = [rest EXCEPT !.delayed = dd]
      BY <2>1, <2>4, <2>5, <2>7
    <3> HIDE DEF dd
    <3>2. /\ queue' \in QueueType /\ queue'.delayed = dd /\ queue'.deferred = q.deferred
          /\ queue'.incoming = q.incoming /\ queue'.triage = tl
          /\ queue'.triageEmpty = q.triageEmpty
      BY <2>5, <3>1 DEF QueueType
    <3>3. due[x] \in Nat \cup {NoTime}
      BY <2>4 DEF QueueTypes
    <3>4. pump' \in PumpType /\ pump'.keepRunning = pump.keepRunning
      <4>1. CASE pump' = pump
        BY <1>1, <4>1
      <4>2. CASE pump' = [pump EXCEPT !.delayedWorkTime = due[x]]
        BY <1>1, <3>3, <4>2 DEF PumpType
      <4>3. QED
        BY <2>7, <4>1, <4>2
    <3>5. WorkTakes(q, x)
      BY <1>5, <2>4, <3>2 DEF WorkTakes, tl, x
    <3>6. WorkDelays(q, x)
      BY <2>7, <3>2, <3>4 DEF WorkDelays, NoRun, dd
    <3>7. QED
      BY <1>0, <3>2, <3>4, <3>5, <3>6 DEF q
  <2>8. CASE /\ due[x] = NoTime /\ ~CanRun(x)
             /\ queue' = [rest EXCEPT !.deferred = Append(@, x)]
             /\ UNCHANGED <<pump, stack, allowed, started>>
    <3> DEFINE dd == Append(q.deferred, x)
    <3>1. dd \in Seq(Task) /\ queue' = [rest EXCEPT !.deferred = dd]
      BY <2>4, <2>5, <2>8
    <3> HIDE DEF dd
    <3>2. /\ queue' \in QueueType /\ queue'.deferred = dd /\ queue'.delayed = q.delayed
          /\ queue'.incoming = q.incoming /\ queue'.triage = tl
          /\ queue'.triageEmpty = q.triageEmpty
      BY <2>5, <3>1 DEF QueueType
    <3>3. WorkTakes(q, x)
      BY <1>5, <2>4, <3>2 DEF WorkTakes, tl, x
    <3>4. WorkDefers(q, x)
      BY <2>8, <3>2 DEF WorkDefers, NoRun, dd
    <3>5. QED
      BY <1>0, <1>1, <2>8, <3>2, <3>3, <3>4 DEF q
  <2>9. QED
    BY <1>3, <1>5, <2>7, <2>8, <2>10, <2>11 DEF x
<1>6. QED
  BY <1>4, <1>5

\* DelayedQueue, as DoDelayedWork finds it.
LEMMA DelayedFacts ==
  ASSUME QueueTypes, PostsOnce, NEW d \in SUBSET queue.delayed, d # {}
  PROVE  /\ First(d) \in d /\ First(d) \in Task
         /\ \A y \in d : due[y] \in Nat
         /\ \A y \in d : due[First(d)] <= due[y]
         /\ \A y \in d \ {First(d)} : Sooner(First(d), y)
<1>1. d \in SUBSET ToSet(accepted) /\ \A x \in d : due[x] # NoTime
  BY DEF PostsOnce
<1>2. First(d) \in d /\ \A y \in d \ {First(d)} : Sooner(First(d), y)
  BY <1>1, FirstFacts
<1>3. d \subseteq Task
  BY DEF QueueTypes, QueueType
<1>4. \A y \in d : due[y] \in Nat
  BY <1>1, <1>3 DEF QueueTypes
<1>5. ASSUME NEW y \in d PROVE due[First(d)] <= due[y]
  <2>1. due[y] \in Nat /\ due[First(d)] \in Nat
    BY <1>2, <1>4
  <2>2. CASE y = First(d)
    BY <2>1, <2>2
  <2>3. CASE y # First(d)
    <3>1. due[First(d)] < due[y] \/ due[First(d)] = due[y]
      BY <1>2, <2>3 DEF Sooner
    <3>2. QED
      BY <2>1, <3>1
  <2>4. QED
    BY <2>2, <2>3
<1>6. QED
  BY <1>2, <1>3, <1>4, <1>5

\* delayed_work_time_ is early enough for the delayed tasks left.
InTime(d, time) == \A x \in d : time # NoTime /\ time <= due[x]

\* DoDelayedWork takes cancelled tasks out of the queue, and perhaps one more.
Trims(d) == /\ queue' \in QueueType /\ QueuesKept /\ queue'.delayed = d
            /\ d \subseteq queue.delayed

LEMMA DelayedNoneFacts ==
  ASSUME QueueTypes, PumpTypes, DoDelayedWorkNone
  PROVE  /\ At("delayed") /\ Returns(Top.did, pump.keepRunning) /\ NoRun
         /\ UNCHANGED unchangedByPump /\ UNCHANGED clock
         /\ pump' \in PumpType /\ pump'.keepRunning = pump.keepRunning
         /\ queue'.deferred = queue.deferred
         /\ Trims(queue'.delayed) /\ queue.delayed \ cancelled \subseteq queue'.delayed
         /\ allowed => queue'.delayed = {}
<1>1. /\ At("delayed") /\ UNCHANGED unchangedByPump /\ UNCHANGED clock /\ NoRun
      /\ Return(Top.did, pump.keepRunning)
      /\ ~allowed \/ Swept(queue.delayed) = {}
      /\ queue' = IF allowed THEN [queue EXCEPT !.delayed = {}] ELSE queue
      /\ pump' = [pump EXCEPT !.delayedWorkTime = NoTime]
  BY DEF DoDelayedWorkNone, NoRun
<1>2. /\ stack # <<>> /\ Top.at = "delayed" /\ pump.keepRunning \in BOOLEAN
      /\ pump \in PumpType /\ Top.did \in BOOLEAN
  BY <1>1, AtFacts
<1>3. Returns(Top.did, pump.keepRunning)
  BY <1>1, <1>2, ReturnMoves DEF Returns
<1>4. pump' \in PumpType /\ pump'.keepRunning = pump.keepRunning
  BY <1>1, <1>2 DEF PumpType
<1>5. queue \in QueueType
  BY DEF QueueTypes
<1>6. CASE allowed
  <2>1. queue' = [queue EXCEPT !.delayed = {}]
    BY <1>1, <1>6
  <2>2. /\ queue' \in QueueType /\ QueuesKept /\ queue'.delayed = {}
        /\ queue'.deferred = queue.deferred
    BY <1>5, <2>1 DEF QueueType, QueuesKept
  <2>3. queue.delayed \ cancelled \subseteq {}
    BY <1>1, <1>6, SweptFacts
  <2>4. Trims(queue'.delayed)
    BY <2>2 DEF Trims
  <2>5. QED
    BY <1>1, <1>3, <1>4, <2>2, <2>3, <2>4
<1>7. CASE ~allowed
  <2>1. queue' = queue
    BY <1>1, <1>7
  <2>2. QED
    BY <1>1, <1>3, <1>4, <1>5, <1>7, <2>1 DEF Trims, QueuesKept
<1>8. QED
  BY <1>6, <1>7

LEMMA DelayedEarlyFacts ==
  ASSUME QueueTypes, PumpTypes, PostsOnce, DoDelayedWorkEarly
  PROVE  /\ At("delayed") /\ Returns(Top.did, pump.keepRunning) /\ NoRun
         /\ UNCHANGED unchangedByPump
         /\ clock' \in ClockType /\ clock'.now = clock.now
         /\ pump' \in PumpType /\ pump'.keepRunning = pump.keepRunning
         /\ queue'.deferred = queue.deferred
         /\ Trims(queue'.delayed) /\ queue.delayed \ cancelled \subseteq queue'.delayed
         /\ InTime(queue'.delayed, pump'.delayedWorkTime)
<1> DEFINE d == Swept(queue.delayed)
           x == First(d)
<1>1. /\ At("delayed") /\ UNCHANGED unchangedByPump /\ NoRun /\ d # {}
      /\ Return(Top.did, pump.keepRunning)
      /\ queue' = [queue EXCEPT !.delayed = d]
      /\ pump' = [pump EXCEPT !.delayedWorkTime = due[x]]
      /\ clock' = [clock EXCEPT !.recent = clock.now]
  BY DEF DoDelayedWorkEarly, NoRun
<1>2. /\ stack # <<>> /\ Top.at = "delayed" /\ pump.keepRunning \in BOOLEAN
      /\ pump \in PumpType /\ Top.did \in BOOLEAN
  BY <1>1, AtFacts
<1>3. Returns(Top.did, pump.keepRunning)
  BY <1>1, <1>2, ReturnMoves DEF Returns
<1>4. d \subseteq queue.delayed /\ queue.delayed \ cancelled \subseteq d
  BY SweptFacts
<1>5. due[x] \in Nat /\ \A y \in d : due[x] <= due[y]
  BY <1>1, <1>4, DelayedFacts
<1>6. queue \in QueueType /\ clock \in ClockType
  BY DEF QueueTypes, PumpTypes
<1> HIDE DEF d, x
<1>7. pump' \in PumpType /\ pump'.keepRunning = pump.keepRunning
      /\ pump'.delayedWorkTime = due[x]
  BY <1>1, <1>2, <1>5 DEF PumpType
<1>8. clock' \in ClockType /\ clock'.now = clock.now
  BY <1>1, <1>6 DEF ClockType
<1>9. d \in SUBSET Task
  BY <1>4, <1>6 DEF QueueType
<1>10. /\ queue' \in QueueType /\ QueuesKept /\ queue'.delayed = d
       /\ queue'.deferred = queue.deferred
  BY <1>1, <1>6, <1>9 DEF QueueType, QueuesKept
<1>11. Trims(d) /\ InTime(d, due[x])
  BY <1>4, <1>5, <1>10, TimeAssumption DEF Trims, InTime
<1>12. QED
  BY <1>1, <1>3, <1>4, <1>7, <1>8, <1>10, <1>11

LEMMA DelayedWorkFacts ==
  ASSUME QueueTypes, PumpTypes, PostsOnce, DoDelayedWork
  PROVE  /\ At("delayed") /\ allowed /\ UNCHANGED unchangedByPump
         /\ clock' \in ClockType /\ clock'.now = clock.now
         /\ pump' \in PumpType /\ pump'.keepRunning = pump.keepRunning
         /\ Trims(queue'.delayed) /\ InTime(queue'.delayed, pump'.delayedWorkTime)
         /\ \E x \in queue.delayed :
              /\ queue.delayed \ (cancelled \cup {x}) \subseteq queue'.delayed
              /\ x \notin queue'.delayed /\ x \in Task
              /\ \A y \in queue.delayed \ (cancelled \cup {x}) : Sooner(x, y)
              /\ \/ CanRun(x) /\ Runs(x) /\ queue'.deferred = queue.deferred
                 \/ /\ ~CanRun(x) /\ Returns(Top.did, pump.keepRunning) /\ NoRun
                    /\ queue'.deferred = Append(queue.deferred, x)
<1> DEFINE d == Swept(queue.delayed)
           x == First(d)
           rest == Swept(d \ {x})
           y == First(rest)
<1>1. /\ At("delayed") /\ allowed /\ UNCHANGED unchangedByPump /\ d # {}
      /\ clock' = clock \/ clock' = [clock EXCEPT !.recent = clock.now]
      /\ pump' = IF rest # {} THEN [pump EXCEPT !.delayedWorkTime = due[y]] ELSE pump
      /\ \/ CanRun(x) /\ queue' = [queue EXCEPT !.delayed = rest] /\ RunTask(x)
         \/ /\ ~CanRun(x)
            /\ queue' = [queue EXCEPT !.delayed = rest, !.deferred = Append(@, x)]
            /\ Return(Top.did, pump.keepRunning) /\ UNCHANGED <<allowed, started>>
  BY DEF DoDelayedWork
<1>2. /\ stack # <<>> /\ Top.at = "delayed" /\ pump.keepRunning \in BOOLEAN
      /\ pump \in PumpType /\ Top.did \in BOOLEAN
  BY <1>1, AtFacts
<1>3. d \subseteq queue.delayed /\ queue.delayed \ cancelled \subseteq d
  BY SweptFacts
<1>4. rest \subseteq d \ {x} /\ (d \ {x}) \ cancelled \subseteq rest
  BY SweptFacts
<1>5. x \in d /\ x \in Task /\ \A z \in d \ {x} : Sooner(x, z)
  BY <1>1, <1>3, DelayedFacts
<1>6. rest # {} => due[y] \in Nat /\ \A z \in rest : due[y] <= due[z]
  <2>1. rest \in SUBSET queue.delayed
    BY <1>3, <1>4
  <2>2. QED
    BY <2>1, DelayedFacts
<1>7. queue \in QueueType /\ clock \in ClockType /\ queue.deferred \in Seq(Task)
      /\ queue.delayed \in SUBSET Task
  BY DEF QueueTypes, PumpTypes, QueueType
<1> HIDE DEF d, x, rest, y
<1>8. /\ pump' \in PumpType /\ pump'.keepRunning = pump.keepRunning
      /\ rest # {} => pump'.delayedWorkTime = due[y]
  <2>1. CASE rest # {}
    <3>1. pump' = [pump EXCEPT !.delayedWorkTime = due[y]]
      BY <1>1, <2>1
    <3>2. QED
      BY <1>2, <1>6, <2>1, <3>1 DEF PumpType
  <2>2. CASE rest = {}
    BY <1>1, <1>2, <2>2
  <2>3. QED
    BY <2>1, <2>2
<1>9. clock' \in ClockType /\ clock'.now = clock.now
  BY <1>1, <1>7 DEF ClockType
<1>10. InTime(rest, pump'.delayedWorkTime)
  BY <1>6, <1>8, TimeAssumption DEF InTime
<1>11. rest \in SUBSET Task /\ rest \subseteq queue.delayed /\ x \notin rest
       /\ queue.delayed \ (cancelled \cup {x}) \subseteq rest
       /\ queue.delayed \ (cancelled \cup {x}) \subseteq d \ {x}
  BY <1>3, <1>4, <1>7
<1>12. CASE CanRun(x) /\ queue' = [queue EXCEPT !.delayed = rest] /\ RunTask(x)
  <2>1. /\ queue' \in QueueType /\ QueuesKept /\ queue'.delayed = rest
        /\ queue'.deferred = queue.deferred
    BY <1>7, <1>11, <1>12 DEF QueueType, QueuesKept
  <2>2. Runs(x)
    BY <1>2, <1>5, <1>12, RunTaskRuns
  <2>3. Trims(queue'.delayed)
    BY <1>11, <2>1 DEF Trims
  <2>4. x \in queue.delayed /\ \A z \in queue.delayed \ (cancelled \cup {x}) : Sooner(x, z)
    BY <1>3, <1>5, <1>11
  <2>5. QED
    BY <1>1, <1>5, <1>8, <1>9, <1>10, <1>11, <1>12, <2>1, <2>2, <2>3, <2>4
<1>13. CASE /\ ~CanRun(x)
            /\ queue' = [queue EXCEPT !.delayed = rest, !.deferred = Append(@, x)]
            /\ Return(Top.did, pump.keepRunning) /\ UNCHANGED <<allowed, started>>
  <2> DEFINE s == Append(queue.deferred, x)
  <2>0. s \in Seq(Task) /\ queue' = [queue EXCEPT !.delayed = rest, !.deferred = s]
    BY <1>5, <1>7, <1>13, TaskSeq
  <2> HIDE DEF s
  <2>1. /\ queue' \in QueueType /\ QueuesKept /\ queue'.delayed = rest
        /\ queue'.deferred = s
    BY <1>7, <1>11, <2>0 DEF QueueType, QueuesKept
  <2>2. Returns(Top.did, pump.keepRunning) /\ NoRun
    BY <1>2, <1>13, ReturnMoves DEF Returns, NoRun
  <2>3. Trims(queue'.delayed)
    BY <1>11, <2>1 DEF Trims
  <2>4. x \in queue.delayed /\ \A z \in queue.delayed \ (cancelled \cup {x}) : Sooner(x, z)
    BY <1>3, <1>5, <1>11
  <2>5. QED
    BY <1>1, <1>5, <1>8, <1>9, <1>10, <1>11, <1>13, <2>1, <2>2, <2>3, <2>4 DEF s
<1>14. QED
  BY <1>1, <1>12, <1>13

LEMMA IdleWorkFacts ==
  ASSUME QueueTypes, PumpTypes, DoIdleWork
  PROVE  /\ At("idle") /\ UNCHANGED unchangedByPump /\ UNCHANGED clock
         /\ pump' \in PumpType /\ pump'.delayedWorkTime = pump.delayedWorkTime
         /\ Trims(queue'.delayed) /\ queue.delayed \ cancelled \subseteq queue'.delayed
         /\ ToSet(queue'.deferred) \subseteq ToSet(queue.deferred)
         /\ \/ \E x : /\ ~Nested /\ x \in ToSet(queue.deferred) /\ x \in Task
                      /\ Runs(x) /\ UNCHANGED pump
            \/ /\ Returns(FALSE, pump'.keepRunning) /\ NoRun
               /\ ~Nested => queue'.deferred = <<>>
<1>1. /\ At("idle") /\ UNCHANGED unchangedByPump /\ UNCHANGED clock
      /\ \/ /\ ~Nested
            /\ Deferred # <<>>
            /\ queue' = [queue EXCEPT !.deferred = Tail(Deferred)]
            /\ RunTask(Head(Deferred))
            /\ UNCHANGED pump
         \/ /\ Nested \/ Deferred = <<>>
            /\ queue' = [queue EXCEPT
                           !.deferred = IF Nested THEN @ ELSE <<>>,
                           !.delayed = IF Top.loop \notin quitIdle /\ allowed
                                       THEN Swept(@) ELSE @]
            /\ pump' = [pump EXCEPT !.keepRunning =
                                      @ /\ Top.loop \notin quitIdle]
            /\ Return(FALSE, pump'.keepRunning)
            /\ UNCHANGED <<allowed, started>>
  BY DEF DoIdleWork
<1>2. /\ stack # <<>> /\ Top.at = "idle" /\ pump.keepRunning \in BOOLEAN
      /\ pump \in PumpType
  BY <1>1, AtFacts
<1>3. queue \in QueueType /\ queue.deferred \in Seq(Task) /\ queue.delayed \in SUBSET Task
  BY DEF QueueTypes, QueueType
<1>4. Deferred \in Seq(Task) /\ ToSet(Deferred) \subseteq ToSet(queue.deferred)
  BY <1>3, DeferredFacts
<1>5. CASE /\ ~Nested /\ Deferred # <<>>
           /\ queue' = [queue EXCEPT !.deferred = Tail(Deferred)]
           /\ RunTask(Head(Deferred)) /\ UNCHANGED pump
  <2> DEFINE x == Head(Deferred)
             s == Tail(Deferred)
  <2>1. /\ x \in ToSet(queue.deferred) /\ x \in Task /\ s \in Seq(Task)
        /\ ToSet(s) \subseteq ToSet(queue.deferred)
    BY <1>4, <1>5, TaskSeq
  <2>2. queue' = [queue EXCEPT !.deferred = s] /\ RunTask(x)
    BY <1>5
  <2> HIDE DEF x, s
  <2>3. /\ queue' \in QueueType /\ QueuesKept /\ queue'.delayed = queue.delayed
        /\ queue'.deferred = s
    BY <1>3, <2>1, <2>2 DEF QueueType, QueuesKept
  <2>4. Runs(x)
    BY <1>2, <2>1, <2>2, RunTaskRuns
  <2>5. Trims(queue'.delayed)
    BY <2>3 DEF Trims
  <2>6. QED
    BY <1>1, <1>2, <1>5, <2>1, <2>3, <2>4, <2>5
<1>6. CASE /\ Nested \/ Deferred = <<>>
           /\ queue' = [queue EXCEPT
                          !.deferred = IF Nested THEN @ ELSE <<>>,
                          !.delayed = IF Top.loop \notin quitIdle /\ allowed
                                      THEN Swept(@) ELSE @]
           /\ pump' = [pump EXCEPT !.keepRunning = @ /\ Top.loop \notin quitIdle]
           /\ Return(FALSE, pump'.keepRunning)
           /\ UNCHANGED <<allowed, started>>
  <2> DEFINE s == IF Nested THEN queue.deferred ELSE <<>>
             d == IF Top.loop \notin quitIdle /\ allowed THEN Swept(queue.delayed) ELSE queue.delayed
             k == pump.keepRunning /\ Top.loop \notin quitIdle
  <2>1. /\ s \in Seq(Task) /\ ToSet(s) \subseteq ToSet(queue.deferred)
        /\ ~Nested => s = <<>>
    BY <1>3, EmptyIsSeq, EmptySet
  <2>2. d \in SUBSET Task /\ d \subseteq queue.delayed /\ queue.delayed \ cancelled \subseteq d
    BY <1>3, SweptFacts
  <2>3. k \in BOOLEAN
    OBVIOUS
  <2>4. queue' = [queue EXCEPT !.deferred = s, !.delayed = d]
    BY <1>3, <1>6 DEF QueueType
  <2>5. pump' = [pump EXCEPT !.keepRunning = k]
    BY <1>2, <1>6 DEF PumpType
  <2> HIDE DEF s, d, k
  <2>6. /\ queue' \in QueueType /\ QueuesKept /\ queue'.delayed = d
        /\ queue'.deferred = s
    BY <1>3, <2>1, <2>2, <2>4 DEF QueueType, QueuesKept
  <2>7. /\ pump' \in PumpType /\ pump'.delayedWorkTime = pump.delayedWorkTime
        /\ pump'.keepRunning \in BOOLEAN
    BY <1>2, <2>3, <2>5 DEF PumpType
  <2>8. Returns(FALSE, pump'.keepRunning) /\ NoRun
    <3> DEFINE k2 == pump'.keepRunning
    <3>1. k2 \in BOOLEAN /\ Return(FALSE, k2)
      BY <1>6, <2>7
    <3> HIDE DEF k2
    <3>2. Moved(After(Top.at, FALSE, k2), FALSE, Top.task)
      BY <1>2, <3>1, ReturnMoves
    <3>3. QED
      BY <1>6, <3>2 DEF Returns, NoRun, k2
  <2>9. Trims(queue'.delayed)
    BY <2>2, <2>6 DEF Trims
  <2>10. QED
    BY <1>1, <2>1, <2>2, <2>6, <2>7, <2>8, <2>9
<1>7. QED
  BY <1>1, <1>5, <1>6

-----------------------------------------------------------------------------
(***************************************************************************)
(* What the sections of PostTask do.                                       *)
(***************************************************************************)
\* A record of post, given in full.
PostAt(t, at, x, empty) ==
  /\ post' \in [Thread -> PostType]
  /\ post'[t].at = at /\ post'[t].task = x /\ post'[t].wasEmpty = empty
  /\ \A u \in Thread \ {t} : post'[u] = post[u]

LEMMA SetPost ==
  ASSUME post \in [Thread -> PostType], NEW t \in Thread, NEW p \in PostType,
         post' = [post EXCEPT ![t] = p]
  PROVE  PostAt(t, p.at, p.task, p.wasEmpty)
<1>1. post' \in [Thread -> PostType] /\ post'[t] = p
      /\ \A u \in Thread \ {t} : post'[u] = post[u]
  OBVIOUS
<1>2. QED
  BY <1>1 DEF PostAt

LEMMA NotPostingFacts ==
  /\ NotPosting \in PostType /\ NotPosting.at = "out" /\ NotPosting.task = NoTask
  /\ NotPosting.wasEmpty = FALSE
BY DEF NotPosting, PostType

\* A task is over with its PostTask.
LEMMA PostEnds ==
  ASSUME post \in [Thread -> PostType], NEW t \in Thread,
         post' = [post EXCEPT ![t] = NotPosting]
  PROVE  PostAt(t, "out", NoTask, FALSE)
<1> DEFINE p == NotPosting
<1>1. p \in PostType /\ p.at = "out" /\ p.task = NoTask /\ p.wasEmpty = FALSE
      /\ post' = [post EXCEPT ![t] = p]
  BY NotPostingFacts
<1> HIDE DEF p
<1>2. PostAt(t, p.at, p.task, p.wasEmpty)
  BY <1>1, SetPost
<1>3. QED
  BY <1>1, <1>2

\* The run time, and what was accepted before.
Begins(t, x) ==
  /\ x \in Task /\ x \in toPost /\ x \notin ToSet(accepted) /\ x \notin queue.delayed
  /\ post[t] = NotPosting /\ PostAt(t, "queue", x, FALSE)
  /\ due'[x] = (IF Delay[x] = 0 THEN NoTime ELSE clock.now + Delay[x])
  /\ \A y \in Task \ {x} : due'[y] = due[y] /\ before'[y] = before[y]
  /\ before'[x] = ToSet(accepted)
  /\ UNCHANGED <<queue, accepted>> /\ toPost' = toPost \ {x}

LEMMA BeginPostFacts ==
  ASSUME QueueTypes, PumpTypes, PostsOnce, NEW t \in Thread, NEW x, BeginPost(t, x)
  PROVE  Begins(t, x) /\ QueueTypes' /\ PostsOnce'
<1>1. /\ x \in toPost /\ post[t] = NotPosting /\ toPost' = toPost \ {x}
      /\ post' = [post EXCEPT ![t] = [NotPosting EXCEPT !.at = "queue", !.task = x]]
      /\ due' = [due EXCEPT ![x] = IF Delay[x] = 0 THEN NoTime ELSE clock.now + Delay[x]]
      /\ before' = [before EXCEPT ![x] = ToSet(accepted)]
      /\ UNCHANGED <<queue, accepted>>
  BY DEF BeginPost
<1>2. x \in Task /\ x \notin ToSet(accepted) /\ x \notin queue.delayed
  BY <1>1 DEF QueueTypes, PostsOnce
<1>3. PostAt(t, "queue", x, FALSE)
  <2> DEFINE p == [NotPosting EXCEPT !.at = "queue", !.task = x]
  <2>1. p \in PostType /\ p.at = "queue" /\ p.task = x /\ p.wasEmpty = FALSE
    BY <1>2 DEF PostType, NotPosting
  <2>2. post' = [post EXCEPT ![t] = p] /\ post \in [Thread -> PostType]
    BY <1>1 DEF QueueTypes
  <2> HIDE DEF p
  <2>3. PostAt(t, p.at, p.task, p.wasEmpty)
    BY <2>1, <2>2, SetPost
  <2>4. QED
    BY <2>1, <2>3
<1> DEFINE time == IF Delay[x] = 0 THEN NoTime ELSE clock.now + Delay[x]
<1>4. time \in Nat \cup {NoTime}
  BY <1>2, DelayAssumption DEF PumpTypes, ClockType
<1>5. /\ due' \in [Task -> Nat \cup {NoTime}] /\ due'[x] = time
      /\ \A y \in Task \ {x} : due'[y] = due[y]
  <2>1. due' = [due EXCEPT ![x] = time] /\ due \in [Task -> Nat \cup {NoTime}]
    BY <1>1 DEF QueueTypes
  <2> HIDE DEF time
  <2>2. QED
    BY <1>2, <1>4, <2>1
<1>6. /\ before' \in [Task -> SUBSET Task] /\ before'[x] = ToSet(accepted)
      /\ \A y \in Task \ {x} : before'[y] = before[y]
  <2>1. ToSet(accepted) \in SUBSET Task
    BY TaskSeq DEF QueueTypes
  <2>2. before \in [Task -> SUBSET Task]
    BY DEF QueueTypes
  <2>3. QED
    BY <1>1, <1>2, <2>1, <2>2
<1>7. Begins(t, x)
  BY <1>1, <1>2, <1>3, <1>5, <1>6 DEF Begins
<1>8. QueueTypes'
  BY <1>1, <1>3, <1>5, <1>6 DEF QueueTypes, PostAt
<1>9. PostsOnce'
  <2>1. ASSUME NEW u \in Thread, post'[u].at # "out" PROVE post'[u].task \in Task \ toPost'
    <3>1. CASE u = t
      BY <1>1, <1>2, <1>3, <3>1 DEF PostAt
    <3>2. CASE u # t
      BY <1>1, <1>3, <2>1, <3>2 DEF PostAt, PostsOnce
    <3>3. QED
      BY <3>1, <3>2
  <2>2. ASSUME NEW y \in queue'.delayed PROVE due'[y] # NoTime
    <3>1. y \in queue.delayed /\ y # x /\ y \in Task
      BY <1>1, <1>2 DEF QueueTypes, QueueType
    <3>2. QED
      BY <1>5, <3>1 DEF PostsOnce
  <2>3. ToSet(accepted') \cap toPost' = {}
    BY <1>1 DEF PostsOnce
  <2>4. ToSet(queue'.incoming) \cup ToSet(queue'.triage) \cup queue'.delayed
          \subseteq ToSet(accepted')
    BY <1>1 DEF PostsOnce
  <2>5. QED
    BY <2>1, <2>2, <2>3, <2>4 DEF PostsOnce
<1>10. QED
  BY <1>7, <1>8, <1>9

\* The task is accepted, or the loop is gone.
Accepts(t, x) ==
  /\ x \in Task /\ x = post[t].task /\ post[t].at = "queue"
  /\ PostAt(t, "notify", x, WasEmpty)
  /\ queue'.incoming = Append(queue.incoming, x) /\ accepted' = Append(accepted, x)
  /\ queue'.triage = queue.triage /\ queue'.triageEmpty = queue.triageEmpty
  /\ queue'.delayed = queue.delayed /\ queue'.deferred = queue.deferred

Refuses(t) == /\ post[t].at = "queue" /\ PostAt(t, "out", NoTask, FALSE)
              /\ UNCHANGED <<queue, accepted>>

\* PostsOnce depends on the ends of a PostTask only.
LEMMA PostsOncePosts ==
  ASSUME PostsOnce, NEW t \in Thread, NEW at, NEW x, NEW empty, PostAt(t, at, x, empty),
         at = "out" \/ x = post[t].task, post[t].at # "out",
         UNCHANGED <<queue, accepted, due, toPost>>
  PROVE  PostsOnce'
<1>1. ASSUME NEW u \in Thread, post'[u].at # "out" PROVE post'[u].task \in Task \ toPost'
  BY <1>1 DEF PostAt, PostsOnce
<1>2. QED
  BY <1>1 DEF PostsOnce

LEMMA PostPendingFacts ==
  ASSUME QueueTypes, PostsOnce, NEW t \in Thread, PostPendingTask(t)
  PROVE  /\ Refuses(t) \/ \E x : Accepts(t, x)
         /\ QueueTypes' /\ PostsOnce'
         /\ UNCHANGED <<eventVars, loopVars, control, due, before, clock, toPost, calls>>
<1>1. /\ post[t].at = "queue"
      /\ UNCHANGED <<eventVars, loopVars, control, due, before, clock, toPost, calls>>
      /\ IF queue.accept
           THEN /\ queue' = [queue EXCEPT !.incoming = Append(@, post[t].task)]
                /\ accepted' = Append(accepted, post[t].task)
                /\ post' = [post EXCEPT ![t].at = "notify", ![t].wasEmpty = WasEmpty]
           ELSE /\ post' = [post EXCEPT ![t] = NotPosting]
                /\ UNCHANGED <<queue, accepted>>
  BY DEF PostPendingTask
<1>2. /\ post \in [Thread -> PostType] /\ queue \in QueueType /\ accepted \in Seq(Task)
      /\ queue.incoming \in Seq(Task) /\ post[t] \in PostType
  BY DEF QueueTypes, QueueType
<1>3. CASE ~queue.accept
  <2>1. Refuses(t)
    BY <1>1, <1>2, <1>3, PostEnds DEF Refuses
  <2>2. QueueTypes'
    BY <1>1, <2>1 DEF QueueTypes, Refuses, PostAt
  <2>3. PostsOnce'
    BY <1>1, <2>1, PostsOncePosts DEF Refuses
  <2>4. QED
    BY <1>1, <2>1, <2>2, <2>3
<1>4. CASE queue.accept
  <2> DEFINE x == post[t].task
             s == Append(queue.incoming, x)
             a == Append(accepted, x)
             b == WasEmpty
             p == [post[t] EXCEPT !.at = "notify", !.wasEmpty = b]
  <2>1. x \in Task \ toPost
    BY <1>1 DEF PostsOnce
  <2>2. /\ s \in Seq(Task) /\ ToSet(s) = ToSet(queue.incoming) \cup {x}
        /\ a \in Seq(Task) /\ ToSet(a) = ToSet(accepted) \cup {x}
    BY <1>2, <2>1, TaskSeq
  <2>3. b \in BOOLEAN
    BY DEF WasEmpty
  <2>4. post' = [post EXCEPT ![t] = p]
    BY <1>1, <1>2, <1>4
  <2>5. queue' = [queue EXCEPT !.incoming = s] /\ accepted' = a
    BY <1>1, <1>4
  <2> HIDE DEF s, a, b
  <2>6. p \in PostType /\ p.at = "notify" /\ p.task = x /\ p.wasEmpty = b
    BY <1>2, <2>3 DEF PostType
  <2> HIDE DEF p
  <2>7. PostAt(t, p.at, p.task, p.wasEmpty)
    BY <1>2, <2>4, <2>6, SetPost
  <2>8. PostAt(t, "notify", x, b)
    BY <2>6, <2>7
  <2>9. /\ queue' \in QueueType /\ queue'.incoming = s
        /\ queue'.triage = queue.triage /\ queue'.triageEmpty = queue.triageEmpty
        /\ queue'.delayed = queue.delayed /\ queue'.deferred = queue.deferred
    BY <1>2, <2>2, <2>5 DEF QueueType
  <2>10. Accepts(t, x)
    BY <1>1, <2>1, <2>5, <2>8, <2>9 DEF Accepts, s, a, b
  <2>11. QueueTypes'
    BY <1>1, <2>2, <2>5, <2>8, <2>9 DEF QueueTypes, PostAt
  <2>12. PostsOnce'
    <3>1. ASSUME NEW u \in Thread, post'[u].at # "out" PROVE post'[u].task \in Task \ toPost'
      <4>1. CASE u = t
        BY <1>1, <2>1, <2>8, <4>1 DEF PostAt
      <4>2. CASE u # t
        BY <1>1, <2>8, <3>1, <4>2 DEF PostAt, PostsOnce
      <4>3. QED
        BY <4>1, <4>2
    <3>2. ToSet(accepted') = ToSet(accepted) \cup {x} /\ ToSet(queue'.incoming) = ToSet(queue.incoming) \cup {x}
      BY <2>2, <2>5, <2>9
    <3>3. ToSet(accepted') \cap toPost' = {}
      BY <1>1, <2>1, <3>2 DEF PostsOnce
    <3>4. ToSet(queue'.incoming) \cup ToSet(queue'.triage) \cup queue'.delayed
            \subseteq ToSet(accepted')
      BY <2>9, <3>2 DEF PostsOnce
    <3>5. \A y \in queue'.delayed : due'[y] # NoTime
      BY <1>1, <2>9 DEF PostsOnce
    <3>6. QED
      BY <3>1, <3>3, <3>4, <3>5 DEF PostsOnce
  <2>13. QED
    BY <1>1, <2>10, <2>11, <2>12
<1>5. QED
  BY <1>3, <1>4

\* The third section tells the pump, or need not.
Tells(t) == PostAt(t, "scheduling", post[t].task, post[t].wasEmpty)

LEMMA DidQueueFacts ==
  ASSUME QueueTypes, PostsOnce, NEW t \in Thread, DidQueueTask(t)
  PROVE  /\ post[t].at = "notify"
         /\ \/ /\ ~post[t].wasEmpty /\ PostAt(t, "out", NoTask, FALSE)
               /\ UNCHANGED <<control, eventVars>>
            \/ Tells(t) /\ CallSignal(t, PumpEvent) /\ UNCHANGED control
            \/ /\ ~(control.connected /\ control.ready) /\ PostAt(t, "out", NoTask, FALSE)
               /\ control' = [control EXCEPT !.pending = TRUE] /\ UNCHANGED eventVars
         /\ QueueTypes' /\ PostsOnce'
         /\ UNCHANGED <<queueVars, loopVars, clock, toPost, calls>>
<1>1. post[t].at = "notify" /\ UNCHANGED <<queueVars, loopVars, clock, toPost, calls>>
  BY DEF DidQueueTask
<1>2. post \in [Thread -> PostType] /\ post[t] \in PostType
  BY DEF QueueTypes
<1>3. ASSUME NEW at, NEW x, NEW empty, PostAt(t, at, x, empty),
             at = "out" \/ x = post[t].task
      PROVE  QueueTypes' /\ PostsOnce'
  <2>1. UNCHANGED <<queue, accepted, due, before, toPost>>
    BY <1>1 DEF queueVars
  <2>2. QueueTypes'
    BY <1>3, <2>1 DEF QueueTypes, PostAt
  <2>3. PostsOnce'
    BY <1>1, <1>3, <2>1, PostsOncePosts
  <2>4. QED
    BY <2>2, <2>3
<1>4. CASE post' = [post EXCEPT ![t] = NotPosting]
  <2>1. PostAt(t, "out", NoTask, FALSE)
    BY <1>2, <1>4, PostEnds
  <2>2. QueueTypes' /\ PostsOnce'
    BY <1>3, <2>1
  <2>3. CASE ~post[t].wasEmpty /\ UNCHANGED <<control, eventVars>>
    BY <1>1, <2>1, <2>2, <2>3
  <2>4. CASE /\ ~(control.connected /\ control.ready)
             /\ control' = [control EXCEPT !.pending = TRUE] /\ UNCHANGED eventVars
    BY <1>1, <2>1, <2>2, <2>4
  <2>5. CASE /\ post' = [post EXCEPT ![t].at = "scheduling"]
             /\ CallSignal(t, PumpEvent) /\ UNCHANGED control
    <3>1. post'[t] = NotPosting /\ post'[t] = [post[t] EXCEPT !.at = "scheduling"]
      BY <1>2, <1>4, <2>5
    <3>2. FALSE
      BY <1>2, <3>1, NotPostingFacts DEF PostType
    <3>3. QED
      BY <3>2
  <2>6. QED
    BY <2>3, <2>4, <2>5 DEF DidQueueTask
<1>5. CASE /\ post' = [post EXCEPT ![t].at = "scheduling"]
           /\ CallSignal(t, PumpEvent) /\ UNCHANGED control
  <2> DEFINE p == [post[t] EXCEPT !.at = "scheduling"]
  <2>1. p \in PostType /\ p.at = "scheduling" /\ p.task = post[t].task
        /\ p.wasEmpty = post[t].wasEmpty /\ post' = [post EXCEPT ![t] = p]
    BY <1>2, <1>5 DEF PostType
  <2> HIDE DEF p
  <2>2. PostAt(t, p.at, p.task, p.wasEmpty)
    BY <1>2, <2>1, SetPost
  <2>3. Tells(t)
    BY <2>1, <2>2 DEF Tells
  <2>4. QueueTypes' /\ PostsOnce'
    BY <1>3, <2>3 DEF Tells
  <2>5. QED
    BY <1>1, <1>5, <2>3, <2>4
<1>6. QED
  BY <1>4, <1>5 DEF DidQueueTask

LEMMA ScheduledFacts ==
  ASSUME QueueTypes, PostsOnce, NEW t \in Thread, Scheduled(t)
  PROVE  /\ post[t].at = "scheduling" /\ call[t] = Idle /\ PostAt(t, "out", NoTask, FALSE)
         /\ QueueTypes' /\ PostsOnce'
         /\ UNCHANGED <<eventVars, queueVars, loopVars, control, clock, toPost, calls>>
<1>1. /\ post[t].at = "scheduling" /\ call[t] = Idle
      /\ post' = [post EXCEPT ![t] = NotPosting]
      /\ UNCHANGED <<eventVars, queueVars, loopVars, control, clock, toPost, calls>>
  BY DEF Scheduled
<1>2. PostAt(t, "out", NoTask, FALSE)
  BY <1>1, PostEnds DEF QueueTypes
<1>3. UNCHANGED <<queue, accepted, due, before, toPost>>
  BY <1>1 DEF queueVars
<1>4. QueueTypes'
  BY <1>2, <1>3 DEF QueueTypes, PostAt
<1>5. PostsOnce'
  BY <1>1, <1>2, <1>3, PostsOncePosts
<1>6. QED
  BY <1>1, <1>2, <1>4, <1>5

-----------------------------------------------------------------------------
(***************************************************************************)
(* What a task does.                                                       *)
(***************************************************************************)
TaskEnds == Moved("ending", Top.did, Top.task) /\ UNCHANGED allowed

\* The task touches neither queue; it may cancel another, or end its RunLoop.
TaskQuiet ==
  /\ TaskEnds /\ UNCHANGED <<eventVars, queueVars, post, toPost>>
  /\ cancelled \subseteq cancelled' /\ pump' \in PumpType

TaskPosts(x) ==
  TaskEnds /\ BeginPost(Loop, x) /\ UNCHANGED <<eventVars, pump, cancelled>>

TaskNests(l) ==
  /\ l \in RunLoop /\ Push(l, TaskDone) /\ pump' \in PumpType /\ allowed' \in BOOLEAN
  /\ queue' = queue \/ queue' = Reloaded(queue)
  /\ UNCHANGED <<due, accepted, before, post, cancelled, toPost>>
  /\ CallSignal(Loop, PumpEvent) \/ UNCHANGED eventVars

LEMMA PushTypes ==
  ASSUME PumpTypes, NEW l, NEW frames, Push(l, frames)
  PROVE  pump' \in PumpType /\ allowed' \in BOOLEAN
<1>1. pump' = [pump EXCEPT !.keepRunning = TRUE] /\ allowed' = (allowed \/ Frame(l).forced)
  BY DEF Push
<1>2. pump \in PumpType
  BY DEF PumpTypes
<1>3. pump' \in PumpType
  BY <1>1, <1>2 DEF PumpType
<1>4. allowed' \in BOOLEAN
  BY <1>1
<1>5. QED
  BY <1>3, <1>4

LEMMA DoTaskFacts ==
  ASSUME PumpTypes, StackShape, DoTask
  PROVE  /\ At("task") /\ Top.task \in Task /\ stack # <<>>
         /\ UNCHANGED <<control, life, clock, calls, started>>
         /\ TaskQuiet \/ (\E x : TaskPosts(x)) \/ (\E l : TaskNests(l))
<1> DEFINE does == Does[Top.task]
<1>1. At("task") /\ UNCHANGED <<control, life, clock, calls, started>>
  BY DEF DoTask, unchangedByTask
<1>2. stack # <<>> /\ Top.at = "task" /\ pump \in PumpType
  BY <1>1, AtFacts
<1>3. Top.task \in Task
  BY <1>2 DEF StackShape
<1>4. stack' = TaskDone => Moved("ending", Top.did, Top.task)
  BY <1>2, PlaceMoves DEF TaskDone, Places
<1>5. CASE does.op = "run" /\ does.loop \notin quit
  <2>1. /\ RunNested(does.loop)
        /\ UNCHANGED <<due, accepted, before, post, cancelled, toPost>>
    BY <1>5 DEF DoTask
  <2>2. does.loop \in RunLoop
    BY <1>3, <1>5, TaskAssumption
  <2>3. /\ Push(does.loop, TaskDone) /\ (queue' = queue \/ queue' = Reloaded(queue))
        /\ CallSignal(Loop, PumpEvent) \/ UNCHANGED eventVars
    BY <1>5, <2>1 DEF RunNested
  <2>4. TaskNests(does.loop)
    BY <2>1, <2>2, <2>3, PushTypes DEF TaskNests
  <2>5. QED
    BY <1>1, <1>2, <1>3, <2>4
<1>6. CASE does.op = "run" /\ does.loop \in quit
  <2>1. /\ RunNested(does.loop)
        /\ UNCHANGED <<due, accepted, before, post, cancelled, toPost>>
    BY <1>6 DEF DoTask
  <2>2. stack' = TaskDone /\ UNCHANGED <<eventVars, queue, pump, allowed>>
    BY <1>6, <2>1 DEF RunNested
  <2>3. TaskQuiet
    BY <1>2, <1>4, <2>1, <2>2 DEF TaskQuiet, TaskEnds, queueVars
  <2>4. QED
    BY <1>1, <1>2, <1>3, <2>3
<1>7. CASE does.op = "post"
  <2>1. /\ BeginPost(Loop, does.task) /\ stack' = TaskDone
        /\ UNCHANGED <<eventVars, pump, allowed, cancelled>>
    BY <1>7 DEF DoTask
  <2>2. TaskPosts(does.task)
    BY <1>4, <2>1 DEF TaskPosts, TaskEnds
  <2>3. QED
    BY <1>1, <1>2, <1>3, <2>2
<1>8. CASE does.op = "quit"
  <2>1. /\ Quit(does.loop) /\ stack' = TaskDone
        /\ UNCHANGED <<eventVars, queueVars, allowed, post, cancelled, toPost>>
    BY <1>8 DEF DoTask
  <2>2. pump' = pump \/ pump' = [pump EXCEPT !.keepRunning = FALSE]
    BY <2>1 DEF Quit
  <2>3. pump' \in PumpType
    BY <1>2, <2>2 DEF PumpType
  <2>4. TaskQuiet
    BY <1>4, <2>1, <2>3 DEF TaskQuiet, TaskEnds
  <2>5. QED
    BY <1>1, <1>2, <1>3, <2>4
<1>9. CASE does.op \in {"none", "cancel", "quitWhenIdle"}
  <2>1. /\ stack' = TaskDone /\ cancelled \subseteq cancelled'
        /\ UNCHANGED <<eventVars, queueVars, pump, allowed, post, toPost>>
    BY <1>9 DEF DoTask
  <2>2. TaskQuiet
    BY <1>2, <1>4, <2>1 DEF TaskQuiet, TaskEnds
  <2>3. QED
    BY <1>1, <1>2, <1>3, <2>2
<1>10. does.op \in {"none", "post", "cancel", "run", "quit", "quitWhenIdle"}
  BY DEF DoTask
<1>11. QED
  BY <1>5, <1>6, <1>7, <1>8, <1>9, <1>10

-----------------------------------------------------------------------------
(***************************************************************************)
(* LoopBasics is inductive.                                                *)
(***************************************************************************)
\* The tasks that DoWork and DoDelayedWork will still find.
Waiting == ToSet(queue.incoming) \cup ToSet(queue.triage) \cup queue.delayed

LEMMA PostsOnceShrinks ==
  ASSUME PostsOnce, UNCHANGED <<accepted, toPost, post, due>>,
         Waiting' \subseteq Waiting, \A x \in queue'.delayed : due[x] # NoTime
  PROVE  PostsOnce'
BY DEF PostsOnce, Waiting

LEMMA CallShapeQuiet ==
  ASSUME CallShape, UNCHANGED <<eventVars, calls>>, life' # "gone" => life # "gone",
         call[Loop] = Idle \/ UNCHANGED <<stack, pump>>
  PROVE  CallShape'
<1>1. UNCHANGED call /\ (call[Loop] = Idle => call[Loop].op = "none")
  BY DEF eventVars, Idle
<1>2. UNCHANGED <<stack, pump>> => UNCHANGED <<Top, stack, pump>>
  BY DEF Top
<1>3. QED
  BY <1>1, <1>2 DEF CallShape

LEMMA CallShapeSignal ==
  ASSUME EventInv, CallShape, UNCHANGED calls, life' # "gone" => life # "gone",
         NEW t \in Thread, CallSignal(t, PumpEvent), t = Loop \/ UNCHANGED <<stack, pump>>
  PROVE  CallShape'
<1>1. call \in [Thread -> CallType]
  BY DEF EventInv, Types
<1> DEFINE c == [Idle EXCEPT !.op = "signal", !.at = "lock", !.raw = <<PumpEvent>>]
<1>2. c.op = "signal" /\ c.raw = <<PumpEvent>>
  BY DEF Idle
<1>3. call' = [call EXCEPT ![t] = c]
  BY DEF CallSignal
<1> HIDE DEF c
<1>4. call'[t] = c /\ \A u \in Thread \ {t} : call'[u] = call[u]
  BY <1>1, <1>3
<1>5. UNCHANGED <<stack, pump>> => UNCHANGED <<Top, stack, pump>>
  BY DEF Top
<1>6. Loop \in Thread
  BY LoopAssumption
<1>7. QED
  BY <1>2, <1>4, <1>5, <1>6 DEF CallShape

LEMMA CallShapeStep ==
  ASSUME CallShape, \A u \in Thread : Continues(u), UNCHANGED <<stack, pump, life, calls>>
  PROVE  CallShape'
<1>1. UNCHANGED Top
  BY DEF Top
<1>2. Idle.op = "none"
  BY DEF Idle
<1>3. Loop \in Thread
  BY LoopAssumption
<1>4. QED
  BY <1>1, <1>2, <1>3 DEF CallShape, Continues

\* A step of the pump that keeps to its types.
PumpSound ==
  /\ stack # <<>> /\ call[Loop] = Idle
  /\ queue' \in QueueType /\ pump' \in PumpType /\ clock' \in ClockType
  /\ allowed' \in BOOLEAN /\ started' \in Seq(Task)
  /\ \/ UNCHANGED stack
     \/ \E at, did, task : Moved(at, did, task) /\ (at = "task" => task \in Task)
  /\ Waiting' \subseteq Waiting /\ \A x \in queue'.delayed : due[x] # NoTime

LEMMA PumpSoundBasics ==
  ASSUME LoopBasics, PumpSound, UNCHANGED unchangedByPump
  PROVE  LoopBasics'
<1>0. /\ QueueTypes /\ PumpTypes /\ StackShape /\ CallShape /\ ControlShape /\ PostsOnce
  BY DEF LoopBasics, LoopShape
<1>1. UNCHANGED <<eventVars, control, life, post, due, toPost, calls, accepted, before>>
  BY DEF unchangedByPump
<1>2. QueueTypes'
  BY <1>0, <1>1 DEF QueueTypes, PumpSound
<1>3. stack' \in Seq(FrameType)
  BY <1>0 DEF PumpSound, PumpTypes, Moved
<1>4. PumpTypes'
  BY <1>0, <1>1, <1>3 DEF PumpTypes, PumpSound
<1>5. StackShape'
  BY <1>0, <1>1, StackSame, StackMoved DEF PumpSound
<1>6. CallShape'
  BY <1>0, <1>1, CallShapeQuiet DEF PumpSound
<1>7. ControlShape'
  BY <1>0, <1>1 DEF ControlShape
<1>8. PostsOnce'
  BY <1>0, <1>1, PostsOnceShrinks DEF PumpSound
<1>9. QED
  BY <1>2, <1>4, <1>5, <1>6, <1>7, <1>8 DEF LoopBasics, LoopShape

LEMMA RunsSound ==
  ASSUME PumpTypes, NEW x \in Task, Runs(x)
  PROVE  /\ allowed' \in BOOLEAN /\ started' \in Seq(Task)
         /\ \E at, did, task : Moved(at, did, task) /\ (at = "task" => task \in Task)
<1>1. started' \in Seq(Task)
  BY TaskSeq DEF Runs, PumpTypes
<1>2. QED
  BY <1>1 DEF Runs

LEMMA ReturnsSound ==
  ASSUME PumpTypes, stack # <<>>, Top.at \in {"work", "delayed", "idle"},
         NEW d \in BOOLEAN, NEW k \in BOOLEAN, Returns(d, k), NoRun
  PROVE  /\ allowed' \in BOOLEAN /\ started' \in Seq(Task)
         /\ \E at, did, task : Moved(at, did, task) /\ (at = "task" => task \in Task)
<1>1. After(Top.at, d, k) # "task"
  BY AfterFacts
<1>2. QED
  BY <1>1 DEF Returns, NoRun, PumpTypes

LEMMA TrimsSound ==
  ASSUME PostsOnce, NEW d, Trims(d)
  PROVE  Waiting' \subseteq Waiting /\ \A x \in queue'.delayed : due[x] # NoTime
BY DEF Trims, QueuesKept, Waiting, PostsOnce

LEMMA WorkSound ==
  ASSUME LoopBasics, DoWork
  PROVE  PumpSound
<1>0. /\ QueueTypes /\ PumpTypes /\ StackShape /\ PostsOnce
  BY DEF LoopBasics, LoopShape
<1> DEFINE q == Reloaded(queue)
<1>1. /\ At("work") /\ allowed /\ UNCHANGED unchangedByPump /\ UNCHANGED clock
      /\ queue' \in QueueType /\ pump' \in PumpType
      /\ \/ WorkEmpty(q)
         \/ \E x : /\ WorkTakes(q, x)
                   /\ WorkDrops(q, x) \/ WorkDelays(q, x) \/ WorkRuns(q, x) \/ WorkDefers(q, x)
  BY <1>0, DoWorkFacts
<1>2. stack # <<>> /\ Top.at = "work" /\ call[Loop] = Idle /\ pump.keepRunning \in BOOLEAN
  BY <1>0, <1>1, AtFacts
<1>3. /\ q \in QueueType /\ q.delayed = queue.delayed
      /\ ToSet(q.incoming) \cup ToSet(q.triage) = ToSet(queue.incoming) \cup ToSet(queue.triage)
  BY <1>0, ReloadedFacts DEF QueueTypes
<1> HIDE DEF q
<1>4. allowed \in BOOLEAN /\ started \in Seq(Task) /\ clock' \in ClockType
  BY <1>0, <1>1 DEF PumpTypes
<1>5. CASE WorkEmpty(q)
  <2>1. queue' = q /\ Returns(FALSE, pump.keepRunning) /\ NoRun
    BY <1>5 DEF WorkEmpty
  <2>2. Waiting' \subseteq Waiting /\ \A x \in queue'.delayed : due[x] # NoTime
    BY <1>0, <1>3, <2>1 DEF Waiting, PostsOnce
  <2>3. /\ allowed' \in BOOLEAN /\ started' \in Seq(Task)
        /\ \E at, did, task : Moved(at, did, task) /\ (at = "task" => task \in Task)
    BY <1>0, <1>2, <2>1, ReturnsSound
  <2>4. QED
    BY <1>1, <1>2, <1>4, <2>2, <2>3 DEF PumpSound
<1>6. ASSUME NEW x, WorkTakes(q, x),
             WorkDrops(q, x) \/ WorkDelays(q, x) \/ WorkRuns(q, x) \/ WorkDefers(q, x)
      PROVE  PumpSound
  <2>1. /\ x \in Task /\ q.triage # <<>> /\ x = Head(q.triage)
        /\ queue'.incoming = q.incoming /\ queue'.triage = Tail(q.triage)
    BY <1>6 DEF WorkTakes
  <2>2. ToSet(q.triage) = ToSet(queue'.triage) \cup {x}
    BY <1>3, <2>1, TaskSeq DEF QueueType
  <2>3. Waiting' \subseteq Waiting /\ \A y \in queue'.delayed : due[y] # NoTime
    <3>1. CASE WorkDelays(q, x)
      <4>1. queue'.delayed = queue.delayed \cup {x} /\ due[x] # NoTime
        BY <1>3, <3>1 DEF WorkDelays
      <4>2. QED
        BY <1>0, <1>3, <2>1, <2>2, <4>1 DEF Waiting, PostsOnce
    <3>2. CASE ~WorkDelays(q, x)
      <4>1. queue'.delayed = queue.delayed
        BY <1>3, <1>6, <3>2 DEF WorkDrops, WorkRuns, WorkDefers
      <4>2. QED
        BY <1>0, <1>3, <2>1, <2>2, <4>1 DEF Waiting, PostsOnce
    <3>3. QED
      BY <3>1, <3>2
  <2>4. /\ allowed' \in BOOLEAN /\ started' \in Seq(Task)
        /\ \/ UNCHANGED stack
           \/ \E at, did, task : Moved(at, did, task) /\ (at = "task" => task \in Task)
    <3>1. CASE WorkRuns(q, x)
      BY <1>0, <2>1, <3>1, RunsSound DEF WorkRuns
    <3>2. CASE ~WorkRuns(q, x)
      BY <1>4, <1>6, <3>2 DEF WorkDrops, WorkDelays, WorkDefers, NoRun
    <3>3. QED
      BY <3>1, <3>2
  <2>5. QED
    BY <1>1, <1>2, <1>4, <2>3, <2>4 DEF PumpSound
<1>7. QED
  BY <1>1, <1>5, <1>6

LEMMA RefusedSound ==
  ASSUME LoopBasics, DoWorkRefused
  PROVE  PumpSound
<1>0. /\ QueueTypes /\ PumpTypes /\ PostsOnce
  BY DEF LoopBasics
<1>1. /\ At("work") /\ Returns(FALSE, pump.keepRunning) /\ NoRun
      /\ UNCHANGED <<queue, pump, clock>>
  BY <1>0, DoWorkRefusedFacts
<1>2. stack # <<>> /\ Top.at = "work" /\ call[Loop] = Idle /\ pump.keepRunning \in BOOLEAN
  BY <1>0, <1>1, AtFacts
<1>3. /\ allowed' \in BOOLEAN /\ started' \in Seq(Task)
      /\ \E at, did, task : Moved(at, did, task) /\ (at = "task" => task \in Task)
  BY <1>0, <1>1, <1>2, ReturnsSound
<1>4. queue' \in QueueType /\ pump' \in PumpType /\ clock' \in ClockType
  BY <1>0, <1>1 DEF QueueTypes, PumpTypes
<1>5. Waiting' \subseteq Waiting /\ \A x \in queue'.delayed : due[x] # NoTime
  BY <1>0, <1>1 DEF Waiting, PostsOnce
<1>6. QED
  BY <1>2, <1>3, <1>4, <1>5 DEF PumpSound

LEMMA DelayedSound ==
  ASSUME LoopBasics, DoDelayedWorkNone \/ DoDelayedWorkEarly \/ DoDelayedWork
  PROVE  PumpSound
<1>0. /\ QueueTypes /\ PumpTypes /\ PostsOnce /\ clock \in ClockType
  BY DEF LoopBasics, PumpTypes
<1>1. /\ At("delayed") /\ pump' \in PumpType /\ clock' \in ClockType /\ Trims(queue'.delayed)
      /\ \/ Returns(Top.did, pump.keepRunning) /\ NoRun
         \/ \E x \in Task : Runs(x)
  <2>1. CASE DoDelayedWorkNone
    BY <1>0, <2>1, DelayedNoneFacts
  <2>2. CASE DoDelayedWorkEarly
    BY <1>0, <2>2, DelayedEarlyFacts
  <2>3. CASE DoDelayedWork
    BY <1>0, <2>3, DelayedWorkFacts
  <2>4. QED
    BY <2>1, <2>2, <2>3
<1>2. /\ stack # <<>> /\ Top.at = "delayed" /\ call[Loop] = Idle
      /\ pump.keepRunning \in BOOLEAN /\ Top.did \in BOOLEAN
  BY <1>0, <1>1, AtFacts
<1>3. /\ allowed' \in BOOLEAN /\ started' \in Seq(Task)
      /\ \E at, did, task : Moved(at, did, task) /\ (at = "task" => task \in Task)
  BY <1>0, <1>1, <1>2, ReturnsSound, RunsSound
<1>4. Waiting' \subseteq Waiting /\ \A x \in queue'.delayed : due[x] # NoTime
  BY <1>0, <1>1, TrimsSound
<1>5. QED
  BY <1>1, <1>2, <1>3, <1>4 DEF PumpSound, Trims

LEMMA IdleSound ==
  ASSUME LoopBasics, DoIdleWork
  PROVE  PumpSound
<1>0. /\ QueueTypes /\ PumpTypes /\ PostsOnce /\ clock \in ClockType
  BY DEF LoopBasics, PumpTypes
<1>1. /\ At("idle") /\ pump' \in PumpType /\ UNCHANGED clock /\ Trims(queue'.delayed)
      /\ \/ Returns(FALSE, pump'.keepRunning) /\ NoRun
         \/ \E x \in Task : Runs(x)
  BY <1>0, IdleWorkFacts
<1>2. stack # <<>> /\ Top.at = "idle" /\ call[Loop] = Idle
  BY <1>0, <1>1, AtFacts
<1>3. /\ allowed' \in BOOLEAN /\ started' \in Seq(Task)
      /\ \E at, did, task : Moved(at, did, task) /\ (at = "task" => task \in Task)
  <2> DEFINE k == pump'.keepRunning
  <2>1. k \in BOOLEAN
    BY <1>1 DEF PumpType
  <2> HIDE DEF k
  <2>2. CASE Returns(FALSE, k) /\ NoRun
    BY <1>0, <1>2, <2>1, <2>2, ReturnsSound
  <2>3. CASE \E x \in Task : Runs(x)
    BY <1>0, <2>3, RunsSound
  <2>4. QED
    BY <1>1, <2>2, <2>3 DEF k
<1>4. Waiting' \subseteq Waiting /\ \A x \in queue'.delayed : due[x] # NoTime
  BY <1>0, <1>1, TrimsSound
<1>5. QED
  BY <1>0, <1>1, <1>2, <1>3, <1>4 DEF PumpSound, Trims

\* The pump wakes up; a task has returned.
LEMMA AwakeFacts ==
  ASSUME PumpTypes, Awake
  PROVE  /\ At("waiting") /\ Moved("work", Top.did, Top.task) /\ NoRun
         /\ UNCHANGED unchangedByPump /\ UNCHANGED <<queue, pump, clock>>
<1>1. /\ At("waiting") /\ stack' = [stack EXCEPT ![Len(stack)].at = "work"] /\ NoRun
      /\ UNCHANGED unchangedByPump /\ UNCHANGED <<queue, pump, clock>>
  BY DEF Awake, NoRun
<1>2. Moved("work", Top.did, Top.task)
  BY <1>1, AtFacts, PlaceMoves DEF Places
<1>3. QED
  BY <1>1, <1>2

LEMMA EndTaskFacts ==
  ASSUME PumpTypes, EndTask
  PROVE  /\ At("ending") /\ allowed' = TRUE /\ UNCHANGED unchangedByPump
         /\ UNCHANGED <<queue, pump, clock, started>>
         /\ \E at \in {"work", "delayed", "leave"} : Moved(at, TRUE, NoTask)
<1>1. /\ At("ending") /\ allowed' = TRUE /\ UNCHANGED unchangedByPump
      /\ UNCHANGED <<queue, pump, clock, started>>
  BY DEF EndTask
<1>2. pump.keepRunning \in BOOLEAN
  BY <1>1, AtFacts
<1>3. After(Top.from, TRUE, pump.keepRunning) \in {"work", "delayed", "leave"}
  BY <1>2, AfterFacts
<1>4. QED
  BY <1>1, <1>3, EndTaskMoves

LEMMA WakeSound ==
  ASSUME LoopBasics, Awake \/ EndTask
  PROVE  PumpSound
<1>0. /\ QueueTypes /\ PumpTypes /\ PostsOnce
  BY DEF LoopBasics
<1>1. /\ At("waiting") \/ At("ending")
      /\ UNCHANGED <<queue, pump, clock, started>>
      /\ \E at, did, task : Moved(at, did, task) /\ (at = "task" => task \in Task)
  <2>1. CASE Awake
    BY <1>0, <2>1, AwakeFacts DEF NoRun, PumpTypes
  <2>2. CASE EndTask
    BY <1>0, <2>2, EndTaskFacts
  <2>3. QED
    BY <2>1, <2>2
<1>2. stack # <<>> /\ call[Loop] = Idle
  BY <1>0, <1>1, AtFacts
<1>3. allowed' \in BOOLEAN
  BY <1>0, AwakeFacts, EndTaskFacts DEF NoRun, PumpTypes
<1>4. queue' \in QueueType /\ pump' \in PumpType /\ clock' \in ClockType /\ started' \in Seq(Task)
  BY <1>0, <1>1 DEF QueueTypes, PumpTypes
<1>5. Waiting' \subseteq Waiting /\ \A x \in queue'.delayed : due[x] # NoTime
  BY <1>0, <1>1 DEF Waiting, PostsOnce
<1>6. QED
  BY <1>1, <1>2, <1>3, <1>4, <1>5 DEF PumpSound

\* The methods of the delegate, and the ends of a wait and of a task.
PumpAction ==
  \/ DoWorkRefused \/ DoWork \/ DoDelayedWorkNone \/ DoDelayedWorkEarly
  \/ DoDelayedWork \/ DoIdleWork \/ Awake \/ EndTask

LEMMA PumpBasics ==
  ASSUME LoopBasics, PumpAction
  PROVE  LoopBasics' /\ UNCHANGED unchangedByPump /\ call[Loop] = Idle
<1>1. UNCHANGED unchangedByPump
  BY DEF PumpAction, DoWorkRefused, DoWork, DoDelayedWorkNone, DoDelayedWorkEarly,
         DoDelayedWork, DoIdleWork, Awake, EndTask
<1>2. PumpSound
  BY RefusedSound, WorkSound, DelayedSound, IdleSound, WakeSound DEF PumpAction
<1>3. QED
  BY <1>1, <1>2, PumpSoundBasics DEF PumpSound

\* What the invariants need of a step that has nothing to do with them.
LEMMA BasicsSame ==
  ASSUME LoopBasics,
         UNCHANGED <<queue, post, due, toPost, accepted, before, control, pump, stack,
                     allowed, started, life>>,
         clock' \in ClockType, CallShape'
  PROVE  LoopBasics'
<1>1. QueueTypes /\ PumpTypes /\ StackShape /\ ControlShape /\ PostsOnce
  BY DEF LoopBasics, LoopShape
<1>2. QueueTypes'
  BY <1>1 DEF QueueTypes
<1>3. PumpTypes'
  BY <1>1 DEF PumpTypes
<1>4. StackShape' /\ ControlShape'
  BY <1>1, StackSame DEF ControlShape
<1>5. PostsOnce'
  BY <1>1 DEF PostsOnce
<1>6. QED
  BY <1>2, <1>3, <1>4, <1>5 DEF LoopBasics, LoopShape

LEMMA SleepSoundQuiet ==
  ASSUME SleepSound, UNCHANGED eventVars, life' # "gone" => life # "gone"
  PROVE  SleepSound'
BY DEF SleepSound, eventVars

LEMMA SleepSoundCall ==
  ASSUME EventInv, SleepSound, UNCHANGED kernel, life' # "gone" => life # "gone",
         NEW t \in Thread, NEW c, c.at = "lock", call' = [call EXCEPT ![t] = c]
  PROVE  SleepSound'
<1>1. call \in [Thread -> CallType] /\ Loop \in Thread
  BY LoopAssumption DEF EventInv, Types
<1>2. QED
  BY <1>1 DEF SleepSound

LEMMA SignalSleepSound ==
  ASSUME EventInv, SleepSound, life' # "gone" => life # "gone",
         NEW t \in Thread, CallSignal(t, PumpEvent)
  PROVE  SleepSound'
<1> DEFINE c == [Idle EXCEPT !.op = "signal", !.at = "lock", !.raw = <<PumpEvent>>]
<1>1. c.at = "lock" /\ call' = [call EXCEPT ![t] = c] /\ UNCHANGED kernel
  BY DEF CallSignal, Idle
<1> HIDE DEF c
<1>2. QED
  BY <1>1, SleepSoundCall

\* Steps of a call, and its timeout.
LEMMA EventBasics ==
  ASSUME EventInv, LoopBasics, SleepSound, NEW t \in Thread, EventStep(t) \/ Expire(t),
         UNCHANGED <<queueVars, loopVars, control, post, clock, toPost, calls>>
  PROVE  LoopBasics' /\ SleepSound' /\ (life # "gone" => Rings)
<1>1. CallShape /\ clock \in ClockType
  BY DEF LoopBasics, LoopShape, PumpTypes
<1>2. UNCHANGED <<queue, post, due, toPost, accepted, before, control, pump, stack,
                     allowed, started, life, clock, calls>>
  BY DEF queueVars, loopVars
<1>3. CASE life = "gone"
  <2>1. CallShape' /\ SleepSound'
    BY <1>2, <1>3 DEF CallShape, SleepSound
  <2>2. QED
    BY <1>1, <1>2, <1>3, <2>1, BasicsSame
<1>4. CASE life # "gone"
  <2>1. Rings
    BY <1>1, <1>2, <1>4, StepRings
  <2>2. CallShape' /\ SleepSound'
    BY <1>1, <1>2, <2>1, CallShapeStep DEF Rings
  <2>3. QED
    BY <1>1, <1>2, <2>1, <2>2, BasicsSame
<1>5. QED
  BY <1>3, <1>4

\* Threads use events freely only without a loop.
LEMMA OtherCallBasics ==
  ASSUME LoopBasics, NEW t \in Thread, OtherCall(t)
  PROVE  life = "gone" /\ LoopBasics' /\ SleepSound'
<1>1. CallShape /\ clock \in ClockType
  BY DEF LoopBasics, LoopShape, PumpTypes
<1>2. calls > 0 /\ UNCHANGED <<queueVars, loopVars, control, post, clock, toPost>>
  BY DEF OtherCall
<1>3. UNCHANGED <<queue, post, due, toPost, accepted, before, control, pump, stack,
                     allowed, started, life, clock>>
  BY <1>2 DEF queueVars, loopVars
<1>4. life = "gone"
  <2>1. calls # 0
    BY <1>2
  <2>2. QED
    BY <1>1, <2>1 DEF CallShape
<1>5. CallShape' /\ SleepSound'
  BY <1>3, <1>4 DEF CallShape, SleepSound
<1>6. QED
  BY <1>1, <1>3, <1>4, <1>5, BasicsSame

\* The sections of PostTask.
LEMMA PostBasics ==
  ASSUME EventInv, LoopBasics, SleepSound, NEW t \in Thread, PostTask(t) \/ PostStep(t)
  PROVE  LoopBasics' /\ SleepSound'
<1>0. /\ QueueTypes /\ PumpTypes /\ PostsOnce /\ StackShape /\ CallShape /\ ControlShape
  BY DEF LoopBasics, LoopShape
<1>1. ASSUME UNCHANGED <<eventVars, loopVars, control, clock, calls>>, QueueTypes', PostsOnce'
      PROVE  LoopBasics' /\ SleepSound'
  <2>1. UNCHANGED <<pump, stack, life, allowed, started>>
    BY <1>1 DEF loopVars
  <2>2. PumpTypes' /\ StackShape' /\ ControlShape'
    BY <1>0, <1>1, <2>1, StackSame DEF PumpTypes, ControlShape
  <2>3. CallShape' /\ SleepSound'
    BY <1>0, <1>1, <2>1, CallShapeQuiet, SleepSoundQuiet
  <2>4. QED
    BY <1>1, <2>2, <2>3 DEF LoopBasics, LoopShape
<1>2. CASE PostTask(t)
  <2>1. PICK x : BeginPost(t, x) /\ UNCHANGED <<eventVars, loopVars, control, clock, calls>>
    BY <1>2 DEF PostTask
  <2>2. QueueTypes' /\ PostsOnce'
    BY <1>0, <2>1, BeginPostFacts
  <2>3. QED
    BY <1>1, <2>1, <2>2
<1>3. CASE PostPendingTask(t)
  BY <1>0, <1>1, <1>3, PostPendingFacts
<1>4. CASE Scheduled(t)
  BY <1>0, <1>1, <1>4, ScheduledFacts
<1>5. CASE DidQueueTask(t)
  <2>1. /\ \/ UNCHANGED <<control, eventVars>>
           \/ CallSignal(t, PumpEvent) /\ UNCHANGED control
           \/ control' = [control EXCEPT !.pending = TRUE] /\ UNCHANGED eventVars
        /\ QueueTypes' /\ PostsOnce'
        /\ UNCHANGED <<loopVars, clock, calls>>
    BY <1>0, <1>5, DidQueueFacts
  <2>2. CASE UNCHANGED <<control, eventVars>>
    BY <1>1, <2>1, <2>2
  <2>3. UNCHANGED <<pump, stack, life, allowed, started>>
    BY <2>1 DEF loopVars
  <2>4. StackShape'
    BY <1>0, <2>3, StackSame
  <2>5. CASE CallSignal(t, PumpEvent) /\ UNCHANGED control
    <3>1. PumpTypes' /\ ControlShape'
      BY <1>0, <2>1, <2>3, <2>5 DEF PumpTypes, ControlShape
    <3>2. CallShape' /\ SleepSound'
      BY <1>0, <2>1, <2>3, <2>5, CallShapeSignal, SignalSleepSound
    <3>3. QED
      BY <2>1, <2>4, <3>1, <3>2 DEF LoopBasics, LoopShape
  <2>6. CASE control' = [control EXCEPT !.pending = TRUE] /\ UNCHANGED eventVars
    <3>1. control' \in ControlType /\ control'.ready = control.ready
          /\ control'.connected = control.connected
      BY <1>0, <2>6 DEF PumpTypes, ControlType
    <3>2. PumpTypes' /\ ControlShape'
      BY <1>0, <2>1, <2>3, <3>1 DEF PumpTypes, ControlShape
    <3>3. CallShape' /\ SleepSound'
      BY <1>0, <2>1, <2>3, <2>6, CallShapeQuiet, SleepSoundQuiet
    <3>4. QED
      BY <2>1, <2>4, <3>2, <3>3 DEF LoopBasics, LoopShape
  <2>7. QED
    BY <2>1, <2>2, <2>5, <2>6
<1>6. QED
  BY <1>2, <1>3, <1>4, <1>5 DEF PostStep

LEMMA SleepFacts ==
  ASSUME EventInv, PumpTypes, Sleep
  PROVE  /\ At("wait") /\ Moved("waiting", Top.did, Top.task)
         /\ UNCHANGED <<queue, due, accepted, before, control, pump, life, allowed, post,
                        clock, cancelled, toPost, calls, started, kernel>>
         /\ call'[Loop].op = "wait" /\ call'[Loop].raw = <<PumpEvent>>
         /\ call'[Loop].timed = (pump.delayedWorkTime # NoTime)
         /\ call'[Loop].at = "lock" /\ call'[Loop].fired = FALSE
         /\ \A u \in Thread \ {Loop} : call'[u] = call[u]
<1> DEFINE b == pump.delayedWorkTime # NoTime
           c == [Idle EXCEPT !.op = "wait", !.at = "lock", !.raw = <<PumpEvent>>, !.timed = b]
<1>1. /\ At("wait") /\ stack' = [stack EXCEPT ![Len(stack)].at = "waiting"]
      /\ UNCHANGED <<queue, due, accepted, before, control, pump, life, allowed, post,
                     clock, cancelled, toPost, calls, started, kernel>>
      /\ call' = [call EXCEPT ![Loop] = c]
  BY DEF Sleep, CallWait, queueVars
<1>2. Moved("waiting", Top.did, Top.task)
  BY <1>1, AtFacts, PlaceMoves DEF Places
<1>3. /\ c.op = "wait" /\ c.raw = <<PumpEvent>> /\ c.timed = b /\ c.at = "lock"
      /\ c.fired = FALSE
  BY DEF Idle
<1> HIDE DEF c
<1>4. call \in [Thread -> CallType] /\ Loop \in Thread
  BY LoopAssumption DEF EventInv, Types
<1>5. call'[Loop] = c /\ \A u \in Thread \ {Loop} : call'[u] = call[u]
  BY <1>1, <1>4
<1>6. QED
  BY <1>1, <1>2, <1>3, <1>5

LEMMA SleepBasics ==
  ASSUME EventInv, LoopBasics, SleepSound, Sleep
  PROVE  LoopBasics' /\ SleepSound'
<1>0. /\ QueueTypes /\ PumpTypes /\ PostsOnce /\ StackShape /\ CallShape /\ ControlShape
  BY DEF LoopBasics, LoopShape
<1>1. /\ At("wait") /\ Moved("waiting", Top.did, Top.task)
      /\ UNCHANGED <<queue, due, accepted, before, control, pump, life, allowed, post,
                     clock, cancelled, toPost, calls, started, kernel>>
      /\ call'[Loop].op = "wait" /\ call'[Loop].raw = <<PumpEvent>>
      /\ call'[Loop].timed = (pump.delayedWorkTime # NoTime) /\ call'[Loop].at = "lock"
      /\ \A u \in Thread \ {Loop} : call'[u] = call[u]
  BY <1>0, SleepFacts
<1>2. stack # <<>>
  BY <1>0, <1>1, AtFacts
<1>3. StackShape'
  BY <1>0, <1>1, <1>2, StackMoved
<1>4. ControlShape' /\ QueueTypes' /\ PostsOnce' /\ PumpTypes'
  BY <1>0, <1>1 DEF ControlShape, QueueTypes, PostsOnce, PumpTypes, Moved
<1>5. CallShape'
  <2>1. stack' # <<>> /\ Top'.at = "waiting"
    BY <1>1 DEF Moved
  <2>2. QED
    BY <1>0, <1>1, <2>1 DEF CallShape
<1>6. SleepSound'
  BY <1>1 DEF SleepSound
<1>7. QED
  BY <1>3, <1>4, <1>5, <1>6 DEF LoopBasics, LoopShape

LEMMA TaskBasics ==
  ASSUME EventInv, LoopBasics, SleepSound, DoTask
  PROVE  LoopBasics' /\ SleepSound'
<1>0. /\ QueueTypes /\ PumpTypes /\ PostsOnce /\ StackShape /\ CallShape /\ ControlShape
      /\ Loop \in Thread
  BY LoopAssumption DEF LoopBasics, LoopShape
<1>1. /\ At("task") /\ Top.task \in Task /\ stack # <<>>
      /\ UNCHANGED <<control, life, clock, calls, started>>
      /\ TaskQuiet \/ (\E x : TaskPosts(x)) \/ (\E l : TaskNests(l))
  BY <1>0, DoTaskFacts
<1>2. call[Loop] = Idle
  BY <1>0, <1>1, AtFacts
<1>3. ControlShape'
  BY <1>0, <1>1 DEF ControlShape
<1>4. ASSUME TaskEnds, pump' \in PumpType, QueueTypes', PostsOnce', UNCHANGED eventVars
      PROVE  LoopBasics' /\ SleepSound'
  <2>1. StackShape'
    BY <1>0, <1>1, <1>4, StackMoved DEF TaskEnds
  <2>2. PumpTypes'
    BY <1>0, <1>1, <1>4 DEF PumpTypes, TaskEnds, Moved
  <2>3. CallShape' /\ SleepSound'
    BY <1>0, <1>1, <1>2, <1>4, CallShapeQuiet, SleepSoundQuiet
  <2>4. QED
    BY <1>3, <1>4, <2>1, <2>2, <2>3 DEF LoopBasics, LoopShape
<1>5. CASE TaskQuiet
  <2>1. /\ TaskEnds /\ pump' \in PumpType
        /\ UNCHANGED <<eventVars, queue, due, accepted, before, post, toPost>>
    BY <1>5 DEF TaskQuiet, queueVars
  <2>2. QueueTypes' /\ PostsOnce'
    BY <1>0, <2>1 DEF QueueTypes, PostsOnce
  <2>3. QED
    BY <1>4, <2>1, <2>2
<1>6. ASSUME NEW x, TaskPosts(x) PROVE LoopBasics' /\ SleepSound'
  <2>1. TaskEnds /\ BeginPost(Loop, x) /\ UNCHANGED <<eventVars, pump>>
    BY <1>6 DEF TaskPosts
  <2>2. QueueTypes' /\ PostsOnce'
    BY <1>0, <2>1, BeginPostFacts
  <2>3. pump' \in PumpType
    BY <1>0, <2>1 DEF PumpTypes
  <2>4. QED
    BY <1>4, <2>1, <2>2, <2>3
<1>7. ASSUME NEW l, TaskNests(l) PROVE LoopBasics' /\ SleepSound'
  <2>1. /\ l \in RunLoop /\ Push(l, TaskDone) /\ pump' \in PumpType /\ allowed' \in BOOLEAN
        /\ queue' = queue \/ queue' = Reloaded(queue)
        /\ UNCHANGED <<due, accepted, before, post, toPost>>
        /\ CallSignal(Loop, PumpEvent) \/ UNCHANGED eventVars
    BY <1>7 DEF TaskNests
  <2>2. StackShape'
    BY <1>0, <1>1, <2>1, StackPushed
  <2>3. PumpTypes'
    <3>1. TaskDone \in Seq(FrameType)
      BY <1>0, <1>1, TaskDoneFacts
    <3>2. stack' \in Seq(FrameType)
      BY <1>0, <2>1, <3>1, PushFacts
    <3>3. QED
      BY <1>0, <1>1, <2>1, <3>2 DEF PumpTypes
  <2>4. /\ queue' \in QueueType /\ queue'.delayed = queue.delayed
        /\ ToSet(queue'.incoming) \cup ToSet(queue'.triage)
             = ToSet(queue.incoming) \cup ToSet(queue.triage)
    <3>1. queue \in QueueType
      BY <1>0 DEF QueueTypes
    <3>2. QED
      BY <2>1, <3>1, ReloadedFacts
  <2>5. QueueTypes'
    BY <1>0, <2>1, <2>4 DEF QueueTypes
  <2>6. PostsOnce'
    <3>1. Waiting' \subseteq Waiting /\ \A x \in queue'.delayed : due[x] # NoTime
      BY <1>0, <2>4 DEF Waiting, PostsOnce
    <3>2. QED
      BY <1>0, <2>1, <3>1, PostsOnceShrinks
  <2>7. CallShape' /\ SleepSound'
    BY <1>0, <1>1, <1>2, <2>1, CallShapeQuiet, SleepSoundQuiet, CallShapeSignal, SignalSleepSound
  <2>8. QED
    BY <1>3, <2>2, <2>3, <2>5, <2>6, <2>7 DEF LoopBasics, LoopShape
<1>8. QED
  BY <1>1, <1>5, <1>6, <1>7

\* The steps of the loop's thread outside of Run, and Run itself.
LifeAction ==
  \/ BindToCurrentThread \/ Bound \/ Run \/ Leave
  \/ DeletePendingTasks \/ TasksRemain \/ DisconnectFromParent \/ Shutdown

LEMMA LifeStackShape ==
  ASSUME LoopBasics, LifeAction
  PROVE  /\ StackShape' /\ stack' \in Seq(FrameType) /\ pump' \in PumpType
         /\ allowed' \in BOOLEAN
<1>0. PumpTypes /\ StackShape /\ stack \in Seq(FrameType) /\ pump \in PumpType
      /\ allowed \in BOOLEAN
  BY DEF LoopBasics, LoopShape, PumpTypes
<1>1. CASE Leave
  <2>1. StackShape' /\ stack' \in Seq(FrameType)
    BY <1>0, <1>1, StackLeft, LeaveFacts
  <2>2. PICK k : pump' = [pump EXCEPT !.keepRunning = k] /\ k \in BOOLEAN
    <3>1. Top.keep \in BOOLEAN
      BY <1>0, <1>1, AtFacts DEF Leave, FrameType
    <3>2. QED
      BY <1>1, <3>1 DEF Leave, KeepsRunning
  <2>3. pump' \in PumpType
    BY <1>0, <2>2 DEF PumpType
  <2>4. allowed' \in BOOLEAN
    BY <1>1 DEF Leave
  <2>5. QED
    BY <2>1, <2>3, <2>4
<1>2. CASE Run
  <2>1. life' = "running" /\ Push(Main, <<>>)
    BY <1>2 DEF Run
  <2>2. pump' \in PumpType /\ allowed' \in BOOLEAN
    BY <1>0, <2>1, PushTypes
  <2>3. PICK frames \in Seq(FrameType) : frames = <<>> /\ Push(Main, frames)
    <3>1. <<>> \in Seq(FrameType)
      OBVIOUS
    <3>2. PICK frames : frames = <<>>
      OBVIOUS
    <3>3. frames \in Seq(FrameType) /\ Push(Main, frames)
      BY <2>1, <3>1, <3>2
    <3>4. QED
      BY <3>2, <3>3
  <2>4. /\ stack' \in Seq(FrameType) /\ stack' # <<>> /\ Len(stack') = Len(frames) + 1
        /\ Top'.at = "work"
    BY <1>0, <2>3, PushFacts, TaskAssumption
  <2>5. Len(stack') - 1 = 0
    BY <2>3, <2>4
  <2>6. StackShape'
    BY <2>1, <2>4, <2>5 DEF StackShape
  <2>7. QED
    BY <2>2, <2>4, <2>6
<1>3. CASE \/ BindToCurrentThread \/ Bound
           \/ DeletePendingTasks \/ TasksRemain \/ DisconnectFromParent \/ Shutdown
  <2>1. life # "running" /\ life' # "running" /\ UNCHANGED <<stack, pump, allowed>>
    BY <1>3 DEF BindToCurrentThread, Bound, DeletePendingTasks, TasksRemain,
                DisconnectFromParent, Shutdown, Outside
  <2>2. stack = <<>>
    BY <1>0, <2>1 DEF StackShape
  <2>3. StackShape'
    BY <1>0, <2>1, <2>2 DEF StackShape, Top
  <2>4. QED
    BY <1>0, <2>1, <2>3
<1>4. QED
  BY <1>1, <1>2, <1>3 DEF LifeAction

LEMMA LifeQueues ==
  ASSUME LoopBasics, LifeAction
  PROVE  QueueTypes' /\ PostsOnce'
<1>0. QueueTypes /\ PostsOnce /\ queue \in QueueType
  BY DEF LoopBasics, QueueTypes
<1>1. UNCHANGED <<due, accepted, before, post, toPost>>
  BY DEF LifeAction, BindToCurrentThread, Bound, Run, Leave, DeletePendingTasks, TasksRemain,
         DisconnectFromParent, Shutdown, queueVars
<1>2. ASSUME queue' \in QueueType, Waiting' \subseteq Waiting, queue'.delayed \subseteq queue.delayed
      PROVE  QueueTypes' /\ PostsOnce'
  <2>1. QueueTypes'
    BY <1>0, <1>1, <1>2 DEF QueueTypes
  <2>2. \A x \in queue'.delayed : due[x] # NoTime
    BY <1>0, <1>2 DEF PostsOnce
  <2>3. PostsOnce'
    BY <1>0, <1>1, <1>2, <2>2, PostsOnceShrinks
  <2>4. QED
    BY <2>1, <2>3
<1>3. CASE DeletePendingTasks
  <2>1. queue' = [queue EXCEPT !.incoming = <<>>, !.triage = <<>>, !.delayed = {},
                               !.deferred = <<>>, !.triageEmpty = FALSE]
    BY <1>3 DEF DeletePendingTasks
  <2>2. /\ queue' \in QueueType /\ queue'.delayed = {} /\ queue'.incoming = <<>>
        /\ queue'.triage = <<>>
    BY <1>0, <2>1, EmptyIsSeq DEF QueueType
  <2>3. Waiting' \subseteq Waiting
    BY <2>2, EmptySet DEF Waiting
  <2>4. QED
    BY <1>2, <2>2, <2>3
<1>4. CASE TasksRemain
  <2>1. queue' = Reloaded(queue)
    BY <1>4 DEF TasksRemain
  <2>2. QED
    BY <1>0, <1>2, <2>1, ReloadedFacts DEF Waiting
<1>5. CASE Shutdown
  <2>1. queue' = [queue EXCEPT !.accept = FALSE]
    BY <1>5 DEF Shutdown
  <2>2. /\ queue' \in QueueType /\ queue'.delayed = queue.delayed
        /\ queue'.incoming = queue.incoming /\ queue'.triage = queue.triage
    BY <1>0, <2>1 DEF QueueType
  <2>3. QED
    BY <1>2, <2>2 DEF Waiting
<1>6. CASE BindToCurrentThread \/ Bound \/ Run \/ Leave \/ DisconnectFromParent
  <2>1. UNCHANGED queue
    BY <1>6 DEF BindToCurrentThread, Bound, Run, Leave, DisconnectFromParent, queueVars
  <2>2. QED
    BY <1>0, <1>2, <2>1 DEF Waiting
<1>7. QED
  BY <1>3, <1>4, <1>5, <1>6 DEF LifeAction

LEMMA LifeControl ==
  ASSUME LoopBasics, LifeAction
  PROVE  ControlShape' /\ control' \in ControlType /\ (life' # "gone" => life # "gone")
<1>0. ControlShape /\ StackShape /\ PumpTypes /\ control \in ControlType
  BY DEF LoopBasics, LoopShape, PumpTypes
<1>1. CASE BindToCurrentThread
  <2>1. /\ life = "unbound" /\ life' \in {"binding", "bound"}
        /\ control' = [control EXCEPT !.ready = TRUE]
    BY <1>1 DEF BindToCurrentThread, Outside
  <2>2. control' \in ControlType /\ control'.ready /\ control'.connected = control.connected
    BY <1>0, <2>1 DEF ControlType
  <2>3. QED
    BY <1>0, <2>1, <2>2 DEF ControlShape
<1>2. CASE DisconnectFromParent
  <2>1. /\ life = "disconnecting" /\ life' = "stopping"
        /\ control' = [control EXCEPT !.connected = FALSE]
    BY <1>2 DEF DisconnectFromParent, Outside
  <2>2. control' \in ControlType /\ control'.ready = control.ready
    BY <1>0, <2>1 DEF ControlType
  <2>3. QED
    BY <1>0, <2>1, <2>2 DEF ControlShape
<1>3. CASE Leave
  <2>1. life = "running" /\ life' \in {"running", "clearing"} /\ UNCHANGED control
    BY <1>0, <1>3, LeaveFacts DEF StackShape, Leave
  <2>2. QED
    BY <1>0, <2>1 DEF ControlShape
<1>4. CASE Bound \/ Run \/ DeletePendingTasks \/ TasksRemain \/ Shutdown
  <2>1. /\ UNCHANGED control /\ life \notin {"unbound", "gone"}
        /\ life = "stopping" => life' = "gone"
        /\ life # "stopping" => life' \notin {"unbound", "stopping", "gone"}
    BY <1>4 DEF Bound, Run, DeletePendingTasks, TasksRemain, Shutdown, Outside
  <2>2. QED
    BY <1>0, <2>1 DEF ControlShape
<1>5. QED
  BY <1>1, <1>2, <1>3, <1>4 DEF LifeAction

LEMMA LifeBasics ==
  ASSUME EventInv, LoopBasics, SleepSound, LifeAction
  PROVE  LoopBasics' /\ SleepSound'
<1>0. /\ PumpTypes /\ StackShape /\ CallShape /\ Loop \in Thread
      /\ clock \in ClockType /\ started \in Seq(Task)
  BY LoopAssumption DEF LoopBasics, LoopShape, PumpTypes
<1>1. /\ StackShape' /\ stack' \in Seq(FrameType) /\ pump' \in PumpType
      /\ allowed' \in BOOLEAN /\ QueueTypes' /\ PostsOnce'
      /\ ControlShape' /\ control' \in ControlType /\ (life' # "gone" => life # "gone")
  BY LifeStackShape, LifeQueues, LifeControl
<1>2. UNCHANGED <<clock, started, calls>>
  BY DEF LifeAction, BindToCurrentThread, Bound, Run, Leave, DeletePendingTasks, TasksRemain,
         DisconnectFromParent, Shutdown
<1>3. PumpTypes'
  BY <1>0, <1>1, <1>2 DEF PumpTypes
<1>4. call[Loop] = Idle
  BY DEF LifeAction, BindToCurrentThread, Bound, Run, Leave, DeletePendingTasks, TasksRemain,
         DisconnectFromParent, Shutdown, Outside, At
<1>5. UNCHANGED eventVars \/ CallSignal(Loop, PumpEvent)
  BY DEF LifeAction, BindToCurrentThread, Bound, Run, Leave, DeletePendingTasks, TasksRemain,
         DisconnectFromParent, Shutdown
<1>6. CallShape' /\ SleepSound'
  BY <1>0, <1>1, <1>2, <1>4, <1>5, CallShapeQuiet, SleepSoundQuiet, CallShapeSignal,
     SignalSleepSound
<1>7. QED
  BY <1>1, <1>3, <1>6 DEF LoopBasics, LoopShape

LEMMA TickBasics ==
  ASSUME LoopBasics, SleepSound, Tick
  PROVE  LoopBasics' /\ SleepSound'
<1>0. CallShape /\ clock \in ClockType
  BY DEF LoopBasics, LoopShape, PumpTypes
<1>1. /\ clock' = [clock EXCEPT !.now = @ + 1]
      /\ UNCHANGED <<eventVars, queueVars, loopVars, control, post, toPost, calls>>
  BY DEF Tick
<1>2. UNCHANGED <<queue, post, due, toPost, accepted, before, control, pump, stack,
                     allowed, started, life>>
  BY <1>1 DEF queueVars, loopVars
<1>3. clock' \in ClockType
  BY <1>0, <1>1 DEF ClockType
<1>4. CallShape' /\ SleepSound'
  BY <1>0, <1>1, <1>2, CallShapeQuiet, SleepSoundQuiet
<1>5. QED
  BY <1>2, <1>3, <1>4, BasicsSame

\* The steps of the system, by what they are about.
LEMMA Cases ==
  ASSUME Next
  PROVE  \/ \E t \in Thread :
              \/ /\ EventStep(t) \/ Expire(t)
                 /\ UNCHANGED <<queueVars, loopVars, control, post, clock, toPost, calls>>
              \/ PostTask(t) \/ PostStep(t)
              \/ OtherCall(t)
         \/ PumpAction \/ Sleep \/ DoTask \/ LifeAction \/ Tick
<1>1. CASE Tick
  BY <1>1
<1>2. ASSUME NEW t \in Thread, ThreadStep(t) \/ PostTask(t) \/ OtherCall(t) \/ OtherTimeUp(t)
      PROVE  \/ /\ EventStep(t) \/ Expire(t)
                /\ UNCHANGED <<queueVars, loopVars, control, post, clock, toPost, calls>>
             \/ PostTask(t) \/ PostStep(t)
             \/ OtherCall(t)
             \/ PumpAction \/ Sleep \/ DoTask \/ LifeAction
  <2>1. CASE OtherTimeUp(t)
    BY <2>1 DEF OtherTimeUp
  <2>2. CASE ThreadStep(t)
    <3>1. CASE EventStepOf(t)
      BY <3>1 DEF EventStepOf
    <3>2. CASE t = Loop /\ TimeUp
      BY <3>2 DEF TimeUp
    <3>3. CASE t = Loop /\ LoopStep /\ ~TimeUp
      BY <3>3 DEF LoopStep, PumpAction, LifeAction
    <3>4. QED
      BY <2>2, <3>1, <3>2, <3>3 DEF ThreadStep
  <2>3. QED
    BY <1>2, <2>1, <2>2
<1>3. QED
  BY <1>1, <1>2 DEF Next

LEMMA NextBasics ==
  ASSUME EventInv, LoopBasics, SleepSound, [Next]_vars
  PROVE  LoopBasics' /\ SleepSound'
<1>1. CASE UNCHANGED vars
  <2>1. UNCHANGED <<eventVars, queueVars, loopVars, control, post, clock, toPost, calls>>
    BY <1>1 DEF vars
  <2>2. UNCHANGED <<queue, post, due, toPost, accepted, before, control, pump, stack,
                     allowed, started, life>>
    BY <2>1 DEF queueVars, loopVars
  <2>3. CallShape /\ clock \in ClockType
    BY DEF LoopBasics, LoopShape, PumpTypes
  <2>4. CallShape' /\ SleepSound'
    BY <2>1, <2>2, <2>3, CallShapeQuiet, SleepSoundQuiet
  <2>5. QED
    BY <2>1, <2>2, <2>3, <2>4, BasicsSame
<1>2. CASE PumpAction
  <2>1. LoopBasics' /\ UNCHANGED unchangedByPump
    BY <1>2, PumpBasics
  <2>2. UNCHANGED <<eventVars, life>>
    BY <2>1 DEF unchangedByPump
  <2>3. QED
    BY <2>1, <2>2, SleepSoundQuiet
<1>3. CASE Next /\ ~PumpAction
  BY <1>3, Cases, EventBasics, OtherCallBasics, PostBasics, SleepBasics, TaskBasics, LifeBasics,
     TickBasics
<1>4. QED
  BY <1>1, <1>2, <1>3

LEMMA InitBasics ==
  ASSUME Init
  PROVE  LoopBasics /\ SleepSound /\ stack = <<>>
<1>1. /\ queue = [incoming |-> <<>>, triage |-> <<>>, delayed |-> {},
                  deferred |-> <<>>, accept |-> TRUE, triageEmpty |-> TRUE]
      /\ control = [ready |-> FALSE, pending |-> FALSE, connected |-> TRUE]
      /\ pump = [keepRunning |-> TRUE, delayedWorkTime |-> NoTime]
      /\ stack = <<>> /\ allowed = TRUE
      /\ post = [t \in Thread |-> NotPosting]
      /\ due = [x \in Task |-> NoTime]
      /\ clock = [now |-> 0, recent |-> 0]
      /\ \/ toPost \in Scenarios /\ calls = 0 /\ life = "unbound"
         \/ toPost = {} /\ life = "gone"
      /\ accepted = <<>> /\ before = [x \in Task |-> {}] /\ started = <<>>
      /\ call = [t \in Thread |-> Idle]
  BY DEF Init, InitEvents
<1>2. queue \in QueueType /\ queue.incoming = <<>> /\ queue.triage = <<>> /\ queue.delayed = {}
  BY <1>1, EmptyIsSeq DEF QueueType
<1>3. toPost \in SUBSET Task /\ \A t \in Thread : post[t].at = "out"
  BY <1>1, TaskAssumption, NotPostingFacts
<1>4. QueueTypes
  <2>1. post \in [Thread -> PostType]
    BY <1>1, NotPostingFacts
  <2>2. accepted \in Seq(Task) /\ before \in [Task -> SUBSET Task]
        /\ due \in [Task -> Nat \cup {NoTime}]
    BY <1>1, EmptyIsSeq
  <2>3. QED
    BY <1>2, <1>3, <2>1, <2>2 DEF QueueTypes
<1>5. PumpTypes
  <2>1. control \in ControlType /\ pump \in PumpType /\ clock \in ClockType
    BY <1>1 DEF ControlType, PumpType, ClockType
  <2>2. stack \in Seq(FrameType) /\ allowed \in BOOLEAN /\ started \in Seq(Task)
    BY <1>1, EmptyIsSeq
  <2>3. QED
    BY <2>1, <2>2 DEF PumpTypes
<1>6. StackShape
  BY <1>1 DEF StackShape
<1>7. CallShape /\ SleepSound
  BY <1>1, LoopAssumption DEF CallShape, SleepSound, Idle
<1>8. ControlShape
  BY <1>1 DEF ControlShape
<1>9. PostsOnce
  <2>1. ToSet(accepted) = {} /\ ToSet(queue.incoming) = {} /\ ToSet(queue.triage) = {}
    BY <1>1, <1>2, EmptySet
  <2>2. QED
    BY <1>2, <1>3, <2>1 DEF PostsOnce
<1>10. QED
  BY <1>1, <1>4, <1>5, <1>6, <1>7, <1>8, <1>9 DEF LoopBasics, LoopShape

\* LoopBasics in every state.
LEMMA BasicsInvariant == Spec => [](EventInv /\ LoopBasics /\ SleepSound)
<1>1. Init => LoopBasics /\ SleepSound
  BY InitBasics
<1>2. EventInv /\ LoopBasics /\ SleepSound /\ [Next]_vars => LoopBasics' /\ SleepSound'
  BY NextBasics
<1> QED
  BY <1>1, <1>2, EventInvariant, PTL DEF Spec

-----------------------------------------------------------------------------
(***************************************************************************)
(* The pump goes to sleep only if there is nothing to do.                  *)
(***************************************************************************)
\* DoWork has found nothing to do, and it was not long ago.
Settled ==
  \/ Top.at = "delayed" /\ ~Top.did
  \/ Top.at \in {"idle", "wait"}
  \/ Top.at = "waiting" /\ Pending

\* No task waits in the incoming queue but those that ring the alarm.
QueuesTaken ==
  stack # <<>> /\ Settled /\ allowed =>
    /\ queue.triage = <<>> /\ queue.triageEmpty = TRUE
    /\ queue.incoming # <<>> => Alarm

\* delayed_work_time_ is that of the first delayed task, or earlier.
DelaysKept ==
  stack # <<>> /\ Top.at \in {"idle", "wait", "waiting"} /\ allowed =>
    InTime(queue.delayed \ cancelled, pump.delayedWorkTime)

\* DoIdleWork has found nothing to do either.
NoneDeferred ==
  stack # <<>> /\ Top.at \in {"wait", "waiting"} =>
    pump.keepRunning /\ (~Nested => ToSet(queue.deferred) \subseteq cancelled)

Resting == QueuesTaken /\ DelaysKept /\ NoneDeferred

\* Elsewhere the pump will look at the queues again before it sleeps.
Busy ==
  \/ stack = <<>>
  \/ Top.at \in {"work", "task", "ending", "leave"}
  \/ Top.at = "delayed" /\ Top.did

LEMMA BusyRests == Busy => Resting
BY DEF Busy, Resting, QueuesTaken, DelaysKept, NoneDeferred, Settled

LEMMA BusyRestsNext == Busy' => Resting'
BY DEF Busy, Resting, QueuesTaken, DelaysKept, NoneDeferred, Settled

LEMMA AlarmKept ==
  ASSUME UNCHANGED <<eventVars, post>>
  PROVE  Alarm' <=> Alarm
BY DEF Alarm, Ringing, eventVars

LEMMA RunsBusy ==
  ASSUME NEW x, Runs(x)
  PROVE  Busy'
BY DEF Runs, Moved, Busy

LEMMA WorkRests ==
  ASSUME LoopBasics, DoWork
  PROVE  Resting'
<1>0. QueueTypes /\ PumpTypes /\ queue \in QueueType
  BY DEF LoopBasics, QueueTypes
<1> DEFINE q == Reloaded(queue)
<1>1. /\ At("work")
      /\ \/ WorkEmpty(q)
         \/ \E x : WorkDrops(q, x) \/ WorkDelays(q, x) \/ WorkRuns(q, x) \/ WorkDefers(q, x)
  BY <1>0, DoWorkFacts
<1>2. stack # <<>> /\ Top.at = "work" /\ pump.keepRunning \in BOOLEAN
  BY <1>0, <1>1, AtFacts
<1>3. q.triage = <<>> => q.incoming = <<>> /\ q.triageEmpty = TRUE
  BY <1>0, ReloadedFacts
<1> HIDE DEF q
<1>4. CASE WorkEmpty(q)
  <2>1. q.triage = <<>> /\ queue' = q /\ Returns(FALSE, pump.keepRunning)
    BY <1>4 DEF WorkEmpty
  <2>2. Top'.at \in {"delayed", "leave"}
    BY <1>2, <2>1, AfterFacts DEF Returns, Moved
  <2>3. QED
    BY <1>3, <2>1, <2>2 DEF Resting, QueuesTaken, DelaysKept, NoneDeferred
<1>5. ASSUME NEW x, WorkRuns(q, x) PROVE Resting'
  BY <1>5, RunsBusy, BusyRestsNext DEF WorkRuns
<1>6. ASSUME NEW x, WorkDrops(q, x) \/ WorkDelays(q, x) \/ WorkDefers(q, x) PROVE Resting'
  <2>1. UNCHANGED stack
    BY <1>6 DEF WorkDrops, WorkDelays, WorkDefers
  <2>2. Busy'
    BY <1>2, <2>1 DEF Busy, Top
  <2>3. QED
    BY <2>2, BusyRestsNext
<1>7. QED
  BY <1>1, <1>4, <1>5, <1>6

LEMMA RefusedRests ==
  ASSUME LoopBasics, DoWorkRefused
  PROVE  Resting'
<1>0. PumpTypes
  BY DEF LoopBasics
<1>1. At("work") /\ ~allowed /\ Returns(FALSE, pump.keepRunning) /\ NoRun
  BY <1>0, DoWorkRefusedFacts
<1>2. Top.at = "work" /\ pump.keepRunning \in BOOLEAN
  BY <1>0, <1>1, AtFacts
<1>3. Top'.at \in {"delayed", "leave"} /\ ~allowed'
  BY <1>1, <1>2, AfterFacts DEF Returns, Moved, NoRun
<1>4. QED
  BY <1>3 DEF Resting, QueuesTaken, DelaysKept, NoneDeferred

\* DoDelayedWork returns with a right delayed_work_time_.
LEMMA DelayedReturnRests ==
  ASSUME PumpTypes, Resting, At("delayed"), Returns(Top.did, pump.keepRunning), NoRun,
         UNCHANGED unchangedByPump, Trims(queue'.delayed),
         allowed => InTime(queue'.delayed, pump'.delayedWorkTime)
  PROVE  Resting'
<1>1. /\ stack # <<>> /\ Top.at = "delayed" /\ pump.keepRunning \in BOOLEAN
      /\ Top.did \in BOOLEAN
  BY AtFacts
<1>2. Top'.at = After("delayed", Top.did, pump.keepRunning) /\ Top'.did = Top.did
  BY <1>1 DEF Returns, Moved
<1>3. UNCHANGED <<eventVars, post, due, allowed, cancelled>>
  BY DEF unchangedByPump, NoRun
<1>4. CASE ~pump.keepRunning \/ Top.did
  <2>1. Top'.at \in {"leave", "work"}
    BY <1>1, <1>2, <1>4, AfterFacts
  <2>2. QED
    BY <2>1, BusyRestsNext DEF Busy
<1>5. CASE pump.keepRunning /\ ~Top.did
  <2>1. Top'.at = "idle"
    BY <1>1, <1>2, <1>5, AfterFacts
  <2>2. QueuesTaken'
    <3>1. allowed => /\ queue.triage = <<>> /\ queue.triageEmpty = TRUE
                     /\ queue.incoming # <<>> => Alarm
      BY <1>1, <1>5 DEF Resting, QueuesTaken, Settled
    <3>2. QueuesKept /\ (Alarm' <=> Alarm)
      BY <1>3, AlarmKept DEF Trims
    <3>3. QED
      BY <1>3, <3>1, <3>2 DEF QueuesTaken, QueuesKept
  <2>3. DelaysKept'
    BY <1>3 DEF DelaysKept, InTime
  <2>4. QED
    BY <2>1, <2>2, <2>3 DEF Resting, NoneDeferred
<1>6. QED
  BY <1>4, <1>5

LEMMA DelayedRests ==
  ASSUME LoopBasics, Resting, DoDelayedWorkNone \/ DoDelayedWorkEarly \/ DoDelayedWork
  PROVE  Resting'
<1>0. QueueTypes /\ PumpTypes /\ PostsOnce
  BY DEF LoopBasics
<1>1. CASE DoDelayedWorkNone
  <2>1. /\ At("delayed") /\ Returns(Top.did, pump.keepRunning) /\ NoRun
        /\ UNCHANGED unchangedByPump /\ Trims(queue'.delayed)
        /\ allowed => queue'.delayed = {}
    BY <1>0, <1>1, DelayedNoneFacts
  <2>2. allowed => InTime(queue'.delayed, pump'.delayedWorkTime)
    BY <2>1 DEF InTime
  <2>3. QED
    BY <1>0, <2>1, <2>2, DelayedReturnRests
<1>2. CASE DoDelayedWorkEarly
  BY <1>0, <1>2, DelayedEarlyFacts, DelayedReturnRests
<1>3. CASE DoDelayedWork
  <2>1. /\ At("delayed") /\ UNCHANGED unchangedByPump /\ Trims(queue'.delayed)
        /\ InTime(queue'.delayed, pump'.delayedWorkTime)
        /\ \/ \E x : Runs(x)
           \/ Returns(Top.did, pump.keepRunning) /\ NoRun
    BY <1>0, <1>3, DelayedWorkFacts
  <2>2. QED
    BY <1>0, <2>1, DelayedReturnRests, RunsBusy, BusyRestsNext
<1>4. QED
  BY <1>1, <1>2, <1>3

LEMMA IdleRests ==
  ASSUME LoopBasics, Resting, DoIdleWork
  PROVE  Resting'
<1>0. QueueTypes /\ PumpTypes
  BY DEF LoopBasics
<1>1. /\ At("idle") /\ UNCHANGED unchangedByPump
      /\ pump' \in PumpType /\ pump'.delayedWorkTime = pump.delayedWorkTime
      /\ Trims(queue'.delayed)
      /\ \/ \E x : Runs(x)
         \/ /\ Returns(FALSE, pump'.keepRunning) /\ NoRun
            /\ ~Nested => queue'.deferred = <<>>
  BY <1>0, IdleWorkFacts
<1>2. stack # <<>> /\ Top.at = "idle"
  BY <1>0, <1>1, AtFacts
<1>3. CASE /\ Returns(FALSE, pump'.keepRunning) /\ NoRun
           /\ ~Nested => queue'.deferred = <<>>
  <2>1. UNCHANGED <<eventVars, post, due, allowed, cancelled>>
    BY <1>1, <1>3 DEF unchangedByPump, NoRun
  <2>2. pump'.keepRunning \in BOOLEAN
    BY <1>1 DEF PumpType
  <2>3. Top'.at = After("idle", FALSE, pump'.keepRunning) /\ Len(stack') = Len(stack)
    BY <1>2, <1>3 DEF Returns, Moved
  <2>4. CASE ~pump'.keepRunning
    <3>1. Top'.at = "leave"
      <4> DEFINE k == pump'.keepRunning
      <4>1. k = FALSE /\ Top'.at = After("idle", FALSE, k)
        BY <2>2, <2>3, <2>4
      <4> HIDE DEF k
      <4>2. QED
        BY <4>1, AfterFacts
    <3>2. QED
      BY <3>1, BusyRestsNext DEF Busy
  <2>5. CASE pump'.keepRunning
    <3>1. Top'.at = "wait"
      <4> DEFINE k == pump'.keepRunning
      <4>1. k = TRUE /\ Top'.at = After("idle", FALSE, k)
        BY <2>2, <2>3, <2>5
      <4> HIDE DEF k
      <4>2. QED
        BY <4>1, AfterFacts
    <3>2. QueuesTaken'
      <4>1. allowed => /\ queue.triage = <<>> /\ queue.triageEmpty = TRUE
                       /\ queue.incoming # <<>> => Alarm
        BY <1>2 DEF Resting, QueuesTaken, Settled
      <4>2. QueuesKept /\ (Alarm' <=> Alarm)
        BY <1>1, <2>1, AlarmKept DEF Trims
      <4>3. QED
        BY <2>1, <4>1, <4>2 DEF QueuesTaken, QueuesKept
    <3>3. DelaysKept'
      <4>1. allowed => InTime(queue.delayed \ cancelled, pump.delayedWorkTime)
        BY <1>2 DEF Resting, DelaysKept
      <4>2. queue'.delayed \subseteq queue.delayed
        BY <1>1 DEF Trims
      <4>3. QED
        BY <1>1, <2>1, <4>1, <4>2 DEF DelaysKept, InTime
    <3>4. NoneDeferred'
      <4>1. ~Nested' => ToSet(queue'.deferred) = {}
        BY <1>3, <2>3, EmptySet DEF Nested
      <4>2. QED
        BY <2>5, <4>1 DEF NoneDeferred
    <3>5. QED
      BY <3>2, <3>3, <3>4 DEF Resting
  <2>6. QED
    BY <2>4, <2>5
<1>4. QED
  BY <1>1, <1>3, RunsBusy, BusyRestsNext

LEMMA PumpRests ==
  ASSUME LoopBasics, Resting, PumpAction
  PROVE  Resting'
<1>0. PumpTypes
  BY DEF LoopBasics
<1>1. CASE Awake
  BY <1>0, <1>1, AwakeFacts, BusyRestsNext DEF Busy, Moved
<1>2. CASE EndTask
  BY <1>0, <1>2, EndTaskFacts, BusyRestsNext DEF Busy, Moved
<1>3. QED
  BY <1>1, <1>2, WorkRests, RefusedRests, DelayedRests, IdleRests DEF PumpAction

LEMMA SleepRests ==
  ASSUME EventInv, LoopBasics, Resting, Sleep
  PROVE  Resting'
<1>0. PumpTypes
  BY DEF LoopBasics
<1>1. /\ At("wait") /\ Moved("waiting", Top.did, Top.task)
      /\ UNCHANGED <<queue, due, accepted, before, control, pump, life, allowed, post,
                     clock, cancelled, toPost, calls, started, kernel>>
      /\ \A u \in Thread \ {Loop} : call'[u] = call[u]
  BY <1>0, SleepFacts
<1>2. stack # <<>> /\ Top.at = "wait" /\ post[Loop] = NotPosting
  BY <1>0, <1>1, AtFacts
<1>3. Alarm => Alarm'
  <2>1. ~Ringing(Loop)
    BY <1>2, NotPostingFacts DEF Ringing
  <2>2. ASSUME NEW u \in Thread, Ringing(u) PROVE Ringing(u)'
    BY <1>1, <2>1, <2>2 DEF Ringing
  <2>3. QED
    BY <1>1, <2>2 DEF Alarm
<1>4. Len(stack') = Len(stack)
  BY <1>1 DEF Moved
<1>5. QueuesTaken'
  BY <1>1, <1>2, <1>3 DEF Resting, QueuesTaken, Settled
<1>6. DelaysKept'
  BY <1>1, <1>2 DEF Resting, DelaysKept, InTime
<1>7. NoneDeferred'
  BY <1>1, <1>2, <1>4 DEF Resting, NoneDeferred, Nested
<1>8. QED
  BY <1>5, <1>6, <1>7 DEF Resting

LEMMA TaskRests ==
  ASSUME LoopBasics, DoTask
  PROVE  Resting'
<1>0. PumpTypes /\ StackShape
  BY DEF LoopBasics, LoopShape
<1>1. stack # <<>> /\ (TaskQuiet \/ (\E x : TaskPosts(x)) \/ (\E l : TaskNests(l)))
  BY <1>0, DoTaskFacts
<1>2. CASE TaskEnds
  BY <1>2, BusyRestsNext DEF TaskEnds, Moved, Busy
<1>3. ASSUME NEW l, TaskNests(l) PROVE Resting'
  <2>1. TaskDone \in Seq(FrameType)
    BY <1>0, <1>1, TaskDoneFacts
  <2>2. Top'.at = "work"
    BY <1>0, <1>3, <2>1, PushFacts DEF TaskNests
  <2>3. QED
    BY <2>2, BusyRestsNext DEF Busy
<1>4. QED
  BY <1>1, <1>2, <1>3 DEF TaskQuiet, TaskPosts

LEMMA LifeRests ==
  ASSUME LoopBasics, LifeAction
  PROVE  Resting'
<1>0. PumpTypes /\ StackShape
  BY DEF LoopBasics, LoopShape
<1>1. CASE Leave
  <2>1. /\ stack # <<>> /\ stack' \in Seq(FrameType) /\ Len(stack') = Len(stack) - 1
        /\ \A i \in 1 .. Len(stack) - 1 : stack'[i] = stack[i]
    BY <1>0, <1>1, LeaveFacts
  <2>2. stack' # <<>> => Top'.at = "ending"
    <3>1. ASSUME stack' # <<>> PROVE Len(stack') \in 1 .. Len(stack) - 1
      BY <2>1, <3>1
    <3>2. QED
      BY <1>0, <2>1, <3>1 DEF Top, StackShape
  <2>3. QED
    BY <2>2, BusyRestsNext DEF Busy
<1>2. CASE Run
  <2>1. Push(Main, <<>>)
    BY <1>2 DEF Run
  <2>2. <<>> \in Seq(FrameType)
    OBVIOUS
  <2>3. PICK frames : frames = <<>>
    OBVIOUS
  <2>4. frames \in Seq(FrameType) /\ Push(Main, frames)
    BY <2>1, <2>2, <2>3
  <2>5. Top'.at = "work"
    BY <1>0, <2>4, PushFacts, TaskAssumption
  <2>6. QED
    BY <2>5, BusyRestsNext DEF Busy
<1>3. CASE \/ BindToCurrentThread \/ Bound
           \/ DeletePendingTasks \/ TasksRemain \/ DisconnectFromParent \/ Shutdown
  <2>1. life # "running" /\ UNCHANGED stack
    BY <1>3 DEF BindToCurrentThread, Bound, DeletePendingTasks, TasksRemain,
                DisconnectFromParent, Shutdown, Outside
  <2>2. stack' = <<>>
    BY <1>0, <2>1 DEF StackShape
  <2>3. QED
    BY <2>2, BusyRestsNext DEF Busy
<1>4. QED
  BY <1>1, <1>2, <1>3 DEF LifeAction

\* Steps of others.
LEMMA OthersRest ==
  ASSUME Resting, UNCHANGED loopVars, Pending' => Pending,
         queue'.triage = queue.triage, queue'.triageEmpty = queue.triageEmpty,
         queue'.delayed = queue.delayed, queue'.deferred = queue.deferred,
         \A x \in queue.delayed : due'[x] = due[x],
         stack # <<>> /\ Settled' /\ allowed /\ queue'.incoming # <<>> => Alarm'
  PROVE  Resting'
<1>1. UNCHANGED <<pump, stack, allowed, cancelled>>
  BY DEF loopVars
<1>2. UNCHANGED <<Top, Nested>>
  BY <1>1 DEF Top, Nested
<1>3. QueuesTaken'
  BY <1>1, <1>2 DEF Resting, QueuesTaken, Settled
<1>4. DelaysKept'
  BY <1>1, <1>2 DEF Resting, DelaysKept, InTime
<1>5. NoneDeferred'
  BY <1>1, <1>2 DEF Resting, NoneDeferred
<1>6. QED
  BY <1>3, <1>4, <1>5 DEF Resting

\* The first task that a settled loop has not seen finds the queues empty, and
\* the alarm rings until the loop wakes up.
LEMMA PostRests ==
  ASSUME EventInv, LoopBasics, Resting, NEW t \in Thread, PostTask(t) \/ PostStep(t)
  PROVE  Resting'
<1>0. /\ QueueTypes /\ PumpTypes /\ PostsOnce /\ StackShape /\ CallShape /\ ControlShape
      /\ Loop \in Thread /\ queue.delayed \subseteq Task /\ queue.incoming \in Seq(Task)
  BY LoopAssumption DEF LoopBasics, LoopShape, QueueTypes, QueueType
<1>1. ASSUME UNCHANGED loopVars, Pending' => Pending, stack # <<>>, Settled', allowed,
             queue.incoming # <<>>
      PROVE  Alarm
  <2>1. UNCHANGED Top
    BY <1>1 DEF loopVars, Top
  <2>2. QED
    BY <1>1, <2>1 DEF Resting, QueuesTaken, Settled
<1>2. CASE PostTask(t)
  <2>1. PICK x : BeginPost(t, x) /\ UNCHANGED <<eventVars, loopVars>>
    BY <1>2 DEF PostTask
  <2>2. Begins(t, x)
    BY <1>0, <2>1, BeginPostFacts
  <2>3. Pending' => Pending
    BY <2>1 DEF Pending, eventVars
  <2>4. /\ UNCHANGED queue /\ \A y \in queue.delayed : due'[y] = due[y]
    BY <1>0, <2>2 DEF Begins
  <2>5. Alarm => Alarm'
    <3>1. post[t].at = "out"
      BY <2>2, NotPostingFacts DEF Begins
    <3>2. ASSUME NEW u \in Thread, post[u].at # "out" PROVE post'[u] = post[u]
      BY <2>2, <3>1, <3>2 DEF Begins, PostAt
    <3>3. QED
      BY <2>1, <3>2 DEF Alarm, Ringing, eventVars
  <2>6. QED
    BY <1>1, <2>1, <2>3, <2>4, <2>5, OthersRest
<1>3. CASE PostPendingTask(t)
  <2>1. /\ Refuses(t) \/ \E x : Accepts(t, x)
        /\ UNCHANGED <<eventVars, loopVars, due>>
    BY <1>0, <1>3, PostPendingFacts
  <2>2. Pending' => Pending
    BY <2>1 DEF Pending, eventVars
  <2>3. ASSUME NEW at, NEW x, NEW empty, post[t].at = "queue", PostAt(t, at, x, empty), Alarm
        PROVE  Alarm'
    <3>1. ASSUME NEW u \in Thread, post[u].at # "queue" PROVE post'[u] = post[u]
      BY <2>3, <3>1 DEF PostAt
    <3>2. QED
      BY <2>1, <2>3, <3>1 DEF Alarm, Ringing, eventVars
  <2>4. CASE Refuses(t)
    <3>1. UNCHANGED queue /\ (Alarm => Alarm')
      BY <2>3, <2>4 DEF Refuses
    <3>2. QED
      BY <1>1, <2>1, <2>2, <3>1, OthersRest
  <2>5. ASSUME NEW x, Accepts(t, x) PROVE Resting'
    <3>1. /\ queue'.triage = queue.triage /\ queue'.triageEmpty = queue.triageEmpty
          /\ queue'.delayed = queue.delayed /\ queue'.deferred = queue.deferred
          /\ post[t].at = "queue" /\ PostAt(t, "notify", x, WasEmpty)
      BY <2>5 DEF Accepts
    <3>2. ASSUME stack # <<>>, Settled', allowed PROVE Alarm'
      <4>1. CASE queue.incoming # <<>>
        BY <1>1, <2>1, <2>2, <2>3, <3>1, <3>2, <4>1
      <4>2. CASE queue.incoming = <<>>
        <5>1. Settled
          <6>1. UNCHANGED Top
            BY <2>1 DEF loopVars, Top
          <6>2. QED
            BY <2>2, <3>2, <6>1 DEF Settled
        <5>2. WasEmpty = TRUE
          BY <3>2, <4>2, <5>1 DEF Resting, QueuesTaken, WasEmpty
        <5>3. post'[t].at = "notify" /\ post'[t].wasEmpty = TRUE
          BY <3>1, <5>2 DEF PostAt
        <5>4. QED
          BY <5>3 DEF Alarm
      <4>3. QED
        BY <4>1, <4>2
    <3>3. \A y \in queue.delayed : due'[y] = due[y]
      BY <2>1
    <3>4. QED
      BY <2>1, <2>2, <3>1, <3>2, <3>3, OthersRest
  <2>6. QED
    BY <2>1, <2>4, <2>5
<1>4. CASE Scheduled(t)
  <2>1. /\ post[t].at = "scheduling" /\ call[t] = Idle /\ PostAt(t, "out", NoTask, FALSE)
        /\ UNCHANGED <<eventVars, queueVars, loopVars>>
    BY <1>0, <1>4, ScheduledFacts
  <2>2. Pending' => Pending
    BY <2>1 DEF Pending, eventVars
  <2>3. UNCHANGED <<queue, due>>
    BY <2>1 DEF queueVars
  <2>4. Alarm => Alarm'
    <3>1. ~Ringing(t) /\ ~(post[t].at = "notify" /\ post[t].wasEmpty)
      BY <2>1 DEF Ringing, Idle
    <3>2. QED
      BY <2>1, <3>1 DEF Alarm, Ringing, eventVars, PostAt
  <2>5. QED
    BY <1>1, <2>1, <2>2, <2>3, <2>4, OthersRest
<1>5. CASE DidQueueTask(t)
  <2>1. /\ post[t].at = "notify"
        /\ \/ /\ ~post[t].wasEmpty /\ PostAt(t, "out", NoTask, FALSE)
              /\ UNCHANGED <<control, eventVars>>
           \/ Tells(t) /\ CallSignal(t, PumpEvent) /\ UNCHANGED control
           \/ /\ ~(control.connected /\ control.ready) /\ PostAt(t, "out", NoTask, FALSE)
              /\ control' = [control EXCEPT !.pending = TRUE] /\ UNCHANGED eventVars
        /\ UNCHANGED <<queueVars, loopVars>>
    BY <1>0, <1>5, DidQueueFacts
  <2>2. UNCHANGED <<queue, due, stack>>
    BY <2>1 DEF queueVars, loopVars
  <2>3. CASE /\ ~post[t].wasEmpty /\ PostAt(t, "out", NoTask, FALSE)
             /\ UNCHANGED <<control, eventVars>>
    <3>1. Pending' => Pending
      BY <2>3 DEF Pending, eventVars
    <3>2. Alarm => Alarm'
      <4>1. ~Ringing(t) /\ ~(post[t].at = "notify" /\ post[t].wasEmpty)
        BY <2>1, <2>3 DEF Ringing
      <4>2. QED
        BY <2>3, <4>1 DEF Alarm, Ringing, eventVars, PostAt
    <3>3. QED
      BY <1>1, <2>1, <2>2, <3>1, <3>2, OthersRest
  <2>4. CASE Tells(t) /\ CallSignal(t, PumpEvent)
    <3> DEFINE c == [Idle EXCEPT !.op = "signal", !.at = "lock", !.raw = <<PumpEvent>>]
    <3>1. c.op = "signal" /\ c.at = "lock" /\ call' = [call EXCEPT ![t] = c]
      BY <2>4 DEF CallSignal, Idle
    <3> HIDE DEF c
    <3>2. call \in [Thread -> CallType]
      BY DEF EventInv, Types
    <3>3. call'[t] = c /\ \A u \in Thread \ {t} : call'[u] = call[u]
      BY <3>1, <3>2
    <3>4. Ringing(t)'
      BY <2>4, <3>1, <3>3 DEF Ringing, Tells, PostAt
    <3>5. Alarm'
      BY <3>4 DEF Alarm
    <3>6. Pending' => Pending
      BY <1>0, <3>1, <3>3 DEF Pending
    <3>7. QED
      BY <2>1, <2>2, <3>5, <3>6, OthersRest
  <2>5. CASE ~(control.connected /\ control.ready)
    <3>1. stack = <<>>
      BY <1>0, <2>5 DEF StackShape, ControlShape
    <3>2. QED
      BY <2>2, <3>1, BusyRestsNext DEF Busy
  <2>6. QED
    BY <2>1, <2>3, <2>4, <2>5
<1>6. QED
  BY <1>2, <1>3, <1>4, <1>5 DEF PostStep

LEMMA EventRests ==
  ASSUME EventInv, LoopBasics, SleepSound, Resting, NEW t \in Thread, EventStep(t) \/ Expire(t),
         UNCHANGED <<queueVars, loopVars, control, post, clock, toPost, calls>>
  PROVE  Resting'
<1>0. StackShape /\ CallShape
  BY DEF LoopBasics, LoopShape
<1>1. UNCHANGED <<queue, due, stack, Top>>
  BY DEF queueVars, loopVars, Top
<1>2. CASE life = "gone"
  <2>1. stack' = <<>>
    BY <1>0, <1>1, <1>2 DEF StackShape
  <2>2. QED
    BY <2>1, BusyRestsNext DEF Busy
<1>3. CASE life # "gone"
  <2>1. Rings
    BY <1>3, EventBasics
  <2>2. /\ Pending' => Pending
        /\ Alarm => Alarm' \/ (call[Loop].op = "wait" /\ ~Pending')
    BY <2>1 DEF Rings
  <2>3. ASSUME stack # <<>>, Settled', allowed, queue'.incoming # <<>> PROVE Alarm'
    <3>1. Settled
      BY <1>1, <2>2, <2>3 DEF Settled
    <3>2. Alarm
      BY <1>1, <2>3, <3>1 DEF Resting, QueuesTaken
    <3>3. CASE call[Loop].op = "wait" /\ ~Pending'
      <4>1. Top.at = "waiting"
        BY <1>0, <1>3, <3>3 DEF CallShape
      <4>2. QED
        BY <1>1, <2>3, <3>3, <4>1 DEF Settled
    <3>4. QED
      BY <2>2, <3>2, <3>3
  <2>4. QED
    BY <1>1, <2>2, <2>3, OthersRest
<1>4. QED
  BY <1>2, <1>3

LEMMA NextRests ==
  ASSUME EventInv, LoopBasics, SleepSound, Resting, [Next]_vars
  PROVE  Resting'
<1>1. CASE UNCHANGED vars \/ Tick
  <2>1. UNCHANGED <<eventVars, queueVars, loopVars, post>>
    BY <1>1 DEF vars, Tick
  <2>2. UNCHANGED <<queue, due, Top>> /\ (Pending' <=> Pending) /\ (Alarm' <=> Alarm)
    BY <2>1, AlarmKept DEF queueVars, loopVars, eventVars, Pending, Top
  <2>3. stack # <<>> /\ Settled' /\ allowed /\ queue'.incoming # <<>> => Alarm'
    BY <2>2 DEF Resting, QueuesTaken, Settled
  <2>4. QED
    BY <2>1, <2>2, <2>3, OthersRest
<1>2. ASSUME NEW t \in Thread, OtherCall(t) PROVE Resting'
  <2>1. life = "gone" /\ UNCHANGED stack
    BY <1>2, OtherCallBasics DEF OtherCall, loopVars
  <2>2. stack' = <<>>
    BY <2>1 DEF LoopBasics, LoopShape, StackShape
  <2>3. QED
    BY <2>2, BusyRestsNext DEF Busy
<1>3. QED
  BY <1>1, <1>2, Cases, EventRests, PostRests, PumpRests, SleepRests, TaskRests, LifeRests

LEMMA RestingSleeps ==
  ASSUME EventInv, LoopBasics, SleepSound, Resting
  PROVE  SleepsOnlyWhenIdle
<1> SUFFICES ASSUME stack # <<>>, call[Loop].at = "asleep", ~call[Loop].fired
             PROVE  /\ pump.keepRunning
                    /\ ~Nested => ToSet(queue.deferred) \subseteq cancelled
                    /\ allowed =>
                         /\ queue.triage = <<>>
                         /\ queue.incoming # <<>> => WakeUpComing
                         /\ \A x \in queue.delayed \ cancelled :
                              call[Loop].timed /\ pump.delayedWorkTime <= due[x]
  BY DEF SleepsOnlyWhenIdle
<1>1. StackShape /\ CallShape /\ Loop \in Thread
  BY LoopAssumption DEF LoopBasics, LoopShape
<1>2. life # "gone"
  BY <1>1 DEF StackShape
<1>3. call[Loop].op = "wait"
  BY <1>1, WaiterFacts DEF Blocked
<1>4. Top.at = "waiting" /\ call[Loop].timed = (pump.delayedWorkTime # NoTime) /\ Pending
  BY <1>1, <1>2, <1>3 DEF CallShape, Pending
<1>5. pump.keepRunning /\ (~Nested => ToSet(queue.deferred) \subseteq cancelled)
  BY <1>4 DEF Resting, NoneDeferred
<1>6. ASSUME allowed, queue.incoming # <<>> PROVE WakeUpComing
  <2>1. Alarm /\ ~kernel[PumpEvent].signaled
    BY <1>2, <1>4, <1>6 DEF Resting, QueuesTaken, Settled, SleepSound
  <2>2. QED
    BY <2>1 DEF Alarm, Ringing, WakeUpComing
<1>7. ASSUME allowed PROVE queue.triage = <<>>
  BY <1>4, <1>7 DEF Resting, QueuesTaken, Settled
<1>8. ASSUME allowed, NEW x \in queue.delayed \ cancelled
      PROVE  call[Loop].timed /\ pump.delayedWorkTime <= due[x]
  BY <1>4, <1>8 DEF Resting, DelaysKept, InTime
<1>9. QED
  BY <1>5, <1>6, <1>7, <1>8

(* The loop's thread is never asleep beside work it should do, for any number
   of threads that post, tasks, delays, nested RunLoops and cancellations: a
   task it has not seen has a wake-up on its way, TimedWaitUntil ends in time
   for every delayed task, and no deferred task waits outside nested runs. *)
THEOREM SleepsWhenIdle == Spec => []SleepsOnlyWhenIdle
<1>1. Init => Resting
  BY InitBasics, BusyRests DEF Busy
<1>2. EventInv /\ LoopBasics /\ SleepSound /\ Resting /\ [Next]_vars => Resting'
  BY NextRests
<1>3. EventInv /\ LoopBasics /\ SleepSound /\ Resting => SleepsOnlyWhenIdle
  BY RestingSleeps
<1> QED
  BY <1>1, <1>2, <1>3, BasicsInvariant, PTL DEF Spec

-----------------------------------------------------------------------------
(***************************************************************************)
(* The order in which tasks start.                                         *)
(***************************************************************************)
\* The loop has not begun to delete its tasks.
Alive == life \in {"unbound", "binding", "bound", "running"}

\* y has to wait until x has started.
Binds(x, y) == /\ Delay[x] <= Delay[y]
               /\ x \notin NonNestable \cup cancelled

Precedes(s, x, y) == \A i, j \in DOMAIN s : s[i] = x /\ s[j] = y => i < j

\* A task that is being posted is not in the queues yet, nor posted elsewhere.
PostsNew ==
  \A t \in Thread : post[t].at = "queue" =>
    /\ post[t].task \notin ToSet(accepted)
    /\ due[post[t].task] = NoTime <=> Delay[post[t].task] = 0
    /\ \A u \in Thread : u # t /\ post[u].at = "queue" => post[u].task # post[t].task

TimesRight ==
  /\ \A x \in Task : due[x] # NoTime => due[x] <= clock.now + Delay[x]
  /\ \A x \in ToSet(accepted) : due[x] = NoTime <=> Delay[x] = 0

\* What was accepted before a task was posted is numbered and due before it.
BeforeRight ==
  \A y \in Task : \A x \in before[y] :
    /\ x \in ToSet(accepted) /\ x # y /\ Precedes(accepted, x, y)
    /\ due[x] # NoTime /\ due[y] # NoTime /\ Delay[x] <= Delay[y] => due[x] <= due[y]

History == PostsNew /\ TimesRight /\ BeforeRight

\* The queues of posted tasks are in the order of posting.
InOrder(q) == \A y \in Task : \A x \in before[y] :
  Precedes(q.incoming, x, y) /\ Precedes(q.triage, x, y)

WaitingIn(q) == ToSet(q.incoming) \cup ToSet(q.triage) \cup q.delayed

\* A nestable task waits until it starts.
Kept(q, s) ==
  ToSet(accepted) \ (NonNestable \cup cancelled) \subseteq ToSet(s) \cup WaitingIn(q)

Ready(y, s) == \A x \in before[y] : Binds(x, y) => x \in ToSet(s)

\* No task is further on its way than one it has to wait for.
Behind(q, s) ==
  \A y \in Task : \A x \in before[y] : Binds(x, y) =>
    /\ y \in ToSet(q.triage) => x \notin ToSet(q.incoming)
    /\ y \in q.delayed => x \in ToSet(s) \cup q.delayed
    /\ y \in ToSet(q.deferred) => x \in ToSet(s)

QueueOrder ==
  InOrder(queue) /\ (Alive => Kept(queue, started) /\ Behind(queue, started))

Placed == /\ ToSet(started) \cup ToSet(queue.deferred) \subseteq ToSet(accepted)
          /\ ToSet(queue.deferred) \subseteq NonNestable

StartOrder == \A y \in ToSet(started) : \A x \in before[y] :
                Binds(x, y) => StartedBefore(x, y)

NestOrder == \A i \in DOMAIN stack : stack[i].task \in NonNestable => i = 1

OrderInv == History /\ QueueOrder /\ Placed /\ StartOrder /\ NestOrder

-----------------------------------------------------------------------------
LEMMA PrecedesAppend ==
  ASSUME NEW s \in Seq(Task), NEW x, NEW y, NEW z \in Task, x # z, Precedes(s, x, y)
  PROVE  Precedes(Append(s, z), x, y)
<1> DEFINE r == Append(s, z)
<1>1. /\ DOMAIN s = 1 .. Len(s) /\ DOMAIN r = 1 .. Len(s) + 1 /\ r[Len(s) + 1] = z
      /\ Len(s) \in Nat /\ \A i \in 1 .. Len(s) : r[i] = s[i]
  OBVIOUS
<1> HIDE DEF r
<1>2. ASSUME NEW i \in DOMAIN r, NEW j \in DOMAIN r, r[i] = x, r[j] = y PROVE i < j
  <2>1. i \in 1 .. Len(s) /\ s[i] = x
    BY <1>1, <1>2
  <2>2. CASE j \in 1 .. Len(s)
    <3>1. s[j] = y
      BY <1>1, <1>2, <2>2
    <3>2. QED
      BY <1>1, <2>1, <2>2, <3>1 DEF Precedes
  <2>3. CASE j = Len(s) + 1
    BY <1>1, <2>1, <2>3
  <2>4. QED
    BY <1>1, <1>2, <2>2, <2>3
<1>3. QED
  BY <1>2 DEF Precedes, r

LEMMA PrecedesTail ==
  ASSUME NEW s \in Seq(Task), s # <<>>, NEW x, NEW y, Precedes(s, x, y)
  PROVE  Precedes(Tail(s), x, y)
<1> DEFINE r == Tail(s)
<1>1. /\ DOMAIN s = 1 .. Len(s) /\ DOMAIN r = 1 .. Len(s) - 1 /\ Len(s) \in Nat
      /\ \A i \in 1 .. Len(s) - 1 : r[i] = s[i + 1]
  OBVIOUS
<1> HIDE DEF r
<1>2. ASSUME NEW i \in DOMAIN r, NEW j \in DOMAIN r, r[i] = x, r[j] = y PROVE i < j
  <2>1. s[i + 1] = x /\ s[j + 1] = y /\ i + 1 \in DOMAIN s /\ j + 1 \in DOMAIN s
    BY <1>1, <1>2
  <2>2. i + 1 < j + 1
    BY <2>1 DEF Precedes
  <2>3. QED
    BY <1>1, <1>2, <2>2
<1>3. QED
  BY <1>2 DEF Precedes, r

LEMMA PrecedesEmpty ==
  ASSUME NEW x, NEW y
  PROVE  Precedes(<<>>, x, y)
BY DEF Precedes

LEMMA HeadFirst ==
  ASSUME NEW s \in Seq(Task), s # <<>>, NEW x, Precedes(s, x, Head(s))
  PROVE  x \notin ToSet(s)
<1> SUFFICES ASSUME x \in ToSet(s) PROVE FALSE
  OBVIOUS
<1>1. DOMAIN s = 1 .. Len(s) /\ Len(s) \in Nat /\ 1 \in DOMAIN s /\ s[1] = Head(s)
  OBVIOUS
<1>2. PICK i \in DOMAIN s : s[i] = x
  BY DEF ToSet
<1>3. i < 1
  BY <1>1, <1>2 DEF Precedes
<1>4. QED
  BY <1>1, <1>2, <1>3

LEMMA ReloadKeeps ==
  ASSUME NEW q \in QueueType, NEW s
  PROVE  /\ InOrder(q) => InOrder(Reloaded(q))
         /\ Kept(q, s) => Kept(Reloaded(q), s)
         /\ Behind(q, s) => Behind(Reloaded(q), s)
<1> DEFINE r == Reloaded(q)
<1>1. /\ r.delayed = q.delayed /\ r.deferred = q.deferred
      /\ q.triage # <<>> => r = q
      /\ q.triage = <<>> => r.triage = q.incoming /\ r.incoming = <<>>
      /\ ToSet(r.incoming) \cup ToSet(r.triage) = ToSet(q.incoming) \cup ToSet(q.triage)
  BY ReloadedFacts
<1> HIDE DEF r
<1>2. InOrder(q) => InOrder(r)
  BY <1>1, PrecedesEmpty DEF InOrder
<1>3. Kept(q, s) => Kept(r, s)
  BY <1>1 DEF Kept, WaitingIn
<1>4. Behind(q, s) => Behind(r, s)
  <2>1. CASE q.triage # <<>>
    BY <1>1, <2>1
  <2>2. CASE q.triage = <<>>
    <3>1. ToSet(r.incoming) = {}
      BY <1>1, <2>2, EmptySet
    <3>2. QED
      BY <1>1, <3>1 DEF Behind
  <2>3. QED
    BY <2>1, <2>2
<1>5. QED
  BY <1>2, <1>3, <1>4 DEF r

\* Tasks move on in the queues.
LEMMA BehindMoves ==
  ASSUME NEW q, NEW r, NEW s, NEW z, Behind(q, s),
         ToSet(r.incoming) \subseteq ToSet(q.incoming),
         ToSet(r.triage) \subseteq ToSet(q.triage), ToSet(s) \subseteq ToSet(z),
         q.delayed \ (NonNestable \cup cancelled) \subseteq r.delayed \cup ToSet(z),
         \A y \in r.delayed \ q.delayed : \A x \in before[y] :
           Binds(x, y) => x \in ToSet(z) \cup r.delayed,
         \A y \in ToSet(r.deferred) \ ToSet(q.deferred) : Ready(y, z)
  PROVE  Behind(r, z)
<1> SUFFICES ASSUME NEW y \in Task, NEW x \in before[y], Binds(x, y)
             PROVE  /\ y \in ToSet(r.triage) => x \notin ToSet(r.incoming)
                    /\ y \in r.delayed => x \in ToSet(z) \cup r.delayed
                    /\ y \in ToSet(r.deferred) => x \in ToSet(z)
  BY DEF Behind
<1>1. /\ y \in ToSet(q.triage) => x \notin ToSet(q.incoming)
      /\ y \in q.delayed => x \in ToSet(s) \cup q.delayed
      /\ y \in ToSet(q.deferred) => x \in ToSet(s)
  BY DEF Behind
<1>2. x \notin NonNestable \cup cancelled
  BY DEF Binds
<1>3. y \in r.delayed => x \in ToSet(z) \cup r.delayed
  BY <1>1, <1>2
<1>4. y \in ToSet(r.deferred) => x \in ToSet(z)
  BY <1>1 DEF Ready
<1>5. QED
  BY <1>1, <1>3, <1>4

LEMMA KeptMoves ==
  ASSUME NEW q, NEW r, NEW s, NEW z, Kept(q, s), ToSet(s) \subseteq ToSet(z),
         WaitingIn(q) \ (NonNestable \cup cancelled) \subseteq WaitingIn(r) \cup ToSet(z)
  PROVE  Kept(r, z)
BY DEF Kept

\* A task that DoWork takes has to wait for delayed tasks only.
LEMMA TakenReady ==
  ASSUME NEW q \in QueueType, NEW s, InOrder(q), Kept(q, s), Behind(q, s), BeforeRight,
         q.triage # <<>>, NEW y \in Task, y = Head(q.triage),
         NEW x \in before[y], Binds(x, y)
  PROVE  x \in ToSet(s) \cup q.delayed
<1>1. q.triage \in Seq(Task) /\ y \in ToSet(q.triage)
  BY TaskSeq DEF QueueType
<1>2. x \notin ToSet(q.triage)
  BY <1>1, HeadFirst DEF InOrder
<1>3. x \notin ToSet(q.incoming)
  BY <1>1 DEF Behind
<1>4. x \in ToSet(accepted) \ (NonNestable \cup cancelled)
  BY DEF BeforeRight, Binds
<1>5. QED
  BY <1>2, <1>3, <1>4 DEF Kept, WaitingIn

\* Of the delayed tasks the first one has to wait for none.
LEMMA DelayedReady ==
  ASSUME QueueTypes, PostsOnce, BeforeRight, Behind(queue, started),
         NEW y \in queue.delayed, y \in Task,
         \A z \in queue.delayed \ (cancelled \cup {y}) : Sooner(y, z)
  PROVE  Ready(y, started)
<1> SUFFICES ASSUME NEW x \in before[y], Binds(x, y), x \notin ToSet(started) PROVE FALSE
  BY DEF Ready
<1>1. x \in queue.delayed /\ x \notin cancelled
  BY DEF Behind, Binds
<1>2. /\ x \in ToSet(accepted) /\ x # y /\ Precedes(accepted, x, y)
      /\ due[x] # NoTime /\ due[y] # NoTime /\ Delay[x] <= Delay[y] => due[x] <= due[y]
  BY DEF BeforeRight
<1>3. due[x] \in Nat /\ due[y] \in Nat /\ due[x] # NoTime /\ due[y] # NoTime
  BY <1>1 DEF QueueTypes, QueueType, PostsOnce
<1>4. due[x] <= due[y]
  BY <1>2, <1>3 DEF Binds
<1>5. due[y] < due[x] \/ SequenceNum(y) < SequenceNum(x)
  BY <1>1, <1>2 DEF Sooner
<1>6. y \in ToSet(accepted) /\ accepted \in Seq(Task)
  BY DEF PostsOnce, QueueTypes
<1>7. /\ SequenceNum(x) \in Nat /\ SequenceNum(x) \in DOMAIN accepted
      /\ SequenceNum(y) \in Nat /\ SequenceNum(y) \in DOMAIN accepted
      /\ accepted[SequenceNum(x)] = x /\ accepted[SequenceNum(y)] = y
  BY <1>2, <1>6, SequenceNumFacts
<1>8. SequenceNum(x) < SequenceNum(y)
  BY <1>2, <1>7 DEF Precedes
<1>9. QED
  BY <1>3, <1>4, <1>5, <1>7, <1>8

LEMMA StartsReady ==
  ASSUME started \in Seq(Task), NEW y \in Task, StartOrder, Ready(y, started),
         started' = Append(started, y), UNCHANGED <<before, cancelled>>
  PROVE  StartOrder'
<1>1. /\ DOMAIN started = 1 .. Len(started) /\ DOMAIN started' = 1 .. Len(started) + 1
      /\ started'[Len(started) + 1] = y /\ Len(started) \in Nat
      /\ \A i \in 1 .. Len(started) : started'[i] = started[i]
  OBVIOUS
<1>2. ToSet(started') = ToSet(started) \cup {y}
  BY TaskSeq
<1>3. ASSUME NEW z \in ToSet(started'), NEW x \in before[z], Binds(x, z)
      PROVE  StartedBefore(x, z)'
  <2>1. CASE z \in ToSet(started)
    <3>1. PICK i, j \in DOMAIN started : started[i] = x /\ started[j] = z /\ i < j
      BY <1>3, <2>1 DEF StartOrder, StartedBefore
    <3>2. i \in DOMAIN started' /\ j \in DOMAIN started' /\ started'[i] = x /\ started'[j] = z
      BY <1>1, <3>1
    <3>3. QED
      BY <3>1, <3>2 DEF StartedBefore
  <2>2. CASE z = y
    <3>1. PICK i \in DOMAIN started : started[i] = x
      BY <1>3, <2>2 DEF Ready, ToSet
    <3>2. /\ i \in DOMAIN started' /\ started'[i] = x /\ i < Len(started) + 1
          /\ Len(started) + 1 \in DOMAIN started'
      BY <1>1, <3>1
    <3>3. QED
      BY <1>1, <2>2, <3>2 DEF StartedBefore
  <2>3. QED
    BY <1>2, <1>3, <2>1, <2>2
<1>4. QED
  BY <1>3 DEF StartOrder, Binds

LEMMA StartsSame ==
  ASSUME StartOrder, UNCHANGED started, cancelled \subseteq cancelled',
         \A y \in ToSet(started) : before'[y] = before[y]
  PROVE  StartOrder'
BY DEF StartOrder, Binds, StartedBefore

LEMMA HistorySame ==
  ASSUME History, QueueTypes, PumpTypes, UNCHANGED <<accepted, before, due>>,
         clock'.now \in Nat, clock.now <= clock'.now,
         \A t \in Thread : post'[t].at = "queue" => post'[t] = post[t]
  PROVE  History'
<1>1. PostsNew'
  BY DEF History, PostsNew
<1>2. BeforeRight'
  BY DEF History, BeforeRight
<1>3. TimesRight'
  <2>1. ASSUME NEW x \in Task, due[x] # NoTime PROVE due[x] <= clock'.now + Delay[x]
    <3>1. due[x] \in Nat /\ clock.now \in Nat /\ Delay[x] \in Nat
      BY <2>1, DelayAssumption DEF QueueTypes, PumpTypes, ClockType
    <3>2. due[x] <= clock.now + Delay[x]
      BY <2>1 DEF History, TimesRight
    <3>3. QED
      BY <3>1, <3>2
  <2>2. QED
    BY <2>1 DEF History, TimesRight
<1>4. QED
  BY <1>1, <1>2, <1>3 DEF History

LEMMA QueueOrderNext ==
  ASSUME UNCHANGED <<accepted, before, cancelled>>, InOrder(queue'),
         Alive' => Kept(queue', started') /\ Behind(queue', started')
  PROVE  QueueOrder'
BY DEF QueueOrder, InOrder, Kept, Behind, Binds, WaitingIn

\* What concerns the queues is as it was, and perhaps more is cancelled.
LEMMA QueueOrderSame ==
  ASSUME QueueOrder, UNCHANGED <<accepted, before, started>>, cancelled \subseteq cancelled',
         queue'.incoming = queue.incoming, queue'.triage = queue.triage,
         queue'.delayed = queue.delayed, queue'.deferred = queue.deferred, Alive' => Alive
  PROVE  QueueOrder'
BY DEF QueueOrder, InOrder, Kept, Behind, Binds, WaitingIn

LEMMA NestMoves ==
  ASSUME PumpTypes, stack # <<>>, NestOrder, NEW at, NEW did, NEW task,
         Moved(at, did, task), task = Top.task \/ task \notin NonNestable \/ ~Nested
  PROVE  NestOrder'
<1>1. /\ Len(stack) \in Nat \ {0} /\ DOMAIN stack = 1 .. Len(stack)
      /\ DOMAIN stack' = 1 .. Len(stack)
  BY TopFacts DEF Moved
<1>2. /\ Top'.task = task /\ Len(stack') = Len(stack)
      /\ \A i \in 1 .. Len(stack) - 1 : stack'[i] = stack[i]
  BY DEF Moved
<1>3. ASSUME NEW i \in DOMAIN stack', stack'[i].task \in NonNestable PROVE i = 1
  <2>1. CASE i = Len(stack)
    <3>1. stack'[i].task = task
      BY <1>2, <2>1 DEF Top
    <3>2. CASE task = Top.task
      BY <1>1, <1>3, <2>1, <3>1, <3>2 DEF NestOrder, Top
    <3>3. CASE ~Nested
      BY <1>1, <2>1, <3>3 DEF Nested
    <3>4. QED
      BY <1>3, <3>1, <3>2, <3>3
  <2>2. CASE i # Len(stack)
    <3>1. i \in 1 .. Len(stack) - 1 /\ i \in DOMAIN stack
      BY <1>1, <1>3, <2>2
    <3>2. QED
      BY <1>2, <1>3, <3>1 DEF NestOrder
  <2>3. QED
    BY <2>1, <2>2
<1>4. QED
  BY <1>3 DEF NestOrder

LEMMA NestReturns ==
  ASSUME PumpTypes, stack # <<>>, NestOrder, NEW d, NEW k, Returns(d, k)
  PROVE  NestOrder'
BY NestMoves DEF Returns

LEMMA NestRuns ==
  ASSUME PumpTypes, stack # <<>>, NestOrder, NEW x, Runs(x), CanRun(x) \/ ~Nested
  PROVE  NestOrder'
BY NestMoves DEF Runs, CanRun

-----------------------------------------------------------------------------
\* A turn of DoWork.
LEMMA WorkOrder ==
  ASSUME LoopBasics, OrderInv, DoWork
  PROVE  OrderInv'
<1>0. /\ QueueTypes /\ PumpTypes /\ PostsOnce /\ queue \in QueueType /\ started \in Seq(Task)
      /\ History /\ QueueOrder /\ Placed /\ StartOrder /\ NestOrder /\ BeforeRight
  BY DEF LoopBasics, QueueTypes, PumpTypes, OrderInv, History
<1> DEFINE q == Reloaded(queue)
<1>1. /\ At("work") /\ UNCHANGED unchangedByPump /\ UNCHANGED clock
      /\ \/ WorkEmpty(q)
         \/ \E x : /\ WorkTakes(q, x)
                   /\ WorkDrops(q, x) \/ WorkDelays(q, x) \/ WorkRuns(q, x) \/ WorkDefers(q, x)
  BY <1>0, DoWorkFacts
<1>2. stack # <<>> /\ Alive
  <2>1. stack # <<>>
    BY <1>0, <1>1, AtFacts
  <2>2. QED
    BY <2>1 DEF LoopBasics, LoopShape, StackShape, Alive
<1>3. /\ UNCHANGED <<post, due, cancelled, accepted, before, life>>
  BY <1>1 DEF unchangedByPump
<1>4. History'
  <2>1. clock.now \in Nat /\ clock'.now = clock.now
    BY <1>0, <1>1 DEF PumpTypes, ClockType
  <2>2. QED
    BY <1>0, <1>3, <2>1, HistorySame
<1>5. InOrder(q) /\ Kept(q, started) /\ Behind(q, started)
  BY <1>0, <1>2, ReloadKeeps DEF QueueOrder
<1>6. /\ q \in QueueType /\ q.delayed = queue.delayed /\ q.deferred = queue.deferred
      /\ q.incoming \in Seq(Task) /\ q.triage \in Seq(Task) /\ q.deferred \in Seq(Task)
      /\ ToSet(q.triage) \subseteq ToSet(accepted)
  <2>1. /\ q \in QueueType /\ q.delayed = queue.delayed /\ q.deferred = queue.deferred
        /\ ToSet(q.incoming) \cup ToSet(q.triage)
             = ToSet(queue.incoming) \cup ToSet(queue.triage)
    BY <1>0, ReloadedFacts
  <2>2. QED
    BY <1>0, <2>1 DEF QueueType, PostsOnce
<1> HIDE DEF q
<1>7. CASE WorkEmpty(q)
  <2>1. queue' = q /\ Returns(FALSE, pump.keepRunning) /\ UNCHANGED started
    BY <1>7 DEF WorkEmpty, NoRun
  <2>2. QueueOrder'
    BY <1>3, <1>5, <2>1, QueueOrderNext
  <2>3. Placed'
    BY <1>0, <1>3, <1>6, <2>1 DEF Placed
  <2>4. StartOrder' /\ NestOrder'
    BY <1>0, <1>2, <1>3, <2>1, StartsSame, NestReturns
  <2>5. QED
    BY <1>4, <2>2, <2>3, <2>4 DEF OrderInv
<1>8. ASSUME NEW y, WorkTakes(q, y),
             WorkDrops(q, y) \/ WorkDelays(q, y) \/ WorkRuns(q, y) \/ WorkDefers(q, y)
      PROVE  OrderInv'
  <2>1. /\ q.triage # <<>> /\ y = Head(q.triage) /\ y \in Task
        /\ queue'.incoming = q.incoming /\ queue'.triage = Tail(q.triage)
    BY <1>8 DEF WorkTakes
  <2>2. /\ ToSet(q.triage) = ToSet(queue'.triage) \cup {y} /\ y \in ToSet(accepted)
    BY <1>6, <2>1, TaskSeq
  <2>3. InOrder(queue')
    BY <1>5, <1>6, <2>1, PrecedesTail DEF InOrder
  <2>4. ASSUME NEW x \in before[y], Binds(x, y) PROVE x \in ToSet(started) \cup q.delayed
    BY <1>0, <1>5, <1>6, <2>1, <2>4, TakenReady
  <2>5. ASSUME due[y] = NoTime PROVE Ready(y, started)
    <3> SUFFICES ASSUME NEW x \in before[y], Binds(x, y) PROVE x \in ToSet(started)
      BY DEF Ready
    <3>1. /\ x \in ToSet(accepted) /\ x \in Task
      BY <1>0, <2>1, TaskSeq DEF BeforeRight, QueueTypes
    <3>2. Delay[y] = 0 /\ Delay[x] \in Nat /\ Delay[x] <= Delay[y]
      BY <1>0, <2>2, <2>5, <3>1, DelayAssumption DEF History, TimesRight, Binds
    <3>3. Delay[x] = 0
      BY <3>2
    <3>4. due[x] = NoTime
      BY <1>0, <3>1, <3>3 DEF History, TimesRight
    <3>5. x \notin q.delayed
      BY <1>0, <1>6, <3>4 DEF PostsOnce
    <3>6. QED
      BY <2>4, <3>5
  <2>6. CASE WorkDrops(q, y)
    <3>1. /\ y \in cancelled /\ queue'.delayed = q.delayed /\ queue'.deferred = q.deferred
          /\ UNCHANGED <<started, stack>>
      BY <2>6 DEF WorkDrops, NoRun
    <3>2. Kept(queue', started)
      BY <1>5, <2>1, <2>2, <3>1, KeptMoves DEF WaitingIn
    <3>3. Behind(queue', started)
      BY <1>5, <2>1, <2>2, <3>1, BehindMoves
    <3>4. QueueOrder'
      BY <1>3, <2>3, <3>1, <3>2, <3>3, QueueOrderNext
    <3>5. Placed' /\ StartOrder' /\ NestOrder'
      BY <1>0, <1>3, <1>6, <3>1, StartsSame DEF Placed, NestOrder
    <3>6. QED
      BY <1>4, <3>4, <3>5 DEF OrderInv
  <2>7. CASE WorkDelays(q, y)
    <3>1. /\ queue'.delayed = q.delayed \cup {y} /\ queue'.deferred = q.deferred
          /\ UNCHANGED <<started, stack>>
      BY <2>7 DEF WorkDelays, NoRun
    <3>2. Kept(queue', started)
      BY <1>5, <2>1, <2>2, <3>1, KeptMoves DEF WaitingIn
    <3>3. Behind(queue', started)
      <4>1. \A z \in queue'.delayed \ q.delayed : \A x \in before[z] :
              Binds(x, z) => x \in ToSet(started) \cup queue'.delayed
        BY <2>4, <3>1
      <4>2. QED
        BY <1>5, <2>1, <2>2, <3>1, <4>1, BehindMoves
    <3>4. QueueOrder'
      BY <1>3, <2>3, <3>1, <3>2, <3>3, QueueOrderNext
    <3>5. Placed' /\ StartOrder' /\ NestOrder'
      BY <1>0, <1>3, <1>6, <3>1, StartsSame DEF Placed, NestOrder
    <3>6. QED
      BY <1>4, <3>4, <3>5 DEF OrderInv
  <2>8. CASE WorkRuns(q, y)
    <3>1. /\ due[y] = NoTime /\ CanRun(y) /\ Runs(y) /\ started' = Append(started, y)
          /\ queue'.delayed = q.delayed /\ queue'.deferred = q.deferred
      BY <2>8 DEF WorkRuns, Runs
    <3>2. ToSet(started') = ToSet(started) \cup {y}
      BY <1>0, <2>1, <3>1, TaskSeq
    <3>3. Kept(queue', started')
      BY <1>5, <2>1, <2>2, <3>1, <3>2, KeptMoves DEF WaitingIn
    <3>4. Behind(queue', started')
      BY <1>5, <2>1, <2>2, <3>1, <3>2, BehindMoves
    <3>5. QueueOrder'
      BY <1>3, <2>3, <3>3, <3>4, QueueOrderNext
    <3>6. Placed'
      BY <1>0, <1>3, <1>6, <2>2, <3>1, <3>2 DEF Placed
    <3>7. StartOrder' /\ NestOrder'
      BY <1>0, <1>2, <1>3, <2>1, <2>5, <3>1, StartsReady, NestRuns
    <3>8. QED
      BY <1>4, <3>5, <3>6, <3>7 DEF OrderInv
  <2>9. CASE WorkDefers(q, y)
    <3>1. /\ due[y] = NoTime /\ y \in NonNestable /\ UNCHANGED <<started, stack>>
          /\ queue'.delayed = q.delayed /\ queue'.deferred = Append(q.deferred, y)
      BY <2>9 DEF WorkDefers, NoRun, CanRun
    <3>2. ToSet(queue'.deferred) = ToSet(q.deferred) \cup {y}
      BY <1>6, <2>1, <3>1, TaskSeq
    <3>3. Kept(queue', started)
      BY <1>5, <2>1, <2>2, <3>1, KeptMoves DEF WaitingIn
    <3>4. Behind(queue', started)
      <4>1. \A z \in ToSet(queue'.deferred) \ ToSet(q.deferred) : Ready(z, started)
        BY <2>5, <3>1, <3>2
      <4>2. QED
        BY <1>5, <2>1, <2>2, <3>1, <4>1, BehindMoves
    <3>5. QueueOrder'
      BY <1>3, <2>3, <3>1, <3>3, <3>4, QueueOrderNext
    <3>6. Placed'
      BY <1>0, <1>3, <1>6, <2>2, <3>1, <3>2 DEF Placed
    <3>7. StartOrder' /\ NestOrder'
      BY <1>0, <1>3, <3>1, StartsSame DEF NestOrder
    <3>8. QED
      BY <1>4, <3>5, <3>6, <3>7 DEF OrderInv
  <2>10. QED
    BY <1>8, <2>6, <2>7, <2>8, <2>9
<1>9. QED
  BY <1>1, <1>7, <1>8

\* The delayed queue is trimmed: only cancelled tasks leave it.
LEMMA TrimKeeps ==
  ASSUME QueueOrder, Alive, Trims(queue'.delayed), NEW s, ToSet(started) \subseteq ToSet(s),
         queue.delayed \ (NonNestable \cup cancelled) \subseteq queue'.delayed \cup ToSet(s),
         \A y \in ToSet(queue'.deferred) \ ToSet(queue.deferred) : Ready(y, s)
  PROVE  InOrder(queue') /\ Kept(queue', s) /\ Behind(queue', s)
<1>1. /\ queue'.incoming = queue.incoming /\ queue'.triage = queue.triage
      /\ queue'.delayed \subseteq queue.delayed
  BY DEF Trims, QueuesKept
<1>2. InOrder(queue')
  BY <1>1 DEF QueueOrder, InOrder
<1>3. Kept(queue', s)
  BY <1>1, KeptMoves DEF QueueOrder, WaitingIn
<1>4. Behind(queue', s)
  BY <1>1, BehindMoves DEF QueueOrder
<1>5. QED
  BY <1>2, <1>3, <1>4

\* A method of the delegate starts a task that has to wait for none, or it
\* starts none.
LEMMA MethodOrder ==
  ASSUME LoopBasics, OrderInv, stack # <<>>, UNCHANGED unchangedByPump,
         clock'.now = clock.now, Trims(queue'.delayed),
         Placed', NestOrder',
         \/ /\ UNCHANGED started
            /\ queue.delayed \ (NonNestable \cup cancelled) \subseteq queue'.delayed
            /\ \A y \in ToSet(queue'.deferred) \ ToSet(queue.deferred) : Ready(y, started)
         \/ \E x \in Task :
              /\ Ready(x, started) /\ started' = Append(started, x)
              /\ queue.delayed \ (NonNestable \cup cancelled) \subseteq queue'.delayed \cup {x}
              /\ ToSet(queue'.deferred) \subseteq ToSet(queue.deferred)
  PROVE  OrderInv'
<1>0. /\ QueueTypes /\ PumpTypes /\ started \in Seq(Task)
      /\ History /\ QueueOrder /\ StartOrder
  BY DEF LoopBasics, PumpTypes, OrderInv
<1>1. Alive
  BY DEF LoopBasics, LoopShape, StackShape, Alive
<1>2. /\ UNCHANGED <<post, due, cancelled, accepted, before>>
  BY DEF unchangedByPump
<1>3. History'
  <2>1. clock.now \in Nat
    BY <1>0 DEF PumpTypes, ClockType
  <2>2. QED
    BY <1>0, <1>2, <2>1, HistorySame
<1>4. CASE /\ UNCHANGED started
           /\ queue.delayed \ (NonNestable \cup cancelled) \subseteq queue'.delayed
           /\ \A y \in ToSet(queue'.deferred) \ ToSet(queue.deferred) : Ready(y, started)
  <2>1. InOrder(queue') /\ Kept(queue', started) /\ Behind(queue', started)
    BY <1>0, <1>1, <1>4, TrimKeeps
  <2>2. QueueOrder'
    BY <1>2, <1>4, <2>1, QueueOrderNext
  <2>3. StartOrder'
    BY <1>0, <1>2, <1>4, StartsSame
  <2>4. QED
    BY <1>3, <2>2, <2>3 DEF OrderInv
<1>5. ASSUME NEW x \in Task, Ready(x, started), started' = Append(started, x),
             queue.delayed \ (NonNestable \cup cancelled) \subseteq queue'.delayed \cup {x},
             ToSet(queue'.deferred) \subseteq ToSet(queue.deferred)
      PROVE  OrderInv'
  <2>1. ToSet(started') = ToSet(started) \cup {x}
    BY <1>0, <1>5, TaskSeq
  <2>2. \A y \in ToSet(queue'.deferred) \ ToSet(queue.deferred) : Ready(y, started')
    BY <1>5
  <2>3. InOrder(queue') /\ Kept(queue', started') /\ Behind(queue', started')
    BY <1>0, <1>1, <1>5, <2>1, <2>2, TrimKeeps
  <2>4. QueueOrder'
    BY <1>2, <2>3, QueueOrderNext
  <2>5. StartOrder'
    BY <1>0, <1>2, <1>5, StartsReady
  <2>6. QED
    BY <1>3, <2>4, <2>5 DEF OrderInv
<1>6. QED
  BY <1>4, <1>5

LEMMA DelayedOrder ==
  ASSUME LoopBasics, OrderInv, DoDelayedWorkNone \/ DoDelayedWorkEarly \/ DoDelayedWork
  PROVE  OrderInv'
<1>0. /\ QueueTypes /\ PumpTypes /\ PostsOnce /\ started \in Seq(Task)
      /\ queue.deferred \in Seq(Task)
      /\ QueueOrder /\ Placed /\ NestOrder /\ BeforeRight
  BY DEF LoopBasics, PumpTypes, QueueTypes, QueueType, OrderInv, History
<1>1. CASE DoDelayedWorkNone \/ DoDelayedWorkEarly
  <2>1. /\ At("delayed") /\ Returns(Top.did, pump.keepRunning) /\ NoRun
        /\ UNCHANGED unchangedByPump /\ clock'.now = clock.now
        /\ queue'.deferred = queue.deferred
        /\ Trims(queue'.delayed) /\ queue.delayed \ cancelled \subseteq queue'.delayed
    BY <1>0, <1>1, DelayedNoneFacts, DelayedEarlyFacts
  <2>2. stack # <<>> /\ UNCHANGED <<started, accepted>>
    BY <1>0, <2>1, AtFacts DEF NoRun, unchangedByPump
  <2>3. NestOrder'
    BY <1>0, <2>1, <2>2, NestReturns
  <2>4. Placed'
    BY <1>0, <2>1, <2>2 DEF Placed
  <2>5. QED
    BY <2>1, <2>2, <2>3, <2>4, MethodOrder
<1>2. CASE DoDelayedWork
  <2>1. /\ At("delayed") /\ UNCHANGED unchangedByPump
        /\ clock'.now = clock.now /\ Trims(queue'.delayed)
        /\ \E x \in queue.delayed :
             /\ queue.delayed \ (cancelled \cup {x}) \subseteq queue'.delayed
             /\ x \notin queue'.delayed /\ x \in Task
             /\ \A y \in queue.delayed \ (cancelled \cup {x}) : Sooner(x, y)
             /\ \/ CanRun(x) /\ Runs(x) /\ queue'.deferred = queue.deferred
                \/ /\ ~CanRun(x) /\ Returns(Top.did, pump.keepRunning) /\ NoRun
                   /\ queue'.deferred = Append(queue.deferred, x)
    BY <1>0, <1>2, DelayedWorkFacts
  <2>2. PICK x \in queue.delayed :
          /\ queue.delayed \ (cancelled \cup {x}) \subseteq queue'.delayed
          /\ x \in Task
          /\ \A y \in queue.delayed \ (cancelled \cup {x}) : Sooner(x, y)
          /\ \/ CanRun(x) /\ Runs(x) /\ queue'.deferred = queue.deferred
             \/ /\ ~CanRun(x) /\ Returns(Top.did, pump.keepRunning) /\ NoRun
                /\ queue'.deferred = Append(queue.deferred, x)
    BY <2>1
  <2>3. stack # <<>> /\ UNCHANGED accepted /\ x \in ToSet(accepted)
    BY <1>0, <2>1, AtFacts DEF unchangedByPump, PostsOnce
  <2>4. Behind(queue, started)
    BY <1>0, <2>3 DEF LoopBasics, LoopShape, StackShape, Alive, QueueOrder
  <2>5. Ready(x, started)
    BY <1>0, <2>2, <2>4, DelayedReady
  <2>6. CASE CanRun(x) /\ Runs(x) /\ queue'.deferred = queue.deferred
    <3>1. started' = Append(started, x)
      BY <2>6 DEF Runs
    <3>2. ToSet(started') = ToSet(started) \cup {x}
      BY <1>0, <2>2, <3>1, TaskSeq
    <3>3. Placed' /\ NestOrder'
      BY <1>0, <2>3, <2>6, <3>2, NestRuns DEF Placed
    <3>4. /\ queue.delayed \ (NonNestable \cup cancelled) \subseteq queue'.delayed \cup {x}
          /\ ToSet(queue'.deferred) \subseteq ToSet(queue.deferred)
      BY <2>2, <2>6
    <3>5. QED
      BY <2>1, <2>2, <2>3, <2>5, <3>1, <3>3, <3>4, MethodOrder
  <2>7. CASE /\ ~CanRun(x) /\ Returns(Top.did, pump.keepRunning) /\ NoRun
             /\ queue'.deferred = Append(queue.deferred, x)
    <3>1. x \in NonNestable /\ UNCHANGED started
      BY <2>7 DEF CanRun, NoRun
    <3>2. ToSet(queue'.deferred) = ToSet(queue.deferred) \cup {x}
      BY <1>0, <2>2, <2>7, TaskSeq
    <3>3. Placed' /\ NestOrder'
      BY <1>0, <2>3, <2>7, <3>1, <3>2, NestReturns DEF Placed
    <3>4. /\ queue.delayed \ (NonNestable \cup cancelled) \subseteq queue'.delayed
          /\ \A y \in ToSet(queue'.deferred) \ ToSet(queue.deferred) : Ready(y, started)
      BY <2>2, <2>5, <3>1, <3>2
    <3>5. QED
      BY <2>1, <2>3, <3>1, <3>3, <3>4, MethodOrder
  <2>8. QED
    BY <2>2, <2>6, <2>7
<1>3. QED
  BY <1>1, <1>2

LEMMA IdleOrder ==
  ASSUME LoopBasics, OrderInv, DoIdleWork
  PROVE  OrderInv'
<1>0. /\ QueueTypes /\ PumpTypes /\ started \in Seq(Task)
      /\ QueueOrder /\ Placed /\ NestOrder
  BY DEF LoopBasics, PumpTypes, OrderInv
<1>1. /\ At("idle") /\ UNCHANGED unchangedByPump /\ UNCHANGED clock
      /\ Trims(queue'.delayed) /\ queue.delayed \ cancelled \subseteq queue'.delayed
      /\ ToSet(queue'.deferred) \subseteq ToSet(queue.deferred)
      /\ \/ \E x : /\ ~Nested /\ x \in ToSet(queue.deferred) /\ x \in Task
                   /\ Runs(x)
         \/ Returns(FALSE, pump'.keepRunning) /\ NoRun
  BY <1>0, IdleWorkFacts
<1>2. stack # <<>> /\ UNCHANGED accepted /\ clock'.now = clock.now
  BY <1>0, <1>1, AtFacts DEF unchangedByPump
<1>3. CASE Returns(FALSE, pump'.keepRunning) /\ NoRun
  <2>1. UNCHANGED started
    BY <1>3 DEF NoRun
  <2>2. Placed' /\ NestOrder'
    BY <1>0, <1>1, <1>2, <1>3, <2>1, NestReturns DEF Placed
  <2>3. QED
    BY <1>1, <1>2, <2>1, <2>2, MethodOrder
<1>4. ASSUME NEW x, ~Nested, x \in ToSet(queue.deferred), x \in Task, Runs(x)
      PROVE  OrderInv'
  <2>1. started' = Append(started, x)
    BY <1>4 DEF Runs
  <2>2. ToSet(started') = ToSet(started) \cup {x}
    BY <1>0, <1>4, <2>1, TaskSeq
  <2>3. Placed' /\ NestOrder'
    BY <1>0, <1>1, <1>2, <1>4, <2>2, NestRuns DEF Placed
  <2>4. Ready(x, started)
    <3>1. Behind(queue, started)
      BY <1>0, <1>2 DEF LoopBasics, LoopShape, StackShape, Alive, QueueOrder
    <3>2. QED
      BY <1>4, <3>1 DEF Behind, Ready
  <2>5. QED
    BY <1>1, <1>2, <1>4, <2>1, <2>3, <2>4, MethodOrder
<1>5. QED
  BY <1>1, <1>3, <1>4

\* Steps that neither start nor queue a task.
LEMMA QuietOrder ==
  ASSUME LoopBasics, OrderInv, UNCHANGED <<queue, due, accepted, before, started>>,
         cancelled \subseteq cancelled', clock'.now = clock.now, NestOrder', Alive' => Alive,
         \A t \in Thread : post'[t].at = "queue" => post'[t] = post[t]
  PROVE  OrderInv'
<1>0. /\ QueueTypes /\ PumpTypes /\ History /\ QueueOrder /\ Placed /\ StartOrder
  BY DEF LoopBasics, OrderInv
<1>1. clock.now \in Nat
  BY <1>0 DEF PumpTypes, ClockType
<1>2. History'
  BY <1>0, <1>1, HistorySame
<1>3. QueueOrder'
  BY <1>0, QueueOrderSame
<1>4. Placed' /\ StartOrder'
  BY <1>0, StartsSame DEF Placed
<1>5. QED
  BY <1>2, <1>3, <1>4 DEF OrderInv

LEMMA PumpOrder ==
  ASSUME LoopBasics, OrderInv, PumpAction
  PROVE  OrderInv'
<1>0. PumpTypes /\ NestOrder
  BY DEF LoopBasics, OrderInv
<1>1. CASE DoWorkRefused \/ Awake \/ EndTask
  <2>1. /\ UNCHANGED unchangedByPump /\ UNCHANGED <<queue, clock, started>> /\ stack # <<>>
        /\ \/ Returns(FALSE, pump.keepRunning)
           \/ \E at, did, task : Moved(at, did, task) /\ task \in {Top.task, NoTask}
    BY <1>0, <1>1, DoWorkRefusedFacts, AwakeFacts, EndTaskFacts, AtFacts DEF NoRun
  <2>2. NoTask \notin NonNestable
    BY TaskAssumption
  <2>3. NestOrder'
    BY <1>0, <2>1, <2>2, NestReturns, NestMoves
  <2>4. UNCHANGED <<due, accepted, before, cancelled, post, life>>
    BY <2>1 DEF unchangedByPump
  <2>5. QED
    BY <2>1, <2>3, <2>4, QuietOrder DEF Alive
<1>2. QED
  BY <1>1, WorkOrder, DelayedOrder, IdleOrder DEF PumpAction

-----------------------------------------------------------------------------
\* A PostTask begins: all that is accepted comes before the task.
LEMMA BeginOrder ==
  ASSUME LoopBasics, OrderInv, NEW t \in Thread, NEW z, Begins(t, z), NestOrder',
         UNCHANGED <<clock, started, cancelled, life>>
  PROVE  OrderInv'
<1>0. /\ QueueTypes /\ PumpTypes /\ PostsOnce /\ PostsNew /\ TimesRight /\ BeforeRight
      /\ QueueOrder /\ Placed /\ StartOrder
  BY DEF LoopBasics, OrderInv, History
<1>1. /\ z \in Task /\ z \in toPost /\ z \notin ToSet(accepted)
      /\ PostAt(t, "queue", z, FALSE)
      /\ due'[z] = (IF Delay[z] = 0 THEN NoTime ELSE clock.now + Delay[z])
      /\ \A y \in Task \ {z} : due'[y] = due[y] /\ before'[y] = before[y]
      /\ before'[z] = ToSet(accepted)
      /\ UNCHANGED <<queue, accepted>>
  BY DEF Begins
<1>2. clock.now \in Nat /\ Delay[z] \in Nat /\ NoTime \notin Nat /\ ToSet(accepted) \subseteq Task
  BY <1>0, <1>1, DelayAssumption, TimeAssumption, TaskSeq DEF PumpTypes, ClockType, QueueTypes
<1>3. /\ due'[z] = NoTime <=> Delay[z] = 0
      /\ due'[z] # NoTime => due'[z] = clock.now + Delay[z]
  BY <1>1, <1>2
<1>4. PostsNew'
  <2>1. /\ post'[t].at = "queue" /\ post'[t].task = z
        /\ \A u \in Thread \ {t} : post'[u] = post[u]
    BY <1>1 DEF PostAt
  <2>2. ASSUME NEW u \in Thread \ {t}, post[u].at = "queue"
        PROVE  post[u].task \in Task \ {z}
    BY <1>0, <1>1, <2>2 DEF PostsOnce
  <2>3. ASSUME NEW u \in Thread, post'[u].at = "queue"
        PROVE  /\ post'[u].task \notin ToSet(accepted)
               /\ due'[post'[u].task] = NoTime <=> Delay[post'[u].task] = 0
               /\ \A v \in Thread : v # u /\ post'[v].at = "queue" => post'[v].task # post'[u].task
    <3>1. CASE u = t
      BY <1>1, <1>3, <2>1, <2>2, <3>1
    <3>2. CASE u # t
      <4>1. post'[u] = post[u] /\ post[u].at = "queue" /\ post[u].task \in Task \ {z}
        BY <2>1, <2>2, <2>3, <3>2
      <4>2. due'[post[u].task] = due[post[u].task]
        BY <1>1, <4>1
      <4>3. ASSUME NEW v \in Thread, v # u, post'[v].at = "queue"
            PROVE  post'[v].task # post[u].task
        BY <1>0, <2>1, <4>1, <4>3 DEF PostsNew
      <4>4. QED
        BY <1>0, <4>1, <4>2, <4>3 DEF PostsNew
    <3>3. QED
      BY <3>1, <3>2
  <2>4. QED
    BY <1>1, <2>3 DEF PostsNew
<1>5. TimesRight'
  <2>1. ASSUME NEW x \in Task, due'[x] # NoTime PROVE due'[x] <= clock.now + Delay[x]
    <3>1. CASE x = z
      BY <1>2, <1>3, <2>1, <3>1
    <3>2. CASE x # z
      BY <1>0, <1>1, <2>1, <3>2 DEF TimesRight
    <3>3. QED
      BY <3>1, <3>2
  <2>2. ASSUME NEW x \in ToSet(accepted) PROVE due'[x] = NoTime <=> Delay[x] = 0
    BY <1>0, <1>1, <1>2, <2>2 DEF TimesRight
  <2>3. QED
    BY <1>1, <2>1, <2>2 DEF TimesRight
<1>6. ASSUME NEW s, z \notin ToSet(s), NEW x PROVE Precedes(s, x, z)
  BY <1>6 DEF Precedes, ToSet
<1>7. BeforeRight'
  <2>1. ASSUME NEW y \in Task, NEW x \in before'[y]
        PROVE  /\ x \in ToSet(accepted) /\ x # y /\ Precedes(accepted, x, y)
               /\ due'[x] # NoTime /\ due'[y] # NoTime /\ Delay[x] <= Delay[y]
                    => due'[x] <= due'[y]
    <3>1. CASE y = z
      <4>1. x \in ToSet(accepted) /\ x # z /\ x \in Task /\ due'[x] = due[x]
        BY <1>1, <1>2, <2>1, <3>1
      <4>2. Precedes(accepted, x, z)
        BY <1>1, <1>6
      <4>3. ASSUME due[x] # NoTime, due'[z] # NoTime, Delay[x] <= Delay[z]
            PROVE  due[x] <= due'[z]
        <5>1. due[x] \in Nat /\ Delay[x] \in Nat
          BY <1>0, <4>1, <4>3, DelayAssumption DEF QueueTypes
        <5>2. due[x] <= clock.now + Delay[x] /\ due'[z] = clock.now + Delay[z]
          BY <1>0, <1>3, <4>1, <4>3 DEF TimesRight
        <5>3. QED
          BY <1>2, <4>3, <5>1, <5>2
      <4>4. QED
        BY <3>1, <4>1, <4>2, <4>3
    <3>2. CASE y # z
      <4>1. x \in before[y] /\ x \in ToSet(accepted) /\ due'[y] = due[y]
        BY <1>0, <1>1, <2>1, <3>2 DEF BeforeRight
      <4>2. due'[x] = due[x]
        BY <1>1, <1>2, <4>1
      <4>3. QED
        BY <1>0, <4>1, <4>2 DEF BeforeRight
    <3>3. QED
      BY <3>1, <3>2
  <2>2. QED
    BY <1>1, <2>1 DEF BeforeRight
<1>8. /\ z \notin ToSet(queue.incoming) /\ z \notin ToSet(queue.triage)
      /\ z \notin queue.delayed /\ z \notin ToSet(queue.deferred) /\ z \notin ToSet(started)
  BY <1>0, <1>1 DEF PostsOnce, Placed
<1>9. QueueOrder'
  <2>1. ASSUME NEW y \in Task, NEW x \in before'[y]
        PROVE  Precedes(queue.incoming, x, y) /\ Precedes(queue.triage, x, y)
    <3>1. CASE y = z
      BY <1>6, <1>8, <3>1
    <3>2. CASE y # z
      BY <1>0, <1>1, <2>1, <3>2 DEF QueueOrder, InOrder
    <3>3. QED
      BY <3>1, <3>2
  <2>2. InOrder(queue)'
    BY <1>1, <2>1 DEF InOrder
  <2>3. ASSUME Alive PROVE Kept(queue, started)'
    BY <1>0, <1>1, <2>3 DEF QueueOrder, Kept, WaitingIn
  <2>4. ASSUME Alive, NEW y \in Task, NEW x \in before'[y], Binds(x, y)
        PROVE  /\ y \in ToSet(queue.triage) => x \notin ToSet(queue.incoming)
               /\ y \in queue.delayed => x \in ToSet(started) \cup queue.delayed
               /\ y \in ToSet(queue.deferred) => x \in ToSet(started)
    <3>1. CASE y = z
      BY <1>8, <3>1
    <3>2. CASE y # z
      BY <1>0, <1>1, <2>4, <3>2 DEF QueueOrder, Behind
    <3>3. QED
      BY <3>1, <3>2
  <2>5. ASSUME Alive PROVE Behind(queue, started)'
    BY <1>1, <2>4, <2>5 DEF Behind, Binds
  <2>6. QED
    BY <2>2, <2>3, <2>5 DEF QueueOrder, Alive
<1>10. Placed'
  BY <1>0, <1>1 DEF Placed
<1>11. StartOrder'
  <2>1. ToSet(started) \subseteq Task
    BY <1>0, TaskSeq DEF PumpTypes
  <2>2. QED
    BY <1>0, <1>1, <1>8, <2>1, StartsSame
<1>12. QED
  BY <1>4, <1>5, <1>7, <1>9, <1>10, <1>11 DEF OrderInv, History

\* The incoming queue takes the task.
LEMMA AcceptOrder ==
  ASSUME LoopBasics, OrderInv, NEW t \in Thread, NEW z, Accepts(t, z),
         UNCHANGED <<due, before, clock, started, cancelled, life, stack>>
  PROVE  OrderInv'
<1>0. /\ QueueTypes /\ PostsNew /\ TimesRight /\ BeforeRight
      /\ QueueOrder /\ Placed /\ StartOrder /\ NestOrder
      /\ accepted \in Seq(Task) /\ queue.incoming \in Seq(Task)
  BY DEF LoopBasics, OrderInv, History, QueueTypes, QueueType
<1>1. /\ z \in Task /\ z = post[t].task /\ post[t].at = "queue"
      /\ PostAt(t, "notify", z, WasEmpty)
      /\ queue'.incoming = Append(queue.incoming, z) /\ accepted' = Append(accepted, z)
      /\ queue'.triage = queue.triage
      /\ queue'.delayed = queue.delayed /\ queue'.deferred = queue.deferred
  BY DEF Accepts
<1>2. /\ ToSet(accepted') = ToSet(accepted) \cup {z}
      /\ ToSet(queue'.incoming) = ToSet(queue.incoming) \cup {z}
  BY <1>0, <1>1, TaskSeq
<1>3. z \notin ToSet(accepted) /\ (due[z] = NoTime <=> Delay[z] = 0)
  BY <1>0, <1>1 DEF PostsNew
<1>4. ASSUME NEW u \in Thread, post'[u].at = "queue"
      PROVE  u # t /\ post'[u] = post[u] /\ post[u].task # z
  <2>1. u # t /\ post'[u] = post[u]
    BY <1>1, <1>4 DEF PostAt
  <2>2. QED
    BY <1>0, <1>1, <1>4, <2>1 DEF PostsNew
<1>5. PostsNew'
  BY <1>0, <1>2, <1>4 DEF PostsNew
<1>6. TimesRight'
  BY <1>0, <1>2, <1>3 DEF TimesRight
<1>7. ASSUME NEW y \in Task, NEW x \in before[y]
      PROVE  x # z /\ x \in ToSet(accepted)
  BY <1>0, <1>3, <1>7 DEF BeforeRight
<1>8. BeforeRight'
  <2>1. ASSUME NEW y \in Task, NEW x \in before[y] PROVE Precedes(accepted', x, y)
    <3>1. Precedes(accepted, x, y) /\ x # z
      BY <1>0, <1>7, <2>1 DEF BeforeRight
    <3>2. QED
      BY <1>0, <1>1, <3>1, PrecedesAppend
  <2>2. QED
    BY <1>0, <1>2, <2>1 DEF BeforeRight
<1>9. QueueOrder'
  <2>1. ASSUME NEW y \in Task, NEW x \in before[y]
        PROVE  Precedes(queue'.incoming, x, y) /\ Precedes(queue'.triage, x, y)
    <3>1. Precedes(queue.incoming, x, y) /\ Precedes(queue.triage, x, y) /\ x # z
      BY <1>0, <1>7, <2>1 DEF QueueOrder, InOrder
    <3>2. QED
      BY <1>0, <1>1, <3>1, PrecedesAppend
  <2>2. InOrder(queue)'
    BY <2>1 DEF InOrder
  <2>3. ASSUME Alive PROVE Kept(queue, started)'
    BY <1>0, <1>1, <1>2, <2>3 DEF QueueOrder, Kept, WaitingIn
  <2>4. ASSUME Alive PROVE Behind(queue, started)'
    BY <1>0, <1>1, <1>2, <1>7, <2>4 DEF QueueOrder, Behind, Binds
  <2>5. QED
    BY <2>2, <2>3, <2>4 DEF QueueOrder, Alive
<1>10. Placed' /\ StartOrder' /\ NestOrder'
  BY <1>0, <1>1, <1>2, StartsSame DEF Placed, NestOrder
<1>11. QED
  BY <1>5, <1>6, <1>8, <1>9, <1>10 DEF OrderInv, History

LEMMA PostOrder ==
  ASSUME LoopBasics, OrderInv, NEW t \in Thread, PostTask(t) \/ PostStep(t)
  PROVE  OrderInv'
<1>0. QueueTypes /\ PumpTypes /\ PostsOnce /\ NestOrder
  BY DEF LoopBasics, OrderInv
<1>1. ASSUME NEW at, NEW x, NEW empty, PostAt(t, at, x, empty), at # "queue",
             UNCHANGED <<queue, due, accepted, before, loopVars, clock>>
      PROVE  OrderInv'
  <2>1. UNCHANGED <<stack, life, cancelled, started>>
    BY <1>1 DEF loopVars
  <2>2. NestOrder'
    BY <1>0, <2>1 DEF NestOrder
  <2>3. \A u \in Thread : post'[u].at = "queue" => post'[u] = post[u]
    BY <1>1 DEF PostAt
  <2>4. QED
    BY <1>1, <2>1, <2>2, <2>3, QuietOrder DEF Alive
<1>2. CASE PostTask(t)
  <2>1. PICK x : BeginPost(t, x) /\ UNCHANGED <<loopVars, clock>>
    BY <1>2 DEF PostTask
  <2>2. Begins(t, x)
    BY <1>0, <2>1, BeginPostFacts
  <2>3. UNCHANGED <<stack, life, cancelled, started>>
    BY <2>1 DEF loopVars
  <2>4. NestOrder'
    BY <1>0, <2>3 DEF NestOrder
  <2>5. QED
    BY <2>1, <2>2, <2>3, <2>4, BeginOrder
<1>3. CASE PostPendingTask(t)
  <2>1. /\ Refuses(t) \/ \E x : Accepts(t, x)
        /\ UNCHANGED <<loopVars, due, before, clock>>
    BY <1>0, <1>3, PostPendingFacts
  <2>2. UNCHANGED <<stack, life, cancelled, started>>
    BY <2>1 DEF loopVars
  <2>3. ASSUME NEW x, Accepts(t, x) PROVE OrderInv'
    BY <2>1, <2>2, <2>3, AcceptOrder
  <2>4. CASE Refuses(t)
    <3>1. PostAt(t, "out", NoTask, FALSE) /\ UNCHANGED <<queue, accepted>>
      BY <2>4 DEF Refuses
    <3>2. QED
      BY <1>1, <2>1, <3>1
  <2>5. QED
    BY <2>1, <2>3, <2>4
<1>4. CASE Scheduled(t) \/ DidQueueTask(t)
  <2>1. /\ UNCHANGED <<queueVars, loopVars, clock>>
        /\ PostAt(t, "out", NoTask, FALSE) \/ Tells(t)
    BY <1>0, <1>4, ScheduledFacts, DidQueueFacts
  <2>2. UNCHANGED <<queue, due, accepted, before>>
    BY <2>1 DEF queueVars
  <2>3. QED
    BY <1>1, <2>1, <2>2 DEF Tells
<1>5. QED
  BY <1>2, <1>3, <1>4 DEF PostStep

\* A run is pushed on runs whose tasks are as they were.
LEMMA NestPush ==
  ASSUME PumpTypes, NestOrder, NEW l \in RunLoop, NEW frames \in Seq(FrameType),
         Push(l, frames), Len(frames) = Len(stack),
         \A i \in 1 .. Len(stack) : frames[i].task = stack[i].task
  PROVE  NestOrder'
<1>1. /\ stack' \in Seq(FrameType) /\ stack' # <<>> /\ Len(stack') = Len(frames) + 1
      /\ Top'.task = NoTask /\ \A i \in 1 .. Len(frames) : stack'[i] = frames[i]
  BY PushFacts
<1>2. stack \in Seq(FrameType) /\ NoTask \notin NonNestable
  BY TaskAssumption DEF PumpTypes
<1>3. /\ DOMAIN stack = 1 .. Len(stack) /\ DOMAIN stack' = 1 .. Len(stack) + 1
      /\ Len(stack) \in Nat /\ Len(stack') = Len(stack) + 1
  BY <1>1, <1>2
<1>4. ASSUME NEW i \in DOMAIN stack', stack'[i].task \in NonNestable PROVE i = 1
  <2>1. CASE i = Len(stack) + 1
    <3>1. stack'[i].task = NoTask
      BY <1>1, <1>3, <2>1 DEF Top
    <3>2. QED
      BY <1>2, <1>4, <3>1
  <2>2. CASE i # Len(stack) + 1
    <3>1. i \in 1 .. Len(stack)
      BY <1>3, <1>4, <2>2
    <3>2. QED
      BY <1>1, <1>3, <1>4, <3>1 DEF NestOrder
  <2>3. QED
    BY <2>1, <2>2
<1>5. QED
  BY <1>4 DEF NestOrder

LEMMA TaskOrder ==
  ASSUME LoopBasics, OrderInv, DoTask
  PROVE  OrderInv'
<1>0. /\ QueueTypes /\ PumpTypes /\ PostsOnce /\ StackShape /\ Loop \in Thread
      /\ History /\ QueueOrder /\ Placed /\ StartOrder /\ NestOrder /\ queue \in QueueType
  BY LoopAssumption DEF LoopBasics, LoopShape, QueueTypes, OrderInv
<1>1. /\ stack # <<>> /\ UNCHANGED <<life, clock, started>>
      /\ TaskQuiet \/ (\E x : TaskPosts(x)) \/ (\E l : TaskNests(l))
  BY <1>0, DoTaskFacts
<1>2. TaskEnds => NestOrder'
  BY <1>0, <1>1, NestMoves DEF TaskEnds
<1>3. CASE TaskQuiet
  <2>1. /\ TaskEnds /\ UNCHANGED <<queue, due, accepted, before, post>>
        /\ cancelled \subseteq cancelled'
    BY <1>3 DEF TaskQuiet, queueVars
  <2>2. QED
    BY <1>1, <1>2, <2>1, QuietOrder DEF Alive
<1>4. ASSUME NEW x, TaskPosts(x) PROVE OrderInv'
  <2>1. TaskEnds /\ BeginPost(Loop, x) /\ UNCHANGED cancelled
    BY <1>4 DEF TaskPosts
  <2>2. Begins(Loop, x)
    BY <1>0, <2>1, BeginPostFacts
  <2>3. QED
    BY <1>0, <1>1, <1>2, <2>1, <2>2, BeginOrder
<1>5. ASSUME NEW l, TaskNests(l) PROVE OrderInv'
  <2>1. /\ l \in RunLoop /\ Push(l, TaskDone)
        /\ queue' = queue \/ queue' = Reloaded(queue)
        /\ UNCHANGED <<due, accepted, before, post, cancelled>>
    BY <1>5 DEF TaskNests
  <2>2. NestOrder'
    <3>1. /\ TaskDone \in Seq(FrameType) /\ Len(TaskDone) = Len(stack)
          /\ TaskDone[Len(stack)].task = Top.task
          /\ \A i \in 1 .. Len(stack) - 1 : TaskDone[i] = stack[i]
      BY <1>0, <1>1, TaskDoneFacts
    <3>2. Len(stack) \in Nat
      BY <1>0, <1>1, TopFacts
    <3>3. \A i \in 1 .. Len(stack) : TaskDone[i].task = stack[i].task
      <4>1. ASSUME NEW i \in 1 .. Len(stack) PROVE i = Len(stack) \/ i \in 1 .. Len(stack) - 1
        BY <3>2, <4>1
      <4>2. QED
        BY <3>1, <4>1 DEF Top
    <3>4. QED
      BY <1>0, <2>1, <3>1, <3>3, NestPush
  <2>3. History'
    <3>1. clock.now \in Nat /\ clock'.now = clock.now
      BY <1>0, <1>1 DEF PumpTypes, ClockType
    <3>2. QED
      BY <1>0, <2>1, <3>1, HistorySame
  <2>4. QueueOrder'
    <3>1. /\ InOrder(queue')
          /\ Alive => Kept(queue', started) /\ Behind(queue', started)
      BY <1>0, <2>1, ReloadKeeps DEF QueueOrder
    <3>2. QED
      BY <1>1, <2>1, <3>1, QueueOrderNext DEF Alive
  <2>5. Placed' /\ StartOrder'
    <3>1. queue'.deferred = queue.deferred
      BY <1>0, <2>1, ReloadedFacts
    <3>2. QED
      BY <1>0, <1>1, <2>1, <3>1, StartsSame DEF Placed
  <2>6. QED
    BY <2>2, <2>3, <2>4, <2>5 DEF OrderInv
<1>6. QED
  BY <1>1, <1>3, <1>4, <1>5

\* The life of the loop: once it is ending it starts no task any more.
LEMMA LifeOrder ==
  ASSUME LoopBasics, OrderInv, LifeAction
  PROVE  OrderInv'
<1>0. /\ QueueTypes /\ PumpTypes /\ StackShape /\ stack \in Seq(FrameType)
      /\ History /\ QueueOrder /\ Placed /\ StartOrder /\ NestOrder /\ queue \in QueueType
  BY DEF LoopBasics, LoopShape, QueueTypes, PumpTypes, OrderInv
<1>1. UNCHANGED <<due, accepted, before, post, clock, cancelled, started>>
  BY DEF LifeAction, BindToCurrentThread, Bound, Run, Leave, DeletePendingTasks, TasksRemain,
         DisconnectFromParent, Shutdown, queueVars
<1>2. CASE Leave
  <2>1. /\ stack # <<>> /\ stack' \in Seq(FrameType) /\ Len(stack') = Len(stack) - 1
        /\ \A i \in 1 .. Len(stack) - 1 : stack'[i] = stack[i]
    BY <1>0, <1>2, LeaveFacts
  <2>2. UNCHANGED queue /\ (life' = "clearing" \/ life' = life)
    BY <1>2 DEF Leave, queueVars
  <2>3. NestOrder'
    <3>1. /\ DOMAIN stack' = 1 .. Len(stack) - 1 /\ DOMAIN stack = 1 .. Len(stack)
          /\ Len(stack) \in Nat
      BY <1>0, <2>1
    <3>2. ASSUME NEW i \in DOMAIN stack' PROVE i \in DOMAIN stack /\ stack'[i] = stack[i]
      BY <2>1, <3>1, <3>2
    <3>3. QED
      BY <1>0, <3>2 DEF NestOrder
  <2>4. QED
    BY <1>1, <2>2, <2>3, QuietOrder DEF Alive
<1>3. CASE Run
  <2>1. Push(Main, <<>>) /\ UNCHANGED queue /\ life = "bound"
    BY <1>3 DEF Run, queueVars, Outside
  <2>2. <<>> \in Seq(FrameType) /\ stack = <<>>
    BY <1>0, <2>1 DEF StackShape
  <2>3. PICK frames : frames = <<>>
    OBVIOUS
  <2>4. frames \in Seq(FrameType) /\ Push(Main, frames) /\ frames = stack
    BY <2>1, <2>2, <2>3
  <2>5. NestOrder'
    BY <1>0, <2>4, NestPush, TaskAssumption
  <2>6. QED
    BY <1>1, <2>1, <2>5, QuietOrder DEF Alive
<1>4. CASE BindToCurrentThread \/ Bound
  <2>1. UNCHANGED <<queue, stack>> /\ life \in {"unbound", "binding"}
    BY <1>4 DEF BindToCurrentThread, Bound, queueVars, Outside
  <2>2. NestOrder'
    BY <1>0, <2>1 DEF NestOrder
  <2>3. QED
    BY <1>1, <2>1, <2>2, QuietOrder DEF Alive
<1>5. CASE DeletePendingTasks \/ TasksRemain \/ DisconnectFromParent \/ Shutdown
  <2>1. /\ UNCHANGED stack
        /\ life' \in {"cleared", "clearing", "disconnecting", "stopping", "gone"}
    BY <1>5 DEF DeletePendingTasks, TasksRemain, DisconnectFromParent, Shutdown
  <2>2. InOrder(queue') /\ ToSet(queue'.deferred) \subseteq ToSet(queue.deferred)
    <3>1. CASE DeletePendingTasks
      <4>1. /\ queue'.incoming = <<>> /\ queue'.triage = <<>> /\ queue'.deferred = <<>>
        BY <1>0, <3>1 DEF DeletePendingTasks, QueueType
      <4>2. QED
        BY <4>1, PrecedesEmpty, EmptySet DEF InOrder
    <3>2. CASE TasksRemain
      <4>1. queue' = Reloaded(queue)
        BY <3>2 DEF TasksRemain
      <4>2. QED
        BY <1>0, <4>1, ReloadKeeps, ReloadedFacts DEF QueueOrder
    <3>3. CASE DisconnectFromParent
      BY <1>0, <3>3 DEF DisconnectFromParent, queueVars, QueueOrder
    <3>4. CASE Shutdown
      <4>1. /\ queue'.incoming = queue.incoming /\ queue'.triage = queue.triage
            /\ queue'.deferred = queue.deferred
        BY <1>0, <3>4 DEF Shutdown, QueueType
      <4>2. QED
        BY <1>0, <4>1 DEF QueueOrder, InOrder
    <3>5. QED
      BY <1>5, <3>1, <3>2, <3>3, <3>4
  <2>3. QueueOrder'
    BY <1>1, <2>1, <2>2, QueueOrderNext DEF Alive
  <2>4. Placed' /\ StartOrder' /\ NestOrder'
    BY <1>0, <1>1, <2>1, <2>2, StartsSame DEF Placed, NestOrder
  <2>5. History'
    <3>1. clock.now \in Nat /\ clock'.now = clock.now
      BY <1>0, <1>1 DEF PumpTypes, ClockType
    <3>2. QED
      BY <1>0, <1>1, <3>1, HistorySame
  <2>6. QED
    BY <2>3, <2>4, <2>5 DEF OrderInv
<1>6. QED
  BY <1>2, <1>3, <1>4, <1>5 DEF LifeAction

LEMMA NextOrder ==
  ASSUME EventInv, LoopBasics, OrderInv, [Next]_vars
  PROVE  OrderInv'
<1>0. /\ QueueTypes /\ PumpTypes /\ NestOrder
      /\ History /\ QueueOrder /\ Placed /\ StartOrder
  BY DEF LoopBasics, OrderInv
<1>1. ASSUME UNCHANGED <<queueVars, loopVars, post, clock>> PROVE OrderInv'
  <2>1. UNCHANGED <<queue, due, accepted, before, stack, life, cancelled, started, clock, post>>
    BY <1>1 DEF queueVars, loopVars
  <2>2. NestOrder'
    BY <1>0, <2>1 DEF NestOrder
  <2>3. QED
    BY <2>1, <2>2, QuietOrder DEF Alive
<1>2. CASE UNCHANGED vars
  BY <1>1, <1>2 DEF vars
<1>3. CASE Tick
  <2>1. UNCHANGED <<queueVars, loopVars, post>> /\ clock' = [clock EXCEPT !.now = @ + 1]
    BY <1>3 DEF Tick
  <2>2. UNCHANGED <<queue, due, accepted, before, stack, life, cancelled, started, post>>
    BY <2>1 DEF queueVars, loopVars
  <2>3. clock'.now \in Nat /\ clock.now <= clock'.now
    BY <1>0, <2>1 DEF PumpTypes, ClockType
  <2>4. History'
    BY <1>0, <2>2, <2>3, HistorySame
  <2>5. QueueOrder' /\ Placed' /\ StartOrder' /\ NestOrder'
    BY <1>0, <2>2, QueueOrderSame, StartsSame DEF Placed, NestOrder, Alive
  <2>6. QED
    BY <2>4, <2>5 DEF OrderInv
<1>4. ASSUME NEW t \in Thread, OtherCall(t) PROVE OrderInv'
  BY <1>1, <1>4 DEF OtherCall
<1>5. CASE Sleep
  <2>1. /\ At("wait") /\ Moved("waiting", Top.did, Top.task)
        /\ UNCHANGED <<queue, due, accepted, before, life, post, clock, cancelled, started>>
    BY <1>0, <1>5, SleepFacts
  <2>2. stack # <<>>
    BY <1>0, <2>1, AtFacts
  <2>3. NestOrder'
    BY <1>0, <2>1, <2>2, NestMoves
  <2>4. QED
    BY <2>1, <2>3, QuietOrder DEF Alive
<1>6. QED
  BY <1>1, <1>2, <1>3, <1>4, <1>5, Cases, PostOrder, PumpOrder, TaskOrder, LifeOrder

LEMMA InitOrder ==
  ASSUME Init
  PROVE  OrderInv
<1>1. /\ queue = [incoming |-> <<>>, triage |-> <<>>, delayed |-> {},
                  deferred |-> <<>>, accept |-> TRUE, triageEmpty |-> TRUE]
      /\ stack = <<>> /\ post = [t \in Thread |-> NotPosting]
      /\ due = [x \in Task |-> NoTime]
      /\ accepted = <<>> /\ before = [x \in Task |-> {}] /\ started = <<>>
  BY DEF Init
<1>2. /\ ToSet(accepted) = {} /\ ToSet(started) = {} /\ ToSet(queue.deferred) = {}
      /\ \A y \in Task : before[y] = {}
  BY <1>1, EmptySet
<1>3. \A t \in Thread : post[t].at # "queue"
  BY <1>1, NotPostingFacts
<1>4. History
  BY <1>1, <1>2, <1>3 DEF History, PostsNew, TimesRight, BeforeRight
<1>5. QueueOrder
  BY <1>2 DEF QueueOrder, InOrder, Kept, Behind
<1>6. Placed /\ StartOrder
  BY <1>2 DEF Placed, StartOrder
<1>7. NestOrder
  BY <1>1 DEF NestOrder
<1>8. QED
  BY <1>4, <1>5, <1>6, <1>7 DEF OrderInv

(* The first guarantee of SequencedTaskRunner, as far as MessageLoop keeps it,
   for any number of threads that post, tasks, delays, nested RunLoops and
   cancellations: a nestable task starts before every task posted after it was
   accepted with no lesser delay, and no non-nestable task runs in a nested
   RunLoop. *)
THEOREM TasksOrdered == Spec => []Ordered
<1>1. Init => OrderInv
  BY InitOrder
<1>2. EventInv /\ LoopBasics /\ OrderInv /\ [Next]_vars => OrderInv'
  BY NextOrder
<1>3. OrderInv => Ordered
  BY DEF OrderInv, StartOrder, NestOrder, Ordered, Binds
<1> QED
  BY <1>1, <1>2, <1>3, BasicsInvariant, PTL DEF Spec
=============================================================================
