----------------------------- MODULE MessageLoop -----------------------------
(***************************************************************************)
(* base::MessageLoop with its IncomingTaskQueue, its RunLoops and          *)
(* MessagePumpDefault (base/message_loop/, base/run_loop.cc), on a thread  *)
(* of its own, while other threads post tasks to it.  The pump sleeps on a *)
(* WaitableEvent, the one of WaitableEvents: posting and sleeping          *)
(* interleave inside Signal and TimedWaitUntil too.                        *)
(*                                                                         *)
(* A step is what a thread does between two acquisitions of a lock         *)
(* (incoming_queue_lock_, message_loop_lock_, lock_ of the event), or one  *)
(* turn of the loop in DoWork.  A run of the pump is a frame of a stack;   *)
(* a task that runs a nested RunLoop pushes another.  What a task does is  *)
(* a parameter.  Left out: scheduled_wakeup_ and the other metrics,        *)
(* observers, tasks whose destruction posts tasks, system work.            *)
(***************************************************************************)
EXTENDS WaitableEvents, FiniteSets

CONSTANTS
  Loop,           \* the thread that the MessageLoop is bound to
  PumpEvent,      \* event_ of its MessagePumpDefault
  Task,           \* tasks that may be posted, each once
  Delay,          \* delay of each task
  NonNestable,    \* tasks posted with PostNonNestableTask
  Poster,         \* the thread that posts each task: Loop, from another task
  Does,           \* what each task does when it runs
  RunLoop,        \* RunLoops; Main is the first
  Main,
  Allowing,       \* RunLoops of type kNestableTasksAllowed
  UntilIdle,      \* RunLoops run with RunUntilIdle
  Scenarios,      \* the sets of tasks that may be posted together
  MaxTime,        \* bound: the clock
  MaxCalls,       \* bound: calls on events that threads make besides the loop
  Waits,          \* the arrays they give to WaitMany
  NoTime,         \* null TimeTicks
  NoTask

ASSUME DelayAssumption == Delay \in [Task -> Nat] /\ MaxTime \in Nat
ASSUME LoopAssumption == Loop \in Thread /\ PumpEvent \in Event \ ManualReset
ASSUME WaitsAssumption == \A raw \in Waits : IsArray(raw)
ASSUME TaskAssumption ==
    /\ NonNestable \subseteq Task /\ NoTask \notin Task
    /\ \A tasks \in Scenarios : tasks \subseteq Task
    /\ Main \in RunLoop
    /\ \A x \in Task : Does[x].op = "run" => Does[x].loop \in RunLoop
ASSUME TimeAssumption == NoTime \notin Nat

VARIABLES
  queue,      \* IncomingTaskQueue: its four queues and flags
  control,    \* MessageLoop::Controller
  pump,       \* keep_running_ and delayed_work_time_ of the pump
  stack,      \* active_run_loops_, with where the pump's Run stands in each
  life,       \* where the loop's thread stands outside of Run
  allowed,    \* task_execution_allowed_
  quit,       \* RunLoops whose quit_called_ is set
  quitIdle,   \* RunLoops whose quit_when_idle_received_ is set
  post,       \* the PostTask each thread is in
  due,        \* delayed_run_time of each task
  clock,      \* TimeTicks::Now(), and recent_time_
  cancelled,  \* tasks whose callback has been cancelled
  toPost,     \* tasks not yet posted
  calls,      \* calls on events still to be made besides the loop
  accepted,   \* history: tasks accepted, in the order of sequence_num
  before,     \* history: tasks accepted before the PostTask of each one began
  started     \* history: tasks in the order in which they were run

queueVars == <<queue, due, accepted, before>>
loopVars == <<pump, stack, life, allowed, quit, quitIdle, cancelled, started>>
vars == <<eventVars, queueVars, loopVars, control, post, clock, toPost, calls>>

NotPosting == [at |-> "out", task |-> NoTask, wasEmpty |-> FALSE]

Init ==
    /\ InitEvents
    /\ queue = [incoming |-> <<>>, triage |-> <<>>, delayed |-> {},
                deferred |-> <<>>, accept |-> TRUE, triageEmpty |-> TRUE]
    /\ control = [ready |-> FALSE, pending |-> FALSE, connected |-> TRUE]
    /\ pump = [keepRunning |-> TRUE, delayedWorkTime |-> NoTime]
    /\ stack = <<>>
    /\ allowed = TRUE
    /\ quit = {}
    /\ quitIdle = UntilIdle
    /\ post = [t \in Thread |-> NotPosting]
    /\ due = [x \in Task |-> NoTime]
    /\ clock = [now |-> 0, recent |-> 0]
    /\ cancelled = {}
    \* With a loop to which tasks will be posted, or without one.
    /\ \/ toPost \in Scenarios /\ calls = 0 /\ life = "unbound"
       \/ toPost = {} /\ calls = MaxCalls /\ life = "gone"
    /\ accepted = <<>>
    /\ before = [x \in Task |-> {}]
    /\ started = <<>>

-----------------------------------------------------------------------------
(* PostTask: from any thread, and in three sections. *)

\* message_loop_lock_ is held while the pump is told to schedule work.
ControlFree ==
    life # "binding" /\ \A t \in Thread : post[t].at # "scheduling"

\* AddToIncomingQueue: the run time is computed before any lock is taken.
BeginPost(t, x) ==
    /\ x \in toPost
    /\ post[t] = NotPosting
    /\ post' = [post EXCEPT ![t] = [NotPosting EXCEPT !.at = "queue",
                                                      !.task = x]]
    /\ due' = [due EXCEPT ![x] = IF Delay[x] = 0 THEN NoTime
                                 ELSE clock.now + Delay[x]]
    /\ before' = [before EXCEPT ![x] = ToSet(accepted)]
    /\ toPost' = toPost \ {x}
    /\ UNCHANGED <<queue, accepted>>

\* The loop needs a wake-up only if it has no task left to triage.
WasEmpty == queue.incoming = <<>> /\ queue.triageEmpty

\* PostPendingTask, under incoming_queue_lock_.
PostPendingTask(t) ==
    /\ post[t].at = "queue"
    /\ IF queue.accept
         THEN /\ queue' = [queue EXCEPT !.incoming = Append(@, post[t].task)]
              /\ accepted' = Append(accepted, post[t].task)
              /\ post' = [post EXCEPT ![t].at = "notify",
                                      ![t].wasEmpty = WasEmpty]
         ELSE /\ post' = [post EXCEPT ![t] = NotPosting]
              /\ UNCHANGED <<queue, accepted>>
    /\ UNCHANGED <<eventVars, loopVars, control, due, before, clock, toPost,
                   calls>>

\* Controller::DidQueueTask, under message_loop_lock_.
DidQueueTask(t) ==
    /\ post[t].at = "notify"
    /\ \/ /\ ~post[t].wasEmpty
          /\ post' = [post EXCEPT ![t] = NotPosting]
          /\ UNCHANGED <<control, eventVars>>
       \/ /\ post[t].wasEmpty
          /\ ControlFree
          /\ control.connected /\ control.ready
          /\ post' = [post EXCEPT ![t].at = "scheduling"]
          /\ CallSignal(t, PumpEvent)
          /\ UNCHANGED control
       \/ /\ post[t].wasEmpty
          /\ ControlFree
          /\ ~(control.connected /\ control.ready)
          /\ post' = [post EXCEPT ![t] = NotPosting]
          /\ control' = [control EXCEPT !.pending = TRUE]
          /\ UNCHANGED eventVars
    /\ UNCHANGED <<queueVars, loopVars, clock, toPost, calls>>

\* ScheduleWork has returned.
Scheduled(t) ==
    /\ post[t].at = "scheduling"
    /\ call[t] = Idle
    /\ post' = [post EXCEPT ![t] = NotPosting]
    /\ UNCHANGED <<eventVars, queueVars, loopVars, control, clock, toPost,
                   calls>>

PostTask(t) ==
    /\ t # Loop
    /\ \E x \in Task : Poster[x] = t /\ BeginPost(t, x)
    /\ UNCHANGED <<eventVars, loopVars, control, clock, calls>>

PostStep(t) == PostPendingTask(t) \/ DidQueueTask(t) \/ Scheduled(t)

-----------------------------------------------------------------------------
(* The queues, as the loop's thread sees them. *)

\* Mutant of Reloaded: triage_queue_empty_ is not set again.
ReloadedOnce(q) ==
    IF q.triage # <<>> THEN q
    ELSE [q EXCEPT !.triage = q.incoming, !.incoming = <<>>,
                   !.triageEmpty = @ /\ q.incoming = <<>>]

\* ReloadFromIncomingQueueIfEmpty and ReloadWorkQueue.
Reloaded(q) ==
    IF q.triage # <<>> THEN q
    ELSE [q EXCEPT !.triage = q.incoming, !.incoming = <<>>,
                   !.triageEmpty = q.incoming = <<>>]

SequenceNum(x) == SelectInSeq(accepted, LAMBDA y : y = x)

\* Mutant of Sooner: of two tasks due at the same time the later one first.
SoonerReversed(x, y) ==
    \/ due[x] < due[y]
    \/ due[x] = due[y] /\ SequenceNum(x) > SequenceNum(y)

\* PendingTask::operator<, which orders DelayedTaskQueue.  The code takes the
\* sign of the difference of two ints, to survive their roll-over: the same
\* order as long as less than 2^31 tasks are posted between the two.
Sooner(x, y) ==
    \/ due[x] < due[y]
    \/ due[x] = due[y] /\ SequenceNum(x) < SequenceNum(y)

First(d) == CHOOSE x \in d : \A y \in d \ {x} : Sooner(x, y)

\* DelayedQueue::HasTasks removes the cancelled tasks in front.
Swept(d) == {x \in d : \E y \in d \ cancelled : y = x \/ Sooner(y, x)}

-----------------------------------------------------------------------------
(* The pump's Run. *)

Top == stack[Len(stack)]
Nested == Len(stack) > 1
IsActive(l) == \E i \in DOMAIN stack : stack[i].loop = l

\* The pump of the innermost run is at this place, and not inside a call.
At(place) ==
    /\ stack # <<>>
    /\ Top.at = place
    /\ call[Loop] = Idle
    /\ post[Loop] = NotPosting

\* Where the pump goes when a method of its delegate has returned.
After(method, didWork, keepRunning) ==
    CASE ~keepRunning -> "leave"
      [] keepRunning /\ method = "work" -> "delayed"
      [] keepRunning /\ method # "work" /\ didWork -> "work"
      [] keepRunning /\ method = "delayed" /\ ~didWork -> "idle"
      [] keepRunning /\ method = "idle" /\ ~didWork -> "wait"

Return(didWork, keepRunning) ==
    stack' = [stack EXCEPT ![Len(stack)].at =
                             After(Top.at, didWork, keepRunning),
                           ![Len(stack)].did = didWork]

\* RunTask, up to the task itself.
RunTask(x) ==
    /\ stack' = [stack EXCEPT ![Len(stack)].at = "task",
                              ![Len(stack)].from = Top.at,
                              ![Len(stack)].task = x]
    /\ allowed' = FALSE
    /\ started' = Append(started, x)

CanRun(x) == x \notin NonNestable \/ ~Nested

unchangedByPump == <<eventVars, control, life, quit, quitIdle, post, due,
                     cancelled, toPost, calls, accepted, before>>

\* DoWork: nested runs that do not allow it run no task.
DoWorkRefused ==
    /\ At("work")
    /\ ~allowed
    /\ Return(FALSE, pump.keepRunning)
    /\ UNCHANGED <<unchangedByPump, queue, pump, allowed, clock, started>>

\* One turn of the loop in DoWork.
DoWork ==
    LET q == Reloaded(queue)
        x == Head(q.triage)
        rest == [q EXCEPT !.triage = Tail(@)]
    IN
    /\ At("work")
    /\ allowed
    /\ \/ /\ q.triage = <<>>
          /\ queue' = q
          /\ Return(FALSE, pump.keepRunning)
          /\ UNCHANGED <<pump, allowed, started>>
       \/ /\ q.triage # <<>>
          /\ x \in cancelled
          /\ queue' = rest
          /\ UNCHANGED <<pump, stack, allowed, started>>
       \/ /\ q.triage # <<>>
          /\ x \notin cancelled
          /\ due[x] # NoTime
          /\ queue' = [rest EXCEPT !.delayed = @ \cup {x}]
          /\ pump' = IF First(queue'.delayed) = x
                     THEN [pump EXCEPT !.delayedWorkTime = due[x]] ELSE pump
          /\ UNCHANGED <<stack, allowed, started>>
       \/ /\ q.triage # <<>>
          /\ x \notin cancelled
          /\ due[x] = NoTime
          /\ CanRun(x)
          /\ queue' = rest
          /\ RunTask(x)
          /\ UNCHANGED pump
       \/ /\ q.triage # <<>>
          /\ x \notin cancelled
          /\ due[x] = NoTime
          /\ ~CanRun(x)
          /\ queue' = [rest EXCEPT !.deferred = Append(@, x)]
          /\ UNCHANGED <<pump, stack, allowed, started>>
    /\ UNCHANGED <<unchangedByPump, clock>>

\* DoDelayedWork with no delayed task to look at.
DoDelayedWorkNone ==
    /\ At("delayed")
    /\ ~allowed \/ Swept(queue.delayed) = {}
    /\ queue' = IF allowed THEN [queue EXCEPT !.delayed = {}] ELSE queue
    /\ pump' = [pump EXCEPT !.delayedWorkTime = NoTime]
    /\ Return(Top.did, pump.keepRunning)
    /\ UNCHANGED <<unchangedByPump, allowed, clock, started>>

\* Mutant of DoDelayedWorkEarly: the pump is not told when to come back.
DoDelayedWorkForgets ==
    LET d == Swept(queue.delayed)
        x == First(d)
    IN
    /\ At("delayed")
    /\ allowed
    /\ d # {}
    /\ due[x] > clock.recent
    /\ due[x] > clock.now
    /\ queue' = [queue EXCEPT !.delayed = d]
    /\ pump' = [pump EXCEPT !.delayedWorkTime = NoTime]
    /\ clock' = [clock EXCEPT !.recent = clock.now]
    /\ Return(Top.did, pump.keepRunning)
    /\ UNCHANGED <<unchangedByPump, allowed, started>>

\* DoDelayedWork when the first task is not due.
DoDelayedWorkEarly ==
    LET d == Swept(queue.delayed)
        x == First(d)
    IN
    /\ At("delayed")
    /\ allowed
    /\ d # {}
    /\ due[x] > clock.recent
    /\ due[x] > clock.now
    /\ queue' = [queue EXCEPT !.delayed = d]
    /\ pump' = [pump EXCEPT !.delayedWorkTime = due[x]]
    /\ clock' = [clock EXCEPT !.recent = clock.now]
    /\ Return(Top.did, pump.keepRunning)
    /\ UNCHANGED <<unchangedByPump, allowed, started>>

\* DoDelayedWork when it is: only then may the clock be stale.
DoDelayedWork ==
    LET d == Swept(queue.delayed)
        x == First(d)
        rest == Swept(d \ {x})
    IN
    /\ At("delayed")
    /\ allowed
    /\ d # {}
    /\ \/ due[x] <= clock.recent /\ clock' = clock
       \/ /\ due[x] > clock.recent
          /\ due[x] <= clock.now
          /\ clock' = [clock EXCEPT !.recent = clock.now]
    /\ pump' = IF rest # {} THEN [pump EXCEPT !.delayedWorkTime = due[First(rest)]]
               ELSE pump
    /\ \/ /\ CanRun(x)
          /\ queue' = [queue EXCEPT !.delayed = rest]
          /\ RunTask(x)
       \/ /\ ~CanRun(x)
          /\ queue' = [queue EXCEPT !.delayed = rest,
                                    !.deferred = Append(@, x)]
          /\ Return(Top.did, pump.keepRunning)
          /\ UNCHANGED <<allowed, started>>
    /\ UNCHANGED unchangedByPump

\* The deferred tasks from the first one on that is not cancelled.
Deferred ==
    LET i == SelectInSeq(queue.deferred, LAMBDA x : x \notin cancelled)
    IN IF i = 0 THEN <<>> ELSE SubSeq(queue.deferred, i, Len(queue.deferred))

\* DoIdleWork, with ProcessNextDelayedNonNestableTask.
DoIdleWork ==
    /\ At("idle")
    /\ \/ /\ ~Nested
          /\ Deferred # <<>>
          /\ queue' = [queue EXCEPT !.deferred = Tail(Deferred)]
          /\ RunTask(Head(Deferred))
          /\ UNCHANGED pump
       \/ /\ Nested \/ Deferred = <<>>
          /\ queue' = [queue EXCEPT
                         !.deferred = IF Nested THEN @ ELSE <<>>,
                         !.delayed = IF Top.loop \notin quitIdle /\ allowed
                                     THEN Swept(@) ELSE @]
          /\ pump' = [pump EXCEPT !.keepRunning =
                                    @ /\ Top.loop \notin quitIdle]
          /\ Return(FALSE, pump'.keepRunning)
          /\ UNCHANGED <<allowed, started>>
    /\ UNCHANGED <<unchangedByPump, clock>>

\* The pump sleeps, until delayed_work_time_ if there is one.
Sleep ==
    /\ At("wait")
    /\ CallWait(Loop, <<PumpEvent>>, pump.delayedWorkTime # NoTime)
    /\ stack' = [stack EXCEPT ![Len(stack)].at = "waiting"]
    /\ UNCHANGED <<queueVars, control, pump, life, allowed, quit, quitIdle,
                   post, clock, cancelled, toPost, calls, started>>

Awake ==
    /\ At("waiting")
    /\ stack' = [stack EXCEPT ![Len(stack)].at = "work"]
    /\ UNCHANGED <<unchangedByPump, queue, pump, allowed, clock, started>>

TimeUp ==
    /\ stack # <<>>
    /\ pump.delayedWorkTime # NoTime
    /\ pump.delayedWorkTime <= clock.now
    /\ Expire(Loop)
    /\ UNCHANGED <<queueVars, loopVars, control, post, clock, toPost, calls>>

-----------------------------------------------------------------------------
(* What a task does. *)

Frame(l) == [loop |-> l, at |-> "work", did |-> FALSE, from |-> "work",
             task |-> NoTask, keep |-> pump.keepRunning,
             forced |-> ~allowed /\ (stack = <<>> \/ l \in Allowing)]

\* RunLoop::Run up to the pump: BeforeRun, MessageLoop::Run and the AutoReset
\* of keep_running_.
Push(l, frames) ==
    /\ stack' = Append(frames, Frame(l))
    /\ pump' = [pump EXCEPT !.keepRunning = TRUE]
    /\ allowed' = (allowed \/ Frame(l).forced)

TaskDone == [stack EXCEPT ![Len(stack)].at = "ending"]

unchangedByTask == <<control, life, clock, calls, started>>

\* A nested RunLoop::Run; BeforeRun refuses one that was told to quit, and
\* schedules work for one that will do some.
RunNested(l) ==
    IF l \in quit
      THEN /\ stack' = TaskDone
           /\ UNCHANGED <<eventVars, queue, pump, allowed>>
      ELSE /\ Push(l, TaskDone)
           /\ queue' = IF l \in Allowing THEN Reloaded(queue) ELSE queue
           /\ IF l \in Allowing /\ queue'.triage # <<>>
                THEN CallSignal(Loop, PumpEvent)
                ELSE UNCHANGED eventVars

\* RunLoop::Quit; of a RunLoop that is not the innermost it only takes note.
Quit(l) ==
    /\ quit' = quit \cup {l}
    /\ pump' = IF Top.loop = l THEN [pump EXCEPT !.keepRunning = FALSE] ELSE pump

\* What a task does: it posts or cancels a task, runs a nested RunLoop, or
\* ends one by RunLoop::Quit or RunLoop::QuitWhenIdle.
DoTask ==
    LET does == Does[Top.task] IN
    /\ At("task")
    /\ \/ /\ does.op = "none"
          /\ stack' = TaskDone
          /\ UNCHANGED <<eventVars, queueVars, pump, allowed, quit, quitIdle,
                         post, cancelled, toPost>>
       \/ /\ does.op = "post"
          /\ BeginPost(Loop, does.task)
          /\ stack' = TaskDone
          /\ UNCHANGED <<eventVars, pump, allowed, quit, quitIdle, cancelled>>
       \/ /\ does.op = "cancel"
          /\ cancelled' = cancelled \cup {does.task}
          /\ stack' = TaskDone
          /\ UNCHANGED <<eventVars, queueVars, pump, allowed, quit, quitIdle,
                         post, toPost>>
       \/ /\ does.op = "run"
          /\ RunNested(does.loop)
          /\ UNCHANGED <<due, accepted, before, quit, quitIdle, post,
                         cancelled, toPost>>
       \/ /\ does.op = "quit"
          /\ Quit(does.loop)
          /\ stack' = TaskDone
          /\ UNCHANGED <<eventVars, queueVars, allowed, quitIdle, post,
                         cancelled, toPost>>
       \/ /\ does.op = "quitWhenIdle"
          /\ quitIdle' = quitIdle \cup {does.loop}
          /\ stack' = TaskDone
          /\ UNCHANGED <<eventVars, queueVars, pump, allowed, quit, post,
                         cancelled, toPost>>
    /\ UNCHANGED unchangedByTask

\* The end of RunTask, and of the method of the delegate that called it.
EndTask ==
    /\ At("ending")
    /\ allowed' = TRUE
    /\ stack' = [stack EXCEPT ![Len(stack)].at =
                                After(Top.from, TRUE, pump.keepRunning),
                              ![Len(stack)].did = TRUE,
                              ![Len(stack)].task = NoTask]
    /\ UNCHANGED <<unchangedByPump, queue, pump, clock, started>>

\* Mutant of KeepsRunning: AfterRun without the deferred Quit.
KeepsRunningAnyway(frames, saved) == saved

\* keep_running_ after a run: AutoReset restores it, and AfterRun then does
\* the Quit that the outer run has been told meanwhile.
KeepsRunning(frames, saved) ==
    saved /\ (frames # <<>> => frames[Len(frames)].loop \notin quit)

\* The pump's Run returns, and MessageLoop::Run and RunLoop::Run with it.
Leave ==
    LET frames == SubSeq(stack, 1, Len(stack) - 1) IN
    /\ At("leave")
    /\ stack' = frames
    /\ pump' = [pump EXCEPT !.keepRunning = KeepsRunning(frames, Top.keep)]
    /\ allowed' = (allowed /\ ~Top.forced)
    /\ life' = IF frames = <<>> THEN "clearing" ELSE life
    /\ UNCHANGED <<eventVars, queueVars, control, quit, quitIdle, post, clock,
                   cancelled, toPost, calls, started>>

-----------------------------------------------------------------------------
(* The life of the MessageLoop on its thread. *)

Outside(place) == life = place /\ call[Loop] = Idle

\* BindToCurrentThread, with StartScheduling.
BindToCurrentThread ==
    /\ Outside("unbound")
    /\ ControlFree
    /\ control' = [control EXCEPT !.ready = TRUE]
    /\ IF control.pending
         THEN life' = "binding" /\ CallSignal(Loop, PumpEvent)
         ELSE life' = "bound" /\ UNCHANGED eventVars
    /\ UNCHANGED <<queueVars, pump, stack, allowed, quit, quitIdle, post,
                   clock, cancelled, toPost, calls, started>>

Bound ==
    /\ Outside("binding")
    /\ life' = "bound"
    /\ UNCHANGED <<eventVars, queueVars, control, pump, stack, allowed, quit,
                   quitIdle, post, clock, cancelled, toPost, calls, started>>

Run ==
    /\ Outside("bound")
    /\ life' = "running"
    /\ Push(Main, <<>>)
    /\ UNCHANGED <<eventVars, queueVars, control, quit, quitIdle, post, clock,
                   cancelled, toPost, calls, started>>

\* ~MessageLoop: DeletePendingTasks, until no task is found.  One round, up to
\* the sentinel of TriageQueue::Clear, is one step; destroying a task posts
\* none here, so that the limit of 100 rounds is never reached.
DeletePendingTasks ==
    /\ Outside("clearing")
    /\ queue' = [queue EXCEPT !.incoming = <<>>, !.triage = <<>>,
                              !.delayed = {}, !.deferred = <<>>,
                              !.triageEmpty = FALSE]
    /\ life' = "cleared"
    /\ UNCHANGED <<eventVars, due, accepted, before, control, pump, stack,
                   allowed, quit, quitIdle, post, clock, cancelled, toPost,
                   calls, started>>

TasksRemain ==
    /\ Outside("cleared")
    /\ queue' = Reloaded(queue)
    /\ life' = IF queue'.triage # <<>> THEN "clearing" ELSE "disconnecting"
    /\ UNCHANGED <<eventVars, due, accepted, before, control, pump, stack,
                   allowed, quit, quitIdle, post, clock, cancelled, toPost,
                   calls, started>>

DisconnectFromParent ==
    /\ Outside("disconnecting")
    /\ ControlFree
    /\ control' = [control EXCEPT !.connected = FALSE]
    /\ life' = "stopping"
    /\ UNCHANGED <<eventVars, queueVars, pump, stack, allowed, quit, quitIdle,
                   post, clock, cancelled, toPost, calls, started>>

Shutdown ==
    /\ Outside("stopping")
    /\ queue' = [queue EXCEPT !.accept = FALSE]
    /\ life' = "gone"
    /\ UNCHANGED <<eventVars, due, accepted, before, control, pump, stack,
                   allowed, quit, quitIdle, post, clock, cancelled, toPost,
                   calls, started>>

LoopStep ==
    \/ BindToCurrentThread \/ Bound \/ Run
    \/ DoWorkRefused \/ DoWork
    \/ DoDelayedWorkNone \/ DoDelayedWorkEarly \/ DoDelayedWork
    \/ DoIdleWork \/ Sleep \/ Awake \/ TimeUp
    \/ DoTask \/ EndTask \/ Leave
    \/ DeletePendingTasks \/ TasksRemain \/ DisconnectFromParent \/ Shutdown

-----------------------------------------------------------------------------
(* Threads that use events without a loop. *)

OtherCall(t) ==
    /\ calls > 0
    /\ calls' = calls - 1
    /\ \/ \E e \in Event :
            \/ CallSignal(t, e)
            \/ Reset(t, e)
            \/ IsSignaled(t, e)
            \/ \E timed \in BOOLEAN : CallWait(t, <<e>>, timed)
       \/ \E raw \in Waits : CallWait(t, raw, FALSE)
    /\ UNCHANGED <<queueVars, loopVars, control, post, clock, toPost>>

OtherTimeUp(t) ==
    /\ stack = <<>>
    /\ Expire(t)
    /\ UNCHANGED <<queueVars, loopVars, control, post, clock, toPost, calls>>

EventStepOf(t) ==
    /\ EventStep(t)
    /\ UNCHANGED <<queueVars, loopVars, control, post, clock, toPost, calls>>

\* Time matters only while a delayed task is to come.
Tick ==
    /\ clock.now < MaxTime
    /\ \E x \in Task : due[x] # NoTime /\ due[x] > clock.now
    /\ clock' = [clock EXCEPT !.now = @ + 1]
    /\ UNCHANGED <<eventVars, queueVars, loopVars, control, post, toPost, calls>>

\* What a thread does once it has begun.
ThreadStep(t) ==
    \/ EventStepOf(t)
    \/ PostStep(t)
    \/ t = Loop /\ LoopStep

Next ==
    \/ \E t \in Thread : \/ ThreadStep(t)
                         \/ PostTask(t)
                         \/ OtherCall(t)
                         \/ OtherTimeUp(t)
    \/ Tick

Spec == Init /\ [][Next]_vars

\* The scheduler runs every thread, and time passes.
FairSpec == /\ Spec
            /\ \A t \in Thread : WF_vars(ThreadStep(t))
            /\ WF_vars(Tick)

-----------------------------------------------------------------------------
LoopTypeOK ==
    /\ EventTypeOK
    /\ ToSet(queue.incoming) \cup ToSet(queue.triage) \cup queue.delayed
         \cup ToSet(queue.deferred) \subseteq Task
    /\ pump.delayedWorkTime \in Nat \cup {NoTime}
    /\ \A i \in DOMAIN stack :
         /\ stack[i].loop \in RunLoop
         /\ stack[i].at \in {"work", "delayed", "idle", "wait", "waiting",
                             "task", "ending", "leave"}
    /\ due \in [Task -> Nat \cup {NoTime}]

\* A thread that will signal the event, having found the queues empty.
WakeUpComing ==
    \E t \in Thread : \/ post[t].at = "notify" /\ post[t].wasEmpty
                      \/ post[t].at = "scheduling" /\ call[t].op = "signal"

(* The loop's thread is never asleep (TimedWaitUntil in MessagePumpDefault)
   beside work it should do: while its innermost RunLoop may run tasks, a task
   in the queues means that a wake-up is on its way, every delayed task that
   the sleep ends in time, and no deferred task waits outside nested runs. *)
SleepsOnlyWhenIdle ==
    (stack # <<>> /\ call[Loop].at = "asleep" /\ ~call[Loop].fired) =>
        /\ pump.keepRunning
        /\ ~Nested => ToSet(queue.deferred) \subseteq cancelled
        /\ allowed =>
             /\ queue.triage = <<>>
             /\ queue.incoming # <<>> => WakeUpComing
             /\ \A x \in queue.delayed \ cancelled :
                  call[Loop].timed /\ pump.delayedWorkTime <= due[x]

StartedBefore(x, y) ==
    \E i, j \in DOMAIN started : started[i] = x /\ started[j] = y /\ i < j

(* The first guarantee of SequencedTaskRunner, as far as MessageLoop keeps it:
   a nestable task starts before every task posted later with no lesser delay,
   through triage, delayed and deferred queues; and a non-nestable task is not
   run within another. *)
Ordered ==
    /\ \A y \in ToSet(started) : \A x \in before[y] :
         Delay[x] <= Delay[y] /\ x \notin NonNestable \cup cancelled
           => StartedBefore(x, y)
    /\ \A i \in DOMAIN stack : stack[i].task \in NonNestable => i = 1

(* A task that PostTask has accepted is run at last, unless it is cancelled or
   the loop ends first: in the end none waits. *)
TasksRun ==
    <>[](\/ ToSet(accepted) \subseteq ToSet(started) \cup cancelled
         \/ life \in {"clearing", "cleared", "disconnecting", "stopping", "gone"})

(* A RunLoop that is told to quit ends, also if a nested one runs at the time
   and goes on (AfterRun does the deferred Quit). *)
QuitEndsLoop == []<>(\A l \in quit : ~IsActive(l))
=============================================================================
