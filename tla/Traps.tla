------------------------------- MODULE Traps -------------------------------
(***************************************************************************)
(* One trap (WatcherDispatcher) watching message pipe handles, and the     *)
(* threads that use them.                                                  *)
(*                                                                         *)
(* Every critical section of the code is one step: the trap's lock_, the   *)
(* signal_lock_ of a message pipe dispatcher, and the notification_lock_   *)
(* of a Watch are taken and released inside one action, except where the   *)
(* code really holds one lock while it takes another (a dispatcher that    *)
(* notifies its WatcherSet) or while application code runs (a Watch that   *)
(* invokes the handler).  A call is therefore a short program of the       *)
(* thread that makes it, and call[t].pc says where the thread is in it.    *)
(*                                                                         *)
(* Handlers never run inside those sections: a notification becomes a      *)
(* finalizer of the thread's RequestContext and runs when the outermost    *)
(* call of the thread returns.                                             *)
(***************************************************************************)
EXTENDS Naturals, Sequences, FiniteSets

CONSTANTS
    Handle,       \* message pipe handles the application holds
    Context,      \* trigger contexts
    Thread,       \* application threads and I/O threads
    Triggers,     \* the arguments AddTrigger is called with
    MaxMessages,  \* messages that may still reach each handle at the start
    MaxCalls      \* calls and port events in a behaviour

Signal == {"readable", "writable", "peer_closed"}

Condition == {"satisfied", "unsatisfied"}

ASSUME ConstantsAssumption ==
    /\ MaxMessages \in Nat
    /\ MaxCalls \in Nat
    /\ Triggers \subseteq [handle: Handle, context: Context,
                           signals: SUBSET Signal, condition: Condition]

VARIABLES
    port,     \* the ports layer's view of each handle (external to this module)
    pipe,     \* MessagePipeDispatcher, its WatcherSet and its handle table entry
    trap,     \* WatcherDispatcher
    watch,    \* the Watch objects, in the order they were created
    call,     \* what each thread is in the middle of
    begun,    \* how many calls have been made
    context,  \* the RequestContext each thread is filling
    final,    \* finalizers each thread is running, in order
    handler   \* the notification whose handler each thread is inside

vars == <<port, pipe, trap, watch, call, begun, context, final, handler>>

Result == {"OK", "FAILED_PRECONDITION", "SHOULD_WAIT", "UNKNOWN"}

WatchId == 1 .. MaxCalls

Notice == [watch: WatchId, result: {"OK", "FAILED_PRECONDITION", "CANCELLED"}]

(* HandleSignalsState *)
SignalsState == [satisfied: SUBSET Signal, satisfiable: SUBSET Signal]

NoState == [satisfied |-> {"none"}, satisfiable |-> {"none"}]
NoTrigger == [handle |-> "none"]
NoHandle == "none"
NoNotice == [watch |-> 0, result |-> "none"]

Pc == {"idle", "add", "add_ref", "add_notify", "add_undo", "add_check",
       "add_remove", "remove_ref", "remove_handle", "close_trap", "read",
       "observe", "status", "notify", "close", "closed", "close_port"}

Call == [pc: Pc, handle: Handle \union {NoHandle}, watches: SUBSET WatchId,
         state: SignalsState \union {NoState}, trigger: Triggers \union {NoTrigger}]

Idle == [pc |-> "idle", handle |-> NoHandle, watches |-> {},
         state |-> NoState, trigger |-> NoTrigger]

EmptyContext == [cancels |-> <<>>, notifies |-> <<>>]

(* Every variable has its type; queues never go below zero. *)
TypeOK ==
    /\ port \in [Handle -> [queued: 0 .. MaxMessages, coming: 0 .. MaxMessages,
                            peerClosed: BOOLEAN, live: BOOLEAN]]
    /\ pipe \in [Handle -> [entry: {"open", "busy", "gone"}, closed: BOOLEAN,
                            inTransit: BOOLEAN, transferred: BOOLEAN,
                            observed: BOOLEAN,
                            last: SignalsState \union {NoState},
                            refs: SUBSET Context]]
    /\ trap \in [armed: BOOLEAN, closed: BOOLEAN,
                 watches: [Context -> WatchId \union {0}],
                 handles: [Handle -> WatchId \union {0}],
                 ready: SUBSET WatchId]
    /\ watch \in Seq([trigger: Triggers, last: Result,
                      cancelled: BOOLEAN, refused: BOOLEAN])
    /\ Len(watch) <= begun
    /\ begun \in 0 .. MaxCalls
    /\ call \in [Thread -> Call]
    /\ context \in [Thread -> [cancels: Seq(Notice), notifies: Seq(Notice)]]
    /\ final \in [Thread -> Seq(Notice)]
    /\ handler \in [Thread -> Notice \union {NoNotice}]

Init ==
    /\ port = [h \in Handle |-> [queued |-> 0, coming |-> MaxMessages,
                                 peerClosed |-> FALSE, live |-> TRUE]]
    /\ pipe = [h \in Handle |->
                 [entry |-> "open", closed |-> FALSE, inTransit |-> FALSE,
                  transferred |-> FALSE, observed |-> TRUE,
                  last |-> NoState, refs |-> {}]]
    /\ trap = [armed |-> FALSE, closed |-> FALSE,
               watches |-> [c \in Context |-> 0],
               handles |-> [h \in Handle |-> 0], ready |-> {}]
    /\ watch = <<>>
    /\ begun = 0
    /\ call = [t \in Thread |-> Idle]
    /\ context = [t \in Thread |-> EmptyContext]
    /\ final = [t \in Thread |-> <<>>]
    /\ handler = [t \in Thread |-> NoNotice]

----------------------------------------------------------------------------
(* Signals and results *)

(* MessagePipeDispatcher::GetHandleSignalsStateNoLock *)
StateOf(h) ==
    LET p == port[h]
        readable == IF p.queued > 0 THEN {"readable"} ELSE {}
        receiving == IF p.peerClosed /\ p.queued = 0 /\ p.coming = 0
                     THEN {} ELSE {"readable"}
        writable == IF p.peerClosed THEN {} ELSE {"writable"}
        peerGone == IF p.peerClosed THEN {"peer_closed"} ELSE {}
    IN  IF p.live
        THEN [satisfied |-> readable \union writable \union peerGone,
              satisfiable |-> receiving \union writable \union {"peer_closed"}]
        ELSE [satisfied |-> {}, satisfiable |-> {}]

(* The result Watch::NotifyState computes for a trigger in a state *)
ResultOf(tr, st) ==
    IF \/ tr.condition = "satisfied" /\ st.satisfied \intersect tr.signals # {}
       \/ tr.condition = "unsatisfied" /\ ~(tr.signals \subseteq st.satisfied)
    THEN "OK"
    ELSE IF tr.condition = "satisfied" /\ st.satisfiable \intersect tr.signals = {}
    THEN "FAILED_PRECONDITION"
    ELSE "SHOULD_WAIT"

IsReady(result) == result \in {"OK", "FAILED_PRECONDITION"}

----------------------------------------------------------------------------
(* Threads, locks and request contexts *)

(* A thread in one of these places holds the signal_lock_ of its handle *)
SignalLocked(h) ==
    \E t \in Thread : /\ call[t].handle = h
                      /\ call[t].pc \in {"notify", "add_notify", "closed"}

(* Watch::notification_lock_ is held while the handler runs *)
NotificationLocked(w) == \E t \in Thread : handler[t].watch = w

(* A thread may enter the API from outside any call, or from a handler *)
BeginCall(t) ==
    /\ call[t].pc = "idle"
    /\ handler[t] # NoNotice \/ final[t] = <<>>
    /\ begun < MaxCalls
    /\ begun' = begun + 1

At(t, pc) == call[t].pc = pc

(* Watch::Cancel: RequestContext::AddWatchCancelFinalizer *)
AddCancel(ctx, w) ==
    [ctx EXCEPT !.cancels = Append(@, [watch |-> w, result |-> "CANCELLED"])]

Goto(t, c, ctx) ==
    /\ call' = [call EXCEPT ![t] = c]
    /\ context' = [context EXCEPT ![t] = ctx]
    /\ UNCHANGED final

(* The finalizers of a RequestContext, cancellations first *)
Finalizers(ctx) == ctx.cancels \o ctx.notifies

(* The call returns.  Its RequestContext is the current one unless the call
   was made from a handler, whose own context is still open *)
Return(t, ctx) ==
    /\ call' = [call EXCEPT ![t] = Idle]
    /\ IF handler[t] = NoNotice
       THEN /\ final' = [final EXCEPT ![t] = Finalizers(ctx)]
            /\ context' = [context EXCEPT ![t] = EmptyContext]
       ELSE /\ context' = [context EXCEPT ![t] = ctx]
            /\ UNCHANGED final

----------------------------------------------------------------------------
(* Notifications of a handle's state *)

(* Mutant: a watch that is no longer ready stays among the ready ones *)
NotifyKeepsReady(h, st, ctx) ==
    LET w == trap.handles[h]
        rv == ResultOf(watch[w].trigger, st)
    IN  IF w = 0
        THEN [trap |-> trap, watch |-> watch, context |-> ctx]
        ELSE [trap |-> IF IsReady(rv)
                       THEN [trap EXCEPT !.ready = @ \union {w}, !.armed = FALSE]
                       ELSE trap,
              watch |-> [watch EXCEPT ![w].last = rv],
              context |-> IF IsReady(rv) /\ trap.armed /\ rv # watch[w].last
                          THEN [ctx EXCEPT !.notifies =
                                  Append(@, [watch |-> w, result |-> rv])]
                          ELSE ctx]

(* WatcherDispatcher::NotifyHandleState: what it leaves in the trap, in the
   watch and in the RequestContext *)
NotifyHandleState(h, st, ctx) ==
    LET w == trap.handles[h]
        rv == ResultOf(watch[w].trigger, st)
    IN  IF w = 0
        THEN [trap |-> trap, watch |-> watch, context |-> ctx]
        ELSE [trap |-> IF IsReady(rv)
                       THEN [trap EXCEPT !.ready = @ \union {w}, !.armed = FALSE]
                       ELSE [trap EXCEPT !.ready = @ \ {w}],
              watch |-> [watch EXCEPT ![w].last = rv],
              context |-> IF IsReady(rv) /\ trap.armed /\ rv # watch[w].last
                          THEN [ctx EXCEPT !.notifies =
                                  Append(@, [watch |-> w, result |-> rv])]
                          ELSE ctx]

(* WatcherSet::NotifyState under the signal_lock_: nothing when the watchers
   have seen the state, else the trap is told in the next step, with the
   signal_lock_ still held *)
NotifyState(t, h, p) ==
    LET st == StateOf(h)
        fresh == p.last # st
    IN  /\ pipe' = [pipe EXCEPT ![h] = [p EXCEPT !.last = st]]
        /\ IF fresh /\ p.refs # {}
           THEN Goto(t, [Idle EXCEPT !.pc = "notify", !.handle = h, !.state = st],
                     context[t])
           ELSE Return(t, context[t])

(* The trap's part of a notification *)
Notify(t) ==
    /\ At(t, "notify")
    /\ LET n == NotifyHandleState(call[t].handle, call[t].state, context[t])
       IN  /\ trap' = n.trap
           /\ watch' = n.watch
           /\ Return(t, n.context)
    /\ UNCHANGED <<port, pipe, handler, begun>>

----------------------------------------------------------------------------
(* AddTrigger *)

(* Core::AddTrigger: find the dispatcher of the handle *)
AddTrigger(t) ==
    /\ BeginCall(t)
    /\ \E tr \in Triggers :
         /\ pipe[tr.handle].entry # "gone"
         /\ Goto(t, [Idle EXCEPT !.pc = "add", !.trigger = tr], context[t])
    /\ UNCHANGED <<port, pipe, trap, watch, handler>>

(* Mutant: a new watch starts with MOJO_RESULT_OK as its last result *)
AddWatchKnown(t) ==
    LET tr == call[t].trigger
        w == Len(watch) + 1
    IN  /\ At(t, "add")
        /\ ~trap.closed
        /\ trap.watches[tr.context] = 0 /\ trap.handles[tr.handle] = 0
        /\ watch' = Append(watch, [trigger |-> tr, last |-> "OK",
                                   cancelled |-> FALSE, refused |-> FALSE])
        /\ trap' = [trap EXCEPT !.watches[tr.context] = w,
                                !.handles[tr.handle] = w]
        /\ Goto(t, [Idle EXCEPT !.pc = "add_ref", !.handle = tr.handle,
                                !.watches = {w}], context[t])
        /\ UNCHANGED <<port, pipe, handler, begun>>

(* WatcherDispatcher::WatchDispatcher, its first section *)
AddWatch(t) ==
    LET tr == call[t].trigger
        w == Len(watch) + 1
    IN  /\ At(t, "add")
        /\ \/ /\ trap.closed \/ trap.watches[tr.context] # 0
                             \/ trap.handles[tr.handle] # 0
              /\ Return(t, context[t])
              /\ UNCHANGED <<trap, watch>>
           \/ /\ ~trap.closed
              /\ trap.watches[tr.context] = 0 /\ trap.handles[tr.handle] = 0
              /\ watch' = Append(watch, [trigger |-> tr, last |-> "UNKNOWN",
                                         cancelled |-> FALSE, refused |-> FALSE])
              /\ trap' = [trap EXCEPT !.watches[tr.context] = w,
                                      !.handles[tr.handle] = w]
              /\ Goto(t, [Idle EXCEPT !.pc = "add_ref", !.handle = tr.handle,
                                      !.watches = {w}], context[t])
        /\ UNCHANGED <<port, pipe, handler, begun>>

(* Mutant: WatcherSet::Add tells nobody when the state is the last known one *)
AddWatcherRefQuiet(t) ==
    LET h == call[t].handle
        p == pipe[h]
        st == StateOf(h)
    IN  /\ At(t, "add_ref")
        /\ ~SignalLocked(h) /\ ~p.closed /\ ~p.inTransit
        /\ \E w \in call[t].watches :
             pipe' = [pipe EXCEPT ![h].refs = @ \union {watch[w].trigger.context},
                                  ![h].last = IF @ = NoState THEN @ ELSE st]
        /\ Goto(t, IF p.last = st
                   THEN [call[t] EXCEPT !.pc = "add_check"]
                   ELSE [call[t] EXCEPT !.pc = "add_notify", !.state = st], context[t])
        /\ UNCHANGED <<port, trap, watch, handler, begun>>

(* MessagePipeDispatcher::AddWatcherRef and WatcherSet::Add, up to the call
   into the trap *)
AddWatcherRef(t) ==
    LET h == call[t].handle
        p == pipe[h]
        st == StateOf(h)
    IN  /\ At(t, "add_ref")
        /\ ~SignalLocked(h)
        /\ \E w \in call[t].watches :
             LET c == watch[w].trigger.context
             IN  \/ /\ p.closed \/ p.inTransit \/ c \in p.refs
                    /\ Goto(t, [call[t] EXCEPT !.pc = "add_undo"], context[t])
                    /\ UNCHANGED pipe
                 \/ /\ ~p.closed /\ ~p.inTransit /\ c \notin p.refs
                    /\ pipe' = [pipe EXCEPT
                                  ![h].refs = @ \union {c},
                                  ![h].last = IF @ = NoState THEN @ ELSE st]
                    /\ Goto(t, [call[t] EXCEPT !.pc = "add_notify", !.state = st],
                            context[t])
        /\ UNCHANGED <<port, trap, watch, handler, begun>>

(* The trap's part of AddWatcherRef *)
AddNotify(t) ==
    /\ At(t, "add_notify")
    /\ LET n == NotifyHandleState(call[t].handle, call[t].state, context[t])
       IN  /\ trap' = n.trap
           /\ watch' = n.watch
           /\ Goto(t, [call[t] EXCEPT !.pc = "add_check", !.state = NoState],
                   n.context)
    /\ UNCHANGED <<port, pipe, handler, begun>>

(* WatchDispatcher after AddWatcherRef failed *)
AddUndo(t) ==
    /\ At(t, "add_undo")
    /\ \E w \in call[t].watches :
         /\ trap' = [trap EXCEPT !.watches[watch[w].trigger.context] = 0,
                                 !.handles[call[t].handle] = 0]
         /\ watch' = [watch EXCEPT ![w].refused = TRUE]
    /\ Return(t, context[t])
    /\ UNCHANGED <<port, pipe, handler, begun>>

(* WatchDispatcher's last section *)
AddCheck(t) ==
    /\ At(t, "add_check")
    /\ IF trap.closed
       THEN Goto(t, [call[t] EXCEPT !.pc = "add_remove"], context[t])
       ELSE Return(t, context[t])
    /\ UNCHANGED <<port, pipe, trap, watch, handler, begun>>

(* MessagePipeDispatcher::RemoveWatcherRef *)
RemoveWatcherRef(h, c) ==
    /\ ~SignalLocked(h)
    /\ pipe' = [pipe EXCEPT ![h].refs =
                  IF pipe[h].closed \/ pipe[h].inTransit THEN @ ELSE @ \ {c}]

AddRemove(t) ==
    /\ At(t, "add_remove")
    /\ \E w \in call[t].watches :
         RemoveWatcherRef(call[t].handle, watch[w].trigger.context)
    /\ Return(t, context[t])
    /\ UNCHANGED <<port, trap, watch, handler, begun>>

----------------------------------------------------------------------------
(* RemoveTrigger *)

(* The application removes a trigger only once the AddTrigger that made it has
   returned, and in one thread at a time *)
Removable(c) ==
    \A t \in Thread : \A w \in call[t].watches : watch[w].trigger.context # c

(* WatcherDispatcher::CancelWatch: the first section and Watch::Cancel *)
RemoveTrigger(t) ==
    /\ BeginCall(t)
    /\ ~trap.closed
    /\ \E c \in Context :
         LET w == trap.watches[c]
         IN  /\ w # 0
             /\ Removable(c)
             /\ trap' = [trap EXCEPT !.watches[c] = 0]
             /\ Goto(t, [Idle EXCEPT !.pc = "remove_ref", !.watches = {w},
                                     !.handle = watch[w].trigger.handle],
                     AddCancel(context[t], w))
    /\ UNCHANGED <<port, pipe, watch, handler>>

RemoveRef(t) ==
    /\ At(t, "remove_ref")
    /\ \E w \in call[t].watches :
         RemoveWatcherRef(call[t].handle, watch[w].trigger.context)
    /\ Goto(t, [call[t] EXCEPT !.pc = "remove_handle"], context[t])
    /\ UNCHANGED <<port, trap, watch, handler, begun>>

RemoveHandle(t) ==
    LET h == call[t].handle
    IN  /\ At(t, "remove_handle")
        /\ trap' = [trap EXCEPT !.ready = @ \ {trap.handles[h]},
                                !.handles[h] = 0]
        /\ Return(t, context[t])
        /\ UNCHANGED <<port, pipe, watch, handler, begun>>

----------------------------------------------------------------------------
(* Arm and close the trap *)

(* WatcherDispatcher::Arm when it succeeds; when it fails it changes nothing
   that another call depends on *)
Arm(t) ==
    /\ BeginCall(t)
    /\ ~trap.closed
    /\ ~trap.armed
    /\ \E h \in Handle : trap.handles[h] # 0
    /\ trap.ready = {}
    /\ trap' = [trap EXCEPT !.armed = TRUE]
    /\ Return(t, context[t])
    /\ UNCHANGED <<port, pipe, watch, handler>>

(* WatcherDispatcher::Close: the first section *)
CloseTrap(t) ==
    /\ BeginCall(t)
    /\ ~trap.closed
    /\ trap' = [trap EXCEPT !.closed = TRUE,
                            !.watches = [c \in Context |-> 0],
                            !.handles = [h \in Handle |-> 0]]
    /\ Goto(t, [Idle EXCEPT !.pc = "close_trap",
                            !.watches = {trap.watches[c] : c \in Context} \ {0}],
            context[t])
    /\ UNCHANGED <<port, pipe, watch, handler>>

(* One turn of Close's loop over the watches it took *)
CloseTrapNext(t) ==
    /\ At(t, "close_trap")
    /\ \/ /\ call[t].watches = {}
          /\ Return(t, context[t])
          /\ UNCHANGED pipe
       \/ \E w \in call[t].watches :
            /\ RemoveWatcherRef(watch[w].trigger.handle, watch[w].trigger.context)
            /\ Goto(t, [call[t] EXCEPT !.watches = @ \ {w}],
                    AddCancel(context[t], w))
    /\ UNCHANGED <<port, trap, watch, handler, begun>>

----------------------------------------------------------------------------
(* What happens to a handle *)

(* A message arrives, or the peer closes after sending some of what it may
   still send (external: the ports layer), and the port's observer is told *)
PortEvent(t) ==
    /\ BeginCall(t)
    /\ \E h \in Handle :
         /\ port[h].live
         /\ \/ /\ port[h].coming > 0
               /\ port' = [port EXCEPT ![h].queued = @ + 1, ![h].coming = @ - 1]
            \/ /\ ~port[h].peerClosed
               /\ \E n \in 0 .. port[h].coming :
                    port' = [port EXCEPT ![h].peerClosed = TRUE, ![h].coming = n]
         /\ Goto(t, [Idle EXCEPT !.pc = "observe", !.handle = h], context[t])
    /\ UNCHANGED <<pipe, trap, watch, handler>>

(* NodeController::PortStatusChanged: fetch the observer *)
PortStatusChanged(t) ==
    /\ At(t, "observe")
    /\ IF pipe[call[t].handle].observed
       THEN Goto(t, [call[t] EXCEPT !.pc = "status"], context[t])
       ELSE Return(t, context[t])
    /\ UNCHANGED <<port, pipe, trap, watch, handler, begun>>

(* MessagePipeDispatcher::OnPortStatusChanged *)
OnPortStatusChanged(t) ==
    LET h == call[t].handle
    IN  /\ At(t, "status")
        /\ ~SignalLocked(h)
        /\ IF pipe[h].transferred
           THEN Return(t, context[t]) /\ UNCHANGED pipe
           ELSE NotifyState(t, h, pipe[h])
        /\ UNCHANGED <<port, trap, watch, handler, begun>>

(* MessagePipeDispatcher::ReadMessage: take a message *)
ReadMessage(t) ==
    /\ BeginCall(t)
    /\ \E h \in Handle :
         /\ pipe[h].entry # "gone" /\ ~pipe[h].closed /\ ~pipe[h].inTransit
         /\ port[h].queued > 0
         /\ port' = [port EXCEPT ![h].queued = @ - 1]
         /\ Goto(t, [Idle EXCEPT !.pc = "read", !.handle = h], context[t])
    /\ UNCHANGED <<pipe, trap, watch, handler>>

(* ... and tell the watchers *)
ReadNotify(t) ==
    LET h == call[t].handle
    IN  /\ At(t, "read")
        /\ ~SignalLocked(h)
        /\ NotifyState(t, h, pipe[h])
        /\ UNCHANGED <<port, trap, watch, handler, begun>>

(* Core::Close: take the dispatcher out of the handle table *)
CloseHandle(t) ==
    /\ BeginCall(t)
    /\ \E h \in Handle :
         /\ pipe[h].entry = "open"
         /\ pipe' = [pipe EXCEPT ![h].entry = "gone"]
         /\ Goto(t, [Idle EXCEPT !.pc = "close", !.handle = h], context[t])
    /\ UNCHANGED <<port, trap, watch, handler>>

(* MessagePipeDispatcher::CloseNoLock up to NotifyClosed, on a dispatcher in
   state p *)
CloseNoLock(t, h, p) ==
    /\ pipe' = [pipe EXCEPT ![h] = [p EXCEPT !.closed = TRUE]]
    /\ IF p.refs # {}
       THEN Goto(t, [Idle EXCEPT !.pc = "closed", !.handle = h], context[t])
       ELSE IF p.transferred
       THEN Return(t, context[t])
       ELSE Goto(t, [Idle EXCEPT !.pc = "close_port", !.handle = h], context[t])

(* MessagePipeDispatcher::Close *)
ClosePipe(t) ==
    LET h == call[t].handle
    IN  /\ At(t, "close")
        /\ ~SignalLocked(h)
        /\ CloseNoLock(t, h, pipe[h])
        /\ UNCHANGED <<port, trap, watch, handler, begun>>

(* Mutant: the watch of a closed handle is forgotten without Watch::Cancel *)
NotifyClosedSilently(t) ==
    LET h == call[t].handle
        w == trap.handles[h]
    IN  /\ At(t, "closed")
        /\ trap' = IF w = 0 THEN trap
                   ELSE [trap EXCEPT !.watches[watch[w].trigger.context] = 0,
                                     !.ready = @ \ {w}, !.handles[h] = 0]
        /\ Return(t, context[t])
        /\ UNCHANGED <<port, pipe, watch, handler, begun>>

(* Mutant: the cancellation is delivered at once, under the signal_lock_ *)
NotifyClosedAtOnce(t) ==
    LET h == call[t].handle
        w == trap.handles[h]
    IN  /\ At(t, "closed")
        /\ w # 0 => ~NotificationLocked(w)
        /\ trap' = IF w = 0 THEN trap
                   ELSE [trap EXCEPT !.watches[watch[w].trigger.context] = 0,
                                     !.ready = @ \ {w}, !.handles[h] = 0]
        /\ Return(t, IF w = 0 THEN context[t] ELSE AddCancel(context[t], w))
        /\ UNCHANGED <<port, pipe, watch, handler, begun>>

(* WatcherDispatcher::NotifyHandleClosed and Watch::Cancel *)
NotifyHandleClosed(t) ==
    LET h == call[t].handle
        w == trap.handles[h]
        ctx == IF w = 0 THEN context[t] ELSE AddCancel(context[t], w)
    IN  /\ At(t, "closed")
        /\ trap' = IF w = 0 THEN trap
                   ELSE [trap EXCEPT !.watches[watch[w].trigger.context] = 0,
                                     !.ready = @ \ {w}, !.handles[h] = 0]
        /\ IF pipe[h].transferred
           THEN Return(t, ctx)
           ELSE Goto(t, [call[t] EXCEPT !.pc = "close_port"], ctx)
        /\ UNCHANGED <<port, pipe, watch, handler, begun>>

(* NodeController::ClosePort, outside the signal_lock_: the observer goes,
   then the port *)
ClosePort(t) ==
    /\ At(t, "close_port")
    /\ pipe' = [pipe EXCEPT ![call[t].handle].observed = FALSE]
    /\ port' = [port EXCEPT ![call[t].handle].live = FALSE]
    /\ Return(t, context[t])
    /\ UNCHANGED <<trap, watch, handler, begun>>

----------------------------------------------------------------------------
(* A handle attached to a message *)

(* Core::AcquireDispatchersForTransit: HandleTable::BeginTransit and
   MessagePipeDispatcher::BeginTransit *)
BeginTransit(t) ==
    /\ BeginCall(t)
    /\ \E h \in Handle :
         /\ pipe[h].entry = "open" /\ ~pipe[h].closed /\ ~pipe[h].inTransit
         /\ ~SignalLocked(h)
         /\ pipe' = [pipe EXCEPT ![h].entry = "busy", ![h].inTransit = TRUE]
    /\ UNCHANGED <<port, trap, watch, call, context, final, handler>>

(* Core::ReleaseDispatchersForTransit(accept = false):
   MessagePipeDispatcher::CancelTransit *)
CancelTransit(t) ==
    /\ BeginCall(t)
    /\ \E h \in Handle :
         /\ pipe[h].entry = "busy"
         /\ ~SignalLocked(h)
         /\ NotifyState(t, h, [pipe[h] EXCEPT !.inTransit = FALSE, !.entry = "open"])
    /\ UNCHANGED <<port, trap, watch, handler>>

(* Core::ReleaseDispatchersForTransit(accept = true):
   MessagePipeDispatcher::CompleteTransitAndClose.  The observer goes, then the
   dispatcher closes as for any other handle but keeps the port *)
CompleteTransit(t) ==
    /\ BeginCall(t)
    /\ \E h \in Handle :
         /\ pipe[h].entry = "busy"
         /\ ~SignalLocked(h)
         /\ CloseNoLock(t, h, [pipe[h] EXCEPT !.entry = "gone", !.observed = FALSE,
                                             !.transferred = TRUE,
                                             !.inTransit = FALSE])
    /\ UNCHANGED <<port, trap, watch, handler>>

----------------------------------------------------------------------------
(* Handlers *)

(* Mutant: the notification_lock_ is not held while the handler runs *)
InvokeUnlocked(t) ==
    /\ call[t].pc = "idle" /\ handler[t] = NoNotice
    /\ final[t] # <<>>
    /\ LET n == Head(final[t])
       IN  /\ ~watch[n.watch].cancelled
           /\ watch' = [watch EXCEPT
                          ![n.watch].cancelled = @ \/ n.result = "CANCELLED"]
           /\ handler' = [handler EXCEPT ![t] = n]
    /\ UNCHANGED <<port, pipe, trap, call, context, final, begun>>

(* The finalizer at the head of the thread's list: Watch::InvokeCallback and
   WatcherDispatcher::InvokeWatchCallback, up to the handler *)
InvokeCallback(t) ==
    /\ call[t].pc = "idle" /\ handler[t] = NoNotice
    /\ final[t] # <<>>
    /\ LET n == Head(final[t])
           w == n.watch
       IN  /\ ~NotificationLocked(w)
           /\ IF \/ watch[w].cancelled
                 \/ trap.closed /\ n.result # "CANCELLED"
              THEN /\ final' = [final EXCEPT ![t] = Tail(@)]
                   /\ UNCHANGED <<watch, handler>>
              ELSE /\ watch' = [watch EXCEPT
                                  ![w].cancelled = @ \/ n.result = "CANCELLED"]
                   /\ handler' = [handler EXCEPT ![t] = n]
                   /\ UNCHANGED final
    /\ UNCHANGED <<port, pipe, trap, call, context, begun>>

(* The handler returns; the RequestContext opened for it runs its own
   finalizers before the rest of the outer ones *)
HandlerReturns(t) ==
    /\ call[t].pc = "idle" /\ handler[t] # NoNotice
    /\ handler' = [handler EXCEPT ![t] = NoNotice]
    /\ final' = [final EXCEPT ![t] = Finalizers(context[t]) \o Tail(@)]
    /\ context' = [context EXCEPT ![t] = EmptyContext]
    /\ UNCHANGED <<port, pipe, trap, watch, call, begun>>

----------------------------------------------------------------------------
(* The specification *)

(* The calls a thread may begin *)
Begin(t) ==
    \/ AddTrigger(t) \/ RemoveTrigger(t) \/ Arm(t) \/ CloseTrap(t)
    \/ PortEvent(t) \/ ReadMessage(t) \/ CloseHandle(t)
    \/ BeginTransit(t) \/ CancelTransit(t) \/ CompleteTransit(t)

(* The steps of a call that has begun, and of the finalizers it left *)
Continue(t) ==
    \/ AddWatch(t) \/ AddWatcherRef(t) \/ AddNotify(t) \/ AddUndo(t)
    \/ AddCheck(t) \/ AddRemove(t) \/ RemoveRef(t) \/ RemoveHandle(t)
    \/ CloseTrapNext(t) \/ PortStatusChanged(t) \/ OnPortStatusChanged(t)
    \/ ReadNotify(t) \/ Notify(t) \/ ClosePipe(t) \/ NotifyHandleClosed(t)
    \/ ClosePort(t) \/ InvokeCallback(t)

Next == \E t \in Thread : Begin(t) \/ Continue(t) \/ HandlerReturns(t)

(* A thread inside the library keeps running, and the application's handlers
   return; nobody has to begin a call *)
Fairness == \A t \in Thread : /\ WF_vars(Continue(t))
                              /\ WF_vars(HandlerReturns(t))

Spec == Init /\ [][Next]_vars

FairSpec == Spec /\ Fairness

----------------------------------------------------------------------------
(* Properties *)

(* A thread that will still tell the trap about the handle, or is adding it
   to the trap or taking it away *)
Attended(h) ==
    \E t \in Thread :
      /\ call[t].handle = h
      /\ call[t].pc \in {"observe", "status", "read", "notify", "add_ref",
                         "add_notify", "add_undo", "remove_ref",
                         "remove_handle", "close", "closed"}

(* No event is lost between the state of a handle and an armed trap.  While the
   trap is armed and no thread is on its way to tell it about a handle, the
   trigger on that handle really has nothing to report in the handle's present
   state.  WatcherSet drops a notification whose state its watchers have seen,
   Watch compares with its last result, and Arm trusts ready_watches_; an event
   that slips between them would leave the application waiting forever. *)
NoLostEvent ==
    trap.armed /\ ~trap.closed =>
      \A h \in Handle :
        LET w == trap.handles[h]
        IN  w # 0 /\ ~Attended(h) =>
              ResultOf(watch[w].trigger, StateOf(h)) = "SHOULD_WAIT"

(* ready_watches_ holds exactly the watched triggers whose last result is one to
   report, through additions, removals, closures and notifications in any order,
   and a trap with a ready trigger is never armed. *)
ReadyExact ==
    /\ \A h \in Handle :
         LET w == trap.handles[h]
         IN  w # 0 => (w \in trap.ready <=> IsReady(watch[w].last))
    /\ trap.armed => trap.ready = {}

(* A trap is never disarmed in silence: the step that disarms it leaves some
   thread a notification to deliver.  NotifyHandleState clears armed_ whenever
   the watch is ready, but Watch::NotifyState adds its finalizer only when the
   result differs from the last one. *)
DisarmAnnounced ==
    [][trap.armed /\ ~trap'.armed =>
         \E t \in Thread :
           Len(context'[t].notifies) + Len(final'[t])
             > Len(context[t].notifies) + Len(final[t])]_vars

(* A trigger the trap no longer has, and whose AddTrigger did not fail *)
Dropped(w) ==
    /\ w \in DOMAIN watch
    /\ ~watch[w].refused
    /\ trap.watches[watch[w].trigger.context] # w

(* A thread is going to deliver the CANCELLED of a watch, or is inside it *)
CancelOwed(w) ==
    LET notice == [watch |-> w, result |-> "CANCELLED"]
        Among(s) == \E i \in DOMAIN s : s[i] = notice
    IN  \E t \in Thread : \/ Among(context[t].cancels) \/ Among(final[t])
                          \/ call[t].pc = "close_trap" /\ w \in call[t].watches

(* MOJO_RESULT_CANCELLED is the last notification of a trigger, which is what
   lets the application then free what the context points to
   (WatcherDispatcher::InvokeWatchCallback): a trigger that is gone, and whose
   CANCELLED nobody is going to deliver or is delivering, has had it, and no
   thread is inside its handler, although notifications queued before by other
   threads are still to be run.  A context is used with one handle only, or is
   not used again while its removal is under way. *)
CancelledIsLast ==
    \A w \in DOMAIN watch :
      Dropped(w) /\ ~CancelOwed(w) => watch[w].cancelled /\ ~NotificationLocked(w)

Told(w) == w \in DOMAIN watch /\ (watch[w].cancelled \/ watch[w].refused)

(* Every trigger that goes, because it was removed, its handle was closed or
   sent away, or the trap was closed, in whatever order those race, has its
   MOJO_RESULT_CANCELLED delivered (or its AddTrigger is still to fail). *)
CancelDelivered == \A w \in WatchId : Dropped(w) ~> Told(w)

(* Every call returns: no two threads wait for each other's signal_lock_ and
   trap lock, and no thread waits for the notification_lock_ of the handler it
   is inside. *)
CallsReturn == \A t \in Thread : call[t].pc # "idle" ~> call[t].pc = "idle"
=============================================================================
