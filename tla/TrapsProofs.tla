---------------------------- MODULE TrapsProofs ----------------------------
(***************************************************************************)
(* TLAPS: a trap loses no event, its ready_watches_ are exact, it is never *)
(* disarmed in silence, and handlers of one context exclude each other,    *)
(* for any number of handles, contexts and threads.                        *)
(***************************************************************************)
EXTENDS Traps, TLAPS

----------------------------------------------------------------------------
(***************************************************************************)
(* The shape of the state: types, and what a call knows where it stands.   *)
(***************************************************************************)

\* The watches that exist.
Ids == 1 .. Len(watch)

PortType == [queued: Nat, coming: Nat, peerClosed: BOOLEAN, live: BOOLEAN]

PipeType == [entry: {"open", "busy", "gone"}, closed: BOOLEAN, inTransit: BOOLEAN,
             transferred: BOOLEAN, observed: BOOLEAN,
             last: SignalsState \union {NoState}, refs: SUBSET Context]

TrapType == [armed: BOOLEAN, closed: BOOLEAN,
             watches: [Context -> Ids \union {0}],
             handles: [Handle -> Ids \union {0}], ready: SUBSET Ids]

WatchType == [trigger: Triggers, last: Result, cancelled: BOOLEAN, refused: BOOLEAN]

CallType == [pc: Pc, handle: Handle \union {NoHandle}, watches: SUBSET Ids,
             state: SignalsState \union {NoState}, trigger: Triggers \union {NoTrigger}]

NoticeType == [watch: Ids, result: {"OK", "FAILED_PRECONDITION", "CANCELLED"}]

ContextType == [cancels: Seq(NoticeType), notifies: Seq(NoticeType)]

Types ==
    /\ port \in [Handle -> PortType]
    /\ pipe \in [Handle -> PipeType]
    /\ trap \in TrapType
    /\ watch \in Seq(WatchType)
    /\ call \in [Thread -> CallType]
    /\ context \in [Thread -> ContextType]
    /\ final \in [Thread -> Seq(NoticeType)]
    /\ handler \in [Thread -> NoticeType \union {NoNotice}]

\* A thread here adds a watch to a handle or takes it away.
OwnerPc == {"add_ref", "add_undo", "remove_ref", "remove_handle"}

\* A thread here is about to tell the trap, and holds the signal_lock_.
TellPc == {"notify", "add_notify"}

\* A thread here has one watch in its hands.
WatchPc == OwnerPc \union {"add_notify", "add_check", "add_remove"}

CallOK(c) ==
    /\ c.pc = "add" => c.trigger \in Triggers
    /\ c.pc \notin {"idle", "add", "close_trap"} => c.handle \in Handle
    /\ c.pc \in TellPc => c.state \in SignalsState
    /\ c.pc \in WatchPc => \E w \in Ids : /\ c.watches = {w}
                                          /\ watch[w].trigger.handle = c.handle

\* A call leaves its finalizers to the outermost call of its thread, and the
\* finalizer a thread is inside is still at the head of its list.
FinalOK(t) ==
    /\ call[t].pc = "idle" \/ handler[t] # NoNotice \/ final[t] = <<>>
    /\ handler[t] # NoNotice => final[t] # <<>>

\* watches_ and watched_handles_ name watches of that context and handle.
MapsExact ==
    /\ \A h \in Handle : trap.handles[h] # 0 => watch[trap.handles[h]].trigger.handle = h
    /\ \A c \in Context : trap.watches[c] # 0 => watch[trap.watches[c]].trigger.context = c
    /\ trap.closed => \A h \in Handle : trap.handles[h] = 0

Shape ==
    /\ Types
    /\ \A t \in Thread : CallOK(call[t]) /\ FinalOK(t)
    /\ MapsExact

----------------------------------------------------------------------------
(* Operators *)

LEMMA TriggerFacts ==
    ASSUME NEW tr \in Triggers
    PROVE  /\ tr.handle \in Handle /\ tr.context \in Context
           /\ tr.signals \subseteq Signal /\ tr.condition \in Condition
BY ConstantsAssumption

LEMMA StateTyped ==
    ASSUME NEW h \in Handle
    PROVE  StateOf(h) \in SignalsState /\ StateOf(h) # NoState
<1>1. StateOf(h) \in SignalsState
  BY DEF StateOf, SignalsState, Signal
<1>2. NoState \notin SignalsState
  <2>1. "none" \notin Signal
    BY DEF Signal
  <2> QED
    BY <2>1 DEF NoState, SignalsState
<1> QED
  BY <1>1, <1>2

LEMMA ResultTyped ==
    ASSUME NEW tr, NEW st
    PROVE  /\ ResultOf(tr, st) \in {"OK", "FAILED_PRECONDITION", "SHOULD_WAIT"}
           /\ ResultOf(tr, st) \in Result
           /\ ~IsReady(ResultOf(tr, st)) => ResultOf(tr, st) = "SHOULD_WAIT"
BY DEF ResultOf, IsReady, Result

LEMMA IdleFacts ==
    /\ Idle \in CallType
    /\ CallOK(Idle)
    /\ Idle.pc = "idle" /\ Idle.watches = {}
BY DEF Idle, CallType, CallOK, Pc, TellPc, WatchPc, OwnerPc

LEMMA WatchFacts ==
    ASSUME Types
    PROVE  /\ Len(watch) \in Nat
           /\ \A w \in Ids : w \in Nat \ {0} /\ watch[w] \in WatchType
           /\ DOMAIN watch = Ids
BY DEF Types, Ids

\* What NotifyHandleState does to one watch w, whose trigger's result is rv, to
\* the ready ones and to the RequestContext.
NotifyEffect(ctx, n, w, rv) ==
    /\ n.trap \in TrapType /\ n.watch \in Seq(WatchType) /\ n.context \in ContextType
    /\ n.trap.handles = trap.handles /\ n.trap.watches = trap.watches
    /\ n.trap.closed = trap.closed
    /\ Len(n.watch) = Len(watch)
    /\ \A v \in Ids : /\ n.watch[v].trigger = watch[v].trigger
                       /\ n.watch[v].cancelled = watch[v].cancelled
                       /\ n.watch[v].refused = watch[v].refused
                       /\ n.watch[v].last = IF v = w THEN rv ELSE watch[v].last
    /\ w = 0 => n.trap = trap /\ n.watch = watch /\ n.context = ctx
    /\ w # 0 => /\ n.trap.armed = (trap.armed /\ ~IsReady(rv))
                /\ n.trap.ready = IF IsReady(rv) THEN trap.ready \union {w}
                                  ELSE trap.ready \ {w}
                /\ IF IsReady(rv) /\ trap.armed /\ rv # watch[w].last
                   THEN /\ n.context.cancels = ctx.cancels
                        /\ n.context.notifies =
                             Append(ctx.notifies, [watch |-> w, result |-> rv])
                   ELSE n.context = ctx

LEMMA NotifyFacts ==
    ASSUME Shape, NEW h \in Handle, NEW st, NEW ctx \in ContextType,
           NEW n, n = NotifyHandleState(h, st, ctx),
           NEW w, w = trap.handles[h], NEW rv, rv = ResultOf(watch[w].trigger, st)
    PROVE  NotifyEffect(ctx, n, w, rv)
<1>1. /\ watch \in Seq(WatchType) /\ Len(watch) \in Nat /\ trap \in TrapType
      /\ w \in Ids \union {0} /\ 0 \notin Ids
      /\ \A v \in Ids : watch[v] \in WatchType
  BY WatchFacts DEF Shape, Types, TrapType
<1>2. rv \in Result /\ (IsReady(rv) => rv \in {"OK", "FAILED_PRECONDITION"})
  BY ResultTyped DEF IsReady
<1>3. CASE w = 0
  <2>1. n = [trap |-> trap, watch |-> watch, context |-> ctx]
    BY <1>3 DEF NotifyHandleState
  <2> QED
    BY <1>1, <1>3, <2>1 DEF NotifyEffect
<1>4. CASE w # 0
  <2>1. w \in Ids /\ watch[w] \in WatchType
    BY <1>1, <1>4
  <2>2. n = [trap |-> IF IsReady(rv)
                     THEN [trap EXCEPT !.ready = @ \union {w}, !.armed = FALSE]
                     ELSE [trap EXCEPT !.ready = @ \ {w}],
             watch |-> [watch EXCEPT ![w].last = rv],
             context |-> IF IsReady(rv) /\ trap.armed /\ rv # watch[w].last
                         THEN [ctx EXCEPT !.notifies =
                                 Append(@, [watch |-> w, result |-> rv])]
                         ELSE ctx]
    BY <1>4 DEF NotifyHandleState
  <2>3. /\ n.trap \in TrapType
        /\ n.trap.handles = trap.handles /\ n.trap.watches = trap.watches
        /\ n.trap.closed = trap.closed
        /\ n.trap.armed = (trap.armed /\ ~IsReady(rv))
        /\ n.trap.ready = IF IsReady(rv) THEN trap.ready \union {w} ELSE trap.ready \ {w}
    <3>1. CASE IsReady(rv)
      <4>1. n.trap = [trap EXCEPT !.ready = trap.ready \union {w}, !.armed = FALSE]
        BY <2>2, <3>1
      <4>2. PICK r \in SUBSET Ids : r = trap.ready \union {w}
        BY <1>1, <2>1 DEF TrapType
      <4>3. n.trap = [trap EXCEPT !.ready = r, !.armed = FALSE]
        BY <4>1, <4>2
      <4>4. n.trap \in TrapType
        BY <1>1, <4>2, <4>3 DEF TrapType
      <4>5. /\ n.trap.handles = trap.handles /\ n.trap.watches = trap.watches
            /\ n.trap.closed = trap.closed /\ n.trap.armed = FALSE /\ n.trap.ready = r
        BY <1>1, <4>2, <4>3 DEF TrapType
      <4> QED
        BY <3>1, <4>2, <4>4, <4>5
    <3>2. CASE ~IsReady(rv)
      <4>1. n.trap = [trap EXCEPT !.ready = trap.ready \ {w}]
        BY <2>2, <3>2
      <4> QED
        BY <1>1, <2>1, <3>2, <4>1 DEF TrapType
    <3> QED
      BY <3>1, <3>2
  <2>4. /\ n.watch \in Seq(WatchType) /\ Len(n.watch) = Len(watch)
        /\ \A v \in Ids : /\ n.watch[v].trigger = watch[v].trigger
                           /\ n.watch[v].cancelled = watch[v].cancelled
                           /\ n.watch[v].refused = watch[v].refused
                           /\ n.watch[v].last = IF v = w THEN rv ELSE watch[v].last
    <3>1. PICK x \in WatchType : x = [watch[w] EXCEPT !.last = rv]
      BY <1>2, <2>1 DEF WatchType
    <3>2. n.watch = [watch EXCEPT ![w] = x]
      BY <2>2, <3>1
    <3>3. n.watch \in Seq(WatchType) /\ Len(n.watch) = Len(watch)
      BY <1>1, <2>1, <3>2 DEF Ids
    <3>4. \A v \in Ids : n.watch[v] = IF v = w THEN x ELSE watch[v]
      BY <1>1, <2>1, <3>2 DEF Ids
    <3>5. /\ x.trigger = watch[w].trigger /\ x.cancelled = watch[w].cancelled
          /\ x.refused = watch[w].refused /\ x.last = rv
      BY <2>1, <3>1 DEF WatchType
    <3> QED
      BY <3>3, <3>4, <3>5
  <2>5. /\ n.context \in ContextType
        /\ IF IsReady(rv) /\ trap.armed /\ rv # watch[w].last
           THEN /\ n.context.cancels = ctx.cancels
                /\ n.context.notifies = Append(ctx.notifies, [watch |-> w, result |-> rv])
           ELSE n.context = ctx
    <3>1. CASE ~(IsReady(rv) /\ trap.armed /\ rv # watch[w].last)
      BY <2>2, <3>1
    <3>2. CASE IsReady(rv) /\ trap.armed /\ rv # watch[w].last
      <4>1. [watch |-> w, result |-> rv] \in NoticeType
        BY <1>2, <2>1, <3>2 DEF NoticeType
      <4>2. PICK q \in Seq(NoticeType) :
              q = Append(ctx.notifies, [watch |-> w, result |-> rv])
        <5>1. ctx.notifies \in Seq(NoticeType)
          BY DEF ContextType
        <5>2. \A q \in Seq(NoticeType), x \in NoticeType : Append(q, x) \in Seq(NoticeType)
          OBVIOUS
        <5> QED
          BY <4>1, <5>1, <5>2
      <4>3. n.context = [ctx EXCEPT !.notifies = q]
        BY <2>2, <3>2, <4>2
      <4> QED
        BY <3>2, <4>2, <4>3 DEF ContextType
    <3> QED
      BY <3>1, <3>2
  <2> QED
    BY <1>4, <2>3, <2>4, <2>5 DEF NotifyEffect
<1> QED
  BY <1>3, <1>4

LEMMA CancelTyped ==
    ASSUME NEW ctx \in ContextType, NEW w \in Ids
    PROVE  AddCancel(ctx, w) \in ContextType /\ AddCancel(ctx, w).notifies = ctx.notifies
<1>1. [watch |-> w, result |-> "CANCELLED"] \in NoticeType
  BY DEF NoticeType
<1>2. PICK q \in Seq(NoticeType) : q = Append(ctx.cancels, [watch |-> w, result |-> "CANCELLED"])
  <2>1. ctx.cancels \in Seq(NoticeType)
    BY DEF ContextType
  <2>2. \A q \in Seq(NoticeType), x \in NoticeType : Append(q, x) \in Seq(NoticeType)
    OBVIOUS
  <2> QED
    BY <1>1, <2>1, <2>2
<1>3. AddCancel(ctx, w) = [ctx EXCEPT !.cancels = q]
  BY <1>2 DEF AddCancel
<1> QED
  BY <1>2, <1>3 DEF ContextType

----------------------------------------------------------------------------
(* Steps of a call *)

\* Where a call stands next; a call that returns leaves its finalizers.
Moves(t, c, ctx) == Goto(t, c, ctx) \/ (c = Idle /\ Return(t, ctx))

\* A step creates at most one watch, and changes no trigger.
Grows ==
    /\ watch' \in Seq(WatchType)
    /\ Len(watch') \in {Len(watch), Len(watch) + 1}
    /\ \A w \in Ids : watch'[w].trigger = watch[w].trigger

LEMMA GrowsFacts ==
    ASSUME Shape, Grows
    PROVE  /\ Ids \subseteq Ids'
           /\ NoticeType \subseteq NoticeType'
           /\ Seq(NoticeType) \subseteq Seq(NoticeType')
           /\ ContextType \subseteq ContextType'
           /\ CallType \subseteq CallType'
           /\ \A c : CallOK(c) => CallOK(c)'
<1>1. Len(watch) \in Nat /\ Len(watch') \in Nat
  BY DEF Shape, Types, Grows
<1>2. Ids \subseteq Ids'
  BY <1>1 DEF Ids, Grows
<1>3. NoticeType \subseteq NoticeType'
  BY <1>2 DEF NoticeType
<1>4. Seq(NoticeType) \subseteq Seq(NoticeType')
  BY <1>3
<1>5. ContextType \subseteq ContextType'
  BY <1>4 DEF ContextType
<1>6. CallType \subseteq CallType'
  BY <1>2 DEF CallType
<1>7. \A c : CallOK(c) => CallOK(c)'
  BY <1>2 DEF CallOK, Grows
<1> QED
  BY <1>2, <1>3, <1>4, <1>5, <1>6, <1>7

LEMMA FinalizersTyped ==
    ASSUME NEW N, NEW ctx, ctx.cancels \in Seq(N), ctx.notifies \in Seq(N)
    PROVE  /\ Finalizers(ctx) \in Seq(N)
           /\ Len(Finalizers(ctx)) = Len(ctx.cancels) + Len(ctx.notifies)
BY DEF Finalizers

LEMMA MoveFacts ==
    ASSUME Shape, Grows, NEW t \in Thread, NEW c \in CallType', NEW ctx \in ContextType',
           Moves(t, c, ctx), CallOK(c)', UNCHANGED handler,
           handler[t] # NoNotice \/ final[t] = <<>>
    PROVE  /\ call' \in [Thread -> CallType']
           /\ context' \in [Thread -> ContextType']
           /\ final' \in [Thread -> Seq(NoticeType')]
           /\ handler' \in [Thread -> NoticeType' \union {NoNotice}]
           /\ call'[t] = c
           /\ \A u \in Thread \ {t} : call'[u] = call[u]
           /\ \A u \in Thread : CallOK(call[u])' /\ FinalOK(u)'
<1>1. /\ Seq(NoticeType) \subseteq Seq(NoticeType') /\ ContextType \subseteq ContextType'
      /\ CallType \subseteq CallType' /\ NoticeType \subseteq NoticeType'
      /\ \A x : CallOK(x) => CallOK(x)'
  BY GrowsFacts
<1>2. /\ call \in [Thread -> CallType] /\ context \in [Thread -> ContextType]
      /\ final \in [Thread -> Seq(NoticeType)]
      /\ handler \in [Thread -> NoticeType \union {NoNotice}]
      /\ \A u \in Thread : CallOK(call[u]) /\ FinalOK(u)
  BY DEF Shape, Types
<1>3. call' = [call EXCEPT ![t] = c]
  BY DEF Moves, Goto, Return
<1>4. /\ call'[t] = c /\ \A u \in Thread \ {t} : call'[u] = call[u]
      /\ call' \in [Thread -> CallType']
  BY <1>1, <1>2, <1>3
<1>5. ASSUME NEW u \in Thread PROVE CallOK(call[u])'
  <2>1. CASE u = t
    BY <2>1, <1>4
  <2>2. CASE u # t
    <3>1. CallOK(call[u]) /\ call'[u] = call[u]
      BY <2>2, <1>2, <1>4
    <3>2. \A x : CallOK(x) => CallOK(x)'
      BY <1>1
    <3>3. PICK x : x = call[u]
      OBVIOUS
    <3>4. CallOK(x)'
      BY <3>1, <3>2, <3>3
    <3> QED
      BY <3>1, <3>3, <3>4
  <2> QED
    BY <2>1, <2>2
<1>6. EmptyContext \in ContextType' /\ Finalizers(ctx) \in Seq(NoticeType')
  <2>1. EmptyContext \in ContextType'
    BY DEF EmptyContext, ContextType
  <2>2. ctx.cancels \in Seq(NoticeType') /\ ctx.notifies \in Seq(NoticeType')
    BY DEF ContextType
  <2> QED
    BY <2>1, <2>2, FinalizersTyped
<1>7. context' \in [Thread -> ContextType']
  BY <1>1, <1>2, <1>6 DEF Moves, Goto, Return
<1>8. final' \in [Thread -> Seq(NoticeType')]
  BY <1>1, <1>2, <1>6 DEF Moves, Goto, Return
<1>9. handler' \in [Thread -> NoticeType' \union {NoNotice}]
  BY <1>1, <1>2
<1>10. ASSUME NEW u \in Thread PROVE FinalOK(u)'
  <2>1. CASE u = t
    <3>1. CASE Goto(t, c, ctx)
      BY <2>1, <3>1, <1>2 DEF Goto, FinalOK
    <3>2. CASE c = Idle /\ Return(t, ctx)
      <4>1. handler[t] # NoNotice => final'[t] = final[t]
        BY <3>2 DEF Return
      <4> QED
        BY <2>1, <3>2, <4>1, <1>2, <1>4 DEF FinalOK, Idle
    <3> QED
      BY <3>1, <3>2 DEF Moves
  <2>2. CASE u # t
    <3>1. FinalOK(u) /\ call'[u] = call[u]
      BY <2>2, <1>2, <1>4
    <3>2. final'[u] = final[u]
      BY <2>2, <1>2 DEF Moves, Goto, Return
    <3> QED
      BY <3>1, <3>2 DEF FinalOK
  <2> QED
    BY <2>1, <2>2
<1> QED
  BY <1>4, <1>5, <1>7, <1>8, <1>9, <1>10

\* A thread in the middle of a call, or at the start of one, has no finalizers
\* of its own to run.
LEMMA Between ==
    ASSUME Shape, NEW t \in Thread, BeginCall(t) \/ call[t].pc # "idle"
    PROVE  handler[t] # NoNotice \/ final[t] = <<>>
BY DEF Shape, FinalOK, BeginCall

\* A step of a call that changes no watch keeps the shape when what it writes
\* to the port, the pipe and the trap has it.
LEMMA ShapeStep ==
    ASSUME Shape, NEW t \in Thread, NEW c \in CallType, NEW ctx \in ContextType,
           Moves(t, c, ctx), CallOK(c), UNCHANGED <<watch, handler>>,
           BeginCall(t) \/ call[t].pc # "idle",
           port' \in [Handle -> PortType], pipe' \in [Handle -> PipeType],
           trap' \in TrapType, MapsExact'
    PROVE  /\ Shape' /\ call'[t] = c
           /\ \A u \in Thread \ {t} : call'[u] = call[u]
<1>1. Grows
  BY WatchFacts DEF Shape, Types, Grows
<1>2. Ids' = Ids /\ CallType' = CallType /\ ContextType' = ContextType /\ TrapType' = TrapType
      /\ PortType' = PortType /\ PipeType' = PipeType /\ WatchType' = WatchType
      /\ NoticeType' = NoticeType
  BY DEF Ids, CallType, ContextType, TrapType, NoticeType, PortType, PipeType, WatchType
<1>3. CallOK(c)'
  BY <1>2 DEF CallOK
<1>4. /\ call' \in [Thread -> CallType']
      /\ context' \in [Thread -> ContextType']
      /\ final' \in [Thread -> Seq(NoticeType')]
      /\ handler' \in [Thread -> NoticeType' \union {NoNotice}]
      /\ call'[t] = c
      /\ \A u \in Thread \ {t} : call'[u] = call[u]
      /\ \A u \in Thread : CallOK(call[u])' /\ FinalOK(u)'
  BY <1>1, <1>2, <1>3, Between, MoveFacts
<1>5. watch' \in Seq(WatchType')
  BY <1>2 DEF Shape, Types
<1> QED
  BY <1>2, <1>4, <1>5 DEF Shape, Types

\* The same when the trap is left alone.
LEMMA QuietStep ==
    ASSUME Shape, NEW t \in Thread, NEW c \in CallType, NEW ctx \in ContextType,
           Moves(t, c, ctx), CallOK(c), UNCHANGED <<trap, watch, handler>>,
           BeginCall(t) \/ call[t].pc # "idle",
           port' \in [Handle -> PortType], pipe' \in [Handle -> PipeType]
    PROVE  /\ Shape' /\ call'[t] = c
           /\ \A u \in Thread \ {t} : call'[u] = call[u]
<1>1. trap' \in TrapType /\ MapsExact'
  BY DEF Shape, Types, MapsExact
<1> QED
  BY <1>1, ShapeStep

\* Where calls go next.
AtHandle(pc, h) == [Idle EXCEPT !.pc = pc, !.handle = h]
Telling(h, st) == [Idle EXCEPT !.pc = "notify", !.handle = h, !.state = st]
Adding(tr) == [Idle EXCEPT !.pc = "add", !.trigger = tr]

LEMMA CallsTyped ==
    ASSUME Shape
    PROVE  /\ \A h \in Handle, pc \in {"observe", "read", "close", "closed", "close_port"} :
                /\ AtHandle(pc, h) \in CallType /\ CallOK(AtHandle(pc, h))
                /\ AtHandle(pc, h).pc = pc /\ AtHandle(pc, h).handle = h
           /\ \A h \in Handle, st \in SignalsState :
                /\ Telling(h, st) \in CallType /\ CallOK(Telling(h, st))
                /\ Telling(h, st).pc = "notify" /\ Telling(h, st).handle = h
                /\ Telling(h, st).state = st
           /\ \A tr \in Triggers :
                /\ Adding(tr) \in CallType /\ CallOK(Adding(tr))
                /\ Adding(tr).pc = "add" /\ Adding(tr).trigger = tr
                /\ Adding(tr).handle = NoHandle
<1>1. ASSUME NEW h \in Handle, NEW pc \in {"observe", "read", "close", "closed", "close_port"},
             NEW c, c = AtHandle(pc, h)
      PROVE  c \in CallType /\ CallOK(c) /\ c.pc = pc /\ c.handle = h
  BY <1>1 DEF AtHandle, Idle, CallType, CallOK, Pc, TellPc, WatchPc, OwnerPc
<1>2. ASSUME NEW h \in Handle, NEW st \in SignalsState, NEW c, c = Telling(h, st)
      PROVE  c \in CallType /\ CallOK(c) /\ c.pc = "notify" /\ c.handle = h /\ c.state = st
  BY <1>2 DEF Telling, Idle, CallType, CallOK, Pc, TellPc, WatchPc, OwnerPc
<1>3. ASSUME NEW tr \in Triggers, NEW c, c = Adding(tr)
      PROVE  c \in CallType /\ CallOK(c) /\ c.pc = "add" /\ c.trigger = tr
             /\ c.handle = NoHandle
  BY <1>3 DEF Adding, Idle, CallType, CallOK, Pc, TellPc, WatchPc, OwnerPc
<1> QED
  BY <1>1, <1>2, <1>3

\* A call that moves on with the watch it has in its hands.
LEMMA CarriesOn ==
    ASSUME Shape, NEW t \in Thread, call[t].pc \in WatchPc,
           NEW pc \in WatchPc, pc # "add_notify", NEW c,
           \/ c = [call[t] EXCEPT !.pc = pc]
           \/ c = [call[t] EXCEPT !.pc = pc, !.state = NoState]
    PROVE  c \in CallType /\ CallOK(c) /\ c.pc = pc /\ c.handle = call[t].handle
           /\ c.watches = call[t].watches
<1>1. call[t] \in CallType /\ CallOK(call[t])
  BY DEF Shape, Types
<1> QED
  BY <1>1 DEF CallType, CallOK, Pc, TellPc, WatchPc, OwnerPc

\* The watch in the hands of a call.
LEMMA InHand ==
    ASSUME Shape, NEW t \in Thread, call[t].pc \in WatchPc
    PROVE  \E w \in Ids : /\ call[t].watches = {w} /\ watch[w].trigger.handle = call[t].handle
                           /\ watch[w] \in WatchType
                           /\ watch[w].trigger \in Triggers
                           /\ watch[w].trigger.context \in Context
                           /\ call[t].handle \in Handle
<1>1. call[t] \in CallType /\ CallOK(call[t])
  BY DEF Shape, Types
<1>2. PICK w \in Ids : call[t].watches = {w} /\ watch[w].trigger.handle = call[t].handle
  BY <1>1 DEF CallOK
<1>3. watch[w] \in WatchType
  BY WatchFacts DEF Shape
<1>4. watch[w].trigger \in Triggers
  BY <1>3 DEF WatchType
<1> QED
  BY <1>2, <1>3, <1>4, TriggerFacts

----------------------------------------------------------------------------
(* Calls that leave the trap and its watches alone *)

LEMMA TellTyped ==
    ASSUME Shape, NEW t \in Thread, NEW h \in Handle, NEW p \in PipeType,
           NotifyState(t, h, p), UNCHANGED <<port, trap, watch, handler>>,
           BeginCall(t) \/ call[t].pc # "idle"
    PROVE  Shape'
<1>1. StateOf(h) \in SignalsState
  BY StateTyped
<1>2. context[t] \in ContextType /\ pipe \in [Handle -> PipeType] /\ port' \in [Handle -> PortType]
  BY DEF Shape, Types
<1>3. PICK q \in PipeType : q = [p EXCEPT !.last = StateOf(h)]
  BY <1>1 DEF PipeType
<1>4. pipe' = [pipe EXCEPT ![h] = q]
  BY <1>3 DEF NotifyState
<1>5. pipe' \in [Handle -> PipeType]
  BY <1>2, <1>4
<1>6. PICK c \in CallType : CallOK(c) /\ Moves(t, c, context[t])
  <2>2. Telling(h, StateOf(h)) \in CallType /\ CallOK(Telling(h, StateOf(h)))
    BY <1>1, CallsTyped
  <2>3. Goto(t, Telling(h, StateOf(h)), context[t]) \/ Return(t, context[t])
    BY DEF NotifyState, Telling
  <2> QED
    BY <2>2, <2>3, IdleFacts DEF Moves
<1> QED
  BY <1>2, <1>5, <1>6, QuietStep

LEMMA CloseTyped ==
    ASSUME Shape, NEW t \in Thread, NEW h \in Handle, NEW p \in PipeType,
           CloseNoLock(t, h, p), UNCHANGED <<port, trap, watch, handler>>,
           BeginCall(t) \/ call[t].pc # "idle"
    PROVE  Shape'
<1>2. context[t] \in ContextType /\ pipe \in [Handle -> PipeType] /\ port' \in [Handle -> PortType]
  BY DEF Shape, Types
<1>3. PICK q \in PipeType : q = [p EXCEPT !.closed = TRUE]
  BY DEF PipeType
<1>4. pipe' = [pipe EXCEPT ![h] = q]
  BY <1>3 DEF CloseNoLock
<1>5. pipe' \in [Handle -> PipeType]
  BY <1>2, <1>4
<1>6. PICK c \in CallType : CallOK(c) /\ Moves(t, c, context[t])
  <2>2. \A pc \in {"closed", "close_port"} :
          AtHandle(pc, h) \in CallType /\ CallOK(AtHandle(pc, h))
    BY CallsTyped
  <2>3. \/ Return(t, context[t])
        \/ \E pc \in {"closed", "close_port"} : Goto(t, AtHandle(pc, h), context[t])
    BY DEF CloseNoLock, AtHandle
  <2> QED
    BY <2>2, <2>3, IdleFacts DEF Moves
<1> QED
  BY <1>2, <1>5, <1>6, QuietStep

LEMMA RemoveTyped ==
    ASSUME Shape, NEW h \in Handle, NEW c, RemoveWatcherRef(h, c)
    PROVE  pipe' \in [Handle -> PipeType]
<1>1. pipe \in [Handle -> PipeType] /\ pipe[h] \in PipeType
  BY DEF Shape, Types
<1>2. PICK r \in SUBSET Context :
        r = IF pipe[h].closed \/ pipe[h].inTransit THEN pipe[h].refs ELSE pipe[h].refs \ {c}
  BY <1>1 DEF PipeType
<1>3. pipe' = [pipe EXCEPT ![h].refs = r]
  BY <1>2 DEF RemoveWatcherRef
<1>4. [pipe[h] EXCEPT !.refs = r] \in PipeType
  BY <1>1, <1>2 DEF PipeType
<1> QED
  BY <1>1, <1>3, <1>4

LEMMA AddTriggerShape ==
    ASSUME Shape, NEW t \in Thread, AddTrigger(t)
    PROVE  Shape'
<1>1. PICK tr \in Triggers : Goto(t, Adding(tr), context[t])
  BY DEF AddTrigger, Adding
<1>3. Adding(tr) \in CallType /\ CallOK(Adding(tr))
  BY CallsTyped
<1>4. Moves(t, Adding(tr), context[t])
  BY <1>1 DEF Moves
<1> QED
  BY <1>3, <1>4, QuietStep DEF AddTrigger, Shape, Types

LEMMA AddWatcherRefShape ==
    ASSUME Shape, NEW t \in Thread, AddWatcherRef(t)
    PROVE  Shape'
<1> DEFINE h == call[t].handle
<1>1. call[t].pc = "add_ref" /\ "add_ref" \in WatchPc
  BY DEF AddWatcherRef, At, WatchPc, OwnerPc
<1>2. PICK w \in Ids : /\ call[t].watches = {w} /\ watch[w].trigger.handle = h
                       /\ watch[w].trigger.context \in Context /\ h \in Handle
  BY <1>1, InHand
<1>3. /\ pipe \in [Handle -> PipeType] /\ pipe[h] \in PipeType /\ context[t] \in ContextType
      /\ port \in [Handle -> PortType] /\ call[t] \in CallType /\ CallOK(call[t])
  BY <1>2 DEF Shape, Types
<1>4. CASE Goto(t, [call[t] EXCEPT !.pc = "add_undo"], context[t]) /\ UNCHANGED pipe
  <2>1. PICK c : c = [call[t] EXCEPT !.pc = "add_undo"]
    OBVIOUS
  <2>2. c \in CallType /\ CallOK(c)
    BY <1>1, <2>1, CarriesOn DEF WatchPc, OwnerPc
  <2>3. Moves(t, c, context[t])
    BY <1>4, <2>1 DEF Moves, Goto
  <2> QED
    BY <1>1, <1>3, <1>4, <2>2, <2>3, QuietStep DEF AddWatcherRef
<1>5. CASE /\ pipe' = [pipe EXCEPT ![h].refs = @ \union {watch[w].trigger.context},
                                   ![h].last = IF @ = NoState THEN @ ELSE StateOf(h)]
           /\ Goto(t, [call[t] EXCEPT !.pc = "add_notify", !.state = StateOf(h)], context[t])
  <2>1. StateOf(h) \in SignalsState
    BY <1>2, StateTyped
  <2>2. PICK c : c = [call[t] EXCEPT !.pc = "add_notify", !.state = StateOf(h)]
    OBVIOUS
  <2>3. c \in CallType /\ CallOK(c)
    BY <1>1, <1>3, <2>1, <2>2 DEF CallType, CallOK, Pc, TellPc, WatchPc, OwnerPc
  <2>4. PICK r \in SUBSET Context : r = pipe[h].refs \union {watch[w].trigger.context}
    BY <1>2, <1>3 DEF PipeType
  <2>5. PICK l \in SignalsState \union {NoState} :
          l = IF pipe[h].last = NoState THEN pipe[h].last ELSE StateOf(h)
    BY <2>1
  <2>6. PICK q \in PipeType : q = [pipe[h] EXCEPT !.refs = r, !.last = l]
    BY <1>3, <2>4, <2>5 DEF PipeType
  <2>7. pipe' = [pipe EXCEPT ![h] = q]
    BY <1>5, <1>2, <1>3, <2>4, <2>5, <2>6 DEF PipeType
  <2>8. pipe' \in [Handle -> PipeType]
    BY <1>3, <2>7
  <2>9. Moves(t, c, context[t])
    BY <1>5, <2>2 DEF Moves, Goto
  <2> QED
    BY <1>1, <1>3, <2>3, <2>8, <2>9, QuietStep DEF AddWatcherRef
<1> QED
  BY <1>2, <1>4, <1>5 DEF AddWatcherRef

LEMMA AddCheckShape ==
    ASSUME Shape, NEW t \in Thread, AddCheck(t)
    PROVE  Shape'
<1>1. call[t].pc = "add_check" /\ context[t] \in ContextType
  BY DEF AddCheck, At, Shape, Types
<1>2. PICK c : c = [call[t] EXCEPT !.pc = "add_remove"]
  OBVIOUS
<1>3. c \in CallType /\ CallOK(c)
  BY <1>1, <1>2, CarriesOn DEF WatchPc, OwnerPc
<1>4. Moves(t, c, context[t]) \/ Moves(t, Idle, context[t])
  BY <1>2 DEF Moves, AddCheck
<1> QED
  BY <1>1, <1>3, <1>4, IdleFacts, QuietStep DEF AddCheck, Shape, Types

LEMMA AddRemoveShape ==
    ASSUME Shape, NEW t \in Thread, AddRemove(t)
    PROVE  Shape'
<1>1. call[t].pc = "add_remove" /\ context[t] \in ContextType
  BY DEF AddRemove, At, Shape, Types
<1>2. call[t].handle \in Handle
  BY <1>1, InHand DEF WatchPc, OwnerPc
<1>3. pipe' \in [Handle -> PipeType]
  BY <1>2, RemoveTyped DEF AddRemove
<1>4. Moves(t, Idle, context[t])
  BY DEF Moves, AddRemove
<1> QED
  BY <1>1, <1>3, <1>4, IdleFacts, QuietStep DEF AddRemove, Shape, Types

LEMMA RemoveRefShape ==
    ASSUME Shape, NEW t \in Thread, RemoveRef(t)
    PROVE  Shape'
<1>1. call[t].pc = "remove_ref" /\ context[t] \in ContextType
  BY DEF RemoveRef, At, Shape, Types
<1>2. call[t].handle \in Handle
  BY <1>1, InHand DEF WatchPc, OwnerPc
<1>3. pipe' \in [Handle -> PipeType]
  BY <1>2, RemoveTyped DEF RemoveRef
<1>4. PICK c : c = [call[t] EXCEPT !.pc = "remove_handle"]
  OBVIOUS
<1>5. c \in CallType /\ CallOK(c)
  BY <1>1, <1>4, CarriesOn DEF WatchPc, OwnerPc
<1>6. Moves(t, c, context[t])
  BY <1>4 DEF Moves, RemoveRef
<1> QED
  BY <1>1, <1>3, <1>5, <1>6, QuietStep DEF RemoveRef, Shape, Types

LEMMA CloseTrapNextShape ==
    ASSUME Shape, NEW t \in Thread, CloseTrapNext(t)
    PROVE  Shape'
<1>1. call[t].pc = "close_trap" /\ context[t] \in ContextType /\ call[t] \in CallType
  BY DEF CloseTrapNext, At, Shape, Types
<1>2. CASE Return(t, context[t]) /\ UNCHANGED pipe
  <2>1. Moves(t, Idle, context[t])
    BY <1>2 DEF Moves
  <2> QED
    BY <1>1, <1>2, <2>1, IdleFacts, QuietStep DEF CloseTrapNext, Shape, Types
<1>3. ASSUME NEW w \in call[t].watches,
             RemoveWatcherRef(watch[w].trigger.handle, watch[w].trigger.context),
             Goto(t, [call[t] EXCEPT !.watches = @ \ {w}], AddCancel(context[t], w))
      PROVE  Shape'
  <2>1. w \in Ids
    BY <1>1 DEF CallType
  <2>2. watch[w].trigger \in Triggers
    BY <2>1, WatchFacts DEF Shape, WatchType
  <2>3. watch[w].trigger.handle \in Handle
    BY <2>2, TriggerFacts
  <2>4. pipe' \in [Handle -> PipeType]
    BY <1>3, <2>3, RemoveTyped
  <2>5. PICK ws \in SUBSET Ids : ws = call[t].watches \ {w}
    BY <1>1 DEF CallType
  <2>6. PICK c \in CallType : c = [call[t] EXCEPT !.watches = ws]
    BY <1>1, <2>5 DEF CallType
  <2>7. CallOK(c)
    BY <1>1, <2>6 DEF CallOK, CallType, TellPc, WatchPc, OwnerPc
  <2>8. AddCancel(context[t], w) \in ContextType
    BY <1>1, <2>1, CancelTyped
  <2>9. Moves(t, c, AddCancel(context[t], w))
    BY <1>3, <2>5, <2>6 DEF Moves
  <2> QED
    BY <1>1, <2>4, <2>7, <2>8, <2>9, QuietStep DEF CloseTrapNext, Shape, Types
<1> QED
  BY <1>2, <1>3 DEF CloseTrapNext

LEMMA PortEventShape ==
    ASSUME Shape, NEW t \in Thread, PortEvent(t)
    PROVE  Shape'
<1>1. /\ context[t] \in ContextType /\ pipe \in [Handle -> PipeType]
      /\ port \in [Handle -> PortType]
  BY DEF Shape, Types
<1>2. PICK h \in Handle :
        /\ \/ /\ port[h].coming > 0
              /\ port' = [port EXCEPT ![h].queued = @ + 1, ![h].coming = @ - 1]
           \/ \E n \in 0 .. port[h].coming :
                port' = [port EXCEPT ![h].peerClosed = TRUE, ![h].coming = n]
        /\ Goto(t, AtHandle("observe", h), context[t])
  BY DEF PortEvent, AtHandle
<1>3. port' \in [Handle -> PortType]
  <2>1. port[h] \in PortType
    BY <1>1
  <2>2. CASE port[h].coming > 0 /\ port' = [port EXCEPT ![h].queued = @ + 1, ![h].coming = @ - 1]
    <3>1. PICK a, b \in Nat : a = port[h].queued + 1 /\ b = port[h].coming - 1
      BY <2>1, <2>2 DEF PortType
    <3>2. PICK q \in PortType : q = [port[h] EXCEPT !.queued = a, !.coming = b]
      BY <2>1, <3>1 DEF PortType
    <3>3. port' = [port EXCEPT ![h] = q]
      BY <1>1, <2>1, <2>2, <3>1, <3>2 DEF PortType
    <3> QED
      BY <1>1, <3>3
  <2>3. ASSUME NEW n \in 0 .. port[h].coming,
               port' = [port EXCEPT ![h].peerClosed = TRUE, ![h].coming = n]
        PROVE  port' \in [Handle -> PortType]
    <3>1. n \in Nat
      BY <2>1 DEF PortType
    <3>2. PICK q \in PortType : q = [port[h] EXCEPT !.peerClosed = TRUE, !.coming = n]
      BY <2>1, <3>1 DEF PortType
    <3>3. port' = [port EXCEPT ![h] = q]
      BY <1>1, <2>1, <2>3, <3>2 DEF PortType
    <3> QED
      BY <1>1, <3>3
  <2> QED
    BY <1>2, <2>2, <2>3
<1>4. AtHandle("observe", h) \in CallType /\ CallOK(AtHandle("observe", h))
  BY CallsTyped
<1>5. Moves(t, AtHandle("observe", h), context[t])
  BY <1>2 DEF Moves
<1> QED
  BY <1>1, <1>3, <1>4, <1>5, QuietStep DEF PortEvent

LEMMA PortStatusChangedShape ==
    ASSUME Shape, NEW t \in Thread, PortStatusChanged(t)
    PROVE  Shape'
<1>1. /\ call[t].pc = "observe" /\ context[t] \in ContextType
      /\ call[t] \in CallType /\ CallOK(call[t])
  BY DEF PortStatusChanged, At, Shape, Types
<1>2. PICK c : c = [call[t] EXCEPT !.pc = "status"]
  OBVIOUS
<1>3. c \in CallType /\ CallOK(c)
  BY <1>1, <1>2 DEF CallType, CallOK, Pc, TellPc, WatchPc, OwnerPc
<1>4. Moves(t, c, context[t]) \/ Moves(t, Idle, context[t])
  BY <1>2 DEF Moves, PortStatusChanged
<1> QED
  BY <1>1, <1>3, <1>4, IdleFacts, QuietStep DEF PortStatusChanged, Shape, Types

LEMMA OnPortStatusChangedShape ==
    ASSUME Shape, NEW t \in Thread, OnPortStatusChanged(t)
    PROVE  Shape'
<1> DEFINE h == call[t].handle
<1>1. call[t].pc = "status" /\ context[t] \in ContextType /\ CallOK(call[t])
  BY DEF OnPortStatusChanged, At, Shape, Types
<1>2. h \in Handle
  BY <1>1 DEF CallOK
<1>3. pipe[h] \in PipeType
  BY <1>2 DEF Shape, Types
<1>4. CASE Return(t, context[t]) /\ UNCHANGED pipe
  <2>1. Moves(t, Idle, context[t])
    BY <1>4 DEF Moves
  <2> QED
    BY <1>1, <1>4, <2>1, IdleFacts, QuietStep DEF OnPortStatusChanged, Shape, Types
<1>5. CASE NotifyState(t, h, pipe[h])
  BY <1>1, <1>2, <1>3, <1>5, TellTyped DEF OnPortStatusChanged
<1> QED
  BY <1>4, <1>5 DEF OnPortStatusChanged

LEMMA ReadMessageShape ==
    ASSUME Shape, NEW t \in Thread, ReadMessage(t)
    PROVE  Shape'
<1>1. /\ context[t] \in ContextType /\ pipe \in [Handle -> PipeType]
      /\ port \in [Handle -> PortType]
  BY DEF Shape, Types
<1>2. PICK h \in Handle : /\ port[h].queued > 0
                          /\ port' = [port EXCEPT ![h].queued = @ - 1]
                          /\ Goto(t, AtHandle("read", h), context[t])
  BY DEF ReadMessage, AtHandle
<1>3. port' \in [Handle -> PortType]
  <2>1. port[h] \in PortType
    BY <1>1
  <2>2. PICK a \in Nat : a = port[h].queued - 1
    BY <1>2, <2>1 DEF PortType
  <2>3. PICK q \in PortType : q = [port[h] EXCEPT !.queued = a]
    BY <2>1, <2>2 DEF PortType
  <2>4. port' = [port EXCEPT ![h] = q]
    BY <1>2, <2>2, <2>3
  <2> QED
    BY <1>1, <2>4
<1>4. AtHandle("read", h) \in CallType /\ CallOK(AtHandle("read", h))
  BY CallsTyped
<1>5. Moves(t, AtHandle("read", h), context[t])
  BY <1>2 DEF Moves
<1> QED
  BY <1>1, <1>3, <1>4, <1>5, QuietStep DEF ReadMessage

LEMMA ReadNotifyShape ==
    ASSUME Shape, NEW t \in Thread, ReadNotify(t)
    PROVE  Shape'
<1>1. call[t].pc = "read" /\ CallOK(call[t])
  BY DEF ReadNotify, At, Shape
<1>2. call[t].handle \in Handle
  BY <1>1 DEF CallOK
<1>3. pipe[call[t].handle] \in PipeType
  BY <1>2 DEF Shape, Types
<1> QED
  BY <1>1, <1>2, <1>3, TellTyped DEF ReadNotify

LEMMA CloseHandleShape ==
    ASSUME Shape, NEW t \in Thread, CloseHandle(t)
    PROVE  Shape'
<1>1. /\ context[t] \in ContextType /\ pipe \in [Handle -> PipeType]
      /\ port \in [Handle -> PortType]
  BY DEF Shape, Types
<1>2. PICK h \in Handle : /\ pipe' = [pipe EXCEPT ![h].entry = "gone"]
                          /\ Goto(t, AtHandle("close", h), context[t])
  BY DEF CloseHandle, AtHandle
<1>3. pipe' \in [Handle -> PipeType]
  <2>1. PICK q \in PipeType : q = [pipe[h] EXCEPT !.entry = "gone"]
    BY <1>1 DEF PipeType
  <2>2. pipe' = [pipe EXCEPT ![h] = q]
    BY <1>2, <2>1
  <2> QED
    BY <1>1, <2>2
<1>4. AtHandle("close", h) \in CallType /\ CallOK(AtHandle("close", h))
  BY CallsTyped
<1>5. Moves(t, AtHandle("close", h), context[t])
  BY <1>2 DEF Moves
<1> QED
  BY <1>1, <1>3, <1>4, <1>5, QuietStep DEF CloseHandle

LEMMA ClosePipeShape ==
    ASSUME Shape, NEW t \in Thread, ClosePipe(t)
    PROVE  Shape'
<1>1. call[t].pc = "close" /\ CallOK(call[t])
  BY DEF ClosePipe, At, Shape
<1>2. call[t].handle \in Handle
  BY <1>1 DEF CallOK
<1>3. pipe[call[t].handle] \in PipeType
  BY <1>2 DEF Shape, Types
<1> QED
  BY <1>1, <1>2, <1>3, CloseTyped DEF ClosePipe

LEMMA ClosePortShape ==
    ASSUME Shape, NEW t \in Thread, ClosePort(t)
    PROVE  Shape'
<1> DEFINE h == call[t].handle
<1>1. call[t].pc = "close_port" /\ context[t] \in ContextType /\ CallOK(call[t])
  BY DEF ClosePort, At, Shape, Types
<1>2. h \in Handle /\ pipe \in [Handle -> PipeType] /\ port \in [Handle -> PortType]
  BY <1>1 DEF CallOK, Shape, Types
<1>3. pipe' \in [Handle -> PipeType]
  <2>1. PICK q \in PipeType : q = [pipe[h] EXCEPT !.observed = FALSE]
    BY <1>2 DEF PipeType
  <2>2. pipe' = [pipe EXCEPT ![h] = q]
    BY <2>1 DEF ClosePort
  <2> QED
    BY <1>2, <2>2
<1>4. port' \in [Handle -> PortType]
  <2>1. PICK q \in PortType : q = [port[h] EXCEPT !.live = FALSE]
    BY <1>2 DEF PortType
  <2>2. port' = [port EXCEPT ![h] = q]
    BY <2>1 DEF ClosePort
  <2> QED
    BY <1>2, <2>2
<1>5. Moves(t, Idle, context[t])
  BY DEF ClosePort, Moves
<1> QED
  BY <1>1, <1>3, <1>4, <1>5, IdleFacts, QuietStep DEF ClosePort

LEMMA BeginTransitShape ==
    ASSUME Shape, NEW t \in Thread, BeginTransit(t)
    PROVE  Shape'
<1>1. PICK h \in Handle :
        pipe' = [pipe EXCEPT ![h].entry = "busy", ![h].inTransit = TRUE]
  BY DEF BeginTransit
<1>2. /\ pipe \in [Handle -> PipeType] /\ call \in [Thread -> CallType]
      /\ context \in [Thread -> ContextType] /\ CallOK(call[t])
  BY DEF Shape, Types
<1>3. pipe' \in [Handle -> PipeType]
  <2>1. PICK q \in PipeType : q = [pipe[h] EXCEPT !.entry = "busy", !.inTransit = TRUE]
    BY <1>2 DEF PipeType
  <2>2. pipe' = [pipe EXCEPT ![h] = q]
    BY <1>1, <1>2, <2>1 DEF PipeType
  <2> QED
    BY <1>2, <2>2
<1>4. Moves(t, call[t], context[t])
  BY <1>2 DEF Moves, Goto, BeginTransit
<1> QED
  BY <1>2, <1>3, <1>4, QuietStep DEF BeginTransit, Shape, Types

LEMMA CancelTransitShape ==
    ASSUME Shape, NEW t \in Thread, CancelTransit(t)
    PROVE  Shape'
<1>1. PICK h \in Handle :
        NotifyState(t, h, [pipe[h] EXCEPT !.inTransit = FALSE, !.entry = "open"])
  BY DEF CancelTransit
<1>2. [pipe[h] EXCEPT !.inTransit = FALSE, !.entry = "open"] \in PipeType
  BY DEF Shape, Types, PipeType
<1> QED
  BY <1>1, <1>2, TellTyped DEF CancelTransit

LEMMA CompleteTransitShape ==
    ASSUME Shape, NEW t \in Thread, CompleteTransit(t)
    PROVE  Shape'
<1>1. PICK h \in Handle :
        CloseNoLock(t, h, [pipe[h] EXCEPT !.entry = "gone", !.observed = FALSE,
                                          !.transferred = TRUE, !.inTransit = FALSE])
  BY DEF CompleteTransit
<1>2. [pipe[h] EXCEPT !.entry = "gone", !.observed = FALSE,
                      !.transferred = TRUE, !.inTransit = FALSE] \in PipeType
  BY DEF Shape, Types, PipeType
<1> QED
  BY <1>1, <1>2, CloseTyped DEF CompleteTransit

----------------------------------------------------------------------------
(* Calls that change the trap *)

LEMMA RemoveTriggerShape ==
    ASSUME Shape, NEW t \in Thread, RemoveTrigger(t)
    PROVE  Shape'
<1>1. PICK c, w :
        /\ c \in Context /\ w = trap.watches[c] /\ w # 0
        /\ trap' = [trap EXCEPT !.watches[c] = 0]
        /\ Goto(t, [Idle EXCEPT !.pc = "remove_ref", !.watches = {w},
                                !.handle = watch[w].trigger.handle],
                AddCancel(context[t], w))
  BY DEF RemoveTrigger
<1>2. context[t] \in ContextType /\ trap \in TrapType /\ MapsExact
  BY DEF Shape, Types
<1>3. w \in Ids
  BY <1>1, <1>2 DEF TrapType
<1>4. watch[w].trigger \in Triggers
  BY <1>3, WatchFacts DEF Shape, WatchType
<1>5. PICK h \in Handle : h = watch[w].trigger.handle
  BY <1>4, TriggerFacts
<1>6. PICK ws \in SUBSET Ids : ws = {w}
  BY <1>3
<1>7. PICK d \in CallType : d = [Idle EXCEPT !.pc = "remove_ref", !.watches = ws, !.handle = h]
  BY DEF Idle, CallType, Pc
<1>8. CallOK(d)
  BY <1>3, <1>5, <1>6, <1>7 DEF Idle, CallOK, TellPc, WatchPc, OwnerPc
<1>9. AddCancel(context[t], w) \in ContextType
  BY <1>2, <1>3, CancelTyped
<1>10. Moves(t, d, AddCancel(context[t], w))
  BY <1>1, <1>5, <1>6, <1>7 DEF Moves
<1>11. trap' \in TrapType
  <2>1. PICK m \in [Context -> Ids \union {0}] : m = [trap.watches EXCEPT ![c] = 0]
    BY <1>2 DEF TrapType
  <2>2. trap' = [trap EXCEPT !.watches = m]
    BY <1>1, <2>1
  <2> QED
    BY <1>2, <2>1, <2>2 DEF TrapType
<1>12. MapsExact'
  BY <1>1, <1>2 DEF MapsExact, TrapType, RemoveTrigger
<1> QED
  BY <1>8, <1>9, <1>10, <1>11, <1>12, ShapeStep DEF RemoveTrigger, Shape, Types

LEMMA RemoveHandleShape ==
    ASSUME Shape, NEW t \in Thread, RemoveHandle(t)
    PROVE  Shape'
<1> DEFINE h == call[t].handle
<1>1. call[t].pc = "remove_handle" /\ context[t] \in ContextType /\ trap \in TrapType /\ MapsExact
  BY DEF RemoveHandle, At, Shape, Types
<1>2. h \in Handle
  BY <1>1, InHand DEF WatchPc, OwnerPc
<1>3. PICK r \in SUBSET Ids : r = trap.ready \ {trap.handles[h]}
  BY <1>1 DEF TrapType
<1>4. PICK m \in [Handle -> Ids \union {0}] : m = [trap.handles EXCEPT ![h] = 0]
  BY <1>1 DEF TrapType
<1>5. trap' = [trap EXCEPT !.ready = r, !.handles = m]
  BY <1>1, <1>3, <1>4 DEF RemoveHandle, TrapType
<1>6. trap' \in TrapType
  BY <1>1, <1>3, <1>4, <1>5 DEF TrapType
<1>7. trap'.watches = trap.watches /\ trap'.handles = m /\ trap'.closed = trap.closed
  BY <1>1, <1>5 DEF TrapType
<1>8. \A k \in Handle : m[k] = IF k = h THEN 0 ELSE trap.handles[k]
  BY <1>1, <1>2, <1>4 DEF TrapType
<1>9. MapsExact'
  BY <1>1, <1>7, <1>8 DEF MapsExact, RemoveHandle
<1>10. Moves(t, Idle, context[t])
  BY DEF RemoveHandle, Moves
<1> QED
  BY <1>1, <1>6, <1>9, <1>10, IdleFacts, ShapeStep DEF RemoveHandle, Shape, Types

LEMMA ArmShape ==
    ASSUME Shape, NEW t \in Thread, Arm(t)
    PROVE  Shape'
<1>1. context[t] \in ContextType /\ trap \in TrapType /\ MapsExact
  BY DEF Shape, Types
<1>2. trap' = [trap EXCEPT !.armed = TRUE]
  BY DEF Arm
<1>3. trap' \in TrapType /\ MapsExact'
  BY <1>1, <1>2 DEF TrapType, MapsExact, Arm
<1>4. Moves(t, Idle, context[t])
  BY DEF Arm, Moves
<1> QED
  BY <1>1, <1>3, <1>4, IdleFacts, ShapeStep DEF Arm, Shape, Types

LEMMA CloseTrapShape ==
    ASSUME Shape, NEW t \in Thread, CloseTrap(t)
    PROVE  Shape'
<1>1. context[t] \in ContextType /\ trap \in TrapType /\ MapsExact
  BY DEF Shape, Types
<1>2. PICK ws \in SUBSET Ids : ws = {trap.watches[c] : c \in Context} \ {0}
  BY <1>1 DEF TrapType
<1>3. PICK d \in CallType : d = [Idle EXCEPT !.pc = "close_trap", !.watches = ws]
  BY DEF Idle, CallType, Pc
<1>4. CallOK(d)
  BY <1>3 DEF Idle, CallOK, TellPc, WatchPc, OwnerPc
<1>5. Moves(t, d, context[t])
  BY <1>2, <1>3 DEF CloseTrap, Moves
<1>6. PICK m \in [Context -> Ids \union {0}], n \in [Handle -> Ids \union {0}] :
        m = [c \in Context |-> 0] /\ n = [h \in Handle |-> 0]
  OBVIOUS
<1>7. trap' = [trap EXCEPT !.closed = TRUE, !.watches = m, !.handles = n]
  BY <1>6 DEF CloseTrap
<1>8. trap' \in TrapType
  BY <1>1, <1>6, <1>7 DEF TrapType
<1>9. trap'.watches = m /\ trap'.handles = n
  BY <1>1, <1>7 DEF TrapType
<1>10. MapsExact'
  BY <1>6, <1>9 DEF MapsExact
<1> QED
  BY <1>1, <1>4, <1>5, <1>8, <1>10, ShapeStep DEF CloseTrap, Shape, Types

LEMMA NotifyHandleClosedShape ==
    ASSUME Shape, NEW t \in Thread, NotifyHandleClosed(t)
    PROVE  Shape'
<1>1. PICK h, w : h = call[t].handle /\ w = trap.handles[h]
  OBVIOUS
<1>2. /\ call[t].pc = "closed" /\ context[t] \in ContextType /\ trap \in TrapType
      /\ MapsExact /\ call[t] \in CallType /\ CallOK(call[t])
  BY DEF NotifyHandleClosed, At, Shape, Types
<1>3. h \in Handle /\ w \in Ids \union {0} /\ 0 \notin Ids
  BY <1>1, <1>2, WatchFacts DEF CallOK, TrapType, Shape
<1>4. PICK ctx \in ContextType : ctx = IF w = 0 THEN context[t] ELSE AddCancel(context[t], w)
  BY <1>2, <1>3, CancelTyped
<1>5. PICK c : c = [call[t] EXCEPT !.pc = "close_port"]
  OBVIOUS
<1>6. c \in CallType /\ CallOK(c)
  BY <1>2, <1>5 DEF CallType, CallOK, Pc, TellPc, WatchPc, OwnerPc
<1>7. Moves(t, c, ctx) \/ Moves(t, Idle, ctx)
  BY <1>1, <1>4, <1>5 DEF NotifyHandleClosed, Moves
<1>8. trap' \in TrapType /\ MapsExact'
  <2>1. CASE w = 0
    BY <1>1, <1>2, <2>1 DEF NotifyHandleClosed, MapsExact
  <2>2. CASE w # 0
    <3>1. PICK k : k = watch[w].trigger.context
      OBVIOUS
    <3>2. PICK r \in SUBSET Ids : r = trap.ready \ {w}
      BY <1>2 DEF TrapType
    <3>3. PICK m \in [Handle -> Ids \union {0}] : m = [trap.handles EXCEPT ![h] = 0]
      BY <1>2 DEF TrapType
    <3>4. PICK n \in [Context -> Ids \union {0}] : n = [trap.watches EXCEPT ![k] = 0]
      BY <1>2 DEF TrapType
    <3>5. trap' = [trap EXCEPT !.watches = n, !.ready = r, !.handles = m]
      BY <1>1, <1>2, <2>2, <3>1, <3>2, <3>3, <3>4 DEF NotifyHandleClosed, TrapType
    <3>6. trap' \in TrapType
      BY <1>2, <3>2, <3>3, <3>4, <3>5 DEF TrapType
    <3>7. trap'.watches = n /\ trap'.handles = m /\ trap'.closed = trap.closed
      BY <1>2, <3>5 DEF TrapType
    <3>8. /\ \A g \in Handle : m[g] = IF g = h THEN 0 ELSE trap.handles[g]
          /\ \A g \in Context : n[g] = IF g = k THEN 0 ELSE trap.watches[g]
      BY <1>2, <1>3, <3>3, <3>4 DEF TrapType
    <3>9. UNCHANGED watch
      BY DEF NotifyHandleClosed
    <3>10. MapsExact'
      BY <1>2, <3>7, <3>8, <3>9 DEF MapsExact
    <3> QED
      BY <3>6, <3>10
  <2> QED
    BY <2>1, <2>2
<1> QED
  BY <1>2, <1>6, <1>7, <1>8, IdleFacts, ShapeStep DEF NotifyHandleClosed, Shape, Types

----------------------------------------------------------------------------
(* Calls that change a watch *)

LEMMA GrowStep ==
    ASSUME Shape, Grows, NEW t \in Thread, NEW c \in CallType', NEW ctx \in ContextType',
           Moves(t, c, ctx), CallOK(c)', UNCHANGED <<port, pipe, handler>>,
           call[t].pc # "idle", trap' \in TrapType', MapsExact'
    PROVE  /\ Shape' /\ call'[t] = c
           /\ \A u \in Thread \ {t} : call'[u] = call[u]
<1>1. PortType' = PortType /\ PipeType' = PipeType /\ WatchType' = WatchType
  BY DEF PortType, PipeType, WatchType
<1>2. /\ call' \in [Thread -> CallType']
      /\ context' \in [Thread -> ContextType']
      /\ final' \in [Thread -> Seq(NoticeType')]
      /\ handler' \in [Thread -> NoticeType' \union {NoNotice}]
      /\ call'[t] = c
      /\ \A u \in Thread \ {t} : call'[u] = call[u]
      /\ \A u \in Thread : CallOK(call[u])' /\ FinalOK(u)'
  BY Between, MoveFacts
<1> QED
  BY <1>1, <1>2 DEF Shape, Types, Grows

\* What a step that keeps every watch, and their number, leaves as it was.
LEMMA SameIds ==
    ASSUME Len(watch') = Len(watch)
    PROVE  /\ Ids' = Ids /\ CallType' = CallType /\ ContextType' = ContextType
           /\ TrapType' = TrapType /\ NoticeType' = NoticeType
<1>1. Ids' = Ids
  BY DEF Ids
<1>2. NoticeType' = NoticeType
  BY <1>1 DEF NoticeType
<1> QED
  BY <1>1, <1>2 DEF CallType, ContextType, TrapType

LEMMA TrapNotified ==
    ASSUME Shape, NEW h \in Handle, NEW st, NEW ctx \in ContextType,
           NEW n, n = NotifyHandleState(h, st, ctx), trap' = n.trap, watch' = n.watch
    PROVE  /\ Grows /\ MapsExact' /\ trap' \in TrapType' /\ n.context \in ContextType'
           /\ Len(watch') = Len(watch)
<1>1. PICK w, rv : w = trap.handles[h] /\ rv = ResultOf(watch[w].trigger, st)
  OBVIOUS
<1>0. NotifyEffect(ctx, n, w, rv)
  BY <1>1, NotifyFacts
<1>2. /\ n.trap \in TrapType /\ n.watch \in Seq(WatchType) /\ n.context \in ContextType
      /\ n.trap.handles = trap.handles /\ n.trap.watches = trap.watches
      /\ n.trap.closed = trap.closed
      /\ Len(n.watch) = Len(watch)
      /\ \A v \in Ids : n.watch[v].trigger = watch[v].trigger
  BY <1>0 DEF NotifyEffect
<1>3. Grows
  BY <1>2 DEF Grows
<1>4. MapsExact /\ trap.handles \in [Handle -> Ids \union {0}]
      /\ trap.watches \in [Context -> Ids \union {0}]
  BY DEF Shape, Types, TrapType
<1>5. MapsExact'
  BY <1>2, <1>4 DEF MapsExact
<1> QED
  BY <1>2, <1>3, <1>5, SameIds

LEMMA NotifyShape ==
    ASSUME Shape, NEW t \in Thread, Notify(t)
    PROVE  Shape' /\ Len(watch') = Len(watch)
<1>1. PICK n : n = NotifyHandleState(call[t].handle, call[t].state, context[t])
  OBVIOUS
<1>2. trap' = n.trap /\ watch' = n.watch /\ Return(t, n.context)
  BY <1>1 DEF Notify
<1>3. call[t].pc = "notify" /\ context[t] \in ContextType /\ CallOK(call[t])
  BY DEF Notify, At, Shape, Types
<1>4. call[t].handle \in Handle
  BY <1>3 DEF CallOK
<1>5. /\ Grows /\ MapsExact' /\ trap' \in TrapType' /\ n.context \in ContextType'
      /\ Len(watch') = Len(watch)
  BY <1>1, <1>2, <1>3, <1>4, TrapNotified
<1>6. Idle \in CallType' /\ CallOK(Idle)'
  BY DEF Idle, CallType, CallOK, Pc, TellPc, WatchPc, OwnerPc
<1>7. Moves(t, Idle, n.context)
  BY <1>2 DEF Moves
<1> QED
  BY <1>3, <1>5, <1>6, <1>7, GrowStep DEF Notify

LEMMA AddNotifyShape ==
    ASSUME Shape, NEW t \in Thread, AddNotify(t)
    PROVE  Shape' /\ Len(watch') = Len(watch)
<1>1. PICK n : n = NotifyHandleState(call[t].handle, call[t].state, context[t])
  OBVIOUS
<1>2. PICK c : c = [call[t] EXCEPT !.pc = "add_check", !.state = NoState]
  OBVIOUS
<1>3. trap' = n.trap /\ watch' = n.watch /\ Goto(t, c, n.context)
  BY <1>1, <1>2 DEF AddNotify
<1>4. call[t].pc = "add_notify" /\ context[t] \in ContextType /\ CallOK(call[t])
  BY DEF AddNotify, At, Shape, Types
<1>5. call[t].handle \in Handle
  BY <1>4 DEF CallOK
<1>6. /\ Grows /\ MapsExact' /\ trap' \in TrapType' /\ n.context \in ContextType'
      /\ Len(watch') = Len(watch)
  BY <1>1, <1>3, <1>4, <1>5, TrapNotified
<1>7. c \in CallType /\ CallOK(c)
  BY <1>2, <1>4, CarriesOn DEF WatchPc, OwnerPc
<1>8. c \in CallType' /\ CallOK(c)'
  BY <1>6, <1>7, GrowsFacts
<1>9. Moves(t, c, n.context)
  BY <1>3 DEF Moves
<1> QED
  BY <1>4, <1>6, <1>8, <1>9, GrowStep DEF AddNotify

\* AddUndo takes one watch out of both maps and marks it.
LEMMA AddUndoFacts ==
    ASSUME Shape, NEW t \in Thread, AddUndo(t)
    PROVE  \E w \in Ids : \E h \in Handle : \E k \in Context :
             /\ call[t].watches = {w} /\ h = call[t].handle
             /\ watch[w].trigger.handle = h /\ watch[w].trigger.context = k
             /\ Grows /\ Len(watch') = Len(watch) /\ trap' \in TrapType
             /\ \A v \in Ids : /\ watch'[v].trigger = watch[v].trigger
                               /\ watch'[v].cancelled = watch[v].cancelled
                               /\ watch'[v].refused = (watch[v].refused \/ v = w)
                               /\ watch'[v].last = watch[v].last
             /\ trap'.closed = trap.closed /\ trap'.armed = trap.armed
             /\ trap'.ready = trap.ready
             /\ \A g \in Handle : trap'.handles[g] = IF g = h THEN 0 ELSE trap.handles[g]
             /\ \A g \in Context : trap'.watches[g] = IF g = k THEN 0 ELSE trap.watches[g]
<1>1. call[t].pc = "add_undo" /\ call[t].pc \in WatchPc
  BY DEF AddUndo, At, WatchPc, OwnerPc
<1>2. PICK w \in Ids : /\ call[t].watches = {w} /\ watch[w].trigger.handle = call[t].handle
                       /\ watch[w].trigger.context \in Context /\ call[t].handle \in Handle
  BY <1>1, InHand
<1>3. PICK h \in Handle, k \in Context : h = call[t].handle /\ k = watch[w].trigger.context
  BY <1>2
<1>4. /\ trap' = [trap EXCEPT !.watches[k] = 0, !.handles[h] = 0]
      /\ watch' = [watch EXCEPT ![w].refused = TRUE]
  BY <1>2, <1>3 DEF AddUndo
<1>5. trap \in TrapType /\ watch \in Seq(WatchType) /\ Len(watch) \in Nat
      /\ \A v \in Ids : watch[v] \in WatchType
  BY WatchFacts DEF Shape, Types
<1>6. PICK x \in WatchType : x = [watch[w] EXCEPT !.refused = TRUE]
  BY <1>5 DEF WatchType
<1>7. watch' = [watch EXCEPT ![w] = x]
  BY <1>4, <1>6
<1>8. watch' \in Seq(WatchType) /\ Len(watch') = Len(watch)
  BY <1>5, <1>7 DEF Ids
<1>9. \A v \in Ids : watch'[v] = IF v = w THEN x ELSE watch[v]
  BY <1>5, <1>7 DEF Ids
<1>10. /\ x.trigger = watch[w].trigger /\ x.cancelled = watch[w].cancelled
       /\ x.refused = TRUE /\ x.last = watch[w].last
  BY <1>5, <1>6 DEF WatchType
<1>11. \A v \in Ids : watch[v].refused \in BOOLEAN
  BY <1>5 DEF WatchType
<1>12. \A v \in Ids : /\ watch'[v].trigger = watch[v].trigger
                      /\ watch'[v].cancelled = watch[v].cancelled
                      /\ watch'[v].refused = (watch[v].refused \/ v = w)
                      /\ watch'[v].last = watch[v].last
  BY <1>9, <1>10, <1>11
<1>13. PICK m \in [Handle -> Ids \union {0}], n \in [Context -> Ids \union {0}] :
         m = [trap.handles EXCEPT ![h] = 0] /\ n = [trap.watches EXCEPT ![k] = 0]
  BY <1>5 DEF TrapType
<1>14. trap' = [trap EXCEPT !.watches = n, !.handles = m]
  BY <1>4, <1>5, <1>13 DEF TrapType
<1>15. trap' \in TrapType
  BY <1>5, <1>13, <1>14 DEF TrapType
<1>16. /\ trap'.watches = n /\ trap'.handles = m /\ trap'.closed = trap.closed
       /\ trap'.armed = trap.armed /\ trap'.ready = trap.ready
  BY <1>5, <1>14 DEF TrapType
<1>17. /\ \A g \in Handle : m[g] = IF g = h THEN 0 ELSE trap.handles[g]
       /\ \A g \in Context : n[g] = IF g = k THEN 0 ELSE trap.watches[g]
  BY <1>5, <1>13 DEF TrapType
<1>18. Grows
  BY <1>8, <1>12 DEF Grows
<1> QED
  BY <1>2, <1>3, <1>8, <1>12, <1>15, <1>16, <1>17, <1>18

LEMMA AddUndoShape ==
    ASSUME Shape, NEW t \in Thread, AddUndo(t)
    PROVE  Shape'
<1>1. PICK w \in Ids, h \in Handle, k \in Context :
             /\ Grows /\ Len(watch') = Len(watch) /\ trap' \in TrapType
             /\ \A v \in Ids : watch'[v].trigger = watch[v].trigger
             /\ trap'.closed = trap.closed
             /\ \A g \in Handle : trap'.handles[g] = IF g = h THEN 0 ELSE trap.handles[g]
             /\ \A g \in Context : trap'.watches[g] = IF g = k THEN 0 ELSE trap.watches[g]
  BY AddUndoFacts
<1>2. trap' \in TrapType' /\ ContextType' = ContextType
  BY <1>1, SameIds
<1>3. /\ call[t].pc = "add_undo" /\ context[t] \in ContextType
      /\ MapsExact /\ trap \in TrapType
  BY DEF AddUndo, At, Shape, Types
<1>4. MapsExact'
  BY <1>1, <1>3 DEF MapsExact, TrapType
<1>5. Idle \in CallType' /\ CallOK(Idle)'
  BY DEF Idle, CallType, CallOK, Pc, TellPc, WatchPc, OwnerPc
<1>6. Moves(t, Idle, context[t])
  BY DEF Moves, AddUndo
<1> QED
  BY <1>1, <1>2, <1>3, <1>4, <1>5, <1>6, GrowStep DEF AddUndo

\* What WatchDispatcher's first section does when it makes a watch.
MakesWatch(t, w, tr) ==
    /\ w = Len(watch) + 1 /\ w \notin Ids /\ w # 0 /\ tr = call[t].trigger
    /\ tr \in Triggers
    /\ ~trap.closed /\ trap.watches[tr.context] = 0 /\ trap.handles[tr.handle] = 0
    /\ Grows /\ Ids' = Ids \union {w}
    /\ \A v \in Ids : watch'[v] = watch[v]
    /\ watch'[w] = [trigger |-> tr, last |-> "UNKNOWN", cancelled |-> FALSE, refused |-> FALSE]
    /\ trap' \in TrapType' /\ trap'.closed = trap.closed /\ trap'.armed = trap.armed
    /\ trap'.ready = trap.ready
    /\ \A g \in Handle : trap'.handles[g] = IF g = tr.handle THEN w ELSE trap.handles[g]
    /\ \A g \in Context : trap'.watches[g] = IF g = tr.context THEN w ELSE trap.watches[g]
    /\ Goto(t, [Idle EXCEPT !.pc = "add_ref", !.handle = tr.handle, !.watches = {w}],
            context[t])

LEMMA AddWatchFacts ==
    ASSUME Shape, NEW t \in Thread, AddWatch(t)
    PROVE  \/ UNCHANGED <<trap, watch>> /\ Return(t, context[t])
           \/ \E w, tr : MakesWatch(t, w, tr)
<1>1. PICK w, tr : w = Len(watch) + 1 /\ tr = call[t].trigger
  OBVIOUS
<1>2. call[t].pc = "add" /\ CallOK(call[t]) /\ trap \in TrapType /\ watch \in Seq(WatchType)
      /\ Len(watch) \in Nat
  BY WatchFacts DEF AddWatch, At, Shape, Types
<1>3. tr \in Triggers
  BY <1>1, <1>2 DEF CallOK
<1>4. tr.handle \in Handle /\ tr.context \in Context
  BY <1>3, TriggerFacts
<1>5. ASSUME ~trap.closed, trap.watches[tr.context] = 0, trap.handles[tr.handle] = 0,
             watch' = Append(watch, [trigger |-> tr, last |-> "UNKNOWN",
                                     cancelled |-> FALSE, refused |-> FALSE]),
             trap' = [trap EXCEPT !.watches[tr.context] = w, !.handles[tr.handle] = w],
             Goto(t, [Idle EXCEPT !.pc = "add_ref", !.handle = tr.handle,
                                  !.watches = {w}], context[t])
      PROVE  MakesWatch(t, w, tr)
  <2>1. PICK x \in WatchType : x = [trigger |-> tr, last |-> "UNKNOWN",
                                    cancelled |-> FALSE, refused |-> FALSE]
    BY <1>3 DEF WatchType, Result
  <2>2. watch' = Append(watch, x)
    BY <1>5, <2>1
  <2>3. /\ watch' \in Seq(WatchType) /\ Len(watch') = w
        /\ \A v \in Ids : watch'[v] = watch[v]
        /\ watch'[w] = x
    BY <1>1, <1>2, <2>2 DEF Ids
  <2>4. Ids' = Ids \union {w} /\ w \notin Ids /\ w # 0
    BY <1>1, <1>2, <2>3 DEF Ids
  <2>5. Grows
    BY <1>1, <2>3 DEF Grows
  <2>6. PICK m \in [Handle -> Ids' \union {0}], n \in [Context -> Ids' \union {0}] :
           m = [trap.handles EXCEPT ![tr.handle] = w] /\ n = [trap.watches EXCEPT ![tr.context] = w]
    BY <1>2, <2>4 DEF TrapType
  <2>7. trap' = [trap EXCEPT !.watches = n, !.handles = m]
    BY <1>5, <1>2, <2>6 DEF TrapType
  <2>8. trap' \in TrapType'
    BY <1>2, <2>4, <2>6, <2>7 DEF TrapType
  <2>9. /\ trap'.watches = n /\ trap'.handles = m /\ trap'.closed = trap.closed
        /\ trap'.armed = trap.armed /\ trap'.ready = trap.ready
    BY <1>2, <2>7 DEF TrapType
  <2>10. /\ \A g \in Handle : m[g] = IF g = tr.handle THEN w ELSE trap.handles[g]
         /\ \A g \in Context : n[g] = IF g = tr.context THEN w ELSE trap.watches[g]
    BY <1>2, <1>4, <2>6 DEF TrapType
  <2> QED
    BY <1>1, <1>3, <1>5, <2>1, <2>3, <2>4, <2>5, <2>8, <2>9, <2>10 DEF MakesWatch
<1> QED
  BY <1>1, <1>5 DEF AddWatch

LEMMA AddWatchShape ==
    ASSUME Shape, NEW t \in Thread, AddWatch(t)
    PROVE  Shape'
<1>1. call[t].pc = "add" /\ context[t] \in ContextType /\ MapsExact /\ trap \in TrapType
  BY DEF AddWatch, At, Shape, Types
<1>2. CASE UNCHANGED <<trap, watch>> /\ Return(t, context[t])
  <2>1. Moves(t, Idle, context[t])
    BY <1>2 DEF Moves
  <2> QED
    BY <1>1, <1>2, <2>1, IdleFacts, QuietStep DEF AddWatch, Shape, Types
<1>3. ASSUME NEW w, NEW tr, MakesWatch(t, w, tr) PROVE Shape'
  <2>1. /\ tr \in Triggers /\ Grows /\ w \in Ids' /\ Ids \subseteq Ids'
        /\ trap' \in TrapType' /\ \A v \in Ids : watch'[v] = watch[v]
        /\ watch'[w].trigger = tr
    BY <1>3 DEF MakesWatch
  <2>2. tr.handle \in Handle /\ tr.context \in Context
    BY <2>1, TriggerFacts
  <2>3. PICK h \in Handle, ws \in SUBSET Ids' : h = tr.handle /\ ws = {w}
    BY <2>1, <2>2
  <2>4. PICK c \in CallType' : c = [Idle EXCEPT !.pc = "add_ref", !.handle = h, !.watches = ws]
    BY DEF Idle, CallType, Pc
  <2>5. CallOK(c)'
    BY <2>1, <2>3, <2>4 DEF Idle, CallOK, TellPc, WatchPc, OwnerPc
  <2>6. Moves(t, c, context[t])
    BY <1>3, <2>3, <2>4 DEF Moves, MakesWatch
  <2>7. context[t] \in ContextType'
    BY <1>1, <2>1, GrowsFacts
  <2>8. MapsExact'
    <3>1. /\ \A g \in Handle : trap'.handles[g] = IF g = tr.handle THEN w ELSE trap.handles[g]
          /\ \A g \in Context : trap'.watches[g] = IF g = tr.context THEN w ELSE trap.watches[g]
          /\ trap'.closed = trap.closed /\ ~trap.closed
      BY <1>3 DEF MakesWatch
    <3>2. /\ trap.handles \in [Handle -> Ids \union {0}]
          /\ trap.watches \in [Context -> Ids \union {0}]
      BY <1>1 DEF TrapType
    <3> QED
      BY <1>1, <2>1, <3>1, <3>2 DEF MapsExact
  <2> QED
    BY <1>1, <2>1, <2>5, <2>6, <2>7, <2>8, GrowStep DEF AddWatch
<1> QED
  BY <1>2, <1>3, AddWatchFacts

\* What InvokeCallback does for the notice n at the head of the finalizers.
LEMMA InvokeFacts ==
    ASSUME Shape, NEW t \in Thread, InvokeCallback(t)
    PROVE  \E n \in NoticeType :
             /\ n = Head(final[t]) /\ final[t] # <<>> /\ handler[t] = NoNotice
             /\ ~NotificationLocked(n.watch) /\ n.watch \in Ids
             /\ Grows /\ Len(watch') = Len(watch)
             /\ \A v \in Ids : /\ watch'[v].trigger = watch[v].trigger
                               /\ watch'[v].refused = watch[v].refused
                               /\ watch'[v].last = watch[v].last
                               /\ watch[v].cancelled => watch'[v].cancelled
             /\ \/ /\ final' = [final EXCEPT ![t] = Tail(@)]
                   /\ UNCHANGED <<watch, handler>>
                \/ /\ handler' = [handler EXCEPT ![t] = n] /\ UNCHANGED final
                   /\ ~watch[n.watch].cancelled
<1>1. PICK n : n = Head(final[t])
  OBVIOUS
<1>2. /\ call[t].pc = "idle" /\ handler[t] = NoNotice /\ final[t] # <<>>
      /\ ~NotificationLocked(n.watch)
  BY <1>1 DEF InvokeCallback
<1>3. final[t] \in Seq(NoticeType) /\ watch \in Seq(WatchType) /\ Len(watch) \in Nat
      /\ \A v \in Ids : watch[v] \in WatchType
  BY WatchFacts DEF Shape, Types
<1>4. n \in NoticeType
  BY <1>1, <1>2, <1>3
<1>5. n.watch \in Ids
  BY <1>4 DEF NoticeType
<1>6. CASE /\ final' = [final EXCEPT ![t] = Tail(@)]
           /\ UNCHANGED <<watch, handler>>
  BY <1>1, <1>2, <1>3, <1>4, <1>5, <1>6 DEF Grows
<1>7. CASE /\ watch' = [watch EXCEPT ![n.watch].cancelled = @ \/ n.result = "CANCELLED"]
           /\ handler' = [handler EXCEPT ![t] = n] /\ UNCHANGED final
           /\ ~watch[n.watch].cancelled
  <2>1. PICK w \in Ids : w = n.watch
    BY <1>5
  <2>2. PICK b \in BOOLEAN : b = (watch[w].cancelled \/ n.result = "CANCELLED")
    OBVIOUS
  <2>3. PICK x \in WatchType : x = [watch[w] EXCEPT !.cancelled = b]
    BY <1>3 DEF WatchType
  <2>4. watch' = [watch EXCEPT ![w] = x]
    BY <1>7, <2>1, <2>2, <2>3
  <2>5. watch' \in Seq(WatchType) /\ Len(watch') = Len(watch)
    BY <1>3, <2>4 DEF Ids
  <2>6. \A v \in Ids : watch'[v] = IF v = w THEN x ELSE watch[v]
    BY <1>3, <2>4 DEF Ids
  <2>7. /\ x.trigger = watch[w].trigger /\ x.refused = watch[w].refused
        /\ x.last = watch[w].last /\ x.cancelled = b
    BY <1>3, <2>3 DEF WatchType
  <2>8. ~watch[w].cancelled
    BY <1>7, <2>1
  <2>9. \A v \in Ids : /\ watch'[v].trigger = watch[v].trigger
                       /\ watch'[v].refused = watch[v].refused
                       /\ watch'[v].last = watch[v].last
                       /\ watch[v].cancelled => watch'[v].cancelled
    BY <2>6, <2>7, <2>8
  <2>10. Grows
    BY <2>5, <2>9 DEF Grows
  <2> QED
    BY <1>1, <1>2, <1>4, <1>5, <1>7, <2>5, <2>9, <2>10
<1> QED
  BY <1>1, <1>2, <1>6, <1>7 DEF InvokeCallback

LEMMA InvokeCallbackShape ==
    ASSUME Shape, NEW t \in Thread, InvokeCallback(t)
    PROVE  Shape'
<1>1. PICK n \in NoticeType :
             /\ n = Head(final[t]) /\ final[t] # <<>>
             /\ Grows /\ Len(watch') = Len(watch)
             /\ \A v \in Ids : watch'[v].trigger = watch[v].trigger
             /\ \/ /\ final' = [final EXCEPT ![t] = Tail(@)]
                   /\ UNCHANGED <<watch, handler>>
                \/ handler' = [handler EXCEPT ![t] = n] /\ UNCHANGED final
  BY InvokeFacts
<1>2. /\ Ids' = Ids /\ CallType' = CallType /\ ContextType' = ContextType
      /\ TrapType' = TrapType /\ NoticeType' = NoticeType
  BY <1>1, SameIds
<1>3. PortType' = PortType /\ PipeType' = PipeType /\ WatchType' = WatchType
  BY DEF PortType, PipeType, WatchType
<1>4. /\ call[t].pc = "idle" /\ UNCHANGED <<port, pipe, trap, call, context>>
      /\ handler[t] = NoNotice
  BY DEF InvokeCallback
<1>5. /\ final \in [Thread -> Seq(NoticeType)] /\ MapsExact /\ trap \in TrapType
      /\ handler \in [Thread -> NoticeType \union {NoNotice}]
      /\ \A u \in Thread : CallOK(call[u]) /\ FinalOK(u)
  BY DEF Shape, Types
<1>6. final' \in [Thread -> Seq(NoticeType)]
  <2>1. Tail(final[t]) \in Seq(NoticeType)
    BY <1>1, <1>5
  <2> QED
    BY <1>1, <1>5, <2>1
<1>7. handler' \in [Thread -> NoticeType \union {NoNotice}]
  BY <1>1, <1>5
<1>8. \A u \in Thread : CallOK(call[u])'
  <2>1. \A c : CallOK(c) => CallOK(c)'
    BY <1>1, GrowsFacts
  <2> QED
    BY <1>4, <1>5, <2>1
<1>9. \A u \in Thread : FinalOK(u)'
  BY <1>1, <1>4, <1>5 DEF FinalOK
<1>10. MapsExact'
  BY <1>1, <1>4, <1>5 DEF MapsExact, TrapType
<1> QED
  BY <1>1, <1>2, <1>3, <1>4, <1>6, <1>7, <1>8, <1>9, <1>10 DEF Shape, Types, Grows

LEMMA HandlerReturnsShape ==
    ASSUME Shape, NEW t \in Thread, HandlerReturns(t)
    PROVE  Shape'
<1>1. /\ call[t].pc = "idle" /\ UNCHANGED <<port, pipe, trap, watch, call>>
      /\ handler' = [handler EXCEPT ![t] = NoNotice]
      /\ final' = [final EXCEPT ![t] = Finalizers(context[t]) \o Tail(@)]
      /\ context' = [context EXCEPT ![t] = EmptyContext]
  BY DEF HandlerReturns
<1>2. /\ Ids' = Ids /\ CallType' = CallType /\ ContextType' = ContextType
      /\ TrapType' = TrapType /\ NoticeType' = NoticeType
  BY <1>1, SameIds
<1>3. PortType' = PortType /\ PipeType' = PipeType /\ WatchType' = WatchType
  BY DEF PortType, PipeType, WatchType
<1>4. /\ final \in [Thread -> Seq(NoticeType)] /\ MapsExact
      /\ context \in [Thread -> ContextType]
      /\ handler \in [Thread -> NoticeType \union {NoNotice}]
      /\ \A u \in Thread : CallOK(call[u]) /\ FinalOK(u)
  BY DEF Shape, Types
<1>5. EmptyContext \in ContextType
  BY DEF EmptyContext, ContextType
<1>6. final' \in [Thread -> Seq(NoticeType)]
  <2>1. Finalizers(context[t]) \in Seq(NoticeType)
    BY <1>4, FinalizersTyped DEF ContextType
  <2>2. final[t] # <<>>
    BY <1>4 DEF FinalOK, HandlerReturns
  <2>3. Tail(final[t]) \in Seq(NoticeType)
    BY <1>4, <2>2
  <2>4. Finalizers(context[t]) \o Tail(final[t]) \in Seq(NoticeType)
    BY <2>1, <2>3
  <2> QED
    BY <1>1, <1>4, <2>4
<1>7. \A u \in Thread : CallOK(call[u])'
  BY <1>1, <1>2, <1>4 DEF CallOK
<1>8. \A u \in Thread : FinalOK(u)'
  BY <1>1, <1>4 DEF FinalOK
<1>9. MapsExact'
  BY <1>1, <1>4 DEF MapsExact
<1> QED
  BY <1>1, <1>2, <1>3, <1>4, <1>5, <1>6, <1>7, <1>8, <1>9 DEF Shape, Types

LEMMA InitShape == Init => Shape
<1> SUFFICES ASSUME Init PROVE Shape
  OBVIOUS
<1>1. Len(watch) = 0 /\ Ids = {}
  BY DEF Init, Ids
<1>2. /\ port \in [Handle -> PortType]
      /\ pipe \in [Handle -> PipeType]
  BY ConstantsAssumption DEF Init, PortType, PipeType
<1>3. trap \in TrapType
  BY DEF Init, TrapType
<1>4. /\ call = [t \in Thread |-> Idle] /\ final = [t \in Thread |-> <<>>]
      /\ handler = [t \in Thread |-> NoNotice] /\ context = [t \in Thread |-> EmptyContext]
  BY DEF Init
<1>5. EmptyContext \in ContextType
  BY DEF EmptyContext, ContextType
<1>6. MapsExact
  BY DEF Init, MapsExact
<1>7. Types
  <2>1. watch \in Seq(WatchType)
    BY DEF Init
  <2>2. /\ final \in [Thread -> Seq(NoticeType)] /\ call \in [Thread -> CallType]
        /\ context \in [Thread -> ContextType]
        /\ handler \in [Thread -> NoticeType \union {NoNotice}]
    BY <1>4, <1>5, IdleFacts
  <2> QED
    BY <1>2, <1>3, <2>1, <2>2 DEF Types
<1>8. \A t \in Thread : CallOK(call[t]) /\ FinalOK(t)
  BY <1>4, IdleFacts DEF FinalOK
<1> QED
  BY <1>6, <1>7, <1>8 DEF Shape

LEMMA NextShape ==
    ASSUME Shape, [Next]_vars
    PROVE  Shape'
<1>1. CASE UNCHANGED vars
  BY <1>1 DEF vars, Shape, Types, MapsExact, CallOK, FinalOK, Ids, PortType, PipeType,
              TrapType, WatchType, CallType, NoticeType, ContextType
<1>2. ASSUME NEW t \in Thread, Begin(t) PROVE Shape'
  BY <1>2, AddTriggerShape, RemoveTriggerShape, ArmShape, CloseTrapShape, PortEventShape,
     ReadMessageShape, CloseHandleShape, BeginTransitShape, CancelTransitShape,
     CompleteTransitShape DEF Begin
<1>3. ASSUME NEW t \in Thread, Continue(t) PROVE Shape'
  BY <1>3, AddWatchShape, AddWatcherRefShape, AddNotifyShape, AddUndoShape, AddCheckShape,
     AddRemoveShape, RemoveRefShape, RemoveHandleShape, CloseTrapNextShape,
     PortStatusChangedShape, OnPortStatusChangedShape, ReadNotifyShape, NotifyShape,
     ClosePipeShape, NotifyHandleClosedShape, ClosePortShape, InvokeCallbackShape
     DEF Continue
<1> QED
  BY <1>1, <1>2, <1>3, HandlerReturnsShape DEF Next

----------------------------------------------------------------------------
(***************************************************************************)
(* ready_watches_ is exact.                                                *)
(***************************************************************************)

\* The steps that leave the trap and the watches as they are.
QuietActions(t) ==
    \/ AddTrigger(t) \/ PortEvent(t) \/ ReadMessage(t) \/ CloseHandle(t)
    \/ BeginTransit(t) \/ CancelTransit(t) \/ CompleteTransit(t)
    \/ AddWatcherRef(t) \/ AddCheck(t) \/ AddRemove(t) \/ RemoveRef(t)
    \/ CloseTrapNext(t) \/ PortStatusChanged(t) \/ OnPortStatusChanged(t)
    \/ ReadNotify(t) \/ ClosePipe(t) \/ ClosePort(t) \/ HandlerReturns(t)

LEMMA QuietFacts ==
    ASSUME NEW t, QuietActions(t)
    PROVE  UNCHANGED <<trap, watch>>
BY DEF QuietActions, AddTrigger, PortEvent, ReadMessage, CloseHandle, BeginTransit,
       CancelTransit, CompleteTransit, AddWatcherRef, AddCheck, AddRemove, RemoveRef,
       CloseTrapNext, PortStatusChanged, OnPortStatusChanged, ReadNotify, ClosePipe,
       ClosePort, HandlerReturns

\* The steps of the specification, by what they do to the trap.
LEMMA NextCases ==
    ASSUME Next
    PROVE  \E t \in Thread :
             \/ QuietActions(t)
             \/ RemoveTrigger(t) \/ Arm(t) \/ CloseTrap(t) \/ AddWatch(t) \/ AddNotify(t)
             \/ AddUndo(t) \/ RemoveHandle(t) \/ Notify(t) \/ NotifyHandleClosed(t)
             \/ InvokeCallback(t)
BY DEF Next, Begin, Continue, QuietActions

LEMMA NotifyReady ==
    ASSUME Shape, ReadyExact, NEW h \in Handle, NEW st, NEW ctx \in ContextType,
           NEW n, n = NotifyHandleState(h, st, ctx), trap' = n.trap, watch' = n.watch
    PROVE  ReadyExact'
<1>1. PICK w, rv : w = trap.handles[h] /\ rv = ResultOf(watch[w].trigger, st)
  OBVIOUS
<1>2. NotifyEffect(ctx, n, w, rv)
  BY <1>1, NotifyFacts
<1>3. /\ trap \in TrapType /\ MapsExact
      /\ trap.handles \in [Handle -> Ids \union {0}]
  BY DEF Shape, Types, TrapType
<1>4. CASE w = 0
  BY <1>2, <1>4 DEF NotifyEffect, ReadyExact
<1>5. CASE w # 0
  <2>1. /\ trap'.handles = trap.handles
        /\ trap'.armed = (trap.armed /\ ~IsReady(rv))
        /\ trap'.ready = IF IsReady(rv) THEN trap.ready \union {w} ELSE trap.ready \ {w}
        /\ \A v \in Ids : watch'[v].last = IF v = w THEN rv ELSE watch[v].last
    BY <1>2, <1>5 DEF NotifyEffect
  <2>2. \A g \in Handle : trap.handles[g] # 0 =>
          (trap.handles[g] \in trap'.ready <=> IsReady(watch'[trap.handles[g]].last))
    BY <1>3, <2>1 DEF ReadyExact
  <2>3. trap'.armed => trap'.ready = {}
    BY <2>1 DEF ReadyExact
  <2> QED
    BY <2>1, <2>2, <2>3 DEF ReadyExact
<1> QED
  BY <1>4, <1>5

LEMMA NextReady ==
    ASSUME Shape, ReadyExact, [Next]_vars
    PROVE  ReadyExact'
<1>1. /\ trap \in TrapType /\ MapsExact
      /\ trap.handles \in [Handle -> Ids \union {0}] /\ trap.ready \subseteq Ids
      /\ context \in [Thread -> ContextType]
      /\ 0 \notin Ids
  BY WatchFacts DEF Shape, Types, TrapType
<1>2. CASE UNCHANGED <<trap, watch>>
  BY <1>2 DEF ReadyExact
<1>3. ASSUME NEW t \in Thread, RemoveTrigger(t) PROVE ReadyExact'
  <2>1. UNCHANGED watch /\ \E c : trap' = [trap EXCEPT !.watches[c] = 0]
    BY <1>3 DEF RemoveTrigger
  <2> QED
    BY <1>1, <2>1 DEF ReadyExact, TrapType
<1>4. ASSUME NEW t \in Thread, Arm(t) PROVE ReadyExact'
  <2>1. UNCHANGED watch /\ trap' = [trap EXCEPT !.armed = TRUE] /\ trap.ready = {}
    BY <1>4 DEF Arm
  <2> QED
    BY <1>1, <2>1 DEF ReadyExact, TrapType
<1>5. ASSUME NEW t \in Thread, CloseTrap(t) PROVE ReadyExact'
  <2>1. /\ trap'.handles = [h \in Handle |-> 0] /\ trap'.ready = trap.ready
        /\ trap'.armed = trap.armed
    BY <1>1, <1>5 DEF CloseTrap, TrapType
  <2> QED
    BY <2>1 DEF ReadyExact
<1>6. ASSUME NEW t \in Thread, AddWatch(t) PROVE ReadyExact'
  <2>1. ASSUME NEW w, NEW tr, MakesWatch(t, w, tr) PROVE ReadyExact'
    <3>1. /\ w \notin Ids /\ \A v \in Ids : watch'[v] = watch[v]
          /\ watch'[w].last = "UNKNOWN"
          /\ trap'.armed = trap.armed /\ trap'.ready = trap.ready
          /\ \A g \in Handle : trap'.handles[g] = IF g = tr.handle THEN w ELSE trap.handles[g]
      BY <2>1 DEF MakesWatch
    <3> QED
      BY <1>1, <3>1 DEF ReadyExact, IsReady
  <2> QED
    BY <1>2, <1>6, <2>1, AddWatchFacts
<1>7. ASSUME NEW t \in Thread, AddUndo(t) PROVE ReadyExact'
  <2>1. PICK w \in Ids, h \in Handle, k \in Context :
             /\ \A v \in Ids : watch'[v].last = watch[v].last
             /\ trap'.armed = trap.armed /\ trap'.ready = trap.ready
             /\ \A g \in Handle : trap'.handles[g] = IF g = h THEN 0 ELSE trap.handles[g]
    BY <1>7, AddUndoFacts
  <2> QED
    BY <1>1, <2>1 DEF ReadyExact
<1>8. ASSUME NEW t \in Thread, NEW h \in Handle,
             \/ trap' = [trap EXCEPT !.ready = @ \ {trap.handles[h]}, !.handles[h] = 0]
             \/ \E k : trap' = [trap EXCEPT !.watches[k] = 0,
                                            !.ready = @ \ {trap.handles[h]}, !.handles[h] = 0],
             UNCHANGED watch
      PROVE  ReadyExact'
  <2>1. /\ trap'.ready = trap.ready \ {trap.handles[h]} /\ trap'.armed = trap.armed
        /\ trap'.handles = [trap.handles EXCEPT ![h] = 0]
    BY <1>1, <1>8 DEF TrapType
  <2>2. \A g \in Handle : trap'.handles[g] = IF g = h THEN 0 ELSE trap.handles[g]
    BY <1>1, <2>1
  <2>3. \A g \in Handle : g # h /\ trap.handles[g] # 0 => trap.handles[g] # trap.handles[h]
    BY <1>1 DEF MapsExact
  <2> QED
    BY <1>8, <2>1, <2>2, <2>3 DEF ReadyExact
<1>9. ASSUME NEW t \in Thread, RemoveHandle(t) PROVE ReadyExact'
  <2>1. call[t].handle \in Handle
    BY <1>9, InHand DEF RemoveHandle, At, WatchPc, OwnerPc
  <2> QED
    BY <1>8, <1>9, <2>1 DEF RemoveHandle
<1>10. ASSUME NEW t \in Thread, NotifyHandleClosed(t) PROVE ReadyExact'
  <2>1. call[t].handle \in Handle
    BY <1>10 DEF NotifyHandleClosed, At, Shape, CallOK
  <2>2. UNCHANGED watch
    BY <1>10 DEF NotifyHandleClosed
  <2> QED
    BY <1>2, <1>8, <1>10, <2>1, <2>2 DEF NotifyHandleClosed
<1>11. ASSUME NEW t \in Thread, Notify(t) \/ AddNotify(t) PROVE ReadyExact'
  <2>1. call[t].handle \in Handle
    BY <1>11 DEF Notify, AddNotify, At, Shape, CallOK
  <2>2. PICK n : n = NotifyHandleState(call[t].handle, call[t].state, context[t])
    OBVIOUS
  <2>3. trap' = n.trap /\ watch' = n.watch
    BY <1>11, <2>2 DEF Notify, AddNotify
  <2> QED
    BY <1>1, <2>1, <2>2, <2>3, NotifyReady
<1>12. ASSUME NEW t \in Thread, InvokeCallback(t) PROVE ReadyExact'
  <2>1. \A v \in Ids : watch'[v].last = watch[v].last
    BY <1>12, InvokeFacts
  <2>2. UNCHANGED trap
    BY <1>12 DEF InvokeCallback
  <2> QED
    BY <1>1, <2>1, <2>2 DEF ReadyExact
<1>13. CASE UNCHANGED vars
  BY <1>2, <1>13 DEF vars
<1> QED
  BY <1>2, <1>3, <1>4, <1>5, <1>6, <1>7, <1>9, <1>10, <1>11, <1>12, <1>13,
     NextCases, QuietFacts

LEMMA ShapeInvariant == Spec => [](Shape /\ ReadyExact)
<1>1. Init => Shape /\ ReadyExact
  <2>1. Init => ReadyExact
    BY DEF Init, ReadyExact
  <2> QED
    BY <2>1, InitShape
<1>2. Shape /\ ReadyExact /\ [Next]_vars => (Shape /\ ReadyExact)'
  BY NextShape, NextReady
<1> QED
  BY <1>1, <1>2, PTL DEF Spec

\* ready_watches_ holds exactly the watched triggers with something to report,
\* through AddTrigger, RemoveTrigger, closures and notifications of any number of
\* threads, and WatcherDispatcher::Arm never leaves a trap armed over a ready one.
THEOREM ReadyWatchesExact == Spec => []ReadyExact
BY ShapeInvariant, PTL

----------------------------------------------------------------------------
(***************************************************************************)
(* A trap is never disarmed in silence.                                    *)
(***************************************************************************)

Announced ==
    \E t \in Thread : Len(context'[t].notifies) + Len(final'[t])
                        > Len(context[t].notifies) + Len(final[t])

\* A result that is reported from an armed trap is not the last one, since an
\* armed trap has no ready watch: the finalizer is added.
LEMMA DisarmAppends ==
    ASSUME Shape, ReadyExact, NEW h \in Handle, NEW st, NEW ctx \in ContextType,
           NEW n, n = NotifyHandleState(h, st, ctx), trap.armed, ~n.trap.armed
    PROVE  /\ n.context.cancels \in Seq(NoticeType) /\ n.context.notifies \in Seq(NoticeType)
           /\ Len(n.context.notifies) = Len(ctx.notifies) + 1
<1>1. PICK w, rv : w = trap.handles[h] /\ rv = ResultOf(watch[w].trigger, st)
  OBVIOUS
<1>2. NotifyEffect(ctx, n, w, rv)
  BY <1>1, NotifyFacts
<1>3. w # 0 /\ IsReady(rv)
  BY <1>2 DEF NotifyEffect
<1>4. ~IsReady(watch[w].last)
  BY <1>1, <1>3 DEF ReadyExact
<1>5. n.context.notifies = Append(ctx.notifies, [watch |-> w, result |-> rv])
  BY <1>2, <1>3, <1>4 DEF NotifyEffect
<1>6. ctx.notifies \in Seq(NoticeType) /\ n.context \in ContextType
  BY <1>2 DEF NotifyEffect, ContextType
<1>7. Len(n.context.notifies) = Len(ctx.notifies) + 1
  BY <1>5, <1>6
<1> QED
  BY <1>6, <1>7 DEF ContextType

LEMMA NextAnnounces ==
    ASSUME Shape, ReadyExact, [Next]_vars, trap.armed, ~trap'.armed
    PROVE  Announced
<1>1. trap \in TrapType /\ context \in [Thread -> ContextType]
      /\ final \in [Thread -> Seq(NoticeType)]
  BY DEF Shape, Types
<1>2. ASSUME NEW t \in Thread, Notify(t) \/ AddNotify(t) PROVE Announced
  <2>1. call[t].handle \in Handle /\ call[t].pc # "idle"
    BY <1>2 DEF Notify, AddNotify, At, Shape, CallOK
  <2>2. PICK n : n = NotifyHandleState(call[t].handle, call[t].state, context[t])
    OBVIOUS
  <2>3. trap' = n.trap
    BY <1>2, <2>2 DEF Notify, AddNotify
  <2>4. /\ n.context.cancels \in Seq(NoticeType) /\ n.context.notifies \in Seq(NoticeType)
        /\ Len(n.context.notifies) = Len(context[t].notifies) + 1
    BY <1>1, <2>1, <2>2, <2>3, DisarmAppends
  <2>5. PICK a, b, c, d \in Nat : /\ a = Len(n.context.cancels)
                                  /\ b = Len(n.context.notifies)
                                  /\ c = Len(context[t].notifies)
                                  /\ d = Len(final[t])
    BY <1>1, <2>4 DEF ContextType
  <2>6. b = c + 1
    BY <2>4, <2>5
  <2>7. CASE context'[t] = n.context /\ final'[t] = final[t]
    <3>1. b + d > c + d
      BY <2>6
    <3> QED
      BY <2>5, <2>7, <3>1 DEF Announced
  <2>8. CASE /\ context'[t] = EmptyContext /\ final'[t] = Finalizers(n.context)
             /\ handler[t] = NoNotice
    <3>1. final[t] = <<>>
      BY <2>1, <2>8 DEF Shape, FinalOK
    <3>2. Len(final'[t]) = a + b
      BY <2>4, <2>5, <2>8, FinalizersTyped
    <3>3. Len(context'[t].notifies) = 0
      BY <2>8 DEF EmptyContext
    <3>4. d = 0
      BY <2>5, <3>1
    <3>5. 0 + (a + b) > c + d
      <4>1. \A x, y, z \in Nat : y = z + 1 => 0 + (x + y) > z + 0
        OBVIOUS
      <4> QED
        BY <2>5, <2>6, <3>4, <4>1
    <3> QED
      BY <2>5, <3>2, <3>3, <3>5 DEF Announced
  <2> QED
    BY <1>1, <1>2, <2>2, <2>7, <2>8 DEF Notify, AddNotify, Goto, Return
<1>3. ASSUME NEW t \in Thread, RemoveTrigger(t) \/ Arm(t) \/ CloseTrap(t) \/ RemoveHandle(t)
                               \/ NotifyHandleClosed(t) \/ InvokeCallback(t)
      PROVE  FALSE
  BY <1>1, <1>3 DEF RemoveTrigger, Arm, CloseTrap, RemoveHandle, NotifyHandleClosed,
                    InvokeCallback, TrapType
<1>4. ASSUME NEW t \in Thread, AddWatch(t) PROVE FALSE
  BY <1>4, AddWatchFacts DEF MakesWatch
<1>5. ASSUME NEW t \in Thread, AddUndo(t) PROVE FALSE
  BY <1>5, AddUndoFacts
<1>6. ~UNCHANGED vars
  BY DEF vars
<1> QED
  BY <1>2, <1>3, <1>4, <1>5, <1>6, NextCases, QuietFacts

\* A trap is never disarmed in silence: whenever NotifyHandleState clears armed_,
\* Watch::NotifyState has queued a finalizer on the thread's RequestContext.
THEOREM DisarmNotSilent == Spec => DisarmAnnounced
<1>1. Shape /\ ReadyExact /\ [Next]_vars =>
        [trap.armed /\ ~trap'.armed =>
           \E t \in Thread :
             Len(context'[t].notifies) + Len(final'[t])
               > Len(context[t].notifies) + Len(final[t])]_vars
  BY NextAnnounces DEF Announced
<1> QED
  BY <1>1, ShapeInvariant, PTL DEF Spec, DisarmAnnounced

----------------------------------------------------------------------------
(***************************************************************************)
(* No event is lost between a handle and an armed trap.                    *)
(***************************************************************************)

Is(t, h, pcs) == call[t].handle = h /\ call[t].pc \in pcs

Some(h, pcs) == \E t \in Thread : Is(t, h, pcs)

LockPc == TellPc \union {"closed"}
HandPc == OwnerPc \union {"add_notify"}
MovePc == {"observe", "status", "read"}
ShutPc == {"closed", "close_port"}
AfterPc == {"close_trap", "add_remove"}
RemovePc == {"remove_ref", "remove_handle"}

\* A thread with a part in what a watch knows.
RolePc == HandPc \union LockPc \union MovePc \union ShutPc \union AfterPc

\* A handle's watch is being added or taken away.
Busy(h) == Some(h, OwnerPc \union {"closed"})

\* A port without its dispatcher is closed, and closing comes first.
PipesClosed ==
    /\ \A h \in Handle : pipe[h].transferred \/ ~pipe[h].observed \/ ~port[h].live
                           => pipe[h].closed
    /\ \A t \in Thread : call[t].pc \in ShutPc => pipe[call[t].handle].closed
    /\ \A t \in Thread : call[t].pc \in AfterPc => trap.closed

\* A signal_lock_ has one holder.
OneLock ==
    \A t, u \in Thread, h \in Handle : t # u /\ Is(t, h, LockPc) => ~Is(u, h, LockPc)

\* The watch in a thread's hands is the one its handle has, unless the handle or
\* the trap was closed meanwhile, and no two threads have the same in hand.
Owns ==
    /\ \A t \in Thread : call[t].pc \in HandPc =>
         \/ trap.closed
         \/ pipe[call[t].handle].closed
         \/ call[t].watches = {trap.handles[call[t].handle]}
    /\ \A t, u \in Thread : t # u /\ call[t].pc \in HandPc /\ call[u].pc \in HandPc =>
         call[t].watches # call[u].watches

\* watches_ and watched_handles_ agree, up to a closed handle, and a watch that
\* is being removed has left watches_.
InMaps ==
    /\ ~trap.closed => \A c \in Context : trap.watches[c] # 0 =>
         \/ trap.handles[watch[trap.watches[c]].trigger.handle] = trap.watches[c]
         \/ pipe[watch[trap.watches[c]].trigger.handle].closed
    /\ \A t \in Thread : call[t].pc \in RemovePc =>
         \A w \in call[t].watches : trap.watches[watch[w].trigger.context] # w

\* The WatcherSet of a watched handle knows the trap.
Registered ==
    \A h \in Handle : trap.handles[h] # 0 /\ ~Busy(h) =>
      /\ ~pipe[h].closed
      /\ watch[trap.handles[h]].trigger.context \in pipe[h].refs

\* The state a thread is about to report is the last one the WatcherSet saw, and
\* the handle's present one unless somebody else is on the way.
LockStates ==
    \A t \in Thread, h \in Handle : Is(t, h, TellPc) =>
      /\ pipe[h].last = call[t].state \/ (pipe[h].last = NoState /\ call[t].pc = "add_notify")
      /\ ~Some(h, MovePc) /\ ~pipe[h].closed => call[t].state = StateOf(h)

\* A watch that nobody is adding, taking away or telling has been told the last
\* state the WatcherSet saw, and the present one unless somebody is on the way.
ToldLast ==
    \A h \in Handle : trap.handles[h] # 0 /\ ~Busy(h) /\ ~Some(h, TellPc) =>
      /\ pipe[h].last # NoState =>
           watch[trap.handles[h]].last = ResultOf(watch[trap.handles[h]].trigger, pipe[h].last)
      /\ ~Some(h, MovePc) =>
           watch[trap.handles[h]].last = ResultOf(watch[trap.handles[h]].trigger, StateOf(h))

TrapInv ==
    PipesClosed /\ OneLock /\ Owns /\ InMaps /\ Registered /\ LockStates /\ ToldLast

USE DEF LockPc, HandPc, MovePc, ShutPc, AfterPc, RemovePc, RolePc, OwnerPc, TellPc

\* With nobody attending to a handle, the armed trap knows its present state.
LEMMA NothingLost ==
    ASSUME Shape, ReadyExact, TrapInv
    PROVE  NoLostEvent
<1> SUFFICES ASSUME trap.armed, NEW h \in Handle, trap.handles[h] # 0, ~Attended(h)
             PROVE  ResultOf(watch[trap.handles[h]].trigger, StateOf(h)) = "SHOULD_WAIT"
  BY DEF NoLostEvent
<1>1. ~Busy(h) /\ ~Some(h, TellPc) /\ ~Some(h, MovePc)
  BY DEF Attended, Busy, Some, Is
<1>2. watch[trap.handles[h]].last = ResultOf(watch[trap.handles[h]].trigger, StateOf(h))
  BY <1>1 DEF TrapInv, ToldLast
<1>3. ~IsReady(watch[trap.handles[h]].last)
  BY DEF ReadyExact
<1> QED
  BY <1>2, <1>3, ResultTyped

----------------------------------------------------------------------------
(* What a step leaves alone *)

Others(t) == \A u \in Thread : u # t => call'[u] = call[u]

\* The part of a dispatcher the invariant looks at is as it was.
PipeSame(g) ==
    /\ pipe'[g].closed = pipe[g].closed /\ pipe'[g].refs = pipe[g].refs
    /\ pipe'[g].last = pipe[g].last /\ pipe'[g].transferred = pipe[g].transferred
    /\ pipe'[g].observed = pipe[g].observed

PortSame(g) == StateOf(g)' = StateOf(g) /\ port'[g].live = port[g].live

MapsSame ==
    /\ trap'.closed = trap.closed /\ trap'.handles = trap.handles
    /\ trap'.watches = trap.watches

WatchSame ==
    /\ Ids' = Ids
    /\ \A w \in Ids : watch'[w].trigger = watch[w].trigger /\ watch'[w].last = watch[w].last

LEMMA GotoFacts ==
    ASSUME Shape, NEW t \in Thread, NEW c, NEW ctx, Goto(t, c, ctx)
    PROVE  call'[t] = c /\ Others(t)
BY DEF Goto, Shape, Types, Others

LEMMA ReturnFacts ==
    ASSUME Shape, NEW t \in Thread, NEW ctx, Return(t, ctx)
    PROVE  call'[t] = Idle /\ call'[t].pc = "idle" /\ Others(t)
BY DEF Return, Shape, Types, Others, Idle

\* Facts about the maps and the watches that the steps below keep needing.
LEMMA MapFacts ==
    ASSUME Shape
    PROVE  /\ \A h \in Handle : trap.handles[h] \in Ids \union {0}
           /\ \A c \in Context : trap.watches[c] \in Ids \union {0}
           /\ 0 \notin Ids
           /\ \A w \in Ids : /\ watch[w].trigger.handle \in Handle
                             /\ watch[w].trigger.context \in Context
           /\ \A h \in Handle : trap.handles[h] # 0 => watch[trap.handles[h]].trigger.handle = h
           /\ \A c \in Context : trap.watches[c] # 0 => watch[trap.watches[c]].trigger.context = c
           /\ \A h \in Handle : trap.closed => trap.handles[h] = 0
           /\ \A t \in Thread : call[t].watches \subseteq Ids
<1>1. /\ \A h \in Handle : trap.handles[h] \in Ids \union {0}
      /\ \A c \in Context : trap.watches[c] \in Ids \union {0}
      /\ \A t \in Thread : call[t].watches \subseteq Ids
  BY DEF Shape, Types, TrapType, CallType
<1>2. \A w \in Ids : watch[w].trigger \in Triggers
  BY WatchFacts DEF Shape, WatchType
<1> QED
  BY <1>1, <1>2, TriggerFacts, WatchFacts DEF Shape, MapsExact

\* Where the call of a thread is about a handle.
LEMMA AtFacts ==
    ASSUME Shape, NEW t \in Thread
    PROVE  /\ call[t].pc \notin {"idle", "add", "close_trap"} => call[t].handle \in Handle
           /\ call[t].pc \in HandPc => \E w \in Ids : /\ call[t].watches = {w}
                                                      /\ watch[w].trigger.handle = call[t].handle
BY DEF Shape, CallOK, WatchPc

----------------------------------------------------------------------------
(* Steps the invariant does not see *)

LEMMA CalmStep ==
    ASSUME Shape, TrapInv, NEW t \in Thread, Others(t),
           call[t].pc \notin RolePc, call'[t].pc \notin RolePc,
           \A g \in Handle : PipeSame(g) /\ PortSame(g), MapsSame, WatchSame
    PROVE  TrapInv'
<1>1. \A u \in Thread : call[u].pc \in RolePc \/ call'[u].pc \in RolePc => call'[u] = call[u]
  BY DEF Others
<1>2. \A g \in Handle : /\ Busy(g)' <=> Busy(g)
                        /\ Some(g, TellPc)' <=> Some(g, TellPc)
                        /\ Some(g, MovePc)' <=> Some(g, MovePc)
  BY <1>1 DEF Busy, Some, Is
<1>3. /\ \A h \in Handle : trap.handles[h] \in Ids \union {0}
      /\ \A c \in Context : trap.watches[c] \in Ids \union {0}
      /\ \A w \in Ids : watch[w].trigger.handle \in Handle
      /\ \A u \in Thread : call[u].watches \subseteq Ids
      /\ \A u \in Thread : call[u].pc \notin {"idle", "add", "close_trap"} => call[u].handle \in Handle
  BY MapFacts, AtFacts
<1>4. PipesClosed'
  BY <1>1, <1>3 DEF TrapInv, PipesClosed, PipeSame, PortSame, MapsSame
<1>5. OneLock'
  BY <1>1 DEF TrapInv, OneLock, Is
<1>6. Owns'
  BY <1>1, <1>3 DEF TrapInv, Owns, PipeSame, MapsSame
<1>7. InMaps'
  BY <1>1, <1>3 DEF TrapInv, InMaps, PipeSame, MapsSame, WatchSame
<1>8. Registered'
  BY <1>2, <1>3 DEF TrapInv, Registered, PipeSame, MapsSame, WatchSame
<1>9. LockStates'
  BY <1>1, <1>2 DEF TrapInv, LockStates, Is, PipeSame, PortSame
<1>10. ToldLast'
  BY <1>2, <1>3 DEF TrapInv, ToldLast, PipeSame, PortSame, MapsSame, WatchSame
<1> QED
  BY <1>4, <1>5, <1>6, <1>7, <1>8, <1>9, <1>10 DEF TrapInv

----------------------------------------------------------------------------
(* Steps of a dispatcher *)

\* WatcherSet::NotifyState, called by a thread that saw the handle change or by
\* CancelTransit.
LEMMA TellStep ==
    ASSUME Shape, Shape', TrapInv, NEW t \in Thread, NEW h \in Handle, NEW p \in PipeType,
           NotifyState(t, h, p), ~SignalLocked(h), UNCHANGED <<port, trap, watch>>,
           call[t].pc \notin RolePc \/ Is(t, h, {"status", "read"}),
           p.closed = pipe[h].closed, p.refs = pipe[h].refs, p.last = pipe[h].last,
           p.transferred = pipe[h].transferred, p.observed = pipe[h].observed
    PROVE  TrapInv'
<1> DEFINE st == StateOf(h)
<1>1. /\ pipe'[h].closed = pipe[h].closed /\ pipe'[h].refs = pipe[h].refs
      /\ pipe'[h].last = st /\ pipe'[h].transferred = pipe[h].transferred
      /\ pipe'[h].observed = pipe[h].observed
      /\ \A g \in Handle : g # h => pipe'[g] = pipe[g]
  BY DEF NotifyState, PipeType, Shape, Types
<1>2. Others(t)
  BY GotoFacts, ReturnFacts DEF NotifyState
<1>3. \/ /\ call'[t].pc = "notify" /\ call'[t].handle = h /\ call'[t].state = st
      \/ /\ call'[t].pc = "idle" /\ (pipe[h].refs = {} \/ pipe[h].last = st)
  <2>1. st \in SignalsState
    BY StateTyped
  <2>2. Goto(t, Telling(h, st), context[t])
        \/ (Return(t, context[t]) /\ (pipe[h].refs = {} \/ pipe[h].last = st))
    BY DEF NotifyState, Telling
  <2>3. Goto(t, Telling(h, st), context[t]) => call'[t] = Telling(h, st)
    BY GotoFacts
  <2>4. Return(t, context[t]) => call'[t].pc = "idle"
    BY ReturnFacts
  <2> QED
    BY <2>1, <2>2, <2>3, <2>4, CallsTyped
<1>4. \A u \in Thread : ~Is(u, h, LockPc)
  BY DEF SignalLocked, Is
<1>5. \A g : StateOf(g)' = StateOf(g)
  BY DEF StateOf
<1>6. Ids' = Ids
  BY DEF Ids
<1>7. /\ \A g \in Handle : Busy(g)' <=> Busy(g)
      /\ \A g \in Handle : g # h => /\ Some(g, TellPc)' <=> Some(g, TellPc)
                                    /\ Some(g, MovePc)' <=> Some(g, MovePc)
      /\ ~Some(h, TellPc)
  BY <1>2, <1>3, <1>4 DEF Busy, Some, Is, Others
<1>8. /\ \A g \in Handle : trap.handles[g] \in Ids \union {0}
      /\ \A c \in Context : trap.watches[c] \in Ids \union {0}
      /\ \A w \in Ids : watch[w].trigger.handle \in Handle
      /\ \A u \in Thread : call[u].watches \subseteq Ids
      /\ \A u \in Thread : call[u].pc \notin {"idle", "add", "close_trap"} => call[u].handle \in Handle
  BY MapFacts, AtFacts
<1>9. \A g \in Handle : pipe'[g].closed = pipe[g].closed /\ pipe'[g].refs = pipe[g].refs
                        /\ pipe'[g].transferred = pipe[g].transferred
                        /\ pipe'[g].observed = pipe[g].observed
  BY <1>1
<1>10. \A u \in Thread : call'[u].pc \in HandPc \union ShutPc \union AfterPc => call'[u] = call[u]
  BY <1>2, <1>3 DEF Others
<1>11. PipesClosed'
  BY <1>8, <1>9, <1>10 DEF TrapInv, PipesClosed
<1>12. OneLock'
  BY <1>2, <1>3, <1>4 DEF TrapInv, OneLock, Is, Others
<1>13. Owns'
  BY <1>8, <1>9, <1>10 DEF TrapInv, Owns
<1>14. InMaps'
  BY <1>8, <1>9, <1>10 DEF TrapInv, InMaps
<1>15. Registered'
  BY <1>7, <1>9 DEF TrapInv, Registered
<1>16. LockStates'
  <2>1. SUFFICES ASSUME NEW u \in Thread, NEW g \in Handle, Is(u, g, TellPc)'
                 PROVE  /\ \/ pipe'[g].last = call'[u].state
                           \/ pipe'[g].last = NoState /\ call'[u].pc = "add_notify"
                        /\ ~Some(g, MovePc)' /\ ~pipe'[g].closed => call'[u].state = StateOf(g)'
    BY DEF LockStates
  <2>2. CASE g = h
    <3>1. u = t
      BY <1>2, <1>4, <2>1, <2>2 DEF Is, Others
    <3> QED
      BY <1>1, <1>3, <1>5, <2>1, <2>2, <3>1 DEF Is
  <2>3. CASE g # h
    <3>1. u # t
      BY <1>3, <2>1, <2>3 DEF Is
    <3>2. call'[u] = call[u] /\ Is(u, g, TellPc) /\ pipe'[g] = pipe[g]
      BY <1>1, <1>2, <2>1, <2>3, <3>1 DEF Is, Others
    <3> QED
      BY <1>5, <1>7, <2>3, <3>2 DEF TrapInv, LockStates
  <2> QED
    BY <2>2, <2>3
<1>17. ToldLast'
  <2>1. SUFFICES ASSUME NEW g \in Handle, trap.handles[g] # 0, ~Busy(g)', ~Some(g, TellPc)'
                 PROVE  /\ pipe'[g].last # NoState =>
                             watch[trap.handles[g]].last
                               = ResultOf(watch[trap.handles[g]].trigger, pipe'[g].last)
                        /\ ~Some(g, MovePc)' =>
                             watch[trap.handles[g]].last
                               = ResultOf(watch[trap.handles[g]].trigger, StateOf(g))
    BY <1>5 DEF ToldLast
  <2>2. CASE g = h
    <3>1. ~Busy(h) /\ pipe[h].refs # {}
      BY <1>7, <2>1, <2>2 DEF TrapInv, Registered
    <3>2. call'[t].pc = "idle" /\ pipe[h].last = st
      BY <1>3, <2>1, <2>2, <3>1 DEF Some, Is
    <3>3. pipe[h].last # NoState
      BY <3>2, StateTyped
    <3>4. watch[trap.handles[h]].last = ResultOf(watch[trap.handles[h]].trigger, st)
      BY <1>7, <2>1, <2>2, <3>1, <3>2, <3>3 DEF TrapInv, ToldLast
    <3> QED
      BY <1>1, <2>2, <3>4
  <2>3. CASE g # h
    BY <1>1, <1>7, <2>1, <2>3 DEF TrapInv, ToldLast
  <2> QED
    BY <2>2, <2>3
<1> QED
  BY <1>11, <1>12, <1>13, <1>14, <1>15, <1>16, <1>17 DEF TrapInv

\* MessagePipeDispatcher::CloseNoLock: a watched handle has somebody to tell.
LEMMA CloseStep ==
    ASSUME Shape, Shape', TrapInv, NEW t \in Thread, NEW h \in Handle, NEW p \in PipeType,
           CloseNoLock(t, h, p), ~SignalLocked(h), UNCHANGED <<port, trap, watch>>,
           call[t].pc \notin RolePc, p.refs = pipe[h].refs, p.last = pipe[h].last
    PROVE  TrapInv'
<1>1. /\ pipe'[h].closed /\ pipe'[h].refs = pipe[h].refs /\ pipe'[h].last = pipe[h].last
      /\ \A g \in Handle : g # h => pipe'[g] = pipe[g]
  BY DEF CloseNoLock, PipeType, Shape, Types
<1>2. Others(t)
  BY GotoFacts, ReturnFacts DEF CloseNoLock
<1>3. \/ call'[t].pc = "closed" /\ call'[t].handle = h
      \/ call'[t].pc = "close_port" /\ call'[t].handle = h /\ pipe[h].refs = {}
      \/ call'[t].pc = "idle" /\ pipe[h].refs = {}
  <2>1. \/ Goto(t, AtHandle("closed", h), context[t])
        \/ Goto(t, AtHandle("close_port", h), context[t]) /\ pipe[h].refs = {}
        \/ Return(t, context[t]) /\ pipe[h].refs = {}
    BY DEF CloseNoLock, AtHandle
  <2>2. \A pc : Goto(t, AtHandle(pc, h), context[t]) => call'[t] = AtHandle(pc, h)
    BY GotoFacts
  <2>3. Return(t, context[t]) => call'[t].pc = "idle"
    BY ReturnFacts
  <2>4. /\ AtHandle("closed", h).pc = "closed" /\ AtHandle("closed", h).handle = h
        /\ AtHandle("close_port", h).pc = "close_port" /\ AtHandle("close_port", h).handle = h
    BY CallsTyped
  <2> QED
    BY <2>1, <2>2, <2>3, <2>4
<1>4. \A u \in Thread : ~Is(u, h, LockPc)
  BY DEF SignalLocked, Is
<1>5. \A g : StateOf(g)' = StateOf(g)
  BY DEF StateOf
<1>6. /\ \A g \in Handle : g # h => (Busy(g)' <=> Busy(g))
      /\ Busy(h) => Busy(h)'
      /\ \A g \in Handle : /\ Some(g, TellPc)' <=> Some(g, TellPc)
                           /\ Some(g, MovePc)' <=> Some(g, MovePc)
  BY <1>2, <1>3 DEF Busy, Some, Is, Others
<1>7. trap.handles[h] # 0 => Busy(h)'
  <2>1. CASE ~Busy(h) /\ trap.handles[h] # 0
    <3>1. pipe[h].refs # {}
      BY <2>1 DEF TrapInv, Registered
    <3> QED
      BY <1>3, <3>1 DEF Busy, Some, Is
  <2> QED
    BY <1>6, <2>1
<1>8. /\ \A g \in Handle : trap.handles[g] \in Ids \union {0}
      /\ \A c \in Context : trap.watches[c] \in Ids \union {0}
      /\ \A w \in Ids : watch[w].trigger.handle \in Handle
      /\ \A u \in Thread : call[u].watches \subseteq Ids
      /\ \A u \in Thread : call[u].pc \notin {"idle", "add", "close_trap"} => call[u].handle \in Handle
  BY MapFacts, AtFacts
<1>9. \A g \in Handle : pipe[g].closed => pipe'[g].closed
  BY <1>1
<1>10. \A u \in Thread : call'[u].pc \in HandPc \union MovePc \union AfterPc => call'[u] = call[u]
  BY <1>2, <1>3 DEF Others
<1>11. PipesClosed'
  <2>1. \A g \in Handle : pipe'[g].transferred \/ ~pipe'[g].observed \/ ~port'[g].live
                            => pipe'[g].closed
    BY <1>1 DEF TrapInv, PipesClosed
  <2>2. \A u \in Thread : call'[u].pc \in ShutPc => pipe'[call'[u].handle].closed
    BY <1>1, <1>2, <1>3, <1>8, <1>9 DEF TrapInv, PipesClosed, Others
  <2> QED
    BY <1>10, <2>1, <2>2 DEF TrapInv, PipesClosed
<1>12. OneLock'
  BY <1>2, <1>3, <1>4 DEF TrapInv, OneLock, Is, Others
<1>13. Owns'
  BY <1>8, <1>9, <1>10 DEF TrapInv, Owns
<1>14. InMaps'
  BY <1>8, <1>9, <1>10 DEF TrapInv, InMaps
<1>15. Registered'
  BY <1>1, <1>6, <1>7 DEF TrapInv, Registered
<1>16. LockStates'
  <2>1. SUFFICES ASSUME NEW u \in Thread, NEW g \in Handle, Is(u, g, TellPc)'
                 PROVE  /\ \/ pipe'[g].last = call'[u].state
                           \/ pipe'[g].last = NoState /\ call'[u].pc = "add_notify"
                        /\ ~Some(g, MovePc)' /\ ~pipe'[g].closed => call'[u].state = StateOf(g)'
    BY DEF LockStates
  <2>2. call'[u] = call[u] /\ Is(u, g, TellPc) /\ g # h
    BY <1>2, <1>3, <1>4, <2>1 DEF Is, Others
  <2> QED
    BY <1>1, <1>5, <1>6, <2>2 DEF TrapInv, LockStates
<1>17. ToldLast'
  BY <1>1, <1>5, <1>6, <1>7 DEF TrapInv, ToldLast
<1> QED
  BY <1>11, <1>12, <1>13, <1>14, <1>15, <1>16, <1>17 DEF TrapInv

\* A message arrives or is taken, or the peer closes: the thread that saw it is
\* on its way to tell.
LEMMA PortStep ==
    ASSUME Shape, TrapInv, NEW t \in Thread, NEW h \in Handle, Others(t),
           call[t].pc \notin RolePc, call'[t].handle = h, call'[t].pc \in MovePc,
           \A g \in Handle : port'[g].live = port[g].live /\ (g # h => port'[g] = port[g]),
           UNCHANGED <<pipe, trap, watch>>
    PROVE  TrapInv'
<1>1. \A u \in Thread : call'[u].pc \in HandPc \union LockPc \union ShutPc \union AfterPc
        => call'[u] = call[u]
  BY DEF Others
<1>2. \A g \in Handle : /\ Busy(g)' <=> Busy(g)
                        /\ Some(g, TellPc)' <=> Some(g, TellPc)
                        /\ g # h => (Some(g, MovePc)' <=> Some(g, MovePc))
  BY DEF Busy, Some, Is, Others
<1>3. Some(h, MovePc)'
  BY DEF Some, Is
<1>4. \A g \in Handle : g # h => StateOf(g)' = StateOf(g)
  BY DEF StateOf
<1>5. \A u \in Thread : call[u].pc \notin {"idle", "add", "close_trap"} => call[u].handle \in Handle
  BY AtFacts
<1>6. PipesClosed'
  BY <1>1 DEF TrapInv, PipesClosed
<1>7. OneLock'
  BY <1>1 DEF TrapInv, OneLock, Is
<1>8. Owns'
  BY <1>1 DEF TrapInv, Owns
<1>9. InMaps'
  BY <1>1 DEF TrapInv, InMaps
<1>10. Registered'
  BY <1>2 DEF TrapInv, Registered
<1>11. LockStates'
  BY <1>1, <1>2, <1>3, <1>4 DEF TrapInv, LockStates, Is
<1>12. ToldLast'
  BY <1>2, <1>3, <1>4 DEF TrapInv, ToldLast
<1> QED
  BY <1>6, <1>7, <1>8, <1>9, <1>10, <1>11, <1>12 DEF TrapInv

\* A thread that saw a closed handle change has nobody to tell.
LEMMA GiveUpStep ==
    ASSUME Shape, TrapInv, NEW t \in Thread, Others(t), call[t].pc \in MovePc,
           \/ call'[t].pc = "idle" /\ pipe[call[t].handle].closed
           \/ call'[t].pc \in MovePc /\ call'[t].handle = call[t].handle,
           UNCHANGED <<port, pipe, trap, watch>>
    PROVE  TrapInv'
<1>1. \A u \in Thread : call'[u].pc \in HandPc \union LockPc \union ShutPc \union AfterPc
        => call'[u] = call[u]
  BY DEF Others
<1>2. \A g \in Handle : /\ Busy(g)' <=> Busy(g)
                        /\ Some(g, TellPc)' <=> Some(g, TellPc)
                        /\ ~pipe[g].closed => (Some(g, MovePc)' <=> Some(g, MovePc))
  BY DEF Busy, Some, Is, Others
<1>3. \A g \in Handle : StateOf(g)' = StateOf(g)
  BY DEF StateOf
<1>4. PipesClosed'
  BY <1>1 DEF TrapInv, PipesClosed
<1>5. OneLock'
  BY <1>1 DEF TrapInv, OneLock, Is
<1>6. Owns'
  BY <1>1 DEF TrapInv, Owns
<1>7. InMaps'
  BY <1>1 DEF TrapInv, InMaps
<1>8. Registered'
  BY <1>2 DEF TrapInv, Registered
<1>9. LockStates'
  BY <1>1, <1>2, <1>3 DEF TrapInv, LockStates, Is
<1>10. ToldLast'
  BY <1>2, <1>3 DEF TrapInv, ToldLast, Registered
<1> QED
  BY <1>4, <1>5, <1>6, <1>7, <1>8, <1>9, <1>10 DEF TrapInv

\* NodeController::ClosePort on a handle that is closed already.
LEMMA ClosePortStep ==
    ASSUME Shape, TrapInv, NEW t \in Thread, ClosePort(t)
    PROVE  TrapInv'
<1> DEFINE h == call[t].handle
<1>1. call[t].pc = "close_port"
  BY DEF ClosePort, At
<1>2. h \in Handle
  BY <1>1, AtFacts
<1>3. call'[t].pc = "idle" /\ Others(t)
  BY ReturnFacts DEF ClosePort
<1>4. pipe[h].closed
  BY <1>1 DEF TrapInv, PipesClosed
<1>5. /\ \A g \in Handle : /\ pipe'[g].closed = pipe[g].closed /\ pipe'[g].refs = pipe[g].refs
                           /\ pipe'[g].last = pipe[g].last
                           /\ g # h => pipe'[g] = pipe[g] /\ port'[g] = port[g]
      /\ UNCHANGED <<trap, watch>>
  BY <1>2 DEF ClosePort, Shape, Types, PipeType
<1>6. \A u \in Thread : call'[u].pc \in RolePc => call'[u] = call[u]
  BY <1>3 DEF Others
<1>7. \A g \in Handle : /\ Busy(g)' <=> Busy(g)
                        /\ Some(g, TellPc)' <=> Some(g, TellPc)
                        /\ Some(g, MovePc)' <=> Some(g, MovePc)
  BY <1>1, <1>3 DEF Busy, Some, Is, Others
<1>8. \A g \in Handle : g # h => StateOf(g)' = StateOf(g)
  BY <1>5 DEF StateOf
<1>9. /\ \A g \in Handle : trap.handles[g] \in Ids \union {0}
      /\ \A c \in Context : trap.watches[c] \in Ids \union {0}
      /\ \A w \in Ids : watch[w].trigger.handle \in Handle
      /\ \A u \in Thread : call[u].pc \notin {"idle", "add", "close_trap"} => call[u].handle \in Handle
  BY MapFacts, AtFacts
<1>10. PipesClosed'
  BY <1>4, <1>5, <1>6, <1>9 DEF TrapInv, PipesClosed
<1>11. OneLock'
  BY <1>6 DEF TrapInv, OneLock, Is
<1>12. Owns'
  BY <1>5, <1>6, <1>9 DEF TrapInv, Owns
<1>13. InMaps'
  BY <1>5, <1>6, <1>9 DEF TrapInv, InMaps
<1>14. Registered'
  BY <1>5, <1>7 DEF TrapInv, Registered
<1>15. LockStates'
  BY <1>4, <1>5, <1>6, <1>7, <1>8 DEF TrapInv, LockStates, Is
<1>16. ToldLast'
  BY <1>4, <1>5, <1>7, <1>8 DEF TrapInv, ToldLast, Registered
<1> QED
  BY <1>10, <1>11, <1>12, <1>13, <1>14, <1>15, <1>16 DEF TrapInv

\* A reference leaves the WatcherSet of a handle.
LEMMA UnrefFacts ==
    ASSUME Shape, NEW h \in Handle, NEW c, RemoveWatcherRef(h, c)
    PROVE  \A g \in Handle : /\ pipe'[g].closed = pipe[g].closed
                             /\ pipe'[g].last = pipe[g].last
                             /\ pipe'[g].transferred = pipe[g].transferred
                             /\ pipe'[g].observed = pipe[g].observed
                             /\ g # h => pipe'[g] = pipe[g]
<1>1. pipe \in [Handle -> PipeType] /\ pipe[h] \in PipeType
  BY DEF Shape, Types
<1>2. PICK r : pipe' = [pipe EXCEPT ![h].refs = r]
  BY DEF RemoveWatcherRef
<1> QED
  BY <1>1, <1>2 DEF PipeType

\* Once the trap is closed its watches and references no longer matter.
LEMMA AfterStep ==
    ASSUME Shape, TrapInv, NEW t \in Thread, Others(t), trap.closed,
           call[t].pc \in AfterPc \union {"add_check"},
           call'[t].pc \in {"idle", "close_trap", "add_remove"},
           \A g \in Handle : /\ pipe'[g].closed = pipe[g].closed
                             /\ pipe'[g].last = pipe[g].last
                             /\ pipe'[g].transferred = pipe[g].transferred
                             /\ pipe'[g].observed = pipe[g].observed,
           UNCHANGED <<port, trap, watch>>
    PROVE  TrapInv'
<1>1. \A u \in Thread : call'[u].pc \in HandPc \union LockPc \union ShutPc => call'[u] = call[u]
  BY DEF Others
<1>2. \A g \in Handle : Some(g, MovePc)' <=> Some(g, MovePc)
  BY DEF Some, Is, Others
<1>3. \A g \in Handle : StateOf(g)' = StateOf(g)
  BY DEF StateOf
<1>4. /\ \A g \in Handle : trap.handles[g] = 0
      /\ \A u \in Thread : call[u].pc \notin {"idle", "add", "close_trap"} => call[u].handle \in Handle
  BY MapFacts, AtFacts
<1>5. PipesClosed'
  BY <1>1, <1>4 DEF TrapInv, PipesClosed
<1>6. OneLock'
  BY <1>1 DEF TrapInv, OneLock, Is
<1>7. Owns'
  BY <1>1 DEF TrapInv, Owns
<1>8. InMaps'
  BY <1>1 DEF TrapInv, InMaps
<1>9. Registered' /\ ToldLast'
  BY <1>4 DEF Registered, ToldLast
<1>10. LockStates'
  BY <1>1, <1>2, <1>3 DEF TrapInv, LockStates, Is
<1> QED
  BY <1>5, <1>6, <1>7, <1>8, <1>9, <1>10 DEF TrapInv

----------------------------------------------------------------------------
(* Steps of the trap *)

\* The trap is told a handle's state.
LEMMA ToldStep ==
    ASSUME Shape, Shape', TrapInv, NEW t \in Thread, Notify(t) \/ AddNotify(t)
    PROVE  TrapInv'
<1>1. PICK h, st, w, rv :
        /\ h \in Handle /\ h = call[t].handle /\ st = call[t].state /\ w = trap.handles[h]
        /\ rv = ResultOf(watch[w].trigger, st)
  BY DEF Notify, AddNotify, At, Shape, CallOK
<1>2. PICK n : n = NotifyHandleState(h, st, context[t])
  OBVIOUS
<1>3. /\ trap' = n.trap /\ watch' = n.watch /\ UNCHANGED <<port, pipe>>
      /\ context[t] \in ContextType
  BY <1>1, <1>2 DEF Notify, AddNotify, Shape, Types
<1>4. NotifyEffect(context[t], n, w, rv)
  BY <1>1, <1>2, <1>3, NotifyFacts
<1>5. /\ trap'.handles = trap.handles /\ trap'.watches = trap.watches
      /\ trap'.closed = trap.closed /\ Len(watch') = Len(watch)
      /\ \A v \in Ids : /\ watch'[v].trigger = watch[v].trigger
                        /\ watch'[v].last = IF v = w THEN rv ELSE watch[v].last
  BY <1>3, <1>4 DEF NotifyEffect
<1>6. Ids' = Ids
  BY <1>5, SameIds
<1>7. Is(t, h, TellPc)
  BY <1>1 DEF Notify, AddNotify, At, Is
<1>8. call'[t].pc \in {"idle", "add_check"} /\ Others(t)
  <2>1. CASE Notify(t)
    <3>1. Return(t, n.context)
      BY <1>1, <1>2, <2>1 DEF Notify
    <3> QED
      BY <3>1, ReturnFacts
  <2>2. CASE AddNotify(t)
    <3>1. Goto(t, [call[t] EXCEPT !.pc = "add_check", !.state = NoState], n.context)
      BY <1>1, <1>2, <2>2 DEF AddNotify
    <3>2. call'[t] = [call[t] EXCEPT !.pc = "add_check", !.state = NoState] /\ Others(t)
      BY <3>1, GotoFacts
    <3> QED
      BY <3>2 DEF Shape, Types, CallType
  <2> QED
    BY <2>1, <2>2
<1>9. \A u \in Thread : call'[u].pc \in RolePc => call'[u] = call[u] /\ u # t
  BY <1>8 DEF Others
<1>10. \A g \in Handle : /\ Busy(g)' <=> Busy(g)
                         /\ g # h => (Some(g, TellPc)' <=> Some(g, TellPc))
                         /\ Some(g, MovePc)' <=> Some(g, MovePc)
  BY <1>7, <1>8 DEF Busy, Some, Is, Others
<1>11. \A g \in Handle : StateOf(g)' = StateOf(g)
  BY <1>3 DEF StateOf
<1>12. /\ \A g \in Handle : trap.handles[g] \in Ids \union {0}
       /\ \A c \in Context : trap.watches[c] \in Ids \union {0}
       /\ \A u \in Thread : call[u].watches \subseteq Ids
       /\ \A g \in Handle : trap.handles[g] # 0 => watch[trap.handles[g]].trigger.handle = g
  BY MapFacts
<1>13. PipesClosed'
  BY <1>3, <1>5, <1>9 DEF TrapInv, PipesClosed
<1>14. OneLock'
  BY <1>9 DEF TrapInv, OneLock, Is
<1>15. Owns'
  BY <1>3, <1>5, <1>9 DEF TrapInv, Owns
<1>16. InMaps'
  <2>1. ASSUME NEW c \in Context, ~trap.closed, trap.watches[c] # 0
        PROVE  \/ trap.handles[watch'[trap.watches[c]].trigger.handle] = trap.watches[c]
               \/ pipe[watch'[trap.watches[c]].trigger.handle].closed
    <3>1. watch'[trap.watches[c]].trigger = watch[trap.watches[c]].trigger
      BY <1>5, <1>12, <2>1
    <3> QED
      BY <2>1, <3>1 DEF TrapInv, InMaps
  <2>2. ASSUME NEW u \in Thread, call'[u].pc \in RemovePc, NEW v \in call'[u].watches
        PROVE  trap.watches[watch'[v].trigger.context] # v
    <3>1. call'[u] = call[u]
      BY <1>9, <2>2 DEF RolePc
    <3>2. v \in Ids
      BY <1>12, <2>2, <3>1
    <3>3. watch'[v].trigger = watch[v].trigger
      BY <1>5, <3>2
    <3> QED
      BY <2>2, <3>1, <3>3 DEF TrapInv, InMaps
  <2> QED
    BY <1>3, <1>5, <2>1, <2>2 DEF InMaps
<1>17. Registered'
  BY <1>3, <1>5, <1>10, <1>12 DEF TrapInv, Registered
<1>18. LockStates'
  BY <1>3, <1>9, <1>10, <1>11 DEF TrapInv, LockStates, Is
<1>19. ToldLast'
  <2>1. SUFFICES ASSUME NEW g \in Handle, trap.handles[g] # 0, ~Busy(g), ~Some(g, TellPc)'
                 PROVE  /\ pipe[g].last # NoState =>
                             watch'[trap.handles[g]].last
                               = ResultOf(watch'[trap.handles[g]].trigger, pipe[g].last)
                        /\ ~Some(g, MovePc) =>
                             watch'[trap.handles[g]].last
                               = ResultOf(watch'[trap.handles[g]].trigger, StateOf(g))
    BY <1>3, <1>5, <1>10, <1>11 DEF ToldLast
  <2>2. CASE g = h
    <3>1. watch'[w].last = rv /\ watch'[w].trigger = watch[w].trigger
      BY <1>1, <1>5, <1>12, <2>1, <2>2
    <3>2. ~pipe[h].closed
      BY <2>1, <2>2 DEF TrapInv, Registered
    <3>3. /\ pipe[h].last = st \/ pipe[h].last = NoState
          /\ ~Some(h, MovePc) => st = StateOf(h)
      BY <1>1, <1>7, <3>2 DEF TrapInv, LockStates
    <3> QED
      BY <1>1, <2>2, <3>1, <3>3
  <2>3. CASE g # h
    <3>1. trap.handles[g] # w /\ trap.handles[g] \in Ids
      BY <1>1, <1>12, <2>1, <2>3
    <3>2. /\ watch'[trap.handles[g]].last = watch[trap.handles[g]].last
          /\ watch'[trap.handles[g]].trigger = watch[trap.handles[g]].trigger
      BY <1>5, <3>1
    <3> QED
      BY <1>10, <2>1, <2>3, <3>2 DEF TrapInv, ToldLast
  <2> QED
    BY <2>2, <2>3
<1> QED
  BY <1>13, <1>14, <1>15, <1>16, <1>17, <1>18, <1>19 DEF TrapInv

\* A handle is taken out of watched_handles_ by the thread that has its watch in
\* hand, or that is closing it.
LEMMA DropStep ==
    ASSUME Shape, TrapInv, NEW t \in Thread, Others(t), NEW h \in Handle, call[t].handle = h,
           call[t].pc \in {"add_undo", "remove_handle", "closed"},
           call'[t].pc = "idle" \/ (call'[t].pc = "close_port" /\ call'[t].handle = h
                                    /\ call[t].pc = "closed"),
           UNCHANGED <<port, pipe>>, WatchSame, trap'.closed = trap.closed,
           \A g \in Handle : trap'.handles[g] = IF g = h THEN 0 ELSE trap.handles[g],
           \A c \in Context : trap'.watches[c] \in {0, trap.watches[c]},
           call[t].pc = "add_undo" =>
             \A w \in call[t].watches : trap'.watches[watch[w].trigger.context] = 0
    PROVE  TrapInv'
<1>1. \A u \in Thread : call'[u].pc \in HandPc \union LockPc \union MovePc \union AfterPc
        => call'[u] = call[u] /\ u # t
  BY DEF Others
<1>2. \A g \in Handle : /\ g # h => (Busy(g)' <=> Busy(g))
                        /\ Some(g, TellPc)' <=> Some(g, TellPc)
                        /\ Some(g, MovePc)' <=> Some(g, MovePc)
  BY DEF Busy, Some, Is, Others
<1>3. \A g \in Handle : StateOf(g)' = StateOf(g)
  BY DEF StateOf
<1>4. /\ \A g \in Handle : trap.handles[g] \in Ids \union {0}
      /\ \A c \in Context : trap.watches[c] \in Ids \union {0}
      /\ \A w \in Ids : watch[w].trigger.handle \in Handle /\ watch[w].trigger.context \in Context
      /\ \A u \in Thread : call[u].watches \subseteq Ids
      /\ \A c \in Context : trap.watches[c] # 0 => watch[trap.watches[c]].trigger.context = c
      /\ 0 \notin Ids
      /\ \A u \in Thread : call[u].pc \notin {"idle", "add", "close_trap"} => call[u].handle \in Handle
  BY MapFacts, AtFacts
<1>5. \/ trap.closed \/ pipe[h].closed
      \/ call[t].pc \in {"add_undo", "remove_handle"} /\ call[t].watches = {trap.handles[h]}
  BY DEF TrapInv, Owns, PipesClosed
<1>6. PipesClosed'
  <2>1. call'[t].pc \in ShutPc => pipe[call'[t].handle].closed
    BY DEF TrapInv, PipesClosed
  <2> QED
    BY <1>1, <2>1 DEF TrapInv, PipesClosed, Others
<1>7. OneLock'
  BY <1>1 DEF TrapInv, OneLock, Is
<1>8. Owns'
  <2>1. ASSUME NEW u \in Thread, call'[u].pc \in HandPc
        PROVE  \/ trap.closed
               \/ pipe[call[u].handle].closed
               \/ call[u].watches = {trap'.handles[call[u].handle]}
    <3>1. call'[u] = call[u] /\ u # t /\ call[u].handle \in Handle
      BY <1>1, <1>4, <2>1
    <3>2. CASE call[u].handle # h
      BY <2>1, <3>1, <3>2 DEF TrapInv, Owns
    <3>3. CASE call[u].handle = h
      BY <1>5, <2>1, <3>1, <3>3 DEF TrapInv, Owns
    <3> QED
      BY <3>2, <3>3
  <2> QED
    BY <1>1, <2>1 DEF TrapInv, Owns
<1>9. InMaps'
  <2>1. ASSUME ~trap.closed, NEW c \in Context, trap'.watches[c] # 0, NEW v,
               v = trap'.watches[c]
        PROVE  \/ trap'.handles[watch'[v].trigger.handle] = v
               \/ pipe[watch'[v].trigger.handle].closed
    <3>1. v = trap.watches[c] /\ v \in Ids /\ watch[v].trigger.context = c
      BY <1>4, <2>1
    <3>2. watch'[v].trigger = watch[v].trigger /\ watch[v].trigger.handle \in Handle
      BY <1>4, <3>1 DEF WatchSame
    <3>3. trap.handles[watch[v].trigger.handle] = v \/ pipe[watch[v].trigger.handle].closed
      BY <2>1, <3>1 DEF TrapInv, InMaps
    <3>4. CASE watch[v].trigger.handle # h
      BY <3>2, <3>3, <3>4
    <3>5. CASE watch[v].trigger.handle = h /\ ~pipe[h].closed
      <4>1. call[t].watches = {v} /\ call[t].pc \in {"add_undo", "remove_handle"}
        BY <1>5, <2>1, <3>3, <3>5
      <4>2. trap'.watches[c] = 0 \/ trap.watches[c] # v
        BY <3>1, <4>1 DEF TrapInv, InMaps
      <4> QED
        BY <2>1, <3>1, <4>2
    <3> QED
      BY <3>2, <3>4, <3>5
  <2>2. ASSUME NEW u \in Thread, call'[u].pc \in RemovePc, NEW w \in call'[u].watches
        PROVE  trap'.watches[watch'[w].trigger.context] # w
    <3>1. call'[u] = call[u] /\ w \in Ids
      BY <1>1, <1>4, <2>2
    <3>2. trap.watches[watch[w].trigger.context] # w /\ watch'[w].trigger = watch[w].trigger
      BY <2>2, <3>1 DEF TrapInv, InMaps, WatchSame
    <3> QED
      BY <1>4, <3>1, <3>2
  <2> QED
    BY <2>1, <2>2 DEF InMaps
<1>10. Registered'
  BY <1>2, <1>4 DEF TrapInv, Registered, WatchSame
<1>11. LockStates'
  BY <1>1, <1>2, <1>3 DEF TrapInv, LockStates, Is
<1>12. ToldLast'
  BY <1>2, <1>3, <1>4 DEF TrapInv, ToldLast, WatchSame
<1> QED
  BY <1>6, <1>7, <1>8, <1>9, <1>10, <1>11, <1>12 DEF TrapInv

\* WatchDispatcher makes a watch for a handle that has none: the thread has it
\* in hand.
LEMMA MakeStep ==
    ASSUME Shape, TrapInv, NEW t \in Thread, AddWatch(t), NEW w, NEW tr, MakesWatch(t, w, tr)
    PROVE  TrapInv'
<1>1. /\ w \notin Ids /\ w # 0 /\ tr \in Triggers
      /\ trap.handles[tr.handle] = 0
      /\ Ids' = Ids \union {w} /\ \A v \in Ids : watch'[v] = watch[v]
      /\ watch'[w].trigger = tr
      /\ trap'.closed = trap.closed
      /\ \A g \in Handle : trap'.handles[g] = IF g = tr.handle THEN w ELSE trap.handles[g]
      /\ \A g \in Context : trap'.watches[g] = IF g = tr.context THEN w ELSE trap.watches[g]
  BY DEF MakesWatch
<1>2. PICK h \in Handle, k \in Context : h = tr.handle /\ k = tr.context
  BY <1>1, TriggerFacts
<1>3. /\ call'[t].pc = "add_ref" /\ call'[t].handle = h /\ call'[t].watches = {w}
      /\ Others(t)
  <2>1. PICK c : c = [Idle EXCEPT !.pc = "add_ref", !.handle = h, !.watches = {w}]
    OBVIOUS
  <2>2. Goto(t, c, context[t])
    BY <1>2, <2>1 DEF MakesWatch
  <2>3. call'[t] = c /\ Others(t)
    BY <2>2, GotoFacts
  <2> QED
    BY <2>1, <2>3 DEF Idle
<1>4. call[t].pc = "add" /\ UNCHANGED <<port, pipe>>
  BY DEF AddWatch, At
<1>5. \A u \in Thread : call'[u].pc \in RolePc => u = t \/ call'[u] = call[u]
  BY <1>3 DEF Others
<1>6. \A u \in Thread : call'[u].pc \in LockPc \union MovePc \union ShutPc \union AfterPc
                                          \union RemovePc
        => call'[u] = call[u]
  BY <1>3 DEF Others
<1>7. \A g \in Handle : /\ g # h => (Busy(g)' <=> Busy(g))
                        /\ Some(g, TellPc)' <=> Some(g, TellPc)
                        /\ Some(g, MovePc)' <=> Some(g, MovePc)
  BY <1>3, <1>4 DEF Busy, Some, Is, Others
<1>8. Busy(h)'
  BY <1>3 DEF Busy, Some, Is
<1>9. \A g \in Handle : StateOf(g)' = StateOf(g)
  BY <1>4 DEF StateOf
<1>10. /\ \A g \in Handle : trap.handles[g] \in Ids \union {0}
       /\ \A c \in Context : trap.watches[c] \in Ids \union {0}
       /\ \A v \in Ids : watch[v].trigger.handle \in Handle /\ watch[v].trigger.context \in Context
       /\ \A u \in Thread : call[u].watches \subseteq Ids
       /\ \A u \in Thread : call[u].pc \notin {"idle", "add", "close_trap"} => call[u].handle \in Handle
       /\ \A u \in Thread : call[u].pc \in HandPc => \E v \in Ids : call[u].watches = {v}
       /\ 0 \notin Ids
  BY MapFacts, AtFacts
<1>11. PipesClosed'
  BY <1>1, <1>4, <1>6 DEF TrapInv, PipesClosed
<1>12. OneLock'
  BY <1>6 DEF TrapInv, OneLock, Is
<1>13. Owns'
  <2>1. ASSUME NEW u \in Thread, call'[u].pc \in HandPc
        PROVE  \/ trap'.closed
               \/ pipe'[call'[u].handle].closed
               \/ call'[u].watches = {trap'.handles[call'[u].handle]}
    <3>1. CASE u = t
      BY <1>1, <1>2, <1>3, <3>1
    <3>2. CASE u # t
      <4>1. call'[u] = call[u] /\ call[u].pc \in HandPc /\ call[u].handle \in Handle
        BY <1>5, <1>10, <2>1, <3>2
      <4>2. \/ trap.closed \/ pipe[call[u].handle].closed
            \/ call[u].watches = {trap.handles[call[u].handle]}
        BY <4>1 DEF TrapInv, Owns
      <4>3. call[u].watches # {0}
        BY <1>10, <4>1
      <4> QED
        BY <1>1, <1>2, <1>4, <4>1, <4>2, <4>3
    <3> QED
      BY <3>1, <3>2
  <2>2. ASSUME NEW u \in Thread, NEW s \in Thread, u # s, call'[u].pc \in HandPc,
               call'[s].pc \in HandPc
        PROVE  call'[u].watches # call'[s].watches
    <3>1. CASE u # t /\ s # t
      BY <1>5, <2>2, <3>1 DEF TrapInv, Owns
    <3>2. \A x \in Thread : x # t => w \notin call'[x].watches
      BY <1>1, <1>3, <1>10 DEF Others
    <3> QED
      BY <1>3, <2>2, <3>1, <3>2
  <2> QED
    BY <2>1, <2>2 DEF Owns
<1>14. InMaps'
  <2>1. ASSUME ~trap.closed, NEW c \in Context, NEW v, v = trap'.watches[c], v # 0
        PROVE  \/ trap'.handles[watch'[v].trigger.handle] = v
               \/ pipe'[watch'[v].trigger.handle].closed
    <3>1. CASE v = w
      BY <1>1, <1>2, <3>1
    <3>2. CASE v # w
      <4>1. v = trap.watches[c] /\ v \in Ids
        BY <1>1, <1>10, <2>1, <3>2
      <4>2. trap.handles[watch[v].trigger.handle] = v \/ pipe[watch[v].trigger.handle].closed
        BY <2>1, <4>1 DEF TrapInv, InMaps
      <4> QED
        BY <1>1, <1>2, <1>4, <1>10, <2>1, <4>1, <4>2
    <3> QED
      BY <3>1, <3>2
  <2>2. ASSUME NEW u \in Thread, call'[u].pc \in RemovePc, NEW v \in call'[u].watches
        PROVE  trap'.watches[watch'[v].trigger.context] # v
    <3>1. call'[u] = call[u] /\ v \in Ids
      BY <1>6, <1>10, <2>2
    <3>2. trap.watches[watch[v].trigger.context] # v
      BY <2>2, <3>1 DEF TrapInv, InMaps
    <3> QED
      BY <1>1, <1>10, <3>1, <3>2
  <2> QED
    BY <1>1, <2>1, <2>2 DEF InMaps
<1>15. Registered'
  BY <1>1, <1>2, <1>4, <1>7, <1>8, <1>10 DEF TrapInv, Registered
<1>16. LockStates'
  BY <1>4, <1>6, <1>7, <1>9 DEF TrapInv, LockStates, Is
<1>17. ToldLast'
  BY <1>1, <1>2, <1>4, <1>7, <1>8, <1>9, <1>10 DEF TrapInv, ToldLast
<1> QED
  BY <1>11, <1>12, <1>13, <1>14, <1>15, <1>16, <1>17 DEF TrapInv

\* A thread keeps the watch it has in hand: AddWatcherRef refused, or the
\* reference of a watch that is being removed is dropped.
LEMMA KeepStep ==
    ASSUME Shape, TrapInv, NEW t \in Thread, Others(t), NEW h \in Handle, call[t].handle = h,
           \/ call[t].pc = "add_ref" /\ call'[t].pc = "add_undo"
           \/ call[t].pc = "remove_ref" /\ call'[t].pc = "remove_handle",
           call'[t].handle = h, call'[t].watches = call[t].watches,
           \A g \in Handle : /\ pipe'[g].closed = pipe[g].closed
                             /\ pipe'[g].last = pipe[g].last
                             /\ pipe'[g].transferred = pipe[g].transferred
                             /\ pipe'[g].observed = pipe[g].observed
                             /\ g # h => pipe'[g] = pipe[g],
           UNCHANGED <<port, trap, watch>>
    PROVE  TrapInv'
<1>1. \A u \in Thread : call'[u].pc \in LockPc \union MovePc \union ShutPc \union AfterPc
        => call'[u] = call[u]
  BY DEF Others
<1>2. \A g \in Handle : /\ Busy(g)' <=> Busy(g)
                        /\ Some(g, TellPc)' <=> Some(g, TellPc)
                        /\ Some(g, MovePc)' <=> Some(g, MovePc)
  BY DEF Busy, Some, Is, Others
<1>3. Busy(h)
  BY DEF Busy, Some, Is
<1>4. \A g \in Handle : StateOf(g)' = StateOf(g)
  BY DEF StateOf
<1>5. \A u \in Thread : /\ call'[u].pc \in HandPc <=> call[u].pc \in HandPc
                        /\ call'[u].pc \in RemovePc <=> call[u].pc \in RemovePc
                        /\ call'[u].pc \in HandPc => /\ call'[u].handle = call[u].handle
                                                     /\ call'[u].watches = call[u].watches
  BY DEF Others
<1>6. /\ \A u \in Thread : call[u].pc \notin {"idle", "add", "close_trap"} => call[u].handle \in Handle
      /\ \A c \in Context : trap.watches[c] \in Ids \union {0}
      /\ \A w \in Ids : watch[w].trigger.handle \in Handle
  BY MapFacts, AtFacts
<1>7. PipesClosed'
  BY <1>1, <1>6 DEF TrapInv, PipesClosed
<1>8. OneLock'
  BY <1>1 DEF TrapInv, OneLock, Is
<1>9. Owns'
  BY <1>5, <1>6 DEF TrapInv, Owns
<1>10. InMaps'
  BY <1>5, <1>6 DEF TrapInv, InMaps
<1>11. Registered'
  BY <1>2, <1>3 DEF TrapInv, Registered
<1>12. LockStates'
  BY <1>1, <1>2, <1>4 DEF TrapInv, LockStates, Is
<1>13. ToldLast'
  BY <1>2, <1>3, <1>4 DEF TrapInv, ToldLast
<1> QED
  BY <1>7, <1>8, <1>9, <1>10, <1>11, <1>12, <1>13 DEF TrapInv

\* WatcherSet::Add: the watch in hand is registered, and about to be told.
LEMMA RefStep ==
    ASSUME Shape, TrapInv, NEW t \in Thread, Others(t), NEW h \in Handle, call[t].handle = h,
           NEW w \in Ids, call[t].watches = {w},
           call[t].pc = "add_ref", ~SignalLocked(h), ~pipe[h].closed,
           call'[t].pc = "add_notify", call'[t].handle = h, call'[t].watches = {w},
           call'[t].state = StateOf(h),
           pipe'[h].closed = pipe[h].closed, watch[w].trigger.context \in pipe'[h].refs,
           pipe'[h].last = IF pipe[h].last = NoState THEN NoState ELSE StateOf(h),
           pipe'[h].transferred = pipe[h].transferred,
           pipe'[h].observed = pipe[h].observed,
           \A g \in Handle : g # h => pipe'[g] = pipe[g],
           UNCHANGED <<port, trap, watch>>
    PROVE  TrapInv'
<1>1. \A u \in Thread : call'[u].pc \in MovePc \union ShutPc \union AfterPc
        => call'[u] = call[u]
  BY DEF Others
<1>2. \A u \in Thread : ~Is(u, h, LockPc)
  BY DEF SignalLocked, Is
<1>3. /\ \A g \in Handle : /\ g # h => (Busy(g)' <=> Busy(g))
                           /\ g # h => (Some(g, TellPc)' <=> Some(g, TellPc))
                           /\ Some(g, MovePc)' <=> Some(g, MovePc)
      /\ Some(h, TellPc)'
  BY DEF Busy, Some, Is, Others
<1>4. \A g \in Handle : StateOf(g)' = StateOf(g)
  BY DEF StateOf
<1>5. \A u \in Thread : /\ call'[u].pc \in HandPc <=> call[u].pc \in HandPc
                        /\ call'[u].pc \in RemovePc => call[u].pc \in RemovePc
                        /\ call'[u].handle = call[u].handle
                        /\ call'[u].watches = call[u].watches
  BY DEF Others
<1>6. /\ \A u \in Thread : call[u].pc \notin {"idle", "add", "close_trap"} => call[u].handle \in Handle
      /\ \A c \in Context : trap.watches[c] \in Ids \union {0}
      /\ \A v \in Ids : watch[v].trigger.handle \in Handle
      /\ \A g \in Handle : trap.closed => trap.handles[g] = 0
  BY MapFacts, AtFacts
<1>7. \A g \in Handle : pipe'[g].closed = pipe[g].closed
  OBVIOUS
<1>8. PipesClosed'
  BY <1>1, <1>6 DEF TrapInv, PipesClosed
<1>9. OneLock'
  BY <1>2 DEF TrapInv, OneLock, Is, Others
<1>10. Owns'
  BY <1>5, <1>6, <1>7 DEF TrapInv, Owns
<1>11. InMaps'
  BY <1>5, <1>6, <1>7 DEF TrapInv, InMaps
<1>12. Registered'
  <2>1. trap.handles[h] # 0 => trap.handles[h] = w
    BY <1>6 DEF TrapInv, Owns
  <2> QED
    BY <1>3, <1>7, <2>1 DEF TrapInv, Registered
<1>13. LockStates'
  <2>1. SUFFICES ASSUME NEW u \in Thread, NEW g \in Handle, Is(u, g, TellPc)'
                 PROVE  /\ \/ pipe'[g].last = call'[u].state
                           \/ pipe'[g].last = NoState /\ call'[u].pc = "add_notify"
                        /\ ~Some(g, MovePc)' /\ ~pipe'[g].closed => call'[u].state = StateOf(g)'
    BY DEF LockStates
  <2>2. CASE u = t
    BY <1>4, <2>1, <2>2 DEF Is
  <2>3. CASE u # t
    <3>1. call'[u] = call[u] /\ Is(u, g, TellPc) /\ g # h
      BY <1>2, <2>1, <2>3 DEF Is, Others
    <3> QED
      BY <1>3, <1>4, <3>1 DEF TrapInv, LockStates
  <2> QED
    BY <2>2, <2>3
<1>14. ToldLast'
  BY <1>3, <1>4 DEF TrapInv, ToldLast
<1> QED
  BY <1>8, <1>9, <1>10, <1>11, <1>12, <1>13, <1>14 DEF TrapInv

\* CancelWatch takes a watch that is in nobody's hands.
LEMMA TakeStep ==
    ASSUME Shape, TrapInv, NEW t \in Thread, RemoveTrigger(t)
    PROVE  TrapInv'
<1>1. PICK k, w, h :
        /\ k \in Context /\ w = trap.watches[k] /\ w # 0 /\ h = watch[w].trigger.handle /\ Removable(k)
        /\ trap' = [trap EXCEPT !.watches[k] = 0]
        /\ Goto(t, [Idle EXCEPT !.pc = "remove_ref", !.watches = {w}, !.handle = h],
                AddCancel(context[t], w))
  BY DEF RemoveTrigger
<1>2. ~trap.closed /\ UNCHANGED <<port, pipe, watch>> /\ call[t].pc = "idle"
  BY DEF RemoveTrigger, BeginCall
<1>3. /\ \A g \in Handle : trap.handles[g] \in Ids \union {0}
      /\ \A c \in Context : trap.watches[c] \in Ids \union {0}
      /\ \A v \in Ids : watch[v].trigger.handle \in Handle /\ watch[v].trigger.context \in Context
      /\ \A c \in Context : trap.watches[c] # 0 => watch[trap.watches[c]].trigger.context = c
      /\ \A u \in Thread : call[u].watches \subseteq Ids
  BY MapFacts
<1>4. w \in Ids /\ h \in Handle /\ watch[w].trigger.context = k
  BY <1>1, <1>3
<1>5. /\ call'[t].pc = "remove_ref" /\ call'[t].handle = h /\ call'[t].watches = {w}
      /\ Others(t)
  <2>1. PICK c : c = [Idle EXCEPT !.pc = "remove_ref", !.watches = {w}, !.handle = h]
    OBVIOUS
  <2>2. call'[t] = c /\ Others(t)
    BY <1>1, <2>1, GotoFacts
  <2> QED
    BY <2>1, <2>2 DEF Idle
<1>6. /\ trap'.closed = trap.closed /\ trap'.handles = trap.handles
      /\ \A c \in Context : trap'.watches[c] = IF c = k THEN 0 ELSE trap.watches[c]
  BY <1>1 DEF Shape, Types, TrapType
<1>7. \A u \in Thread : call'[u].pc \in LockPc \union MovePc \union ShutPc \union AfterPc
        => call'[u] = call[u]
  BY <1>5 DEF Others
<1>8. \A g \in Handle : /\ Busy(g) => Busy(g)'
                        /\ Some(g, TellPc)' <=> Some(g, TellPc)
                        /\ Some(g, MovePc)' <=> Some(g, MovePc)
  BY <1>2, <1>5 DEF Busy, Some, Is, Others
<1>9. \A g \in Handle : StateOf(g)' = StateOf(g)
  BY <1>2 DEF StateOf
<1>10. PipesClosed'
  BY <1>2, <1>6, <1>7 DEF TrapInv, PipesClosed
<1>11. OneLock'
  BY <1>7 DEF TrapInv, OneLock, Is
<1>12. Owns'
  <2>1. trap.handles[h] = w \/ pipe[h].closed
    BY <1>1, <1>2 DEF TrapInv, InMaps
  <2>2. \A u \in Thread : w \notin call[u].watches
    BY <1>1, <1>4 DEF Removable
  <2>3. ASSUME NEW u \in Thread, call'[u].pc \in HandPc
        PROVE  \/ trap'.closed
               \/ pipe'[call'[u].handle].closed
               \/ call'[u].watches = {trap'.handles[call'[u].handle]}
    <3>1. CASE u = t
      BY <1>2, <1>5, <1>6, <2>1, <3>1
    <3>2. CASE u # t
      BY <1>2, <1>5, <1>6, <2>3, <3>2 DEF Others, TrapInv, Owns
    <3> QED
      BY <3>1, <3>2
  <2>4. ASSUME NEW u \in Thread, NEW s \in Thread, u # s, call'[u].pc \in HandPc,
               call'[s].pc \in HandPc
        PROVE  call'[u].watches # call'[s].watches
    BY <1>5, <2>2, <2>4 DEF Others, TrapInv, Owns
  <2> QED
    BY <2>3, <2>4 DEF Owns
<1>13. InMaps'
  <2>1. ASSUME NEW u \in Thread, call'[u].pc \in RemovePc, NEW v \in call'[u].watches
        PROVE  trap'.watches[watch'[v].trigger.context] # v
    <3>1. CASE u = t
      BY <1>2, <1>1, <1>4, <1>5, <1>6, <2>1, <3>1
    <3>2. CASE u # t
      <4>1. call'[u] = call[u] /\ v \in Ids /\ v # 0
        BY <1>3, <1>5, <2>1, <3>2, MapFacts DEF Others
      <4>2. trap.watches[watch[v].trigger.context] # v
        BY <2>1, <4>1 DEF TrapInv, InMaps
      <4> QED
        BY <1>2, <1>3, <1>6, <4>1, <4>2
    <3> QED
      BY <3>1, <3>2
  <2>2. \A c \in Context : trap'.watches[c] # 0 =>
          \/ trap'.handles[watch'[trap'.watches[c]].trigger.handle] = trap'.watches[c]
          \/ pipe'[watch'[trap'.watches[c]].trigger.handle].closed
    BY <1>2, <1>6 DEF TrapInv, InMaps
  <2> QED
    BY <2>1, <2>2 DEF InMaps
<1>14. Registered'
  BY <1>2, <1>6, <1>8 DEF TrapInv, Registered
<1>15. LockStates'
  BY <1>2, <1>7, <1>8, <1>9 DEF TrapInv, LockStates, Is
<1>16. ToldLast'
  BY <1>2, <1>6, <1>8, <1>9 DEF TrapInv, ToldLast
<1> QED
  BY <1>10, <1>11, <1>12, <1>13, <1>14, <1>15, <1>16 DEF TrapInv

\* Close empties both maps.
LEMMA CloseTrapStep ==
    ASSUME Shape, TrapInv, NEW t \in Thread, CloseTrap(t)
    PROVE  TrapInv'
<1>1. /\ trap'.closed /\ \A g \in Handle : trap'.handles[g] = 0
      /\ \A c \in Context : trap'.watches[c] = 0
  BY DEF CloseTrap, Shape, Types, TrapType
<1>2. UNCHANGED <<port, pipe, watch>> /\ call[t].pc = "idle"
  BY DEF CloseTrap, BeginCall
<1>3. call'[t].pc = "close_trap" /\ Others(t)
  <2>1. PICK c : c = [Idle EXCEPT !.pc = "close_trap",
                                  !.watches = {trap.watches[x] : x \in Context} \ {0}]
    OBVIOUS
  <2>2. Goto(t, c, context[t])
    BY <2>1 DEF CloseTrap
  <2>3. call'[t] = c /\ Others(t)
    BY <2>2, GotoFacts
  <2> QED
    BY <2>1, <2>3 DEF Idle
<1>4. \A u \in Thread : call'[u].pc \in HandPc \union LockPc \union MovePc \union ShutPc
        => call'[u] = call[u]
  BY <1>3 DEF Others
<1>5. \A g \in Handle : Some(g, MovePc)' <=> Some(g, MovePc)
  BY <1>2, <1>3 DEF Some, Is, Others
<1>6. \A g \in Handle : StateOf(g)' = StateOf(g)
  BY <1>2 DEF StateOf
<1>7. PipesClosed'
  BY <1>1, <1>2, <1>4 DEF TrapInv, PipesClosed
<1>8. OneLock'
  BY <1>4 DEF TrapInv, OneLock, Is
<1>9. Owns'
  BY <1>1, <1>4 DEF TrapInv, Owns
<1>10. InMaps'
  <2>1. ASSUME NEW u \in Thread, call'[u].pc \in RemovePc, NEW v \in call'[u].watches
        PROVE  trap'.watches[watch'[v].trigger.context] # v
    <3>1. v \in Ids /\ v # 0 /\ watch[v].trigger.context \in Context
      BY <1>4, <2>1, MapFacts
    <3> QED
      BY <1>1, <1>2, <3>1
  <2> QED
    BY <1>1, <2>1 DEF InMaps
<1>11. Registered' /\ ToldLast'
  BY <1>1 DEF Registered, ToldLast
<1>12. LockStates'
  BY <1>2, <1>4, <1>5, <1>6 DEF TrapInv, LockStates, Is
<1> QED
  BY <1>7, <1>8, <1>9, <1>10, <1>11, <1>12 DEF TrapInv

----------------------------------------------------------------------------
(* Every step keeps the invariant *)

LEMMA BeginTrapInv ==
    ASSUME Shape, Shape', TrapInv, NEW t \in Thread, Begin(t)
    PROVE  TrapInv'
<1>1. call[t].pc = "idle"
  BY DEF Begin, BeginCall, AddTrigger, RemoveTrigger, Arm, CloseTrap, PortEvent, ReadMessage,
         CloseHandle, BeginTransit, CancelTransit, CompleteTransit
<1>2. /\ pipe \in [Handle -> PipeType] /\ port \in [Handle -> PortType]
      /\ trap \in TrapType
  BY DEF Shape, Types
<1>3. (UNCHANGED watch => WatchSame) /\ (UNCHANGED trap => MapsSame)
      /\ (UNCHANGED port => \A g \in Handle : PortSame(g))
      /\ (UNCHANGED pipe => \A g \in Handle : PipeSame(g))
  BY DEF WatchSame, MapsSame, PortSame, PipeSame, Ids, StateOf
<1>4. CASE AddTrigger(t)
  <2>1. PICK tr \in Triggers : Goto(t, Adding(tr), context[t])
    BY <1>4 DEF AddTrigger, Adding
  <2>2. call'[t].pc = "add" /\ Others(t)
    BY <2>1, GotoFacts, CallsTyped
  <2> QED
    BY <1>1, <1>3, <1>4, <2>2, CalmStep DEF AddTrigger
<1>5. CASE RemoveTrigger(t)
  BY <1>5, TakeStep
<1>6. CASE Arm(t)
  <2>1. call'[t].pc = "idle" /\ Others(t)
    BY <1>6, ReturnFacts DEF Arm
  <2>2. MapsSame
    BY <1>2, <1>6 DEF Arm, MapsSame, TrapType
  <2> QED
    BY <1>1, <1>3, <1>6, <2>1, <2>2, CalmStep DEF Arm
<1>7. CASE CloseTrap(t)
  BY <1>7, CloseTrapStep
<1>8. CASE PortEvent(t)
  <2>1. PICK h \in Handle :
          /\ \/ port' = [port EXCEPT ![h].queued = @ + 1, ![h].coming = @ - 1]
             \/ \E n \in 0 .. port[h].coming :
                  port' = [port EXCEPT ![h].peerClosed = TRUE, ![h].coming = n]
          /\ Goto(t, AtHandle("observe", h), context[t])
    BY <1>8 DEF PortEvent, AtHandle
  <2>2. call'[t].pc = "observe" /\ call'[t].handle = h /\ Others(t)
    BY <2>1, GotoFacts, CallsTyped
  <2>3. \A g \in Handle : port'[g].live = port[g].live /\ (g # h => port'[g] = port[g])
    BY <1>2, <2>1 DEF PortType
  <2> QED
    BY <1>1, <1>8, <2>2, <2>3, PortStep DEF PortEvent
<1>9. CASE ReadMessage(t)
  <2>1. PICK h \in Handle : /\ port' = [port EXCEPT ![h].queued = @ - 1]
                            /\ Goto(t, AtHandle("read", h), context[t])
    BY <1>9 DEF ReadMessage, AtHandle
  <2>2. call'[t].pc = "read" /\ call'[t].handle = h /\ Others(t)
    BY <2>1, GotoFacts, CallsTyped
  <2>3. \A g \in Handle : port'[g].live = port[g].live /\ (g # h => port'[g] = port[g])
    BY <1>2, <2>1 DEF PortType
  <2> QED
    BY <1>1, <1>9, <2>2, <2>3, PortStep DEF ReadMessage
<1>10. CASE CloseHandle(t)
  <2>1. PICK h \in Handle : /\ pipe' = [pipe EXCEPT ![h].entry = "gone"]
                            /\ Goto(t, AtHandle("close", h), context[t])
    BY <1>10 DEF CloseHandle, AtHandle
  <2>2. call'[t].pc = "close" /\ Others(t)
    BY <2>1, GotoFacts, CallsTyped
  <2>3. \A g \in Handle : PipeSame(g)
    BY <1>2, <2>1 DEF PipeSame, PipeType
  <2> QED
    BY <1>1, <1>3, <1>10, <2>2, <2>3, CalmStep DEF CloseHandle
<1>11. CASE BeginTransit(t)
  <2>1. PICK h \in Handle : pipe' = [pipe EXCEPT ![h].entry = "busy", ![h].inTransit = TRUE]
    BY <1>11 DEF BeginTransit
  <2>2. \A g \in Handle : PipeSame(g)
    BY <1>2, <2>1 DEF PipeSame, PipeType
  <2>3. Others(t) /\ call'[t].pc = "idle"
    BY <1>1, <1>11 DEF BeginTransit, Others
  <2> QED
    BY <1>1, <1>3, <1>11, <2>2, <2>3, CalmStep DEF BeginTransit
<1>12. CASE CancelTransit(t)
  <2>1. PICK h, p :
          /\ h \in Handle /\ p = [pipe[h] EXCEPT !.inTransit = FALSE, !.entry = "open"]
          /\ ~SignalLocked(h) /\ NotifyState(t, h, p)
    BY <1>12 DEF CancelTransit
  <2>2. /\ p \in PipeType /\ p.closed = pipe[h].closed /\ p.refs = pipe[h].refs
        /\ p.last = pipe[h].last /\ p.transferred = pipe[h].transferred
        /\ p.observed = pipe[h].observed
    BY <1>2, <2>1 DEF PipeType
  <2> QED
    BY <1>1, <1>12, <2>1, <2>2, TellStep DEF CancelTransit
<1>13. CASE CompleteTransit(t)
  <2>1. PICK h, p :
          /\ h \in Handle /\ p = [pipe[h] EXCEPT !.entry = "gone", !.observed = FALSE,
                                 !.transferred = TRUE, !.inTransit = FALSE]
          /\ ~SignalLocked(h) /\ CloseNoLock(t, h, p)
    BY <1>13 DEF CompleteTransit
  <2>2. p \in PipeType /\ p.refs = pipe[h].refs /\ p.last = pipe[h].last
    BY <1>2, <2>1 DEF PipeType
  <2> QED
    BY <1>1, <1>13, <2>1, <2>2, CloseStep DEF CompleteTransit
<1> QED
  BY <1>4, <1>5, <1>6, <1>7, <1>8, <1>9, <1>10, <1>11, <1>12, <1>13 DEF Begin

LEMMA ContinueTrapInv ==
    ASSUME Shape, Shape', TrapInv, NEW t \in Thread, Continue(t)
    PROVE  TrapInv'
<1>1. /\ pipe \in [Handle -> PipeType] /\ port \in [Handle -> PortType]
      /\ trap \in TrapType /\ call[t] \in CallType
  BY DEF Shape, Types
<1>2. (UNCHANGED watch => WatchSame) /\ (UNCHANGED trap => MapsSame)
      /\ (UNCHANGED port => \A g \in Handle : PortSame(g))
      /\ (UNCHANGED pipe => \A g \in Handle : PipeSame(g))
  BY DEF WatchSame, MapsSame, PortSame, PipeSame, Ids, StateOf
<1>3. PICK h : h = call[t].handle
  OBVIOUS
<1>4. call[t].pc \notin {"idle", "add", "close_trap"} => h \in Handle
  BY <1>3, AtFacts
<1>5. CASE AddWatch(t)
  <2>1. CASE UNCHANGED <<trap, watch>> /\ Return(t, context[t])
    <3>1. call'[t].pc = "idle" /\ Others(t)
      BY <2>1, ReturnFacts
    <3>2. call[t].pc = "add" /\ UNCHANGED <<port, pipe>>
      BY <1>5 DEF AddWatch, At
    <3> QED
      BY <1>2, <2>1, <3>1, <3>2, CalmStep
  <2> QED
    BY <1>5, <2>1, AddWatchFacts, MakeStep
<1>6. CASE AddWatcherRef(t)
  <2>1. call[t].pc = "add_ref" /\ UNCHANGED <<port, trap, watch>> /\ ~SignalLocked(h)
    BY <1>3, <1>6 DEF AddWatcherRef, At
  <2>2. PICK w \in Ids : call[t].watches = {w}
    BY <2>1, AtFacts
  <2>3. CASE Goto(t, [call[t] EXCEPT !.pc = "add_undo"], context[t]) /\ UNCHANGED pipe
    <3>1. call'[t] = [call[t] EXCEPT !.pc = "add_undo"] /\ Others(t)
      BY <2>3, GotoFacts
    <3>2. /\ call'[t].pc = "add_undo" /\ call'[t].handle = h
          /\ call'[t].watches = call[t].watches
      BY <1>1, <1>3, <3>1 DEF CallType
    <3> QED
      BY <1>3, <1>4, <2>1, <2>3, <3>1, <3>2, KeepStep
  <2>4. CASE /\ ~pipe[h].closed
             /\ pipe' = [pipe EXCEPT ![h].refs = @ \union {watch[w].trigger.context},
                                     ![h].last = IF @ = NoState THEN @ ELSE StateOf(h)]
             /\ Goto(t, [call[t] EXCEPT !.pc = "add_notify", !.state = StateOf(h)], context[t])
    <3>1. call'[t] = [call[t] EXCEPT !.pc = "add_notify", !.state = StateOf(h)] /\ Others(t)
      BY <2>4, GotoFacts
    <3>2. /\ call'[t].pc = "add_notify" /\ call'[t].handle = h
          /\ call'[t].watches = {w} /\ call'[t].state = StateOf(h)
      BY <1>1, <1>3, <2>2, <3>1 DEF CallType
    <3>3. h \in Handle
      BY <1>4, <2>1
    <3>4. PICK r, l : /\ r = pipe[h].refs \union {watch[w].trigger.context}
                      /\ l = IF pipe[h].last = NoState THEN NoState ELSE StateOf(h)
      OBVIOUS
    <3>5. pipe' = [pipe EXCEPT ![h] = [pipe[h] EXCEPT !.refs = r, !.last = l]]
      BY <1>1, <2>4, <3>3, <3>4 DEF PipeType
    <3>6. /\ pipe'[h].closed = pipe[h].closed /\ pipe'[h].refs = r /\ pipe'[h].last = l
          /\ pipe'[h].transferred = pipe[h].transferred
          /\ pipe'[h].observed = pipe[h].observed
          /\ \A g \in Handle : g # h => pipe'[g] = pipe[g]
      BY <1>1, <3>3, <3>5 DEF PipeType
    <3>7. watch[w].trigger.context \in pipe'[h].refs
      BY <3>4, <3>6
    <3>8. pipe'[h].last = IF pipe[h].last = NoState THEN NoState ELSE StateOf(h)
      BY <3>4, <3>6
    <3>9. /\ call[t].handle = h /\ call[t].pc = "add_ref" /\ ~SignalLocked(h)
          /\ ~pipe[h].closed /\ UNCHANGED <<port, trap, watch>>
      BY <1>3, <2>1, <2>4
    <3>10. /\ pipe'[h].closed = pipe[h].closed
           /\ pipe'[h].transferred = pipe[h].transferred
           /\ pipe'[h].observed = pipe[h].observed
           /\ \A g \in Handle : g # h => pipe'[g] = pipe[g]
      BY <3>6
    <3> QED
      BY <2>2, <3>1, <3>2, <3>3, <3>7, <3>8, <3>9, <3>10, RefStep
  <2> QED
    BY <1>3, <1>6, <2>2, <2>3, <2>4 DEF AddWatcherRef
<1>7. CASE AddNotify(t) \/ Notify(t)
  BY <1>7, ToldStep
<1>8. CASE AddUndo(t)
  <2>1. call[t].pc = "add_undo" /\ UNCHANGED <<port, pipe>>
    BY <1>8 DEF AddUndo, At
  <2>2. call'[t].pc = "idle" /\ Others(t)
    BY <1>8, ReturnFacts DEF AddUndo
  <2>3. PICK w \in Ids, k \in Context :
             /\ call[t].watches = {w} /\ watch[w].trigger.context = k
             /\ Len(watch') = Len(watch)
             /\ \A v \in Ids : /\ watch'[v].trigger = watch[v].trigger
                               /\ watch'[v].last = watch[v].last
             /\ trap'.closed = trap.closed
             /\ \A g \in Handle : trap'.handles[g] = IF g = h THEN 0 ELSE trap.handles[g]
             /\ \A g \in Context : trap'.watches[g] = IF g = k THEN 0 ELSE trap.watches[g]
    BY <1>3, <1>8, AddUndoFacts
  <2>4. WatchSame
    BY <2>3, SameIds DEF WatchSame
  <2>5. \A c \in Context : trap'.watches[c] \in {0, trap.watches[c]}
    BY <2>3
  <2>6. \A v \in call[t].watches : trap'.watches[watch[v].trigger.context] = 0
    BY <2>3
  <2>7. h \in Handle
    BY <1>4, <2>1
  <2> QED
    BY <1>3, <2>1, <2>2, <2>3, <2>4, <2>5, <2>6, <2>7, DropStep
<1>9. CASE AddCheck(t)
  <2>1. call[t].pc = "add_check" /\ UNCHANGED <<port, pipe, trap, watch>>
    BY <1>9 DEF AddCheck, At
  <2>2. CASE trap.closed /\ Goto(t, [call[t] EXCEPT !.pc = "add_remove"], context[t])
    <3>1. call'[t] = [call[t] EXCEPT !.pc = "add_remove"] /\ Others(t)
      BY <2>2, GotoFacts
    <3>2. call'[t].pc = "add_remove"
      BY <1>1, <3>1 DEF CallType
    <3> QED
      BY <2>1, <2>2, <3>1, <3>2, AfterStep
  <2>3. CASE Return(t, context[t])
    <3>1. call'[t].pc = "idle" /\ Others(t)
      BY <2>3, ReturnFacts
    <3> QED
      BY <1>2, <2>1, <3>1, CalmStep
  <2> QED
    BY <1>9, <2>2, <2>3 DEF AddCheck
<1>10. CASE AddRemove(t)
  <2>1. call[t].pc = "add_remove" /\ UNCHANGED <<port, trap, watch>>
    BY <1>10 DEF AddRemove, At
  <2>2. call'[t].pc = "idle" /\ Others(t)
    BY <1>10, ReturnFacts DEF AddRemove
  <2>3. PICK c : RemoveWatcherRef(h, c)
    BY <1>3, <1>10 DEF AddRemove
  <2>4. h \in Handle /\ trap.closed
    BY <1>4, <2>1 DEF TrapInv, PipesClosed
  <2> QED
    BY <2>1, <2>2, <2>3, <2>4, UnrefFacts, AfterStep
<1>11. CASE RemoveRef(t)
  <2>1. call[t].pc = "remove_ref" /\ UNCHANGED <<port, trap, watch>>
    BY <1>11 DEF RemoveRef, At
  <2>2. PICK c : RemoveWatcherRef(h, c)
    BY <1>3, <1>11 DEF RemoveRef
  <2>3. call'[t] = [call[t] EXCEPT !.pc = "remove_handle"] /\ Others(t)
    BY <1>11, GotoFacts DEF RemoveRef
  <2>4. /\ call'[t].pc = "remove_handle" /\ call'[t].handle = h
        /\ call'[t].watches = call[t].watches
    BY <1>1, <1>3, <2>3 DEF CallType
  <2>5. h \in Handle
    BY <1>4, <2>1
  <2> QED
    BY <1>3, <2>1, <2>2, <2>3, <2>4, <2>5, UnrefFacts, KeepStep
<1>12. CASE RemoveHandle(t)
  <2>1. call[t].pc = "remove_handle" /\ UNCHANGED <<port, pipe, watch>>
    BY <1>12 DEF RemoveHandle, At
  <2>2. call'[t].pc = "idle" /\ Others(t)
    BY <1>12, ReturnFacts DEF RemoveHandle
  <2>3. h \in Handle
    BY <1>4, <2>1
  <2>4. /\ trap'.closed = trap.closed /\ trap'.watches = trap.watches
        /\ trap'.handles = [trap.handles EXCEPT ![h] = 0]
    BY <1>1, <1>3, <1>12 DEF RemoveHandle, TrapType
  <2>5. \A g \in Handle : trap'.handles[g] = IF g = h THEN 0 ELSE trap.handles[g]
    BY <1>1, <2>4 DEF TrapType
  <2> QED
    BY <1>2, <1>3, <2>1, <2>2, <2>3, <2>4, <2>5, DropStep
<1>13. CASE CloseTrapNext(t)
  <2>1. call[t].pc = "close_trap" /\ UNCHANGED <<port, trap, watch>> /\ trap.closed
    BY <1>13 DEF CloseTrapNext, At, TrapInv, PipesClosed
  <2>2. CASE Return(t, context[t]) /\ UNCHANGED pipe
    <3>1. call'[t].pc = "idle" /\ Others(t)
      BY <2>2, ReturnFacts
    <3> QED
      BY <2>1, <2>2, <3>1, AfterStep
  <2>3. ASSUME NEW w \in call[t].watches,
               RemoveWatcherRef(watch[w].trigger.handle, watch[w].trigger.context),
               Goto(t, [call[t] EXCEPT !.watches = @ \ {w}], AddCancel(context[t], w))
        PROVE  TrapInv'
    <3>1. call'[t] = [call[t] EXCEPT !.watches = @ \ {w}] /\ Others(t)
      BY <2>3, GotoFacts
    <3>2. call'[t].pc = "close_trap"
      BY <1>1, <2>1, <3>1 DEF CallType
    <3>3. watch[w].trigger.handle \in Handle
      BY MapFacts
    <3> QED
      BY <2>1, <2>3, <3>1, <3>2, <3>3, UnrefFacts, AfterStep
  <2> QED
    BY <1>13, <2>2, <2>3 DEF CloseTrapNext
<1>14. CASE PortStatusChanged(t)
  <2>1. call[t].pc = "observe" /\ UNCHANGED <<port, pipe, trap, watch>>
    BY <1>14 DEF PortStatusChanged, At
  <2>2. CASE Goto(t, [call[t] EXCEPT !.pc = "status"], context[t])
    <3>1. call'[t] = [call[t] EXCEPT !.pc = "status"] /\ Others(t)
      BY <2>2, GotoFacts
    <3>2. call'[t].pc = "status" /\ call'[t].handle = call[t].handle
      BY <1>1, <3>1 DEF CallType
    <3> QED
      BY <2>1, <3>1, <3>2, GiveUpStep
  <2>3. CASE Return(t, context[t]) /\ ~pipe[h].observed
    <3>1. call'[t].pc = "idle" /\ Others(t)
      BY <2>3, ReturnFacts
    <3>2. pipe[h].closed
      BY <1>4, <2>1, <2>3 DEF TrapInv, PipesClosed
    <3> QED
      BY <1>3, <2>1, <3>1, <3>2, GiveUpStep
  <2> QED
    BY <1>3, <1>14, <2>2, <2>3 DEF PortStatusChanged
<1>15. CASE OnPortStatusChanged(t)
  <2>1. call[t].pc = "status" /\ UNCHANGED <<port, trap, watch>> /\ ~SignalLocked(h)
    BY <1>3, <1>15 DEF OnPortStatusChanged, At
  <2>2. CASE Return(t, context[t]) /\ UNCHANGED pipe /\ pipe[h].transferred
    <3>1. call'[t].pc = "idle" /\ Others(t)
      BY <2>2, ReturnFacts
    <3>2. pipe[h].closed
      BY <1>4, <2>1, <2>2 DEF TrapInv, PipesClosed
    <3> QED
      BY <1>3, <2>1, <2>2, <3>1, <3>2, GiveUpStep
  <2>3. CASE NotifyState(t, h, pipe[h])
    <3>1. h \in Handle /\ pipe[h] \in PipeType /\ Is(t, h, {"status", "read"})
      BY <1>1, <1>3, <1>4, <2>1 DEF Is
    <3> QED
      BY <2>1, <2>3, <3>1, TellStep
  <2> QED
    BY <1>3, <1>15, <2>2, <2>3 DEF OnPortStatusChanged
<1>16. CASE ReadNotify(t)
  <2>1. /\ call[t].pc = "read" /\ UNCHANGED <<port, trap, watch>> /\ ~SignalLocked(h)
        /\ NotifyState(t, h, pipe[h])
    BY <1>3, <1>16 DEF ReadNotify, At
  <2>2. h \in Handle /\ pipe[h] \in PipeType /\ Is(t, h, {"status", "read"})
    BY <1>1, <1>3, <1>4, <2>1 DEF Is
  <2> QED
    BY <2>1, <2>2, TellStep
<1>17. CASE ClosePipe(t)
  <2>1. /\ call[t].pc = "close" /\ UNCHANGED <<port, trap, watch>> /\ ~SignalLocked(h)
        /\ CloseNoLock(t, h, pipe[h])
    BY <1>3, <1>17 DEF ClosePipe, At
  <2>2. h \in Handle /\ pipe[h] \in PipeType
    BY <1>1, <1>4, <2>1
  <2> QED
    BY <2>1, <2>2, CloseStep
<1>18. CASE NotifyHandleClosed(t)
  <2>1. call[t].pc = "closed" /\ UNCHANGED <<port, pipe, watch>>
    BY <1>18 DEF NotifyHandleClosed, At
  <2>2. h \in Handle
    BY <1>4, <2>1
  <2>3. PICK c, ctx : /\ c = [call[t] EXCEPT !.pc = "close_port"]
                      /\ Return(t, ctx) \/ Goto(t, c, ctx)
    BY <1>18 DEF NotifyHandleClosed
  <2>4. /\ call'[t].pc = "idle" \/ (call'[t].pc = "close_port" /\ call'[t].handle = h)
        /\ Others(t)
    <3>1. CASE Return(t, ctx)
      BY <3>1, ReturnFacts
    <3>2. CASE Goto(t, c, ctx)
      <4>1. call'[t] = c /\ Others(t)
        BY <3>2, GotoFacts
      <4> QED
        BY <1>1, <1>3, <2>3, <4>1 DEF CallType
    <3> QED
      BY <2>3, <3>1, <3>2
  <2>5. PICK w, k : w = trap.handles[h] /\ k = watch[w].trigger.context
    OBVIOUS
  <2>6. trap' = IF w = 0 THEN trap
                ELSE [trap EXCEPT !.watches[k] = 0, !.ready = @ \ {w}, !.handles[h] = 0]
    BY <1>3, <1>18, <2>5 DEF NotifyHandleClosed
  <2>7. /\ trap'.closed = trap.closed
        /\ \A g \in Handle : trap'.handles[g] = IF g = h THEN 0 ELSE trap.handles[g]
        /\ \A c1 \in Context : trap'.watches[c1] \in {0, trap.watches[c1]}
    <3>1. CASE w = 0
      BY <2>5, <2>6, <3>1
    <3>2. CASE w # 0
      <4>1. /\ trap'.closed = trap.closed
            /\ trap'.handles = [trap.handles EXCEPT ![h] = 0]
            /\ trap'.watches = [trap.watches EXCEPT ![k] = 0]
        BY <1>1, <2>6, <3>2 DEF TrapType
      <4> QED
        BY <1>1, <4>1 DEF TrapType
    <3> QED
      BY <3>1, <3>2
  <2> QED
    BY <1>2, <1>3, <2>1, <2>2, <2>4, <2>7, DropStep
<1>19. CASE ClosePort(t)
  BY <1>19, ClosePortStep
<1>20. CASE InvokeCallback(t)
  <2>1. /\ call[t].pc = "idle" /\ UNCHANGED <<port, pipe, trap, call>>
    BY <1>20 DEF InvokeCallback
  <2>2. /\ Len(watch') = Len(watch)
        /\ \A v \in Ids : watch'[v].trigger = watch[v].trigger /\ watch'[v].last = watch[v].last
    BY <1>20, InvokeFacts
  <2>3. WatchSame
    BY <2>2, SameIds DEF WatchSame
  <2>4. Others(t) /\ call'[t].pc = "idle"
    BY <2>1 DEF Others
  <2> QED
    BY <1>2, <2>1, <2>3, <2>4, CalmStep
<1> QED
  BY <1>5, <1>6, <1>7, <1>8, <1>9, <1>10, <1>11, <1>12, <1>13, <1>14, <1>15, <1>16, <1>17,
     <1>18, <1>19, <1>20 DEF Continue

LEMMA NextTrapInv ==
    ASSUME Shape, TrapInv, [Next]_vars
    PROVE  TrapInv'
<1>1. Shape'
  BY NextShape
<1>2. CASE UNCHANGED vars
  BY <1>2 DEF vars, TrapInv, PipesClosed, OneLock, Owns, InMaps, Registered, LockStates,
              ToldLast, Busy, Some, Is, StateOf
<1>3. ASSUME NEW t \in Thread, HandlerReturns(t) PROVE TrapInv'
  <2>1. call[t].pc = "idle" /\ UNCHANGED <<port, pipe, trap, watch, call>>
    BY <1>3 DEF HandlerReturns
  <2>2. /\ Others(t) /\ WatchSame /\ MapsSame
        /\ \A g \in Handle : PortSame(g) /\ PipeSame(g)
    BY <2>1 DEF Others, WatchSame, MapsSame, PortSame, PipeSame, Ids, StateOf
  <2> QED
    BY <2>1, <2>2, CalmStep
<1> QED
  BY <1>1, <1>2, <1>3, BeginTrapInv, ContinueTrapInv DEF Next

\* No event is lost between the state of a message pipe handle and an armed trap:
\* WatcherSet's and Watch's filters and Arm's trust in ready_watches_ never leave a
\* trigger with something to report while nobody is on the way to say so, for any
\* number of handles, contexts and threads adding, removing, reading, closing and
\* sending handles away at once.
THEOREM EventsNotLost == Spec => []NoLostEvent
<1>1. Init => TrapInv
  <2> SUFFICES ASSUME Init PROVE TrapInv
    OBVIOUS
  <2>1. /\ \A t \in Thread : call[t].pc = "idle"
        /\ \A h \in Handle : trap.handles[h] = 0
        /\ \A c \in Context : trap.watches[c] = 0
    BY DEF Init, Idle
  <2>2. \A h \in Handle : ~pipe[h].transferred /\ pipe[h].observed /\ port[h].live
    BY DEF Init
  <2> QED
    BY <2>1, <2>2 DEF TrapInv, PipesClosed, OneLock, Owns, InMaps, Registered, LockStates,
                      ToldLast, Is
<1>2. Shape /\ TrapInv /\ [Next]_vars => TrapInv'
  BY NextTrapInv
<1>3. Shape /\ ReadyExact /\ TrapInv => NoLostEvent
  BY NothingLost
<1> QED
  BY <1>1, <1>2, <1>3, ShapeInvariant, PTL DEF Spec
=============================================================================
