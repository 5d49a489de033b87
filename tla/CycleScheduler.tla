--------------------------- MODULE CycleScheduler ---------------------------
(***************************************************************************)
(* The cycle scheduler of the emulator (gb_cycle_scheduler.{h,cpp}), the   *)
(* one-shot interrupts its clients wait on (gb_interrupt.h) and the sorted *)
(* vector its queue is kept in (utils.h).                                  *)
(*                                                                         *)
(* The DMA, CPU and PPU are coroutines.  Control is always with the top of *)
(* a call stack: tick() resumes the coroutine (or the PPU's queued         *)
(* callback) at the back of the queue, a coroutine that triggers an        *)
(* interrupt runs the one bound to it as a nested call, and a coroutine    *)
(* that suspends returns to its caller.  An action is the code one of them *)
(* runs between two such transfers of control.                             *)
(*                                                                         *)
(* Time is a 32-bit counter that wraps; the module keeps the wrap-around   *)
(* and replaces 2^32 by a smaller modulus W.                               *)
(***************************************************************************)
EXTENDS Integers, SequencesExt

CONSTANTS
    H,                  \* half of the modulus of the cycle counter: 2^31 in the code
    TickSizes,          \* arguments of tick()
    Sleep,              \* Sleep[u]: lengths of the plain cycle waits of unit u
    InterruptibleSleep, \* InterruptibleSleep[u]: lengths of its interruptible waits
    PostDelay,          \* delay of the callback that update_stat queues
    AfterPost,          \* interruptible waits that directly follow such a post
    Triggers,           \* Triggers[f]: units whose interrupt the code of f triggers
    StartDelay,         \* first wait of the CPU, queued by emu::start
    IdleLimit           \* bound: cycles the host ticks a machine with an empty queue

Unit     == {"dma", "cpu", "ppu"}
Callback == "callback"          \* the lambda queued by ppu::update_stat
Frame    == Unit \cup {Callback}

\* priority << 8 | unit, with the one priority level the code has
UnitPriorityTied == [u \in Unit |-> CASE u = "dma" -> 1 [] u = "cpu" -> 2 [] u = "ppu" -> 2] \* mutant
UnitPriority == [u \in Unit |-> CASE u = "dma" -> 1 [] u = "cpu" -> 2 [] u = "ppu" -> 3]
PriorityOf(f) == IF f = Callback THEN UnitPriority["ppu"] ELSE UnitPriority[f]

W == 2 * H

ASSUME HAssumption    == H \in Nat \ {0}
ASSUME TickAssumption == TickSizes \subseteq 1..(H - 1)
ASSUME WaitAssumption ==
    /\ Sleep \in [Unit -> SUBSET (1..(H - 1))]
    /\ InterruptibleSleep \in [Unit -> SUBSET (1..(H - 1))]
    /\ AfterPost \subseteq 1..(H - 1)
    /\ PostDelay \in 1..(H - 1)
    /\ StartDelay \in 1..(H - 1)
    /\ IdleLimit \in 0..H
ASSUME TriggersAssumption == Triggers \in [Frame -> SUBSET Unit]

-----------------------------------------------------------------------------
(* Wrap-around time                                                        *)

\* uint32_t arithmetic on a sum or a difference of two counter values
U32(x) == IF x < 0 THEN x + W ELSE IF x >= W THEN x - W ELSE x

\* (int32_t)(x - now): how far x lies ahead of now
Ahead(now, x) == LET d == U32(x - now) IN IF d >= H THEN d - W ELSE d

\* std::make_tuple(at1 - now, p1) < std::make_tuple(at2 - now, p2)
Before(now, at1, p1, at2, p2) ==
    \/ Ahead(now, at1) < Ahead(now, at2)
    \/ Ahead(now, at1) = Ahead(now, at2) /\ p1 < p2

Time == 0..(W - 1)
ASSUME WrapAssumption == \A x \in (-W)..(2 * W - 1) : U32(x) = x % W

-----------------------------------------------------------------------------
VARIABLES
    cycle_counter, current_unit, next, next_priority, end,
    queued,         \* sorted by cycle_comparator: the next entry to run is the last
    bound,          \* bound[u]: the interrupt u waits on holds u's coroutine handle
    is_triggered,   \* is_triggered[u]: that interrupt fired with nobody bound
    await,          \* await[u]: the co_await that u is suspended in
    phase,          \* phase[f]: what f has done since control last came back to it
    stack,          \* call stack below tick() or input(): frames, innermost last
    ticking         \* tick() has been called and has not returned

vars == <<cycle_counter, current_unit, next, next_priority, end, queued,
          bound, is_triggered, await, phase, stack, ticking>>

Entry == [at : Time, priority : 0..3, fn : Frame]
Await == [kind : {"none", "sleep", "interruptible", "interrupt"}, until : Time]
Phase == {"idle", "woken", "interrupted", "running", "triggered", "posted"}

NotWaiting        == [kind |-> "none", until |-> 0]
OnInterrupt       == [kind |-> "interrupt", until |-> 0]
Until(kind, at)   == [kind |-> kind, until |-> at]

TypeOK ==
    /\ cycle_counter \in Time /\ next \in Time /\ end \in Time
    /\ current_unit \in Unit \cup {"debug"}
    /\ next_priority \in 0..3
    /\ queued \in Seq(Entry)
    /\ bound \in [Unit -> BOOLEAN]
    /\ is_triggered \in [Unit -> BOOLEAN]
    /\ await \in [Unit -> Await]
    /\ phase \in [Frame -> Phase]
    /\ stack \in Seq(Frame)
    /\ ticking \in BOOLEAN

\* emu::start has run every coroutine up to its first wait
Init ==
    /\ cycle_counter = 0 /\ next = 0 /\ next_priority = 0 /\ end = 0
    /\ current_unit = "debug"
    /\ queued = << [at |-> StartDelay, priority |-> UnitPriority["cpu"], fn |-> "cpu"] >>
    /\ bound = [u \in Unit |-> u # "cpu"]
    /\ is_triggered = [u \in Unit |-> FALSE]
    /\ await = [u \in Unit |-> IF u = "cpu" THEN Until("sleep", StartDelay) ELSE OnInterrupt]
    /\ phase = [f \in Frame |-> "idle"]
    /\ stack = <<>>
    /\ ticking = FALSE

-----------------------------------------------------------------------------
(* The queue                                                               *)

\* cycle_comparator: x is to run after y
AfterByTimeOnly(now, x, y) == Ahead(now, y.at) < Ahead(now, x.at)   \* mutant
After(now, x, y) == Before(now, y.at, y.priority, x.at, x.priority)

SameTime(x, at, priority) == x.at = at                              \* mutant
SameKey(x, at, priority) == x.at = at /\ x.priority = priority

\* sorted::push: insert before the first entry that runs before e
Push(q, e) ==
    \E p \in 1..(Len(q) + 1) :
        /\ \A i \in 1..(p - 1) : ~ After(cycle_counter, e, q[i])
        /\ p <= Len(q) => After(cycle_counter, e, q[p])
        /\ queued' = InsertAt(q, p, e)

\* mutant: does not lower next
QueueOnly(at, f) ==
    /\ UNCHANGED <<next, next_priority>>
    /\ Push(queued, [at |-> at, priority |-> PriorityOf(f), fn |-> f])

\* cycle_scheduler::queue
Queue(at, f) ==
    /\ IF Before(cycle_counter, at, PriorityOf(f), next, next_priority)
       THEN next' = at /\ next_priority' = PriorityOf(f)
       ELSE UNCHANGED <<next, next_priority>>
    /\ Push(queued, [at |-> at, priority |-> PriorityOf(f), fn |-> f])

\* mutant: compares the time and not the unit
IsFirstAt(q, i, at, priority) ==
    /\ q[i].at = at
    /\ \A j \in 1..(i - 1) : q[j].at # at

\* sorted::find returns the first entry with the key
IsFirstWithKey(q, i, at, priority) ==
    /\ SameKey(q[i], at, priority)
    /\ \A j \in 1..(i - 1) : ~ SameKey(q[j], at, priority)

-----------------------------------------------------------------------------
(* Control transfers                                                       *)

Runs(f) == stack # <<>> /\ Last(stack) = f
Suspend(u, w) ==
    /\ await' = [await EXCEPT ![u] = w]
    /\ phase' = [phase EXCEPT ![u] = "idle"]
    /\ stack' = Front(stack)

\* mutant: leaves the entry in the queue
InterruptibleResumeNoErase(u, at, q, ph) ==
    /\ queued' = q
    /\ \/ /\ \E i \in 1..Len(q) : SameKey(q[i], at, UnitPriority[u])
          /\ phase' = [ph EXCEPT ![u] = "interrupted"]
          /\ UNCHANGED current_unit
       \/ /\ \A i \in 1..Len(q) : ~ SameKey(q[i], at, UnitPriority[u])
          /\ phase' = [ph EXCEPT ![u] = "running"]
          /\ current_unit' = u

\* awaitable_cycles_interruptible::await_resume of unit u, for a wait until
\* `at`, with q queued and ph the phases before it
InterruptibleResume(u, at, q, ph) ==
    \/ \E i \in 1..Len(q) :      \* throws interrupted
        /\ IsFirstWithKey(q, i, at, UnitPriority[u])
        /\ queued' = RemoveAt(q, i)
        /\ phase' = [ph EXCEPT ![u] = "interrupted"]
        /\ UNCHANGED current_unit
    \/  /\ \A i \in 1..Len(q) : ~ SameKey(q[i], at, UnitPriority[u])
        /\ queued' = q
        /\ phase' = [ph EXCEPT ![u] = "running"]
        /\ current_unit' = u

\* Resuming the coroutine of u with q queued: await_resume of its co_await
Resume(u, q, b, ph) ==
    /\ stack' = Append(stack, u)
    /\ await' = [await EXCEPT ![u] = NotWaiting]
    /\ \/ /\ await[u].kind = "sleep"
          /\ queued' = q /\ bound' = b
          /\ phase' = [ph EXCEPT ![u] = "running"]
          /\ current_unit' = u
       \/ /\ await[u].kind = "interrupt"
          /\ queued' = q /\ bound' = b
          /\ phase' = [ph EXCEPT ![u] = "woken"]
          /\ UNCHANGED current_unit
       \/ /\ await[u].kind = "interruptible"
          /\ bound' = [b EXCEPT ![u] = FALSE]
          /\ InterruptibleResume(u, await[u].until, q, ph)

\* interrupt::trigger on the interrupt that t waits on
TriggerInterrupt(t, ph) ==
    \/ /\ bound[t]
       /\ Resume(t, queued, [bound EXCEPT ![t] = FALSE], ph)
       /\ UNCHANGED is_triggered
    \/ /\ ~ bound[t]
       /\ is_triggered' = [is_triggered EXCEPT ![t] = TRUE]
       /\ phase' = ph
       /\ UNCHANGED <<current_unit, queued, bound, await, stack>>

-----------------------------------------------------------------------------
(* The host: tick() and input()                                            *)

\* `next` is only refreshed when an entry runs.  The model bounds the time an
\* empty queue (LCD off, CPU halted, no DMA) is ticked, so that the counter
\* does not run half a modulus, nine minutes of emulated time, past it.
Lag == U32(cycle_counter - next)

\* mutant: the end of the tick does not wrap around
TickNoWrap(n) ==
    /\ ~ ticking /\ stack = <<>>
    /\ Lag + n <= H
    /\ queued = <<>> => Lag + n <= IdleLimit
    /\ end' = cycle_counter + n
    /\ ticking' = TRUE
    /\ UNCHANGED <<cycle_counter, current_unit, next, next_priority, queued,
                   bound, is_triggered, await, phase, stack>>

Tick(n) ==
    /\ ~ ticking /\ stack = <<>>
    /\ Lag + n <= H
    /\ queued = <<>> => Lag + n <= IdleLimit
    /\ end' = U32(cycle_counter + n)
    /\ ticking' = TRUE
    /\ UNCHANGED <<cycle_counter, current_unit, next, next_priority, queued,
                   bound, is_triggered, await, phase, stack>>

Due == queued # <<>> /\ Ahead(cycle_counter, Last(queued).at) <= Ahead(cycle_counter, end)

\* One iteration of tick()'s loop, up to the call of the queued function
Pop ==
    /\ ticking /\ stack = <<>> /\ Due
    /\ LET top  == Last(queued)
           rest == Front(queued)
       IN  /\ cycle_counter' = top.at
           /\ IF rest # <<>> /\ Ahead(top.at, Last(rest).at) < Ahead(top.at, end)
              THEN next' = Last(rest).at /\ next_priority' = Last(rest).priority
              ELSE next' = end /\ next_priority' = 0
           /\ \/ /\ top.fn = Callback
                 /\ queued' = rest
                 /\ stack' = <<Callback>>
                 /\ phase' = [phase EXCEPT ![Callback] = "running"]
                 /\ UNCHANGED <<current_unit, bound, await>>
              \/ /\ top.fn \in Unit
                 /\ Resume(top.fn, rest, bound, phase)
    /\ UNCHANGED <<end, is_triggered, ticking>>

EndTick ==
    /\ ticking /\ stack = <<>> /\ ~ Due
    /\ cycle_counter' = end
    /\ ticking' = FALSE
    /\ UNCHANGED <<current_unit, next, next_priority, end, queued, bound,
                   is_triggered, await, phase, stack>>

\* emu::input wakes the CPU between two ticks
Input ==
    /\ ~ ticking /\ stack = <<>>
    /\ TriggerInterrupt("cpu", phase)
    /\ UNCHANGED <<cycle_counter, next, next_priority, end, ticking>>

-----------------------------------------------------------------------------
(* The coroutines and the callback                                         *)

ReadyIgnoringNext(u, at) == current_unit = u        \* mutant
ReadyForAnyUnit(u, at) ==                           \* mutant
    Before(cycle_counter, at, UnitPriority[u], next, next_priority)

\* awaitable_cycles_base::await_ready
Ready(u, at) ==
    /\ current_unit = u
    /\ Before(cycle_counter, at, UnitPriority[u], next, next_priority)

\* co_await scheduler.cycles(u, n)
AwaitCycles(u, n) ==
    /\ Runs(u)
    /\ LET at == U32(cycle_counter + n) IN
       \/ /\ Ready(u, at)
          /\ cycle_counter' = at
          /\ phase' = [phase EXCEPT ![u] = "running"]
          /\ UNCHANGED <<next, next_priority, queued, await, stack>>
       \/ /\ ~ Ready(u, at)
          /\ Queue(at, u)
          /\ Suspend(u, Until("sleep", at))
          /\ UNCHANGED cycle_counter
    /\ UNCHANGED <<current_unit, end, bound, is_triggered, ticking>>

\* co_await scheduler.interruptible_cycles(u, n)
AwaitInterruptible(u, n) ==
    /\ Runs(u)
    /\ \/ phase[u] = "posted" /\ n \in AfterPost
       \/ phase[u] = "running" /\ n \in InterruptibleSleep[u]
    /\ LET at == U32(cycle_counter + n) IN
       \/ /\ Ready(u, at) \/ is_triggered[u]
          /\ cycle_counter' = IF Ready(u, at) THEN at ELSE cycle_counter
          /\ bound' = [bound EXCEPT ![u] = FALSE]
          /\ InterruptibleResume(u, at, queued, phase)
          /\ UNCHANGED <<next, next_priority, await, stack>>
       \/ /\ ~ Ready(u, at) /\ ~ is_triggered[u]
          /\ Queue(at, u)
          /\ bound' = [bound EXCEPT ![u] = TRUE]
          /\ Suspend(u, Until("interruptible", at))
          /\ UNCHANGED <<cycle_counter, current_unit>>
    /\ UNCHANGED <<end, is_triggered, ticking>>

\* reset() and co_await of an interrupt alone (HALT, LCD off, no DMA requested)
AwaitInterrupt(u) ==
    /\ Runs(u) /\ phase[u] \in {"running", "interrupted"}
    /\ is_triggered' = [is_triggered EXCEPT ![u] = FALSE]
    /\ bound' = [bound EXCEPT ![u] = TRUE]
    /\ Suspend(u, OnInterrupt)
    /\ UNCHANGED <<cycle_counter, current_unit, next, next_priority, end, queued, ticking>>

\* f triggers the interrupt of t.  The CPU and the DMA go straight from an
\* interrupt that woke them into a cycle wait.
Trigger(f, t) ==
    /\ Runs(f) /\ t \in Triggers[f]
    /\ phase[f] \in IF f \in {"cpu", "dma"} THEN {"running"} ELSE {"woken", "interrupted", "running"}
    /\ TriggerInterrupt(t, [phase EXCEPT ![f] = "triggered"])
    /\ UNCHANGED <<cycle_counter, next, next_priority, end, ticking>>

\* ppu::update_stat queues a callback PostDelay cycles ahead
Post ==
    /\ Runs("ppu") /\ phase["ppu"] # "posted"
    /\ Queue(U32(cycle_counter + PostDelay), Callback)
    /\ phase' = [phase EXCEPT !["ppu"] = "posted"]
    /\ UNCHANGED <<cycle_counter, current_unit, end, bound, is_triggered, await, stack, ticking>>

\* the callback returns to tick()
Return ==
    /\ Runs(Callback)
    /\ stack' = Front(stack)
    /\ phase' = [phase EXCEPT ![Callback] = "idle"]
    /\ UNCHANGED <<cycle_counter, current_unit, next, next_priority, end, queued,
                   bound, is_triggered, await, ticking>>

-----------------------------------------------------------------------------
Host == Input \/ \E n \in TickSizes : Tick(n)

Coroutine ==
    \/ \E u \in Unit : \/ \E n \in Sleep[u] : AwaitCycles(u, n)
                       \/ \E n \in InterruptibleSleep[u] \cup AfterPost : AwaitInterruptible(u, n)
                       \/ AwaitInterrupt(u)
    \/ \E f \in Frame, t \in Unit : Trigger(f, t)
    \/ Post
    \/ Return

Next == Host \/ Pop \/ EndTick \/ Coroutine

\* The main loop calls tick() again and again, a call of tick() runs to its
\* end, and every coroutine runs on to its next wait.
Fairness ==
    /\ WF_vars(\E n \in TickSizes : Tick(n))
    /\ WF_vars(Pop \/ EndTick \/ Coroutine)

Spec == Init /\ [][Next]_vars
FairSpec == Spec /\ Fairness
-----------------------------------------------------------------------------
(* Properties                                                              *)

InOrder(now, q) ==
    /\ \A i \in 1..Len(q) : Ahead(now, q[i].at) >= 0
    /\ \A i, j \in 1..Len(q) : i < j => ~ After(now, q[j], q[i])

NoneBefore(now, q, at, priority) ==
    \A i \in 1..Len(q) : ~ Before(now, q[i].at, q[i].priority, at, priority)

\* The vector stays sorted although its comparator measures from a counter
\* that moves, and nothing in it is past due: no fast path in await_ready
\* (gb_cycle_scheduler.h:145) steps over a queued entry.
QueueInOrder == InOrder(cycle_counter, queued)

\* `next` caches a bound that no queued entry undercuts and that does not
\* exceed the end of the tick, whatever was queued, erased or run since
\* tick() or queue() last set it (gb_cycle_scheduler.cpp:8-13, 27-36).
NextIsLowerBound ==
    /\ NoneBefore(cycle_counter, queued, next, next_priority)
    /\ Ahead(cycle_counter, next) <= Ahead(cycle_counter, end)

\* What the two need to be inductive: the tick ends in the future, and `next`
\* lies less than half a modulus behind its end.
TickEndsAhead ==
    /\ Ahead(cycle_counter, end) >= 0
    /\ ~ ticking => end = cycle_counter
    /\ Ahead(cycle_counter, end) - Ahead(cycle_counter, next) <= H

IInv == TypeOK /\ QueueInOrder /\ NextIsLowerBound /\ TickEndsAhead

EntriesOf(f) == {i \in 1..Len(queued) : queued[i].fn = f}

\* A suspended coroutine has exactly the wake-ups its co_await registered and
\* a running one has none: the two-way registration of interruptible_cycles
\* (queue entry and interrupt) is undone whichever of the two fires.
WakeUpsMatchAwait ==
    \A u \in Unit :
        /\ bound[u] <=> await[u].kind \in {"interruptible", "interrupt"}
        /\ await[u].kind \in {"sleep", "interruptible"}
               => \E i \in EntriesOf(u) : queued[i].at = await[u].until /\ EntriesOf(u) = {i}
        /\ await[u].kind \in {"none", "interrupt"} => EntriesOf(u) = {}
        /\ await[u].kind = "none" <=> \E k \in 1..Len(stack) : stack[k] = u

\* find() identifies an entry by its key alone (gb_cycle_scheduler.h:100-104),
\* so no two queued entries may share one.
KeysAreUnique ==
    \A i, j \in 1..Len(queued) :
        SameKey(queued[i], queued[j].at, queued[j].priority) => i = j

\* "not in cycle queue so must be timeout" (gb_cycle_scheduler.cpp:65) and its
\* converse: a wait whose time has come never ends in an interrupted exception.
InterruptedOnlyByTrigger ==
    [][stack = <<>> /\ ticking =>
           \A u \in Unit : phase'[u] = "interrupted" => phase[u] = "interrupted"]_vars

\* Emulated time moves only inside tick(), and only while at most one coroutine is
\* on the stack: a coroutine that triggers an interrupt finds, when the trigger
\* returns, that no time has passed.  The exception is the callback of update_stat,
\* which is no coroutine: the CPU that it wakes from the loop of tick() may be the
\* current unit and take the fast path before the callback goes on; what that CPU
\* triggers in turn takes no time (gb_interrupt.h:27-39, gb_cycle_scheduler.h:145-155).
TimeStandsStillInNestedCalls ==
    [][cycle_counter' # cycle_counter =>
           /\ ticking
           /\ Len(stack) <= 1 \/ (Len(stack) = 2 /\ stack[1] = Callback)]_vars

\* tick() returns, and a coroutine that waits for cycles runs again, by timeout
\* or interrupt (gb_cycle_scheduler.cpp:18-41).
TicksEndAndSleepersRun ==
    /\ ticking ~> ~ ticking
    /\ \A u \in Unit : await[u].kind \in {"sleep", "interruptible"} ~> await[u].kind = "none"

\* The promise of the scheduler, in terms of the queue: who runs next does not
\* depend on the bookkeeping in `next`, on fast paths or on the wrap-around.
Timeline == INSTANCE EventTimeline WITH
    Modulus  <- W,
    Horizon  <- H - 1,
    Priority <- 0..3,
    Who      <- Frame,
    now      <- cycle_counter,
    pending  <- {[who      |-> queued[i].fn,
                  priority |-> queued[i].priority,
                  left     |-> Ahead(cycle_counter, queued[i].at)] : i \in 1..Len(queued)}

\* Every entry runs at exactly the cycle it was queued for, in the order of
\* time and unit, unless an interrupt withdraws it (gb_cycle_scheduler.cpp:18-41).
TimelineRefinement == Timeline!Spec
=============================================================================
