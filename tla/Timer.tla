------------------------------- MODULE Timer -------------------------------
(***************************************************************************)
(* The timer driver, platform/nrf51822/timer.c: MAX_TIMERS software timers *)
(* multiplexed on the compare channels of one free-running 24-bit counter  *)
(* (TIMER0), with the interrupt handler that expires them.                 *)
(*                                                                         *)
(* timer_start() and timer_stop() run in two contexts.  A "handler" call   *)
(* is made by a timer callback (inside TIMER0_IRQHandler) or by the radio  *)
(* handler: both interrupts have IRQ_PRIORITY_HIGH, so nothing preempts    *)
(* them.  A "thread" call is made at a lower priority and an interrupt may *)
(* land between any two of its accesses to shared state; each such access  *)
(* is a step of its own here.  Callers says which contexts use the driver. *)
(***************************************************************************)
EXTENDS Integers, FiniteSets

CONSTANTS
    MaxTimers,           \* MAX_TIMERS
    CounterSize,         \* number of values of the counter (2^24 on the SoC)
    DriftFix,            \* DRIFT_FIX
    Durations,           \* the durations that callers pass to timer_start()
    MaxLatency,          \* ticks an interrupt or a driver call may take
    Callers,             \* the contexts that call timer_start and timer_stop
    CallbackStopsPeers   \* may a callback stop a timer that expired with it?

Ids == 0 .. MaxTimers - 1

ASSUME TimerAssumption ==
    /\ MaxTimers \in 1 .. 255
    /\ CounterSize \in Nat \ {0}
    /\ DriftFix \in Nat
    /\ MaxLatency \in Nat
    /\ Durations \subseteq Nat
    /\ \A d \in Durations : MaxLatency + DriftFix < d /\ d < CounterSize - 1
    /\ Callers \subseteq {"thread", "handler"}
    /\ CallbackStopsPeers \in BOOLEAN

VARIABLES
    \* struct timer timers[MAX_TIMERS], field by field (a one-bit flag as the set
    \* of the timers that have it), and the global `active`, called count here
    enabled, active, type, ticks, count,
    \* TIMER0: counter, whether it runs, CC[], EVENTS_COMPARE[], INTENSET, and
    \* the pending bit of TIMER0_IRQn
    counter, running, cc, event, inten, pending,
    \* the handler being executed and the driver call of each context
    isr, call,
    \* ghost: ticks until each armed timer is due, timers armed over a compare
    \* event left from before, and ticks elapsed since the driver was idle
    left, leftover, busy

software == <<enabled, active, type, ticks, count>>
hardware == <<counter, running, cc, event, inten, pending>>
ghosts == <<left, leftover, busy>>
vars == <<enabled, active, type, ticks, count,
          counter, running, cc, event, inten, pending,
          isr, call, left, leftover, busy>>

Types == {"singleshot", "repeated"}
Contexts == {"thread", "handler"}
U8(n) == n % 256

\* Mistake: the sum of two counter values is not cut to BITMODE bits.
WrapNever(n) == n

\* Counter arithmetic: the sum of two counter values, in BITMODE bits.
Wrap(n) == IF n >= CounterSize THEN n - CounterSize ELSE n

\* Ticks from the captured value `from` to the counter, within one turn.
Elapsed(from) == IF counter >= from THEN counter - from
                                    ELSE counter + CounterSize - from

NoCall == [pc |-> "idle", id |-> 0, ticks |-> 0, curr |-> 0, seen |-> 0]
NoIsr == [on |-> "idle", curr |-> 0, mask |-> {}]

Quiescent == isr.on = "idle" /\ ~pending /\ \A c \in Contexts : call[c] = NoCall

\* A thread runs when no handler runs and none is about to interrupt it; a
\* driver call is made by a callback or by the radio handler.
CanRun(c) ==
    CASE c = "thread" -> isr.on = "idle" /\ ~pending
      [] c = "handler" -> isr.on \in {"callback", "radio"}

At(c, pc) == call[c].pc = pc /\ (c = "thread" => CanRun(c))
Goto(c, pc) == call' = [call EXCEPT ![c].pc = pc]
Return(c) == call' = [call EXCEPT ![c] = NoCall]

-----------------------------------------------------------------------------
\* timer_init(): every timer free, compare interrupts masked.
Init ==
    /\ enabled = {}
    /\ active = {}
    /\ type = [i \in Ids |-> "singleshot"]
    /\ ticks = [i \in Ids |-> 0]
    /\ count = 0
    /\ counter = 0
    /\ running = FALSE
    /\ cc = [i \in Ids |-> 0]
    /\ event = {}
    /\ inten = {}
    /\ pending = FALSE
    /\ isr = NoIsr
    /\ call = [c \in Contexts |-> NoCall]
    /\ left = [i \in Ids |-> 0]
    /\ leftover = {}
    /\ busy = 0

\* timer_create(type): the first timer that is not enabled; with none left it
\* returns -ENOMEM and changes nothing.
Create(t) ==
    /\ CanRun("thread") /\ call["thread"] = NoCall
    /\ \E i \in Ids :
        /\ i \notin enabled /\ \A j \in 0 .. i - 1 : j \in enabled
        /\ enabled' = enabled \union {i}
        /\ active' = active \ {i}
        /\ type' = [type EXCEPT ![i] = t]
    /\ UNCHANGED <<ticks, count, hardware, isr, call, ghosts>>

-----------------------------------------------------------------------------
(* timer_start(id, us, cb).  us2ticks() is the identity at 1 MHz.           *)

\* A handler makes at most one driver call each time it, or a callback, runs.
Enter(c, frame) ==
    /\ CanRun(c) /\ call[c] = NoCall
    /\ call' = [call EXCEPT ![c] = frame]
    /\ isr' = IF c = "thread" THEN isr
              ELSE [isr EXCEPT !.on = IF @ = "callback" THEN "loop" ELSE "leaving"]

\* The counter is captured and the arguments checked; the error returns
\* (-EINVAL, -EALREADY) change nothing.
Start(c, i, us) ==
    /\ i \in enabled \ active
    /\ us < CounterSize - 1
    /\ Enter(c, [pc |-> "arm", id |-> i, ticks |-> us, curr |-> counter, seen |-> 0])
    /\ UNCHANGED <<software, hardware, ghosts>>

\* Mistake: the interrupt is not enabled.
ArmMasked(c) ==
    LET i == call[c].id IN
    /\ At(c, "arm")
    /\ cc' = [cc EXCEPT ![i] = Wrap(call[c].curr + call[c].ticks)]
    /\ leftover' = leftover \ {i}
    /\ Goto(c, "mark")
    /\ UNCHANGED <<software, counter, running, event, inten, pending, isr, left, busy>>

\* update_cc(id, curr + ticks): the interrupt is enabled before the timer is
\* marked active, so a compare event left over from before raises it at once.
Arm(c) ==
    LET i == call[c].id IN
    /\ At(c, "arm")
    /\ cc' = [cc EXCEPT ![i] = Wrap(call[c].curr + call[c].ticks)]
    /\ inten' = inten \union {i}
    /\ pending' = (pending \/ i \in event)
    /\ leftover' = IF i \in event THEN leftover \union {i} ELSE leftover \ {i}
    /\ Goto(c, "mark")
    /\ UNCHANGED <<software, counter, running, event, isr, left, busy>>

Mark(c) ==
    LET i == call[c].id IN
    /\ At(c, "mark")
    /\ active' = active \union {i}
    /\ ticks' = [ticks EXCEPT ![i] = call[c].ticks]
    /\ left' = [left EXCEPT ![i] = call[c].ticks - Elapsed(call[c].curr)]
    /\ Goto(c, "launch")
    /\ UNCHANGED <<enabled, type, count, hardware, isr, leftover, busy>>

\* Mistake: the counter is not started.
LaunchHalted(c) ==
    /\ At(c, "launch")
    /\ call' = [call EXCEPT ![c].pc = "inc", ![c].seen = count]
    /\ UNCHANGED <<software, hardware, isr, ghosts>>

\* if (active == 0) TASKS_START; the same load of `active` feeds `active++`.
Launch(c) ==
    /\ At(c, "launch")
    /\ running' = (running \/ count = 0)
    /\ call' = [call EXCEPT ![c].pc = "inc", ![c].seen = count]
    /\ UNCHANGED <<software, counter, cc, event, inten, pending, isr, ghosts>>

Inc(c) ==
    /\ At(c, "inc")
    /\ count' = U8(call[c].seen + 1)
    /\ Return(c)
    /\ UNCHANGED <<enabled, active, type, ticks, hardware, isr, ghosts>>

-----------------------------------------------------------------------------
(* timer_stop(id).                                                          *)

\* Mistake: the check that the timer is active is missing.
StopUnchecked(c, i) ==
    /\ (c = "handler" /\ ~CallbackStopsPeers) => i \notin isr.mask
    /\ Enter(c, [pc |-> "mask", id |-> i, ticks |-> 0, curr |-> 0, seen |-> 0])
    /\ UNCHANGED <<software, hardware, ghosts>>

\* -EINVAL, with nothing changed, for a timer that is not active.
Stop(c, i) ==
    /\ i \in active
    /\ (c = "handler" /\ ~CallbackStopsPeers) => i \notin isr.mask
    /\ Enter(c, [pc |-> "mask", id |-> i, ticks |-> 0, curr |-> 0, seen |-> 0])
    /\ UNCHANGED <<software, hardware, ghosts>>

\* INTENCLR: EVENTS_COMPARE[id] is left as it is.
MaskInterrupt(c) ==
    /\ At(c, "mask")
    /\ inten' = inten \ {call[c].id}
    /\ Goto(c, "unmark")
    /\ UNCHANGED <<software, counter, running, cc, event, pending, isr, ghosts>>

Unmark(c) ==
    /\ At(c, "unmark")
    /\ active' = active \ {call[c].id}
    /\ left' = [left EXCEPT ![call[c].id] = 0]
    /\ leftover' = leftover \ {call[c].id}
    /\ Goto(c, "load")
    /\ UNCHANGED <<enabled, type, ticks, count, hardware, isr, busy>>

Load(c) ==
    /\ At(c, "load")
    /\ call' = [call EXCEPT ![c].pc = "dec", ![c].seen = count]
    /\ UNCHANGED <<software, hardware, isr, ghosts>>

\* TASKS_STOP and TASKS_CLEAR when the last timer goes.
Halt(n) ==
    /\ running' = (running /\ n # 0)
    /\ counter' = IF n = 0 THEN 0 ELSE counter

Dec(c) ==
    LET n == U8(call[c].seen + 255) IN
    /\ At(c, "dec")
    /\ count' = n
    /\ Halt(n)
    /\ Return(c)
    /\ UNCHANGED <<enabled, active, type, ticks, cc, event, inten, pending, isr, ghosts>>

DriverStep(c) == \/ Arm(c) \/ Mark(c) \/ Launch(c) \/ Inc(c)
                 \/ MaskInterrupt(c) \/ Unmark(c) \/ Load(c) \/ Dec(c)

-----------------------------------------------------------------------------
(* Interrupts.                                                              *)

\* Mistake: all active timers are served.
TimerIrqServesAll ==
    /\ isr.on = "idle" /\ pending
    /\ isr' = [on |-> "loop", curr |-> counter, mask |-> active]
    /\ event' = {} /\ pending' = FALSE
    /\ UNCHANGED <<software, counter, running, cc, inten, call, ghosts>>

\* Entry of TIMER0_IRQHandler and its first loop: every compare event is
\* cleared, those of active timers are collected.
TimerIrq ==
    /\ isr.on = "idle" /\ pending
    /\ isr' = [on |-> "loop", curr |-> counter, mask |-> event \intersect active]
    /\ event' = {}
    /\ pending' = FALSE
    /\ UNCHANGED <<software, counter, running, cc, inten, call, ghosts>>

\* One turn of the second loop, up to the call of timers[id].cb(): lowest id
\* first, each once the callback before it has returned.
NextToServe(i) ==
    /\ isr.on \in {"loop", "callback"} /\ call["handler"] = NoCall
    /\ i \in isr.mask /\ \A j \in isr.mask : i <= j
    /\ isr' = [isr EXCEPT !.on = "callback", !.mask = @ \ {i}]
    /\ leftover' = leftover \ {i}

ExpireRepeated(i) ==
    /\ NextToServe(i) /\ type[i] = "repeated"
    /\ cc' = [cc EXCEPT ![i] = Wrap(isr.curr + ticks[i] - DriftFix)]
    /\ inten' = inten \union {i}
    /\ pending' = (pending \/ i \in event)
    /\ left' = [left EXCEPT ![i] = ticks[i] - DriftFix - Elapsed(isr.curr)]
    /\ UNCHANGED <<software, counter, running, event, call, busy>>

\* Mistake: the single shot stays active.
ExpireSingleShotAgain(i) ==
    /\ NextToServe(i) /\ type[i] = "singleshot"
    /\ left' = [left EXCEPT ![i] = 0]
    /\ UNCHANGED <<software, hardware, call, busy>>

ExpireSingleShot(i) ==
    /\ NextToServe(i) /\ type[i] = "singleshot"
    /\ active' = active \ {i}
    /\ count' = U8(count + 255)
    /\ Halt(U8(count + 255))
    /\ left' = [left EXCEPT ![i] = 0]
    /\ UNCHANGED <<enabled, type, ticks, cc, event, inten, pending, call, busy>>

Expire(i) == ExpireRepeated(i) \/ ExpireSingleShot(i)

TimerIrqReturn ==
    /\ isr.on \in {"loop", "callback"} /\ isr.mask = {} /\ call["handler"] = NoCall
    /\ isr' = NoIsr
    /\ UNCHANGED <<software, hardware, call, ghosts>>

\* The radio handler: same priority as TIMER0, so neither preempts the other.
RadioIrq ==
    /\ isr.on = "idle"
    /\ isr' = [NoIsr EXCEPT !.on = "radio"]
    /\ UNCHANGED <<software, hardware, call, ghosts>>

RadioIrqReturn ==
    /\ isr.on \in {"radio", "leaving"} /\ call["handler"] = NoCall
    /\ isr' = NoIsr
    /\ UNCHANGED <<software, hardware, call, ghosts>>

\* The counter advances; a channel that compares equal raises its event.
\* Interrupts and driver calls are over within MaxLatency ticks.
Tick ==
    LET now == Wrap(counter + 1)
        hit == {i \in Ids : cc[i] = now}
    IN
    /\ running
    /\ Quiescent \/ busy < MaxLatency
    /\ counter' = now
    /\ event' = event \union hit
    /\ pending' = (pending \/ hit \intersect inten # {})
    /\ left' = [i \in Ids |-> IF i \in active THEN left[i] - 1 ELSE left[i]]
    /\ busy' = IF Quiescent THEN 0 ELSE busy + 1
    /\ UNCHANGED <<software, running, cc, inten, isr, call, leftover>>

-----------------------------------------------------------------------------
Next ==
    \/ \E t \in Types : Create(t)
    \/ \E c \in Callers, i \in Ids :
        \/ \E us \in Durations : Start(c, i, us)
        \/ Stop(c, i)
    \/ \E c \in Contexts : DriverStep(c)
    \/ TimerIrq \/ TimerIrqReturn \/ RadioIrq \/ RadioIrqReturn
    \/ \E i \in Ids : Expire(i)
    \/ Tick

Spec == Init /\ [][Next]_vars

\* Time passes, an interrupt that stays pending is taken, and no code blocks.
Fairness ==
    /\ SF_vars(Tick) /\ SF_vars(TimerIrq)
    /\ WF_vars(TimerIrqReturn) /\ WF_vars(RadioIrqReturn)
    /\ \A i \in Ids : WF_vars(Expire(i))
    /\ \A c \in Contexts : WF_vars(DriverStep(c))

FairSpec == Spec /\ Fairness

-----------------------------------------------------------------------------
Frames == [pc : {"idle", "arm", "mark", "launch", "inc", "mask", "unmark", "load", "dec"},
           id : Ids, ticks : 0 .. CounterSize - 1, curr : 0 .. CounterSize - 1,
           seen : 0 .. 255]

SoftwareOK ==
    /\ enabled \in SUBSET Ids /\ active \in SUBSET Ids
    /\ type \in [Ids -> Types] /\ ticks \in [Ids -> 0 .. CounterSize - 1]
    /\ count \in 0 .. 255

HardwareOK ==
    /\ counter \in 0 .. CounterSize - 1 /\ cc \in [Ids -> 0 .. CounterSize - 1]
    /\ event \in SUBSET Ids /\ inten \in SUBSET Ids

FlagsOK == running \in BOOLEAN /\ pending \in BOOLEAN

IsrOK ==
    isr \in [on : {"idle", "loop", "callback", "radio", "leaving"},
            curr : 0 .. CounterSize - 1, mask : SUBSET Ids]

CallOK == call \in [Contexts -> Frames]

GhostsOK == left \in [Ids -> Int] /\ leftover \in SUBSET Ids /\ busy \in 0 .. MaxLatency

\* The variables of the driver and of the counter have the types they are
\* declared with (8-bit `active`, CounterSize-valued compare registers).
TypeOK == SoftwareOK /\ HardwareOK /\ FlagsOK /\ IsrOK /\ CallOK /\ GhostsOK

\* Whenever no driver code is running, the counter `active` that decides when
\* TIMER0 is started and stopped equals the number of armed timers, although
\* timer_start, timer_stop and the interrupt handler each update it apart.
CountExact == Quiescent => count = Cardinality(active)

\* An armed timer's counter is running: a timer whose counter was stopped by
\* the end of another one would never expire.
RunningWhileActive ==
    active # {} /\ (\A c \in Contexts : call[c] = NoCall) => running

\* A timer that is due has its interrupt raised, or is being served: a compare
\* value written after the counter had passed it would be lost for a whole turn.
NoLostTimeout ==
    \A i \in active : left[i] <= 0 =>
        \/ i \in isr.mask
        \/ i \in event /\ pending
        \/ \E c \in Contexts : call[c].id = i /\ call[c].pc = "unmark"

\* The handler serves a timer only when it is due, unless a compare event left
\* over from its previous use was raised when timer_start() armed it.
EarlyOnlyIfLeftover ==
    [][\A i \in isr'.mask \ isr.mask : left[i] <= 0 \/ i \in leftover]_vars

\* timer_stop() is final: a timer that is served is still armed.
StoppedIsNotServed == [][\A i \in isr.mask \ isr'.mask : i \in active]_vars

\* Every armed timer is served or stopped.
ArmedTimerExpires == \A i \in Ids : i \in active ~> (i \in isr.mask \/ i \notin active)

\* The driver keeps the promise of TimerService to its callers: what is served,
\* when, how often, and that stopping a timer takes it out of service.
Service == INSTANCE TimerService WITH
    repeats <- {i \in Ids : type[i] = "repeated"},
    armed <- active, period <- ticks, hasty <- leftover \intersect active, due <- isr.mask

ImplementsService == Service!Spec

=============================================================================
