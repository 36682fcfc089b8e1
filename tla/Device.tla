------------------------------- MODULE Device -------------------------------
(***************************************************************************)
(* What a program that does all its work in timer and radio callbacks runs *)
(* on: timer.c with TIMER0 as operators on one record, the way module      *)
(* Radio has radio.c, and the steps of the two interrupts, of the air and  *)
(* of the clock.  The examples that use the drivers directly are such      *)
(* programs.  Both handlers have the same priority, so that calls of the   *)
(* drivers are not interrupted (module Timer has the calls that are).      *)
(***************************************************************************)
EXTENDS Naturals, Radio

CONSTANTS
    Ids,            \* the timers the program creates, 0 for the first
    Repeated,       \* those of type TIMER_REPEATED
    Turn,           \* values of the 24-bit counter
    AirTime,        \* ticks that the longest packet takes
    EndDuringTimer  \* may a packet end while the TIMER0 handler runs?

DeviceAssumption ==
    /\ Ids \subseteq 0 .. 2 /\ Repeated \subseteq Ids
    /\ Turn \in Nat \ {0} /\ AirTime \in 1 .. MaxAge /\ EndDuringTimer \in BOOLEAN

VARIABLES radio, tm

-----------------------------------------------------------------------------
(* timer.c.  armed are the timers marked active, active the count of them,   *)
(* eight bits wide; events are the EVENTS_COMPARE registers, inten the       *)
(* enabled interrupts and irq the pending interrupt; due is id_mask.         *)

TimersReset == [armed |-> {}, active |-> 0, running |-> FALSE, counter |-> 0,
                cc |-> [i \in Ids |-> 0], events |-> {}, inten |-> {}, irq |-> FALSE,
                due |-> {}]

update_cc(t, i, ticks) ==
    [t EXCEPT !.cc[i] = (t.counter + ticks) % Turn, !.inten = @ \union {i},
              !.irq = @ \/ i \in t.events]

\* timer_start(): -EALREADY, with no effect, for an armed timer.
timer_start(t, i, ticks) ==
    IF i \in t.armed THEN t
    ELSE [update_cc(t, i, ticks) EXCEPT !.armed = @ \union {i}, !.active = (@ + 1) % 256,
                                        !.running = @ \/ t.active = 0]

\* active--, and the counter stopped and cleared by the last one.
Release(t, i) ==
    LET n == (t.active + 255) % 256 IN
    [t EXCEPT !.armed = @ \ {i}, !.active = n, !.running = @ /\ n # 0,
              !.counter = IF n = 0 THEN 0 ELSE @]

\* timer_stop(): -EINVAL, with no effect, for a timer that is not armed.  The
\* compare register and its event are left as they are.
timer_stop(t, i) ==
    IF i \in t.armed THEN Release([t EXCEPT !.inten = @ \ {i}], i) ELSE t

\* TIMER0_IRQHandler(), first loop.
\* Mistake: only the events of armed timers are cleared.
CollectArmed(t) == [t EXCEPT !.due = t.events \intersect t.armed, !.events = @ \ t.armed,
                             !.irq = FALSE]
Collect(t) == [t EXCEPT !.due = t.events \intersect t.armed, !.events = {}, !.irq = FALSE]

\* Second loop: what it does to the timer before it calls the callback, whether
\* or not a callback before it in the same interrupt has stopped that timer.
Served(t, i, period) ==
    LET rest == [t EXCEPT !.due = @ \ {i}] IN
    IF i \in Repeated THEN update_cc(rest, i, period) ELSE Release(rest, i)

Elapsed(t) ==
    LET now == (t.counter + 1) % Turn
        hits == {i \in Ids : t.cc[i] = now}
    IN  IF ~t.running THEN t
        ELSE [t EXCEPT !.counter = now, !.events = @ \union hits,
                       !.irq = @ \/ hits \intersect t.inten # {}]

-----------------------------------------------------------------------------
(* Steps.  RADIO has the lower interrupt number: its handler goes first.     *)

TimerIrq == tm.irq /\ tm.due = {} /\ ~radio.end /\ tm' = Collect(tm) /\ UNCHANGED radio

\* The callback of timer i is called; that of the radio is.
Serving(i) == i \in tm.due /\ \A j \in tm.due : i <= j
Ended == radio.end /\ tm.due = {}

\* An END for which the driver calls no callback: the radio was stopped.
StaleEnd == Ended /\ radio.status = {} /\ radio' = HandleEnd(radio) /\ UNCHANGED tm

MayEnd(phase) == /\ radio.phase = phase /\ ~radio.end /\ radio.age > 0
                 /\ tm.due = {} \/ EndDuringTimer

PacketOut == MayEnd("tx") /\ radio' = PacketSent(radio) /\ UNCHANGED tm

\* Neither handler is running or pending: time can pass.
Quiet == tm.due = {} /\ ~tm.irq /\ ~radio.end

Tick ==
    /\ Quiet
    /\ radio.phase = "tx" => radio.age < AirTime
    /\ radio' = Aged(radio) /\ tm' = Elapsed(tm)
=============================================================================
