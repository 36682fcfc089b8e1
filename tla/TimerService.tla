---------------------------- MODULE TimerService ----------------------------
(***************************************************************************)
(* What the timer driver promises to the link layer, whatever shares the   *)
(* counter: an armed timer is served no earlier than it was asked to and   *)
(* falls due at most MaxLatency ticks before it is; a single shot is then  *)
(* disarmed, a repeated timer armed again with a fixed correction; a       *)
(* stopped timer is not served.  The one exception is the driver's own: a  *)
(* timer that was armed hasty may be served before it is due.              *)
(***************************************************************************)
EXTENDS Integers

CONSTANTS Ids, Durations, MaxLatency, DriftFix

VARIABLES
    repeats,  \* the repeated timers
    armed,    \* the armed timers
    period,   \* the duration each was last armed with
    left,     \* ticks until each armed timer is due
    hasty,    \* armed timers that need not wait until they are due
    due       \* timers about to be served

vars == <<repeats, armed, period, left, hasty, due>>

Init ==
    /\ repeats = {} /\ armed = {} /\ hasty = {} /\ due = {}
    /\ period = [i \in Ids |-> 0]
    /\ left = [i \in Ids |-> 0]

Configure(i) ==
    /\ i \notin armed
    /\ repeats' \in {repeats \union {i}, repeats \ {i}}
    /\ UNCHANGED <<armed, period, left, hasty, due>>

\* The call may take effect `late` ticks after it read the counter.
Arm(i) ==
    /\ i \notin armed
    /\ armed' = armed \union {i}
    /\ \E d \in Durations, late \in 0 .. MaxLatency :
        /\ period' = [period EXCEPT ![i] = d]
        /\ left' = [left EXCEPT ![i] = d - late]
    /\ hasty' \in {hasty, hasty \union {i}}
    /\ UNCHANGED <<repeats, due>>

Drop(i) ==
    /\ armed' = armed \ {i}
    /\ left' = [left EXCEPT ![i] = 0]
    /\ hasty' = hasty \ {i}
    /\ UNCHANGED <<repeats, period>>

Disarm(i) == i \in armed \ due /\ Drop(i) /\ UNCHANGED due

Collect ==
    /\ due = {}
    /\ due' \in SUBSET {i \in armed : left[i] <= 0 \/ i \in hasty}
    /\ UNCHANGED <<repeats, armed, period, left, hasty>>

ServeOnce(i) ==
    /\ i \in due \ repeats /\ due' = due \ {i}
    /\ Drop(i)

ServeAgain(i) ==
    /\ i \in due \intersect repeats /\ due' = due \ {i}
    /\ \E late \in 0 .. MaxLatency :
        left' = [left EXCEPT ![i] = period[i] - DriftFix - late]
    /\ hasty' = hasty \ {i}
    /\ UNCHANGED <<repeats, armed, period>>

Pass ==
    /\ \A i \in armed : left[i] > - MaxLatency
    /\ left' = [i \in Ids |-> IF i \in armed THEN left[i] - 1 ELSE left[i]]
    /\ UNCHANGED <<repeats, armed, period, hasty, due>>

Next ==
    \/ \E i \in Ids : \/ Configure(i) \/ Arm(i) \/ Disarm(i)
                      \/ ServeOnce(i) \/ ServeAgain(i)
    \/ Collect
    \/ Pass

Spec == Init /\ [][Next]_vars
=============================================================================
