---------------------------- MODULE Broadcaster ----------------------------
(***************************************************************************)
(* examples/radio-broadcaster: a repeated timer begins an advertising      *)
(* event, which sends one PDU on each channel; a single shot that each     *)
(* transmission starts leads to the next.  There is no radio callback.     *)
(***************************************************************************)
EXTENDS Device

CONSTANTS ADV_EVENT, ADV_INTERVAL  \* in ticks

BroadcasterAssumption ==
    /\ ADV_INTERVAL \in Nat /\ ADV_INTERVAL > AirTime + 1 /\ ADV_EVENT \in Nat
    /\ 3 * ADV_INTERVAL < ADV_EVENT /\ ADV_EVENT < Turn

VARIABLES
    idx,
    visited  \* ghost: channels this event has sent on

vars == <<radio, tm, idx, visited>>

\* Reading channels[] outside its bounds gives no channel.
channels == <<37, 38, 39>>
ChannelAt(i) == IF i < 3 THEN channels[i + 1] ELSE 0
adv_interval == 0
adv_event == 1

SendPdu(r, i) == Send(Prepare(r, ChannelAt(i)), "adv", {})

\* Mistake: one channel too many.
Continued1(t, i) == IF i < 4 THEN timer_start(t, adv_interval, ADV_INTERVAL) ELSE t

\* if (idx < 3) timer_start(), idx being the next index.
Continued(t, i) == IF i < 3 THEN timer_start(t, adv_interval, ADV_INTERVAL) ELSE t

\* main(), which calls adv_event_timeout() itself.
Init ==
    /\ idx = 1 /\ visited = {}
    /\ tm = Continued(timer_start(TimersReset, adv_event, ADV_EVENT), 1)
    /\ radio = SendPdu(Reset, 0)

adv_interval_timeout ==
    /\ Serving(adv_interval)
    /\ radio' = SendPdu(radio, idx)
    /\ idx' = idx + 1
    /\ tm' = Continued(Served(tm, adv_interval, 0), idx')
    /\ UNCHANGED visited

\* idx = 0 and a call of adv_interval_timeout().
adv_event_timeout ==
    /\ Serving(adv_event)
    /\ radio' = SendPdu(radio, 0)
    /\ idx' = 1
    /\ tm' = Continued(Served(tm, adv_event, ADV_EVENT), idx')
    /\ visited' = {}

\* RADIO_IRQHandler() with no callback.
Handled == Ended /\ radio' = HandleEnd(radio) /\ UNCHANGED <<tm, idx, visited>>

OnAirEnds == PacketOut /\ visited' = visited \union {radio.ch} /\ UNCHANGED idx

\* All that happens goes on by itself.
Next ==
    \/ adv_interval_timeout \/ adv_event_timeout \/ Handled \/ OnAirEnds
    \/ (TimerIrq \/ Tick) /\ UNCHANGED <<idx, visited>>

Spec == Init /\ [][Next]_vars /\ WF_vars(Next)

-----------------------------------------------------------------------------
\* When adv_event_timeout() begins an event, the one before it has sent on all
\* three channels.
EventCoversChannels == adv_event_timeout => visited = 37 .. 39

\* adv_interval_timeout() never finds the radio busy, which would keep the channel
\* and start a second PDU over the first, and never reads past channels[].
RadioIsFree ==
    adv_interval_timeout \/ adv_event_timeout => radio.status = {} /\ radio'.ch \in 37 .. 39

\* The PDU is on air on channel c.
SendsOn(c) == radio.phase = "tx" /\ radio.ch = c
=============================================================================
