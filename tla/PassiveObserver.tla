-------------------------- MODULE PassiveObserver --------------------------
(***************************************************************************)
(* examples/radio-passive-observer: a repeated timer opens a scan window   *)
(* on the next channel, a single shot closes it, and the radio callback    *)
(* turns the radio on again after each packet.                             *)
(***************************************************************************)
EXTENDS Device

CONSTANTS SCAN_WINDOW, SCAN_INTERVAL  \* in ticks

\* "the last must have a smaller timeout value"
PassiveObserverAssumption ==
    /\ SCAN_WINDOW \in Nat \ {0} /\ SCAN_INTERVAL \in Nat /\ SCAN_INTERVAL < Turn
    /\ SCAN_WINDOW < SCAN_INTERVAL

VARIABLE idx

vars == <<radio, tm, idx>>

channels == <<37, 38, 39>>
scan_window == 0
scan_interval == 1

Listen(r, i) == Recv(Prepare(r, channels[i + 1]), {})

\* main(), which calls scan_interval_timeout() itself; idx is 0xFF before it.
Init ==
    /\ idx = 0
    /\ tm = timer_start(timer_start(TimersReset, scan_interval, SCAN_INTERVAL),
                        scan_window, SCAN_WINDOW)
    /\ radio = Listen(Reset, 0)

scan_window_timeout ==
    /\ Serving(scan_window)
    /\ tm' = Served(tm, scan_window, 0)
    /\ radio' = Stop(radio)
    /\ UNCHANGED idx

\* Mistake: the window's timer is not started.
scan_interval_timeout_untimed ==
    /\ Serving(scan_interval)
    /\ tm' = Served(tm, scan_interval, SCAN_INTERVAL)
    /\ idx' = (idx + 1) % 3
    /\ radio' = Listen(radio, idx')

scan_interval_timeout ==
    /\ Serving(scan_interval)
    /\ tm' = timer_start(Served(tm, scan_interval, SCAN_INTERVAL), scan_window, SCAN_WINDOW)
    /\ idx' = (idx + 1) % 3
    /\ radio' = Listen(radio, idx')

\* Every packet, good or bad, is followed by the next reception.
radio_recv_cb ==
    /\ Ended /\ Received(radio)
    /\ radio' = Recv(HandleEnd(radio), {})
    /\ UNCHANGED <<tm, idx>>

PacketIn == MayEnd("rx") /\ radio' = AfterEnd(radio) /\ UNCHANGED <<tm, idx>>

\* Interrupts are served and time passes; a packet need never come.
Progress ==
    \/ scan_window_timeout \/ scan_interval_timeout \/ radio_recv_cb
    \/ (TimerIrq \/ StaleEnd \/ Tick) /\ UNCHANGED idx

Next == Progress \/ PacketIn

Spec == Init /\ [][Next]_vars /\ WF_vars(Progress)

-----------------------------------------------------------------------------
\* The radio receives exactly while the window's timer runs, also when a packet
\* ends as the window does and radio_recv_cb() turns the radio on again.
ListensInWindow == Quiet => (radio.phase = "rx" <=> scan_window \in tm.armed)

\* What is received is of the channel the log names: radio_prepare() never finds
\* the radio still busy with the channel before.
ListensOnChannel == radio.phase = "rx" /\ ~radio.end => radio.ch = channels[idx + 1]

\* The radio listens on channel c.
ListensOn(c) == radio.phase = "rx" /\ radio.ch = c
=============================================================================
