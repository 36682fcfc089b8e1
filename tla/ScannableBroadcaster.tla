------------------------ MODULE ScannableBroadcaster ------------------------
(***************************************************************************)
(* examples/radio-scannable-broadcaster: as the broadcaster, but after     *)
(* each PDU the radio listens for a SCAN_REQ (RX_NEXT) and a single shot,  *)
(* T_IFS, ends that.  The response is started first and stopped again if   *)
(* there is something wrong with the request.                              *)
(*                                                                         *)
(* Of a PDU: its type, whether AdvA is this device's address and RxAdd     *)
(* that address's type.  Whether its CRC is right makes no difference.     *)
(***************************************************************************)
EXTENDS Device

CONSTANTS
    ADV_EVENT, ADV_INTERVAL, T_IFS,  \* in ticks
    Pdus                             \* the packets other devices send

\* From a PDU to the next: a request begins at the end of T_IFS, and is answered.
ScannableBroadcasterAssumption ==
    /\ T_IFS \in 1 .. MaxAge
    /\ ADV_INTERVAL \in Nat /\ ADV_INTERVAL > 2 * AirTime + 2 * T_IFS
    /\ ADV_EVENT \in Nat /\ 3 * ADV_INTERVAL < ADV_EVENT /\ ADV_EVENT < Turn

VARIABLES
    idx,
    visited  \* ghost: channels this event has sent on

data == <<idx, visited>>
vars == <<radio, tm, idx, visited>>

channels == <<37, 38, 39>>
adv_interval == 0
adv_event == 1
t_ifs == 2

SendPdu(r, i) == Send(Prepare(Stop(r), channels[i + 1]), "adv_scan_ind", {"rx_next"})

\* if (idx < 3) timer_start(), idx being the next index.
Continued(t, i) == IF i < 3 THEN timer_start(t, adv_interval, ADV_INTERVAL) ELSE t

\* main(), which calls adv_event_timeout() itself.
Init ==
    /\ idx = 1 /\ visited = {}
    /\ tm = Continued(timer_start(TimersReset, adv_event, ADV_EVENT), 1)
    /\ radio = SendPdu([Reset EXCEPT !.inbuf = [type |-> "zero", me |-> FALSE, rxadd |-> FALSE]], 0)

t_ifs_timeout ==
    /\ Serving(t_ifs)
    /\ tm' = Served(tm, t_ifs, 0)
    /\ radio' = Stop(radio)
    /\ UNCHANGED data

adv_interval_timeout ==
    /\ Serving(adv_interval)
    /\ radio' = SendPdu(radio, idx)
    /\ idx' = idx + 1
    /\ tm' = Continued(Served(tm, adv_interval, 0), idx')
    /\ UNCHANGED visited

\* Mistake: the event begins on the second channel.
adv_event_timeout_late ==
    /\ Serving(adv_event)
    /\ radio' = SendPdu(radio, 1)
    /\ idx' = 2
    /\ tm' = Continued(Served(tm, adv_event, ADV_EVENT), idx')
    /\ visited' = {}

\* idx = 0 and a call of adv_interval_timeout().
adv_event_timeout ==
    /\ Serving(adv_event)
    /\ radio' = SendPdu(radio, 0)
    /\ idx' = 1
    /\ tm' = Continued(Served(tm, adv_event, ADV_EVENT), idx')
    /\ visited' = {}

\* What radio_recv_cb() demands of a request: its crc argument is not used.
Right(req) == req.type = "SCAN_REQ" /\ req.me /\ req.rxadd

\* Mistake: the timer is not stopped.
radio_recv_cb_timed ==
    LET response == Send(HandleEnd(radio), "scan_rsp", {}) IN
    /\ Ended /\ Received(radio)
    /\ radio' = IF Right(radio.inbuf) THEN response ELSE Stop(response)
    /\ UNCHANGED <<tm, data>>

radio_recv_cb ==
    LET response == Send(HandleEnd(radio), "scan_rsp", {}) IN
    /\ Ended /\ Received(radio)
    /\ tm' = timer_stop(tm, t_ifs)
    /\ radio' = IF Right(radio.inbuf) THEN response ELSE Stop(response)
    /\ UNCHANGED data

\* After the advertisement and after the response.
radio_send_cb ==
    /\ Ended /\ Sent(radio)
    /\ radio' = HandleEnd(radio)
    /\ tm' = timer_start(tm, t_ifs, T_IFS)
    /\ UNCHANGED data

PacketIn ==
    /\ MayEnd("rx")
    /\ \E pdu \in Pdus : radio' = PacketReceived(radio, pdu)
    /\ UNCHANGED <<tm, data>>

OnAirEnds ==
    /\ PacketOut
    /\ visited' = IF radio.ptr = "adv_scan_ind" THEN visited \union {radio.ch} ELSE visited
    /\ UNCHANGED idx

\* Interrupts are served, a transmission ends and time passes; a request need
\* never come.
Progress ==
    \/ t_ifs_timeout \/ adv_interval_timeout \/ adv_event_timeout
    \/ radio_recv_cb \/ radio_send_cb \/ OnAirEnds
    \/ (TimerIrq \/ StaleEnd \/ Tick) /\ UNCHANGED data

Next == Progress \/ PacketIn

Spec == Init /\ [][Next]_vars /\ WF_vars(Progress)

-----------------------------------------------------------------------------
\* A SCAN_RSP on air answers a SCAN_REQ to this device and its address type: the
\* response that radio_recv_cb() starts at once is stopped for all others.
AnswersOnlyRequests ==
    radio.phase = "tx" /\ ~radio.end /\ radio.ptr = "scan_rsp" =>
        radio.inbuf.type = "SCAN_REQ" /\ radio.inbuf.me /\ radio.inbuf.rxadd

\* When adv_event_timeout() begins an event, the one before it has sent on all
\* three channels.
EventCoversChannels == adv_event_timeout => visited = 37 .. 39

\* No transmission is cut off: neither the timer of the request nor that of the
\* response nor the next channel comes during one.
TransmissionCompletes ==
    radio.phase = "tx" /\ ~radio.end => radio'.phase = "tx" \/ radio'.end

\* "a bigger window to guarantee the reception": t_ifs_timeout() ends no listening
\* before T_IFS is over, though stopping the timer leaves its compare value behind.
FullListenWindow == t_ifs_timeout /\ radio.phase = "rx" => radio.age >= T_IFS

\* Listening ends with T_IFS: the radio never listens into the next interval.
ListeningIsTimed == (Quiet /\ radio.phase = "rx") => t_ifs \in tm.armed

\* The advertising PDU is on air on channel c.
SendsOn(c) == radio.phase = "tx" /\ radio.ptr = "adv_scan_ind" /\ radio.ch = c
=============================================================================
