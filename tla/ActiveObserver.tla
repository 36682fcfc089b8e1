--------------------------- MODULE ActiveObserver ---------------------------
(***************************************************************************)
(* examples/radio-active-observer: it listens on one channel after the     *)
(* other for a scan window each, answers advertisements with a SCAN_REQ    *)
(* that the radio's TX_NEXT shortcut starts by itself, and then waits T_IFS *)
(* for the SCAN_RSP.                                                       *)
(*                                                                         *)
(* Of a PDU: the bits that are set in the first octet of its header, the   *)
(* address it begins with, whether its CRC is right and whether it is as   *)
(* long as an address at least.                                            *)
(***************************************************************************)
EXTENDS Device

CONSTANTS
    SCAN_WINDOW, T_IFS,  \* in ticks
    Pdus                 \* the packets other devices send

ActiveObserverAssumption ==
    /\ SCAN_WINDOW \in 1 .. (Turn - 1) /\ T_IFS \in 1 .. (Turn - 1)

VARIABLES
    idx,
    scan_req  \* first octet and AdvA of the PDU in the output buffer

data == <<idx, scan_req>>
vars == <<radio, tm, idx, scan_req>>

channels == <<37, 38, 39>>
scan_window == 0
t_ifs == 1

TxAdd == 6
Type(header) == header \intersect 0 .. 3
ADV_IND == {}
SCAN_REQ == {0, 1}
ADV_SCAN_IND == {1, 2}

ScanReq == [header |-> SCAN_REQ \union {TxAdd}, adva |-> "empty"]
ZeroedPdu == [header |-> {}, from |-> "zero", crc |-> TRUE, whole |-> FALSE]

Listen(r, i) == Recv(Prepare(r, channels[i + 1]), {"tx_next"})

\* main(), which calls scan_window_timeout() itself; idx is 0xFF before it.
Init ==
    /\ idx = 0 /\ scan_req = ScanReq
    /\ tm = timer_start(TimersReset, scan_window, SCAN_WINDOW)
    /\ radio = Listen(SetOutBuffer([Reset EXCEPT !.inbuf = ZeroedPdu], "scan_req"), 0)

t_ifs_timeout ==
    /\ Serving(t_ifs)
    /\ tm' = Served(tm, t_ifs, 0)
    /\ radio' = Recv(Stop(radio), {"tx_next"})
    /\ UNCHANGED data

\* Mistake: the radio is not stopped.
scan_window_timeout_busy ==
    /\ Serving(scan_window)
    /\ tm' = timer_stop(Served(tm, scan_window, SCAN_WINDOW), t_ifs)
    /\ idx' = (idx + 1) % 3
    /\ radio' = Listen(radio, idx')
    /\ UNCHANGED scan_req

scan_window_timeout ==
    /\ Serving(scan_window)
    /\ tm' = timer_stop(Served(tm, scan_window, SCAN_WINDOW), t_ifs)
    /\ idx' = (idx + 1) % 3
    /\ radio' = Listen(Stop(radio), idx')
    /\ UNCHANGED scan_req

Answered(pdu) == pdu.crc /\ pdu.whole /\ Type(pdu.header) \in {ADV_IND, ADV_SCAN_IND}

\* "Copy pdu's TxAdd to scan_req's RxAdd": (pdu[0] << 1) & 0x10.
CopiedBit(header) == {b + 1 : b \in header} \intersect {4}

\* Mistake: the reply is not stopped.
radio_recv_cb_replies ==
    /\ Ended /\ Received(radio)
    /\ tm' = timer_stop(tm, t_ifs)
    /\ IF Answered(radio.inbuf)
       THEN /\ radio' = HandleEnd(radio)
            /\ scan_req' = [scan_req EXCEPT !.header = @ \union CopiedBit(radio.inbuf.header),
                                            !.adva = radio.inbuf.from]
       ELSE radio' = Recv(HandleEnd(radio), {"tx_next"}) /\ UNCHANGED scan_req
    /\ UNCHANGED idx

\* For an advertisement the reply under way is completed; otherwise it is stopped
\* (radio_stop() does nothing when there is none) and the next packet awaited.
radio_recv_cb ==
    /\ Ended /\ Received(radio)
    /\ tm' = timer_stop(tm, t_ifs)
    /\ IF Answered(radio.inbuf)
       THEN /\ radio' = HandleEnd(radio)
            /\ scan_req' = [scan_req EXCEPT !.header = @ \union CopiedBit(radio.inbuf.header),
                                            !.adva = radio.inbuf.from]
       ELSE radio' = Recv(Stop(HandleEnd(radio)), {"tx_next"}) /\ UNCHANGED scan_req
    /\ UNCHANGED idx

radio_send_cb ==
    /\ Ended /\ Sent(radio)
    /\ radio' = Recv(HandleEnd(radio), {})
    /\ tm' = timer_start(tm, t_ifs, T_IFS)
    /\ UNCHANGED data

\* A packet is written where PACKETPTR says.
PacketIn ==
    /\ MayEnd("rx")
    /\ \E pdu \in Pdus :
        IF radio.ptr = "inbuf"
        THEN radio' = PacketReceived(radio, pdu) /\ UNCHANGED scan_req
        ELSE radio' = AfterEnd(radio) /\ scan_req' = [header |-> pdu.header, adva |-> "data"]
    /\ UNCHANGED <<tm, idx>>

\* What goes on by itself: interrupts are served, a transmission ends and time
\* passes.  A packet from another device need never come.
Progress ==
    \/ t_ifs_timeout \/ scan_window_timeout \/ radio_recv_cb \/ radio_send_cb
    \/ (TimerIrq \/ PacketOut \/ Tick) /\ UNCHANGED data

Next == Progress \/ PacketIn

Spec == Init /\ [][Next]_vars /\ WF_vars(Progress)

-----------------------------------------------------------------------------
OnAir == radio.phase = "tx" /\ ~radio.end

\* What goes out is a SCAN_REQ to the device whose advertisement was just
\* received: the reply that the hardware starts after every packet is stopped for
\* all others (radio_recv_cb), bad or short ones included.
RequestsAnswerAdvertisements ==
    OnAir => /\ radio.ptr = "scan_req"
             /\ Answered(radio.inbuf) /\ scan_req.adva = radio.inbuf.from

\* The buffer from which requests are sent holds a SCAN_REQ, as its declaration
\* says, whatever is received.
OutBufferIsScanReq == Type(scan_req.header) = SCAN_REQ

\* Whenever no interrupt is pending, the observer either answers what it receives
\* or waits for a response, and then T_IFS runs: it never goes on listening to
\* advertisements it will not answer.
SilentListeningIsTimed ==
    (Quiet /\ radio.phase = "rx" /\ "txen" \notin radio.shorts) => t_ifs \in tm.armed

\* The radio is on the channel of the current window: scan_window_timeout() never
\* finds it busy when it retunes.
OnChannel == tm.due = {} => radio.ch = channels[idx + 1]

\* The radio listens on channel c.
ListensOn(c) == radio.phase = "rx" /\ radio.ch = c
=============================================================================
