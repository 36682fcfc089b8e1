----------------------------- MODULE AdvReport -----------------------------
(***************************************************************************)
(* How a received advertisement reaches the application while scanning:    *)
(* scan_radio_recv_cb() (stack/ll.c), in the radio's handler, fills one    *)
(* static report whose data stays in the radio's receive buffer and makes  *)
(* SWI0 pending; SWI0_IRQHandler (platform/nrf51822/ll-plat.c), of LOW     *)
(* priority, calls the application, which reads the report field by field. *)
(* The radio has been turned on again before that and goes on receiving    *)
(* into the same buffer.                                                   *)
(***************************************************************************)
EXTENDS Integers

CONSTANTS
    Lengths,    \* values of the 6-bit length field of the packets received
    Ids         \* packets are numbered 0 .. Ids - 1, over and over

BDADDR_LEN == 6
LL_ADV_MTU_PAYLOAD == 37
LL_ADV_MTU_DATA == LL_ADV_MTU_PAYLOAD - BDADDR_LEN

AdvReportAssumption == Lengths \subseteq 0 .. 63 /\ Ids \in Nat \ {0, 1}

Packets == 0 .. Ids - 1
Nothing == -1
Mixed == -2     \* octets of two packets

VARIABLES
    \* the receive buffer: which packet its header (with the length), and which
    \* packet its payload, are of; and what the radio is receiving
    header, length, payload, air,
    \* ll_adv_report: type, addr and len; data always points to the payload
    report,
    \* the pending bit of SWI0, and the application's callback: what it reads
    \* next, what it has read
    pending, reads, seen,
    \* ghosts: the packet of the last report until it is seen; whether no other has begun
    \* since that report was filled; and whether one has before the callback had read it
    unseen, fresh, disturbed

vars == <<header, length, payload, air, report, pending, reads, seen, unseen, fresh, disturbed>>
buffer == <<header, length, payload>>
application == <<reads, seen>>

NoView == [type |-> Nothing, addr |-> Nothing, len |-> 0, data |-> Nothing]

Init == /\ header = 0 /\ length = 0 /\ payload = 0
        /\ air = "nothing"
        /\ report = [type |-> Nothing, addr |-> Nothing, len |-> 0]
        /\ pending = FALSE
        /\ reads = "nothing" /\ seen = NoView
        /\ unseen = Nothing /\ fresh = FALSE /\ disturbed = FALSE

-----------------------------------------------------------------------------
(* The radio writes the buffer as a packet comes in. *)

ReceiveHeader ==
    /\ air = "nothing"
    /\ header' = (header + 1) % Ids
    /\ length' \in Lengths
    /\ air' = "header"
    /\ fresh' = FALSE /\ disturbed' = TRUE
    /\ UNCHANGED <<payload, report, pending, application, unseen>>

ReceivePayload ==
    /\ air = "header"
    /\ payload' = Mixed
    /\ air' = "payload"
    /\ UNCHANGED <<header, length, report, pending, application, unseen, fresh, disturbed>>

EndPacket ==
    /\ air = "payload"
    /\ payload' = header
    /\ air' = "end"
    /\ UNCHANGED <<header, length, report, pending, application, unseen, fresh, disturbed>>

\* The window ends: before the payload, in the middle of it, or with END pending, which
\* is then not served as a reception.
StopRadio ==
    /\ air # "nothing"
    /\ air' = "nothing"
    /\ UNCHANGED <<buffer, report, pending, application, unseen, fresh, disturbed>>

\* Mistake: SWI0 is not made pending while the application is called.
SendUnlessBusy == pending' = (pending \/ reads = "nothing")

\* ll_plat_send_adv_report()
Send == pending' = TRUE

\* Mistake: the address is not copied.
FillNoAddress == [type |-> header, addr |-> report.addr, len |-> (length - BDADDR_LEN) % 256]

\* The report of the packet in the buffer; len is a uint8_t.
Fill == [type |-> header, addr |-> payload, len |-> (length - BDADDR_LEN) % 256]

\* scan_radio_recv_cb()
ScanRadioRecvCb ==
    /\ air = "end"
    /\ air' = "nothing"
    /\ report' = Fill
    /\ Send
    /\ unseen' = header /\ fresh' = TRUE
    /\ UNCHANGED <<buffer, application, disturbed>>

-----------------------------------------------------------------------------
(* The application, which the radio's handler preempts between two reads. *)

SWI0_IRQHandler ==
    /\ pending /\ reads = "nothing"
    /\ pending' = FALSE
    /\ reads' = "type"
    /\ seen' = NoView
    /\ disturbed' = ~fresh
    /\ UNCHANGED <<buffer, air, report, unseen, fresh>>

Read(field, value, next) ==
    /\ reads = field
    /\ seen' = [seen EXCEPT ![field] = value]
    /\ reads' = next
    /\ UNCHANGED <<buffer, air, report, pending, unseen, fresh, disturbed>>

\* The application's use of the report; it never writes it.
AdvReportCb == \/ Read("type", report.type, "addr")
               \/ Read("addr", report.addr, "len")
               \/ Read("len", report.len, "data")
               \/ Read("data", payload, "done")

Return ==
    /\ reads = "done"
    /\ reads' = "nothing"
    /\ unseen' = IF seen.type = unseen THEN Nothing ELSE unseen
    /\ UNCHANGED <<buffer, air, report, pending, seen, fresh, disturbed>>

Next == \/ ReceiveHeader \/ ReceivePayload \/ EndPacket \/ StopRadio \/ ScanRadioRecvCb
        \/ SWI0_IRQHandler \/ AdvReportCb \/ Return

Spec == Init /\ [][Next]_vars

\* Handlers are run and a callback goes on however often it is preempted.
Fairness == /\ WF_vars(ScanRadioRecvCb)
            /\ SF_vars(SWI0_IRQHandler) /\ SF_vars(AdvReportCb) /\ SF_vars(Return)

FairSpec == Spec /\ Fairness

-----------------------------------------------------------------------------
(* Properties. *)

OfOnePacket(view) == view.type = view.addr /\ view.addr = view.data

\* What the application has read is one packet, if none began to come in from the time
\* the report was filled until all was read, not even one that the end of the window cut
\* off: the radio, turned on again, leaves report and buffer as they are until then.
UndisturbedReportIsWhole == reads = "done" /\ ~disturbed => OfOnePacket(seen)

\* The last report before a silence reaches the application, also when it is made
\* while the application still reads an earlier one: SWI0 is pending again.
LastReportIsSeen ==
    \A p \in Packets : (unseen = p) ~> (unseen # p)

\* What the application has read is one packet.
ReportIsWhole == reads = "done" => OfOnePacket(seen)
=============================================================================
