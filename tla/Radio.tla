------------------------------- MODULE Radio -------------------------------
(***************************************************************************)
(* The radio driver, platform/nrf51822/radio.c, and as much of the RADIO   *)
(* peripheral as it relies on.  The state of both is one record; a call of *)
(* the driver, an END interrupt and a hardware event are operators on it,  *)
(* so that a link layer handler is the composition of the calls it makes.  *)
(*                                                                         *)
(* status and flags are the driver's variables, as the sets of bits that   *)
(* are set (STATUS_INITIALIZED is always set after radio_init()).  shorts  *)
(* holds the DISABLED shortcuts beyond BASE_SHORTS, ptr is PACKETPTR, out  *)
(* and inbuf are outbuf and the contents of inbuf, phase is what the       *)
(* peripheral does and age the ticks it has done so, end is EVENTS_END     *)
(* with its interrupt.                                                     *)
(***************************************************************************)
EXTENDS Integers

CONSTANT MaxAge  \* where age stops counting

\* radio_init(): idle, no output buffer, inbuf zeroed (PDU type 0 is ADV_IND).
Reset == [status |-> {}, flags |-> {}, shorts |-> {}, ch |-> 0,
          ptr |-> "inbuf", out |-> "none",
          inbuf |-> [type |-> "ADV_IND", from |-> "zero", to |-> "zero"],
          phase |-> "off", age |-> 0, end |-> FALSE]

\* Power the peripheral up for p: a task that only works when it is disabled.
Enable(r, p) == IF r.phase = "off" THEN [r EXCEPT !.phase = p, !.age = 0] ELSE r

\* The frequency of a channel, in MHz above 2400: the advertising channels are
\* spread over the band and the data channels fill what is between them.
ch2freq(ch) ==
    IF ch > 39 THEN -1
    ELSE IF ch > 36 THEN IF ch = 37 THEN 2 ELSE IF ch = 38 THEN 26 ELSE 80
    ELSE IF ch < 11 THEN 4 + 2 * ch ELSE 6 + 2 * ch

\* radio_prepare(): -EBUSY, and the old channel kept, unless idle; -EINVAL for a
\* channel that does not exist.
Prepare(r, ch) ==
    IF r.status = {} /\ ch2freq(ch) >= 0 THEN [r EXCEPT !.ch = ch] ELSE r

\* radio_send(): no check that the radio is idle.
Send(r, pdu, f) ==
    Enable([r EXCEPT !.status = @ \union {"tx"}, !.flags = @ \union f, !.ptr = pdu,
                     !.shorts = IF "rx_next" \in f THEN @ \union {"rxen"} ELSE @], "tx")

\* radio_recv(): no check either.
Recv(r, f) ==
    Enable([r EXCEPT !.status = @ \union {"rx"}, !.flags = @ \union f, !.ptr = "inbuf",
                     !.shorts = IF "tx_next" \in f THEN @ \union {"txen"} ELSE @], "rx")

\* Mistake: radio_stop() that forgets the flags and shortcuts.
StopKeepsShorts(r) ==
    IF r.status = {} THEN r ELSE [r EXCEPT !.status = {}, !.phase = "off", !.age = 0]

\* radio_stop(): -ENOREADY when idle; EVENTS_END is left as it is.
Stop(r) ==
    IF r.status = {} THEN r
    ELSE [r EXCEPT !.status = {}, !.flags = {}, !.shorts = {}, !.phase = "off", !.age = 0]

SetOutBuffer(r, pdu) == [r EXCEPT !.out = pdu]

\* RADIO_IRQHandler() up to the callback.  Which one it calls depends on the
\* status before: Received(r), Sent(r) or none.
Received(r) == "rx" \in r.status
Sent(r) == r.status = {"tx"}

HandleEnd(r) ==
    LET idle == [r EXCEPT !.end = FALSE, !.status = {}] IN
    IF Received(r) /\ "tx_next" \in r.flags
    THEN [idle EXCEPT !.status = {"tx"}, !.flags = @ \ {"tx_next"}, !.ptr = r.out,
                      !.shorts = @ \ {"txen"}]
    ELSE IF Sent(r) /\ "rx_next" \in r.flags
    THEN [idle EXCEPT !.status = {"rx"}, !.flags = @ \ {"rx_next"}, !.ptr = "inbuf",
                      !.shorts = @ \ {"rxen"}]
    ELSE idle

\* The peripheral.  END disables it (BASE_SHORTS) and a DISABLED shortcut, if
\* set, powers it up again at once; the packet pointer is read only when the
\* ramp-up is over, after the END interrupt has been served.
AfterEnd(r) ==
    [r EXCEPT !.end = TRUE, !.age = 0,
              !.phase = IF "rxen" \in r.shorts THEN "rx"
                        ELSE IF "txen" \in r.shorts THEN "tx" ELSE "off"]

PacketSent(r) == AfterEnd(r)
PacketReceived(r, pdu) == [AfterEnd(r) EXCEPT !.inbuf = pdu]

Aged(r) == IF r.phase = "off" \/ r.age = MaxAge THEN r ELSE [r EXCEPT !.age = @ + 1]

\* Between interrupts the driver's status says what the peripheral is doing:
\* a driver that believes it is idle, or receiving, is.
Agrees(r) ==
    r.status = IF r.phase = "off" THEN {} ELSE {r.phase}

\* The follow-up that a flag asks for is the one its shortcut will start.
FollowUpAgrees(r) ==
    /\ "rx_next" \in r.flags <=> "rxen" \in r.shorts
    /\ "tx_next" \in r.flags <=> "txen" \in r.shorts
    /\ "rxen" \in r.shorts => r.phase = "tx"
    /\ "txen" \in r.shorts => r.phase = "rx"
=============================================================================
