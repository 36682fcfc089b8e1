------------------------------ MODULE LinkData ------------------------------
(***************************************************************************)
(* What the link layer sends and with which parameters: the controller     *)
(* interface stack/bci.c over the setters of stack/ll.c, the PDUs they     *)
(* fill, and the radio that reads an advertisement or a scan response      *)
(* while a setter may be writing it.  When timers expire and what is       *)
(* received is LinkLayer's: here a timer of the advertiser may expire as   *)
(* long as it is armed.                                                    *)
(***************************************************************************)
EXTENDS Integers, FiniteSets

CONSTANTS
    Data,           \* what is given to the data setters: records of id and len
    AdvParams,      \* parameters given to bci_set_advertising_params()
    ConnParams,     \* given to ll_set_conn_params()
    Attempts,       \* given to ll_conn_create(): interval, window, number of peers
    ChannelMaps     \* given to ll_set_data_ch_map(): sets of channels

LL_ADV_MTU_DATA == 31
BDADDR_LEN == 6
LL_ADV_INTERVAL_QUANTUM == 625
LL_ADV_INTERVAL_MIN_CONN == 20000
LL_ADV_INTERVAL_MIN_NONCONN == 100000
LL_ADV_INTERVAL_MAX == 10240000
LL_ADV_CH_ALL == 7
LL_DATA_CH_NB == 37
TIMER_MAX == 16777215   \* us, the least that timer_start() refuses

None == [id |-> "none", len |-> 0]

\* The interval of a connection is in the range that ll.h gives for it, in units of
\* 1.25 ms, which ll_set_conn_params() leaves to the caller.
LinkDataAssumption ==
    /\ \A d \in Data : d.len \in 0 .. 255 /\ d # None
    /\ \A p \in ConnParams : p.interval_min \in 6 .. 3200
    /\ \A m \in ChannelMaps : m \subseteq 0 .. 63

VARIABLES
    current_state, adv_params, adv_ch_map,
    timers,         \* t_ll_interval and t_ll_single_shot while the advertiser has them armed
    recv_cb,        \* what the radio calls for a packet
    pdu,            \* pdu_adv and pdu_scan_rsp: type, length, two halves of the data
    setting,        \* the call of a data setter under way: into which PDU, what, what next
    onair,          \* what the radio sends, and which part of it it reads next
    conn_params, data_ch_map,
    pdu_connect_req,
    result,         \* of the last call: 0 or its error
    sent,           \* ghost: what the radio has read of the PDU it sends
    torn            \* ghost: did a setter write that PDU meanwhile?

bci == <<adv_params>>
advertising == <<adv_ch_map, timers, recv_cb>>
air == <<onair, sent, torn>>
connection == <<conn_params, data_ch_map, pdu_connect_req>>
vars == <<current_state, bci, advertising, pdu, setting, air, connection, result>>

U8(n) == n % 256
U16(n) == n % 65536

\* The data are two halves, of 16 and 15 octets; which of them `len` octets reach into.
Halves == {"front", "back"}
Reaches(len, half) == len > IF half = "front" THEN 0 ELSE 16

Empty(type) == [type |-> type, length |-> 0, front |-> None, back |-> None]
Unread == [length |-> 0, front |-> None, back |-> None]
NotSetting == [pdu |-> "none", data |-> None, next |-> "end"]
NothingOnAir == [pdu |-> "none", next |-> "end"]

\* init_adv_pdus() calls the setters with NULL, which they refuse; the PDUs are
\* zero otherwise, their addresses apart.
Init == /\ current_state = "STANDBY"
        /\ adv_params = [type |-> "NONCONN_UNDIR", interval |-> LL_ADV_INTERVAL_MIN_NONCONN,
                         chmap |-> LL_ADV_CH_ALL]
        /\ adv_ch_map = 0 /\ timers = {} /\ recv_cb = "none"
        /\ pdu = [adv |-> Empty("ADV_IND"), scan_rsp |-> Empty("SCAN_RSP")]
        /\ setting = NotSetting
        /\ onair = NothingOnAir /\ sent = Unread /\ torn = FALSE
        /\ conn_params = [interval_min |-> 16, interval_max |-> 160,
                          ce_min |-> 0, ce_max |-> 16]
        /\ data_ch_map = 0 .. LL_DATA_CH_NB - 1
        /\ pdu_connect_req = [win_size |-> 0, win_offset |-> 0, interval |-> 0, ch_map |-> {}]
        /\ result = "0"

Fail(error) ==
    /\ result' = error
    /\ UNCHANGED <<current_state, bci, advertising, pdu, setting, air, connection>>

-----------------------------------------------------------------------------
(* bci.c *)

\* Mistake: the bound of the non-connectable types is that of the others.
AcceptedLoose(p) == /\ p.chmap \in 1 .. LL_ADV_CH_ALL
                    /\ p.interval \in LL_ADV_INTERVAL_MIN_CONN .. LL_ADV_INTERVAL_MAX

LeastInterval(type) ==
    IF type \in {"NONCONN_UNDIR", "SCAN_UNDIR"} THEN LL_ADV_INTERVAL_MIN_NONCONN
    ELSE IF type \in {"CONN_UNDIR", "CONN_DIR_LOW"} THEN LL_ADV_INTERVAL_MIN_CONN ELSE 0

Accepted(p) == /\ p.chmap \in 1 .. LL_ADV_CH_ALL
               /\ p.interval \in LeastInterval(p.type) .. LL_ADV_INTERVAL_MAX

bci_set_advertising_params ==
    \E p \in AdvParams :
        IF Accepted(p)
        THEN /\ adv_params' = p
             /\ result' = "0"
             /\ UNCHANGED <<current_state, advertising, pdu, setting, air, connection>>
        ELSE Fail("EINVAL")

adv_type_to_pdu(type) ==
    IF type = "CONN_UNDIR" THEN "ADV_IND"
    ELSE IF type \in {"CONN_DIR_HIGH", "CONN_DIR_LOW"} THEN "ADV_DIRECT_IND"
    ELSE IF type = "NONCONN_UNDIR" THEN "ADV_NONCONN_IND" ELSE "ADV_SCAN_IND"

-----------------------------------------------------------------------------
(* ll.c: advertising *)

Scannable == {"ADV_IND", "ADV_SCAN_IND"}

Silence == onair' = NothingOnAir /\ sent' = Unread /\ torn' = FALSE

\* radio_send()
Send(name) == /\ onair' = [pdu |-> name, next |-> "length"]
              /\ sent' = Unread
              /\ torn' = (setting.pdu = name)

\* adv_singleshot_cb(): the radio is stopped, whatever it sends, and sends the
\* advertisement; the single shot is armed if the map has another channel.
SendAdv(chmap) ==
    /\ Send("adv")
    /\ \/ timers' = {"interval"}
       \/ chmap \notin {1, 2, 4} /\ timers' = {"interval", "single_shot"}

\* An interval begins when the event before is over.
adv_interval_cb ==
    /\ timers = {"interval"}
    /\ SendAdv(adv_ch_map)
    /\ UNCHANGED <<current_state, bci, adv_ch_map, recv_cb, pdu, setting, connection, result>>

adv_singleshot_cb ==
    /\ timers = {"interval", "single_shot"}
    /\ SendAdv(adv_ch_map)
    /\ UNCHANGED <<current_state, bci, adv_ch_map, recv_cb, pdu, setting, connection, result>>

StartIsValid(interval, chmap) ==
    /\ chmap \in 1 .. LL_ADV_CH_ALL
    /\ interval % LL_ADV_INTERVAL_QUANTUM = 0
    /\ interval \in LL_ADV_INTERVAL_MIN_NONCONN .. LL_ADV_INTERVAL_MAX

\* The map is taken over before the type is looked at.  timer_start() finds its timer
\* stopped in STANDBY and the interval short enough.  The new state and the first event,
\* which begins with radio_stop(), are one step: the call does both, one after the other.
ll_advertise_start(type, interval, chmap) ==
    IF current_state # "STANDBY" THEN Fail("ENOREADY")
    ELSE IF ~StartIsValid(interval, chmap) THEN Fail("EINVAL")
    ELSE /\ adv_ch_map' = chmap
         /\ IF type \in Scannable \union {"ADV_NONCONN_IND"}
            THEN /\ pdu' = [pdu EXCEPT !.adv.type = type]
                 /\ recv_cb' = IF type \in Scannable THEN "adv_radio_recv_cb" ELSE "none"
                 /\ SendAdv(chmap)
                 /\ current_state' = "ADVERTISING"
                 /\ result' = "0"
            ELSE /\ result' = "EINVAL"
                 /\ UNCHANGED <<current_state, timers, recv_cb, pdu, air>>
         /\ UNCHANGED <<bci, setting, connection>>

\* The radio is left on.  Of two timers the second may be found stopped, after the
\* last channel of an event, when the first has been.
ll_advertise_stop ==
    IF current_state # "ADVERTISING" THEN Fail("ENOREADY")
    ELSE /\ IF "interval" \in timers
            THEN timers' = {} ELSE UNCHANGED timers
         /\ IF timers = {"interval", "single_shot"}
            THEN current_state' = "STANDBY" /\ result' = "0"
            ELSE result' = "EINVAL" /\ UNCHANGED current_state
         /\ UNCHANGED <<bci, adv_ch_map, recv_cb, pdu, setting, air, connection>>

bci_set_advertise_enable ==
    \/ ll_advertise_stop
    \/ ll_advertise_start(adv_type_to_pdu(adv_params.type), adv_params.interval, adv_params.chmap)

-----------------------------------------------------------------------------
(* ll.c: data.  memcpy() writes one half after the other, and the length is stored *)
(* last; the radio reads the length first.                                         *)

\* Mistake: the length is stored before the data are copied.
LengthFirst == [call |-> "length", length |-> "front", front |-> "back", back |-> "end"]
WriteOrder == [call |-> "front", front |-> "back", back |-> "length", length |-> "end"]
ReadOrder == [length |-> "front", front |-> "back", back |-> "end"]

SetData(name) ==
    \E d \in Data :
        IF d.len > LL_ADV_MTU_DATA THEN Fail("EINVAL")
        ELSE /\ setting' = [pdu |-> name, data |-> d, next |-> WriteOrder["call"]]
             /\ result' = "0"
             /\ UNCHANGED <<current_state, bci, advertising, pdu, air, connection>>

\* Mistake: the data may be set while they are advertised.
ll_set_advertising_data_any == SetData("adv")

ll_set_advertising_data == IF current_state # "STANDBY" THEN Fail("EBUSY") ELSE SetData("adv")

ll_set_scan_response_data == SetData("scan_rsp")

\* Mistake: the length is that of the data only.
WrittenShort(part) == IF part = "length" THEN setting.data.len
                      ELSE IF Reaches(setting.data.len, part) THEN setting.data
                      ELSE pdu[setting.pdu][part]

Written(part) == IF part = "length" THEN BDADDR_LEN + setting.data.len
                 ELSE IF Reaches(setting.data.len, part) THEN setting.data
                 ELSE pdu[setting.pdu][part]

\* A setter goes on with the next part of the PDU, or returns.
Write ==
    /\ setting # NotSetting
    /\ pdu' = [pdu EXCEPT ![setting.pdu][setting.next] = Written(setting.next)]
    /\ torn' = (torn \/ onair.pdu = setting.pdu)
    /\ setting' = IF WriteOrder[setting.next] = "end" THEN NotSetting
                  ELSE [setting EXCEPT !.next = WriteOrder[setting.next]]
    /\ UNCHANGED <<current_state, bci, advertising, onair, sent, connection, result>>

-----------------------------------------------------------------------------
(* The radio. *)

Sending == onair.pdu \in {"adv", "scan_rsp"}

ReadPart ==
    /\ Sending /\ onair.next # "end"
    /\ sent' = [sent EXCEPT ![onair.next] = pdu[onair.pdu][onair.next]]
    /\ onair' = [onair EXCEPT !.next = ReadOrder[onair.next]]
    /\ UNCHANGED <<current_state, bci, advertising, pdu, setting, torn, connection, result>>

\* The radio listens after an advertisement that may be answered.
EndOfPdu ==
    /\ Sending /\ onair.next = "end"
    /\ IF onair.pdu = "adv" /\ pdu.adv.type \in Scannable
       THEN /\ onair' = [pdu |-> "listen", next |-> "end"]
            /\ sent' = Unread /\ torn' = FALSE
       ELSE Silence
    /\ UNCHANGED <<current_state, bci, advertising, pdu, setting, connection, result>>

\* T_IFS is over, or what is received is no SCAN_REQ for this device.
NotAsked ==
    /\ onair.pdu = "listen"
    /\ Silence
    /\ UNCHANGED <<current_state, bci, advertising, pdu, setting, connection, result>>

\* A SCAN_REQ is answered, by adv_radio_recv_cb(): also in STANDBY.
send_scan_rsp ==
    /\ onair.pdu = "listen" /\ recv_cb = "adv_radio_recv_cb"
    /\ pdu.adv.type \in Scannable
    /\ Send("scan_rsp")
    /\ UNCHANGED <<current_state, bci, advertising, pdu, setting, connection, result>>

-----------------------------------------------------------------------------
(* ll.c: initiating *)

ll_set_conn_params ==
    \E p \in ConnParams :
        IF p.interval_max < p.interval_min \/ p.ce_max < p.ce_min THEN Fail("EINVAL")
        ELSE /\ conn_params' = p
             /\ result' = "0"
             /\ UNCHANGED <<current_state, bci, advertising, pdu, setting, air,
                            data_ch_map, pdu_connect_req>>

\* The map is stored before its channels are counted.
ll_set_data_ch_map ==
    \E m \in ChannelMaps :
        /\ data_ch_map' = m \cap (0 .. LL_DATA_CH_NB - 1)
        /\ result' = IF Cardinality(data_ch_map') < 2 THEN "EINVAL" ELSE "0"
        /\ UNCHANGED <<current_state, bci, advertising, pdu, setting, air,
                       conn_params, pdu_connect_req>>

win_size(interval) == IF interval > 8 THEN 8 ELSE U8(interval - 1)

\* init_connect_req_pdu()
ConnectReq == [win_size |-> win_size(conn_params.interval_min),
               win_offset |-> U16(conn_params.interval_min - 3),
               interval |-> conn_params.interval_min,
               ch_map |-> data_ch_map]

\* CONNECT_REQ and the callback are in place before timer_start() can refuse the
\* interval, which nothing else bounds.
ll_conn_create ==
    IF current_state # "STANDBY" THEN Fail("ENOREADY")
    ELSE \E a \in Attempts :
            IF a.window > a.interval \/ a.peers = 0 THEN Fail("EINVAL")
            ELSE /\ pdu_connect_req' = ConnectReq
                 /\ recv_cb' = "init_radio_recv_cb"
                 /\ IF a.interval >= TIMER_MAX
                    THEN result' = "EINVAL" /\ UNCHANGED current_state
                    ELSE result' = "0" /\ current_state' = "INITIATING"
                 /\ UNCHANGED <<bci, adv_ch_map, timers, pdu, setting, air,
                                conn_params, data_ch_map>>

\* The radio is stopped, whatever it sends.
ll_conn_cancel ==
    IF current_state # "INITIATING" THEN Fail("ENOREADY")
    ELSE /\ current_state' = "STANDBY"
         /\ result' = "0"
         /\ Silence
         /\ UNCHANGED <<bci, advertising, pdu, setting, connection>>

\* Calls are made one after another, each to its end.
Advertising ==
    \/ setting = NotSetting /\ \/ bci_set_advertising_params \/ bci_set_advertise_enable
                               \/ ll_set_advertising_data \/ ll_set_scan_response_data
    \/ Write
    \/ adv_interval_cb \/ adv_singleshot_cb
    \/ ReadPart \/ EndOfPdu \/ NotAsked \/ send_scan_rsp

Initiating ==
    setting = NotSetting /\ \/ ll_set_conn_params \/ ll_set_data_ch_map
                            \/ ll_conn_create \/ ll_conn_cancel

Next == Advertising \/ Initiating

Spec == Init /\ [][Next]_vars

-----------------------------------------------------------------------------
(* Properties. *)

\* Parameters that the controller interface accepts for non-connectable and scannable
\* advertising start it, if they are of whole units of 0.625 ms.  Connectable types
\* are accepted with intervals that ll_advertise_start() refuses.
AcceptedParamsStart ==
    /\ adv_params.type \in {"NONCONN_UNDIR", "SCAN_UNDIR"}
    /\ adv_params.interval % LL_ADV_INTERVAL_QUANTUM = 0
    => StartIsValid(adv_params.interval, adv_params.chmap)

\* What one call of a setter has written, or nothing where none has been made.
Whole(view) ==
    \/ view.length = 0
    \/ \E d \in Data : /\ d.len <= LL_ADV_MTU_DATA
                       /\ view.length = BDADDR_LEN + d.len
                       /\ \A half \in Halves : Reaches(d.len, half) => view[half] = d

\* An advertisement that is sent to its end while ADVERTISING has length and data of one
\* call of ll_set_advertising_data(): the data are not set in that state, and one
\* that was still being sent in STANDBY, when they may be, is not sent on.
AdvertisementIsWhole ==
    current_state = "ADVERTISING" /\ onair = [pdu |-> "adv", next |-> "end"] => Whole(sent)

\* A SCAN_RSP has length and data of one call of ll_set_scan_response_data(), unless
\* such a call writes it as it is being sent.
ResponseIsWhole == onair = [pdu |-> "scan_rsp", next |-> "end"] /\ ~torn => Whole(sent)

\* Even then the octets that its length promises have been set, by this call or an
\* earlier one: the length that goes out is never ahead of the data.
ResponseIsFilled ==
    onair = [pdu |-> "scan_rsp", next |-> "end"] =>
        \A half \in Halves : Reaches(sent.length - BDADDR_LEN, half) => sent[half] # None

\* The first transmit window of the connection that CONNECT_REQ announces: of 1.25 ms to
\* 10 ms, shorter than the interval, and beginning inside it.
WindowFitsInterval ==
    current_state = "INITIATING" =>
        /\ pdu_connect_req.win_size \in 1 .. 8
        /\ pdu_connect_req.win_size < pdu_connect_req.interval
        /\ pdu_connect_req.win_offset \in 0 .. pdu_connect_req.interval
=============================================================================
