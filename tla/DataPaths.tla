----------------------------- MODULE DataPaths -----------------------------
(***************************************************************************)
(* What the stack does with data, side by side: the text of logged numbers *)
(* (LogFormat), the parameters and PDUs of the link layer (LinkData), AD   *)
(* structures (AdData) and reports of received advertisements (AdvReport). *)
(* They share no state, so that each is looked at alone: `path` is chosen  *)
(* at the start, and the state of the others does not change.              *)
(***************************************************************************)
EXTENDS Integers

CONSTANTS
    Paths,                          \* the paths that may be chosen
    Width, ItosLen,                 \* of LogFormat
    Data, AdvParams, ConnParams,    \* of LinkData
    Attempts, ChannelMaps,
    Items, MaxItems, Received,      \* of AdData
    Lengths, PacketIds              \* of AdvReport

VARIABLES
    path,
    signed, number, n, itosbuf, p1, p2, at,
    current_state, adv_params, adv_ch_map, timers, recv_cb, pdu, setting, onair,
    conn_params, data_ch_map, pdu_connect_req, result, sent, torn,
    items, todo, buffer, wanted, found, pos, pc,
    header, length, payload, air, report, pending, reads, seen, unseen, fresh, disturbed

text == <<signed, number, n, itosbuf, p1, p2, at>>
link == <<current_state, adv_params, adv_ch_map, timers, recv_cb, pdu, setting, onair,
          conn_params, data_ch_map, pdu_connect_req, result, sent, torn>>
ad == <<items, todo, buffer, wanted, found, pos, pc>>
reports == <<header, length, payload, air, report, pending, reads, seen, unseen, fresh, disturbed>>
vars == <<path, text, link, ad, reports>>

-----------------------------------------------------------------------------
F == INSTANCE LogFormat WITH pc <- at
L == INSTANCE LinkData
D == INSTANCE AdData
R == INSTANCE AdvReport WITH Ids <- PacketIds

ASSUME DataPathsAssumption ==
    /\ Paths \subseteq {"text", "advertising", "initiating", "ad", "reports"}
    /\ F!LogFormatAssumption /\ L!LinkDataAssumption
    /\ D!AdDataAssumption /\ R!AdvReportAssumption

\* A path that is not chosen stands still.
TextUnused == /\ signed = TRUE /\ number = 0 /\ n = 0 /\ itosbuf = [i \in {} |-> 0]
              /\ p1 = 0 /\ p2 = 0 /\ at = "unused"
AdUnused == /\ items = <<>> /\ todo = <<>> /\ buffer = <<>> /\ wanted = {}
            /\ found = <<>> /\ pos = 0 /\ pc = "unused"

Init == /\ path \in Paths
        /\ IF path = "text" THEN F!Init ELSE TextUnused
        /\ IF path = "ad" THEN D!Init ELSE AdUnused
        /\ L!Init /\ R!Init

Text == path = "text" /\ F!Next /\ UNCHANGED <<path, link, ad, reports>>
Link == /\ \/ path = "advertising" /\ L!Advertising
           \/ path = "initiating" /\ L!Initiating
        /\ UNCHANGED <<path, text, ad, reports>>
Ad == path = "ad" /\ D!Next /\ UNCHANGED <<path, text, link, reports>>
Reports(action) == path = "reports" /\ action /\ UNCHANGED <<path, text, link, ad>>

Next == Text \/ Link \/ Ad \/ Reports(R!Next)

Spec == Init /\ [][Next]_vars

\* Handlers are run and a callback goes on however often it is preempted.
FairSpec ==
    /\ Spec
    /\ WF_vars(Reports(R!ScanRadioRecvCb))
    /\ SF_vars(Reports(R!SWI0_IRQHandler)) /\ SF_vars(Reports(R!AdvReportCb))
    /\ SF_vars(Reports(R!Return))

-----------------------------------------------------------------------------
\* log_int() and log_uint() print the number they are given, the least included.
TextIsNumber == F!TextIsNumber

\* Parameters that bci_set_advertising_params() accepts for non-connectable and scannable
\* advertising, with an interval of whole units of 0.625 ms, start it later.
AcceptedParamsStart == L!AcceptedParamsStart

\* An advertisement sent while ADVERTISING is what one call has set, though the data may
\* be set in STANDBY while one is still being sent.
AdvertisementIsWhole == L!AdvertisementIsWhole

\* A SCAN_RSP that no call of its setter overlaps is what one call has set.
ResponseIsWhole == L!ResponseIsWhole

\* A SCAN_RSP that a setter overlaps has no octet that was never set.
ResponseIsFilled == L!ResponseIsFilled

\* CONNECT_REQ announces a transmit window that fits the interval.
WindowFitsInterval == L!WindowFitsInterval

\* What bci_ad_put() has written is what bci_ad_get() finds.
RoundTrip == path = "ad" => D!RoundTrip

\* bci_ad_get() reads any buffer of complete AD structures inside its bounds.
WellFormedIsRead == path = "ad" => D!WellFormedIsRead

\* A report is of one packet if none begins until it has been read.
UndisturbedReportIsWhole == R!UndisturbedReportIsWhole

\* The last report before a silence reaches the application.
LastReportIsSeen == path = "reports" => R!LastReportIsSeen

\* What the application reads is of one packet.
ReportIsWhole == R!ReportIsWhole
=============================================================================
