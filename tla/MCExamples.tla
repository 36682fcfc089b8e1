----------------------------- MODULE MCExamples -----------------------------
(***************************************************************************)
(* Examples for TLC.  The times are the programs' own in proportion, a     *)
(* tick being about the time of the shortest packet: a window or an        *)
(* interval is many packets long, T_IFS a few, and the counter does not    *)
(* turn within a period.                                                   *)
(***************************************************************************)
EXTENDS Examples

ActiveTimes == [Turn |-> 13, MaxAge |-> 3, AirTime |-> 2, SCAN_WINDOW |-> 10, T_IFS |-> 3]
PassiveTimes == [Turn |-> 11, MaxAge |-> 2, AirTime |-> 2, SCAN_WINDOW |-> 6, SCAN_INTERVAL |-> 7]
BroadcastingTimes ==
    [Turn |-> 29, MaxAge |-> 3, AirTime |-> 3, ADV_EVENT |-> 19, ADV_INTERVAL |-> 5]
ScannableTimes ==
    [Turn |-> 29, MaxAge |-> 2, AirTime |-> 2, ADV_EVENT |-> 28, ADV_INTERVAL |-> 9, T_IFS |-> 2]

\* An advertisement with a public address, a SCAN_RSP with a random one, an
\* advertisement with a random address, a truncated one and a broken one.
Adv(header, from, crc, whole) == [header |-> header, from |-> from, crc |-> crc, whole |-> whole]
SomeAdvertisers == {Adv({}, "a", TRUE, TRUE), Adv({2, 6}, "a", TRUE, TRUE),
                    Adv({1, 2, 6}, "b", TRUE, TRUE), Adv({}, "a", TRUE, FALSE),
                    Adv({}, "b", FALSE, TRUE)}

\* A request to the scannable broadcaster, and one of each that is wrong.
Req(type, me, rxadd) == [type |-> type, me |-> me, rxadd |-> rxadd]
SomeScanners == {Req("SCAN_REQ", TRUE, TRUE), Req("SCAN_REQ", FALSE, TRUE),
                 Req("SCAN_REQ", TRUE, FALSE), Req("ADV_IND", TRUE, TRUE)}
=============================================================================
