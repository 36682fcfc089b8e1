---------------------------- MODULE MCDataPaths ----------------------------
(***************************************************************************)
(* Values for the constants of DataPaths: one of each case that the code   *)
(* distinguishes.                                                          *)
(***************************************************************************)
EXTENDS DataPaths

CONSTANT MaxOctets  \* of a received buffer

\* Data that differ in length, the longest, and one octet more.
SomeData == {[id |-> "short", len |-> 3],
             [id |-> "longest", len |-> 31], [id |-> "long", len |-> 32]}

\* Every type, intervals at the bounds and not of whole units, maps of one channel and of
\* several, and one that is out of range.
Params(type, interval, chmap) == [type |-> type, interval |-> interval, chmap |-> chmap]
SomeAdvParams ==
    {Params("NONCONN_UNDIR", 100000, 2), Params("NONCONN_UNDIR", 99375, 2),
     Params("SCAN_UNDIR", 100000, 5), Params("SCAN_UNDIR", 100001, 5),
     Params("SCAN_UNDIR", 20000, 8), Params("SCAN_UNDIR", 10240625, 5),
     Params("CONN_UNDIR", 20000, 5), Params("CONN_UNDIR", 10240000, 4),
     Params("CONN_DIR_LOW", 19375, 0), Params("CONN_DIR_HIGH", 100000, 1)}

\* From 7.5 ms to 4 s as ll.h says, and one whose bounds are in the wrong order.
Conn(least, greatest) ==
    [interval_min |-> least, interval_max |-> greatest, ce_min |-> 0, ce_max |-> 16]
SomeConnParams == {Conn(6, 6), Conn(8, 9), Conn(3200, 3200), Conn(10, 9)}

\* A window as long as the interval and a longer one, no peer, an interval that the timer
\* cannot hold.
Attempt(interval, window, peers) == [interval |-> interval, window |-> window, peers |-> peers]
SomeAttempts == {Attempt(20000, 20000, 1), Attempt(20000, 20001, 1), Attempt(20000, 10000, 0),
                 Attempt(16777215, 10000, 1)}

SomeChannelMaps == {0 .. 36, {0, 36}, {7, 37}}

\* Flags, TX power, names (an empty one, one type with two values), manufacturer
\* data, appearances up to the greatest that the code reads back, an unknown type.
Item(t, v) == [type |-> t, value |-> v]
SomeItems == {Item(1, <<6>>), Item(10, <<0>>), Item(8, <<>>), Item(9, <<65, 66>>),
              Item(9, <<67>>), Item(255, <<76, 0>>), Item(25, <<64>>), Item(25, <<511>>),
              Item(2, <<1>>)}

\* Octets that are lengths, types and a NUL.
SomeBuffers == UNION {[1 .. k -> {0, 1, 2, 3, 10, 9, 25, 255}] : k \in 1 .. MaxOctets}
=============================================================================
