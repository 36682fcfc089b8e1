---------------------------- MODULE MCLinkLayer ----------------------------
(***************************************************************************)
(* Values for the constants of LinkLayer: the packets that other devices   *)
(* send.  "me" is this device, "peer" the one it wants to connect to.      *)
(***************************************************************************)
EXTENDS LinkLayer

Pdu(type, from, to) == [type |-> type, from |-> from, to |-> to]

\* Scan requests to this device and to another one, and an advertiser's PDU.
ScannerPdus == {Pdu("SCAN_REQ", "other", "me"), Pdu("SCAN_REQ", "other", "other"),
                Pdu("ADV_IND", "other", "all")}

\* Advertisers that may and may not be connected to.
AdvertiserPdus == {Pdu("ADV_IND", "peer", "all"), Pdu("ADV_IND", "other", "all"),
                   Pdu("ADV_DIRECT_IND", "peer", "me"),
                   Pdu("ADV_DIRECT_IND", "peer", "other"),
                   Pdu("ADV_NONCONN_IND", "peer", "all")}

\* A request that is answered.
OneRequest == {Pdu("SCAN_REQ", "other", "me")}

AllMaps == (SUBSET Channels) \ {{}}
TwoChannels == {{37, 39}}
=============================================================================
