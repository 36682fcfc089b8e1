------------------------------ MODULE Examples ------------------------------
(***************************************************************************)
(* The four example programs that use the timer and radio drivers without  *)
(* the link layer.  A device runs one of them: `program` is chosen at the  *)
(* start, and what the others would have as state does not change.         *)
(***************************************************************************)
EXTENDS Naturals

CONSTANTS
    Programs,        \* those that may be chosen
    ObserverLateEnd, \* may a packet end while the active observer's TIMER0 handler runs?
    Active, Passive, Broadcasting, Scannable,
                     \* the times of each program, in ticks: records of its constants
    Advertisers,     \* what other devices send to the active observer
    Scanners         \* and to the scannable broadcaster

VARIABLES program, radio, tm, idx, scan_req, visited

vars == <<program, radio, tm, idx, scan_req, visited>>

-----------------------------------------------------------------------------
(* The programs, with the timers that each creates.                          *)

A == INSTANCE ActiveObserver
     WITH Ids <- {0, 1}, Repeated <- {0}, Turn <- Active.Turn, MaxAge <- Active.MaxAge,
          AirTime <- Active.AirTime, EndDuringTimer <- ObserverLateEnd,
          SCAN_WINDOW <- Active.SCAN_WINDOW, T_IFS <- Active.T_IFS, Pdus <- Advertisers
P == INSTANCE PassiveObserver
     WITH Ids <- {0, 1}, Repeated <- {1}, Turn <- Passive.Turn, MaxAge <- Passive.MaxAge,
          AirTime <- Passive.AirTime, EndDuringTimer <- TRUE,
          SCAN_WINDOW <- Passive.SCAN_WINDOW, SCAN_INTERVAL <- Passive.SCAN_INTERVAL
B == INSTANCE Broadcaster
     WITH Ids <- {0, 1}, Repeated <- {1}, Turn <- Broadcasting.Turn,
          MaxAge <- Broadcasting.MaxAge, AirTime <- Broadcasting.AirTime,
          EndDuringTimer <- TRUE, ADV_EVENT <- Broadcasting.ADV_EVENT,
          ADV_INTERVAL <- Broadcasting.ADV_INTERVAL
S == INSTANCE ScannableBroadcaster
     WITH Ids <- {0, 1, 2}, Repeated <- {1}, Turn <- Scannable.Turn,
          MaxAge <- Scannable.MaxAge, AirTime <- Scannable.AirTime, EndDuringTimer <- TRUE,
          ADV_EVENT <- Scannable.ADV_EVENT, ADV_INTERVAL <- Scannable.ADV_INTERVAL,
          T_IFS <- Scannable.T_IFS, Pdus <- Scanners

ASSUME ExamplesAssumption ==
    /\ Programs \subseteq {"active", "passive", "broadcaster", "scannable"}
    /\ A!DeviceAssumption /\ A!ActiveObserverAssumption
    /\ P!DeviceAssumption /\ P!PassiveObserverAssumption
    /\ B!DeviceAssumption /\ B!BroadcasterAssumption
    /\ S!DeviceAssumption /\ S!ScannableBroadcasterAssumption

Init ==
    /\ program \in Programs
    /\ CASE program = "active" -> A!Init /\ visited = {}
         [] program = "passive" -> P!Init /\ scan_req = A!ScanReq /\ visited = {}
         [] program = "broadcaster" -> B!Init /\ scan_req = A!ScanReq
         [] program = "scannable" -> S!Init /\ scan_req = A!ScanReq

Progress ==
    /\ UNCHANGED program
    /\ \/ program = "active" /\ A!Progress /\ UNCHANGED visited
       \/ program = "passive" /\ P!Progress /\ UNCHANGED <<scan_req, visited>>
       \/ program = "broadcaster" /\ B!Next /\ UNCHANGED scan_req
       \/ program = "scannable" /\ S!Progress /\ UNCHANGED scan_req

\* The packets of other devices, which need never come.
PacketIn ==
    /\ UNCHANGED program
    /\ \/ program = "active" /\ A!PacketIn /\ UNCHANGED visited
       \/ program = "passive" /\ P!PacketIn /\ UNCHANGED <<scan_req, visited>>
       \/ program = "scannable" /\ S!PacketIn /\ UNCHANGED scan_req

Next == Progress \/ PacketIn

Spec == Init /\ [][Next]_vars

\* Interrupts are served, a transmission ends and time passes.
FairSpec == Spec /\ WF_vars(Progress)

-----------------------------------------------------------------------------
\* What is sent in reply answers what was just received: a SCAN_REQ the active
\* observer's advertiser, a SCAN_RSP a request to the scannable broadcaster.  Both
\* programs start the reply first and stop it if it is wrong (radio_recv_cb).  The
\* observer's output buffer holds a SCAN_REQ whatever is received and whenever.
RepliesMatchRequests ==
    /\ program = "active" => A!RequestsAnswerAdvertisements /\ A!OutBufferIsScanReq
    /\ program = "scannable" => S!AnswersOnlyRequests

\* No program listens without a timer that ends it, though the timer is started and
\* stopped in the radio's callbacks and its compare value outlives it.
ListeningIsTimed ==
    /\ program = "active" => A!SilentListeningIsTimed
    /\ program = "passive" => P!ListensInWindow
    /\ program = "scannable" => S!ListeningIsTimed

\* An observer's radio is on the channel of the current window: the timeout that
\* retunes it never finds it busy, when radio_prepare() would do nothing.
ListensOnChannel ==
    /\ program = "active" => A!OnChannel
    /\ program = "passive" => P!ListensOnChannel

\* When adv_event_timeout() begins an event, the one before it has sent on all three
\* channels, each in its own turn: no transmission found the radio busy.
EventCoversChannels ==
    [][/\ program = "broadcaster" => B!EventCoversChannels /\ B!RadioIsFree
       /\ program = "scannable" => S!EventCoversChannels]_vars

\* The scannable broadcaster cuts off no transmission of its own with its three
\* timers.
TransmissionCompletes == [][program = "scannable" => S!TransmissionCompletes]_vars

\* And it listens for the whole of T_IFS, though stopping the timer leaves its
\* compare value behind.
FullListenWindow == [][program = "scannable" => S!FullListenWindow]_vars

\* Every channel has its turn again and again, whatever is received: it is listened
\* on, or the advertising PDU sent on it.
ChannelsTakeTurns ==
    \A c \in 37 .. 39 :
        []<>CASE program = "passive" -> P!ListensOn(c)
              [] program = "broadcaster" -> B!SendsOn(c)
              [] program = "scannable" -> S!SendsOn(c)
              [] OTHER -> TRUE

\* The same of the active observer.
ObserverScansAllChannels ==
    \A c \in 37 .. 39 : []<>(program = "active" => A!ListensOn(c))
=============================================================================
