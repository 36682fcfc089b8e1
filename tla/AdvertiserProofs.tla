-------------------------- MODULE AdvertiserProofs --------------------------
(***************************************************************************)
(* Theorems about the link layer of a device that only advertises, with    *)
(* any channel map and either PDU type, for all intervals that leave time  *)
(* for a whole exchange between two PDUs, when its call returns before the *)
(* first PDU has ended: with a longer call the counting of the timer       *)
(* driver goes wrong, and what is proved here fails.                       *)
(***************************************************************************)
EXTENDS LinkLayerProofs

\* A PDU, T_IFS with a request at its end, a response, and T_IFS once more.
Exchange == AirTime + Ifs + AirTime + Ifs

\* 0.5 ms of T_IFS and packets of at most 0.376 ms fit in t_adv_pdu_interval, 10 ms,
\* many times; an event of three PDUs fits in the interval of at least 100 ms.
AdvertiserOnly ==
    /\ Ops \subseteq {"ll_advertise_start"} /\ CallDelay = 0
    /\ Exchange < PduInterval
    /\ 2 * PduInterval + Exchange < AdvInterval

-----------------------------------------------------------------------------
(* The inductive invariant.                                                 *)

\* The call as it goes on: what remains before each of its steps.
ToArm == <<Arming("single")>>
ToSend == <<Do("send"), Arming("single")>>
ToPrepare == <<Do("prepare"), Do("send"), Arming("single")>>
ToStop == <<Do("radio_stop"), Do("prepare"), Do("send"), Arming("single")>>
ToSelect == <<Do("first"), Do("radio_stop"), Do("prepare"), Do("send"), Arming("single")>>
ToEnter == <<Do("enter"), Do("first"), Do("radio_stop"), Do("prepare"), Do("send"),
             Arming("single")>>

Launched == current_state = "advertising" /\ todo \in {<<>>, ToArm}

\* The states of the radio, with its flags and shortcuts.
Is(r, status, next, phase, end) ==
    /\ r.status = status /\ r.phase = phase /\ r.end = end
    /\ r.flags = (IF next THEN {"rx_next"} ELSE {})
    /\ r.shorts = (IF next THEN {"rxen"} ELSE {})

Scans == adv_type = "ADV_SCAN_IND"

Off == Is(radio, {}, FALSE, "off", FALSE)
Sending == Is(radio, {"tx"}, Scans, "tx", FALSE) /\ radio.ptr = "adv"
Sent == Is(radio, {"tx"}, Scans, IF Scans THEN "rx" ELSE "off", TRUE)
Listening == Scans /\ Is(radio, {"rx"}, FALSE, "rx", FALSE)
Heard == Scans /\ Is(radio, {"rx"}, FALSE, "off", TRUE)
Replying == Scans /\ Is(radio, {"tx"}, FALSE, "tx", FALSE) /\ radio.ptr = "scan_rsp"
Replied == Scans /\ Is(radio, {"tx"}, FALSE, "off", TRUE)
Late == Scans /\ Is(radio, {}, FALSE, "off", TRUE)

\* The ticks until the next PDU.
UntilNext == IF "single" \in armed THEN left["single"] ELSE left["interval"]

Free == "ifs" \notin armed /\ "ifs" \notin lapsing /\ "ifs" \notin leftover

\* What the radio does, how it goes with the T_IFS timer, and that the rest of the
\* exchange is over before the next PDU is due.
ExchangeOK ==
    \/ Off /\ ("ifs" \in armed => left["ifs"] < UntilNext)
    \/ Sending /\ Free /\ radio.age <= AirTime /\ Exchange < UntilNext + radio.age
    \/ Sent /\ Free /\ radio.age = 0 /\ Ifs + AirTime + Ifs < UntilNext
    \/ /\ Listening /\ "ifs" \in armed /\ "ifs" \notin leftover
       /\ left["ifs"] = Ifs - radio.age /\ left["ifs"] + AirTime + Ifs < UntilNext
       /\ due = {} \/ left["ifs"] = 0
    \/ Heard /\ radio.age = 0 /\ "ifs" \in armed /\ left["ifs"] + AirTime + Ifs < UntilNext
    \/ /\ Replying /\ "ifs" \notin armed
       /\ radio.age <= AirTime /\ AirTime + Ifs < UntilNext + radio.age
       /\ radio.inbuf.type = "SCAN_REQ" /\ radio.inbuf.to = "me"
    \/ Replied /\ "ifs" \notin armed /\ Ifs < UntilNext
    \/ Late /\ "ifs" \notin armed /\ due = {}

\* The channels of the event still to come, and the time for them before the next.
EventOK ==
    /\ adv_ch_map # {} /\ radio.ch \in adv_ch_map
    /\ visited = {c \in adv_ch_map : c < radio.ch \/ (c = radio.ch /\ ~Sending)}
    /\ IF "single" \in armed
       THEN /\ Channel(adv_ch_idx) \in adv_ch_map /\ radio.ch < Channel(adv_ch_idx)
            /\ \A c \in adv_ch_map : c <= radio.ch \/ Channel(adv_ch_idx) <= c
            /\ left["single"] + (IF HasNext(adv_ch_idx) THEN PduInterval ELSE 0) + Exchange
                 < left["interval"]
            /\ todo = <<>> /\ cb["single"] = "advertising"
       ELSE \/ todo = <<>> /\ \A c \in adv_ch_map : c <= radio.ch
            \/ todo = ToArm /\ adv_ch_idx = first_adv_ch_idx /\ radio.ch = Channel(adv_ch_idx)

\* Of the timers only that of T_IFS ever leaves a compare event behind.
LeftoverOK ==
    /\ lapsing \subseteq {"ifs"} /\ leftover \subseteq {"ifs"}
    /\ "ifs" \in lapsing => "ifs" \notin armed /\ left["ifs"] \in 1 .. UntilNext - 1
    /\ due # {} => leftover = {}
    /\ \A i \in due : i # "ifs" => left[i] = 0
    /\ "ifs" \in due => due = {"ifs"}

\* The call returns, its last timer counted, while the first PDU is being sent.
Swift ==
    /\ InCall => Sending /\ radio.age = 0 /\ due = {}
    /\ within # Outside => todo = <<>>

LaunchedOK ==
    /\ Launched /\ "interval" \in armed /\ cb["interval"] = "advertising"
    /\ callbacks = (IF Scans THEN "advertising" ELSE "standby")
    /\ ExchangeOK /\ EventOK /\ LeftoverOK /\ Swift

\* Until the first PDU nothing happens but the steps of the call.
StartingOK ==
    /\ Off /\ lapsing = {} /\ leftover = {} /\ due = {} /\ visited = {}
    /\ current_state = (IF todo \in {ToSend, ToPrepare, ToStop, ToSelect} THEN "advertising"
                                                                        ELSE "standby")
    /\ todo # <<>> => callbacks = (IF Scans THEN "advertising" ELSE "standby")
    /\ \/ armed = {} /\ todo \in {<<>>, AdvertiseStart}
       \/ /\ armed = {"interval"} /\ cb["interval"] = "advertising"
          /\ todo \in {ToEnter, ToSelect, ToStop, ToPrepare, ToSend}
    /\ within # Outside => todo = ToEnter
    /\ todo \in {ToStop, ToPrepare, ToSend} => adv_ch_idx = first_adv_ch_idx
    /\ todo = ToSend => radio.ch = Channel(adv_ch_idx)

\* What the start function was given, just now.
StartOK ==
    /\ todo # <<>> => goal = "advertising" /\ adv_ch_map # {}
    /\ "interval" \in armed /\ todo # <<>> => AdvInterval <= left["interval"]
    /\ left["ifs"] <= Ifs

\* The driver's count is right: only the timer that the call is starting is not yet
\* in it.
One(i) == IF i \in armed THEN 1 ELSE 0
Armed == One("interval") + One("single") + One("ifs")

CountOK ==
    /\ within \in {Outside, [at |-> "marked", count |-> 0], [at |-> "up", count |-> Armed]}
    /\ count = IF within = Outside THEN Armed ELSE Armed - 1
    /\ running <=> IF within = Outside THEN armed # {} ELSE count # 0 \/ within.at = "up"

AdvertiserInv == LinkInv /\ StartOK /\ CountOK /\ (LaunchedOK \/ StartingOK)

-----------------------------------------------------------------------------
(* What the invariant says of the timers.                                    *)

\* The T_IFS timer is due before the next PDU; once that one is, the radio is off
\* and the T_IFS timer will not match.
LEMMA ExchangeIsOver ==
    ASSUME AdvertiserOnly, LinkInv, LaunchedOK
    PROVE  /\ UntilNext \in Nat
           /\ "ifs" \in armed => left["ifs"] < UntilNext
           /\ "single" \in armed => left["single"] < left["interval"]
           /\ UntilNext = 0 => Off \/ Late
           /\ UntilNext = 0 => "ifs" \notin armed /\ "ifs" \notin lapsing
<1> USE Constants, Numbers
<1>1. UntilNext \in Nat
  BY DEF UntilNext
<1>2. Exchange \in Nat
  BY DEF Exchange
<1>3. "single" \in armed => left["single"] < left["interval"]
  BY <1>2 DEF LaunchedOK, EventOK
<1>4. "ifs" \in armed => left["ifs"] < UntilNext
  BY <1>1 DEF LaunchedOK, ExchangeOK, Free
<1>5. UntilNext = 0 => Off \/ Late
  BY DEF LaunchedOK, ExchangeOK, Exchange
<1>6. UntilNext = 0 => "ifs" \notin lapsing
  BY DEF LaunchedOK, LeftoverOK
<1> QED BY <1>1, <1>3, <1>4, <1>5, <1>6

LEMMA FirstChannel ==
    ASSUME LinkOK, adv_ch_map # {}
    PROVE  /\ first_adv_ch_idx \in 0 .. 2 /\ Channel(first_adv_ch_idx) \in adv_ch_map
           /\ \A c \in adv_ch_map : Channel(first_adv_ch_idx) <= c
<1>1. CASE 37 \in adv_ch_map
  BY <1>1 DEF LinkOK, Channels, Channel, first_adv_ch_idx
<1>2. CASE 37 \notin adv_ch_map /\ 38 \in adv_ch_map
  BY <1>2 DEF LinkOK, Channels, Channel, first_adv_ch_idx
<1>3. CASE adv_ch_map = {39}
  BY <1>3 DEF LinkOK, Channels, Channel, first_adv_ch_idx
<1>4. 37 \in adv_ch_map \/ 38 \in adv_ch_map \/ adv_ch_map = {39}
  BY DEF LinkOK, Channels
<1> QED BY <1>1, <1>2, <1>3, <1>4

LEMMA NextChannel ==
    ASSUME LinkOK, NEW i \in 0 .. 2
    PROVE  /\ HasNext(i) =>
                /\ Channel(inc_adv_ch_idx(i)) \in adv_ch_map
                /\ Channel(i) < Channel(inc_adv_ch_idx(i))
                /\ \A c \in adv_ch_map : c <= Channel(i) \/ Channel(inc_adv_ch_idx(i)) <= c
                /\ i # 0 => ~HasNext(inc_adv_ch_idx(i))
           /\ ~HasNext(i) => \A c \in adv_ch_map : c <= Channel(i)
           /\ inc_adv_ch_idx(i) \in 0 .. 2 /\ Channel(i) \in Channels
BY DEF LinkOK, Channels, Channel, HasNext, inc_adv_ch_idx, next_adv_ch_idx

-----------------------------------------------------------------------------
(* The radio driver's calls and interrupts in the states of an advertiser.   *)

LEMMA SendFromOff ==
    ASSUME NEW r \in Radios, NEW next \in BOOLEAN, NEW pdu \in {"adv", "scan_rsp"},
           Is(r, {}, FALSE, "off", FALSE)
    PROVE  LET q == R!Send(r, pdu, IF next THEN {"rx_next"} ELSE {}) IN
           /\ Is(q, {"tx"}, next, "tx", FALSE)
           /\ q.ptr = pdu /\ q.age = 0 /\ q.ch = r.ch /\ q.inbuf = r.inbuf
<1> DEFINE f == IF next THEN {"rx_next"} ELSE {}
           q == [r EXCEPT !.status = @ \union {"tx"}, !.flags = @ \union f, !.ptr = pdu,
                     !.shorts = IF "rx_next" \in f THEN @ \union {"rxen"} ELSE @]
<1>1. /\ q \in Radios /\ q.ch = r.ch /\ q.status = {"tx"} /\ q.flags = f /\ q.ptr = pdu
      /\ q.shorts = (IF next THEN {"rxen"} ELSE {}) /\ q.phase = "off" /\ q.end = FALSE
      /\ q.inbuf = r.inbuf
  BY DEF Radios, Is
<1>2. R!Send(r, pdu, f) = R!Enable(q, "tx")
  BY DEF R!Send
<1>3. R!Enable(q, "tx") = [q EXCEPT !.phase = "tx", !.age = 0]
  BY <1>1 DEF R!Enable
<1> HIDE DEF q
<1>4. Is(R!Enable(q, "tx"), {"tx"}, next, "tx", FALSE)
  BY <1>1, <1>3 DEF Is, Radios
<1>5. /\ R!Enable(q, "tx").ptr = pdu /\ R!Enable(q, "tx").age = 0
      /\ R!Enable(q, "tx").ch = r.ch /\ R!Enable(q, "tx").inbuf = r.inbuf
  BY <1>1, <1>3 DEF Radios
<1> QED BY <1>2, <1>4, <1>5

LEMMA SendAdvFromOff ==
    ASSUME radio \in Radios, Off, LinkOK, NEW i \in 0 .. 2
    PROVE  /\ Is(SendAdv(i), {"tx"}, Scans, "tx", FALSE) /\ SendAdv(i).ptr = "adv"
           /\ SendAdv(i).age = 0 /\ SendAdv(i).ch = Channel(i)
<1> DEFINE q == R!Prepare(radio, Channel(i))
<1>1. R!Stop(radio) = radio /\ Channel(i) \in Channels /\ R!ch2freq(Channel(i)) >= 0
  BY NextChannel DEF Off, Is, R!Stop, R!ch2freq, Channel, Channels
<1>2. q = [radio EXCEPT !.ch = Channel(i)]
  BY <1>1 DEF Off, Is, R!Prepare
<1>3. q \in Radios /\ q.ch = Channel(i) /\ Is(q, {}, FALSE, "off", FALSE)
  BY <1>1, <1>2 DEF Off, Is, Radios
<1>4. SendAdv(i) = R!Send(q, "adv", IF Scans THEN {"rx_next"} ELSE {})
  BY <1>1 DEF SendAdv, AdvFlags, Scans
<1> HIDE DEF q
<1>5. CASE Scans
  <2> DEFINE sent == R!Send(q, "adv", IF TRUE THEN {"rx_next"} ELSE {})
  <2>1. SendAdv(i) = sent
    BY <1>4, <1>5
  <2>2. /\ Is(sent, {"tx"}, TRUE, "tx", FALSE)
        /\ sent.ptr = "adv" /\ sent.age = 0 /\ sent.ch = q.ch
    BY <1>3, SendFromOff
  <2> HIDE DEF sent
  <2> QED BY <1>3, <1>5, <2>1, <2>2 DEF Is
<1>6. CASE ~Scans
  <2> DEFINE sent == R!Send(q, "adv", IF FALSE THEN {"rx_next"} ELSE {})
  <2>1. SendAdv(i) = sent
    BY <1>4, <1>6
  <2>2. /\ Is(sent, {"tx"}, FALSE, "tx", FALSE)
        /\ sent.ptr = "adv" /\ sent.age = 0 /\ sent.ch = q.ch
    BY <1>3, SendFromOff
  <2> HIDE DEF sent
  <2> QED BY <1>3, <1>6, <2>1, <2>2 DEF Is
<1> QED BY <1>5, <1>6

LEMMA StopIsOff ==
    ASSUME NEW r \in Radios, NEW e \in BOOLEAN, r.end = e,
           Is(r, {}, FALSE, "off", e) \/ r.status # {}
    PROVE  /\ Is(R!Stop(r), {}, FALSE, "off", e)
           /\ R!Stop(r).ch = r.ch
<1>1. CASE r.status = {}
  BY <1>1 DEF R!Stop
<1>2. CASE r.status # {}
  <2>1. R!Stop(r) = [r EXCEPT !.status = {}, !.flags = {}, !.shorts = {}, !.phase = "off", !.age = 0]
    BY <1>2 DEF R!Stop
  <2> QED BY <2>1 DEF Is, Radios
<1> QED BY <1>1, <1>2

\* An END for which there is no follow-up: the radio is off.
LEMMA EndIsOff ==
    ASSUME NEW r \in Radios, NEW s, Is(r, s, FALSE, "off", TRUE)
    PROVE  LET q == R!HandleEnd(r) IN
           Is(q, {}, FALSE, "off", FALSE) /\ q.ch = r.ch /\ q.inbuf = r.inbuf /\ q.age = r.age
BY DEF Is, Radios, R!HandleEnd

\* The END of a PDU that may be answered: the radio listens.
LEMMA EndListens ==
    ASSUME NEW r \in Radios, Is(r, {"tx"}, TRUE, "rx", TRUE)
    PROVE  LET q == R!HandleEnd(r) IN
           Is(q, {"rx"}, FALSE, "rx", FALSE) /\ q.ch = r.ch /\ q.age = r.age
<1>1. R!HandleEnd(r) =
        [[r EXCEPT !.end = FALSE, !.status = {}] EXCEPT !.status = {"rx"},
            !.flags = @ \ {"rx_next"}, !.ptr = "inbuf", !.shorts = @ \ {"rxen"}]
  BY DEF Is, Radios, R!HandleEnd, R!Received, R!Sent
<1> QED BY <1>1 DEF Is, Radios

LEMMA AfterSend ==
    ASSUME NEW r \in Radios, NEW s, NEW next \in BOOLEAN, NEW p, Is(r, s, next, p, FALSE)
    PROVE  LET q == R!AfterEnd(r) IN
           /\ Is(q, s, next, IF next THEN "rx" ELSE "off", TRUE)
           /\ q.ch = r.ch /\ q.age = 0
BY DEF Is, Radios, R!AfterEnd

-----------------------------------------------------------------------------
(* Parts of the invariant that most steps leave as they are.                 *)

LEMMA StartKept ==
    ASSUME StartOK, UNCHANGED <<todo, goal, adv_ch_map>>,
           "interval" \in armed' => "interval" \in armed /\ left'["interval"] = left["interval"],
           left'["ifs"] <= Ifs
    PROVE  StartOK'
BY DEF StartOK

LEMMA EventKept ==
    ASSUME EventOK, UNCHANGED <<adv_ch_map, adv_ch_idx, visited, todo>>,
           radio'.ch = radio.ch, Sending' <=> Sending,
           "single" \in armed' <=> "single" \in armed,
           left'["single"] = left["single"], left'["interval"] = left["interval"],
           cb'["single"] = cb["single"]
    PROVE  EventOK'
<1>1. HasNext(adv_ch_idx)' <=> HasNext(adv_ch_idx)
  BY DEF HasNext
<1>2. Channel(adv_ch_idx)' = Channel(adv_ch_idx) /\ first_adv_ch_idx' = first_adv_ch_idx
  BY DEF Channel, first_adv_ch_idx
<1>3. visited' = {c \in adv_ch_map' : c < radio'.ch \/ (c = radio'.ch /\ ~Sending')}
  BY DEF EventOK
<1> QED BY <1>1, <1>2, <1>3 DEF EventOK

-----------------------------------------------------------------------------
(* The counting of the timer driver, outside of a call.                      *)

LEMMA Counted ==
    ASSUME LinkInv, NEW i \in Timers
    PROVE  /\ Armed \in 0 .. 3 /\ (armed # {} => Armed > 0)
           /\ i \notin armed /\ armed' = armed \union {i} => Armed' = Armed + 1
           /\ i \in armed /\ armed' = armed \ {i} => Armed' = Armed - 1
BY Numbers DEF Armed, One, Timers

LEMMA SameCount ==
    ASSUME CountOK, ~InCall, UNCHANGED <<armed, count, running, within>>
    PROVE  CountOK'
BY DEF CountOK, Armed, One, InCall

LEMMA StartCounts ==
    ASSUME LinkInv, CountOK, ~InCall, NEW i \in Timers, i \notin armed,
           armed' = armed \union {i}, count' = U8(count + 1), within' = within,
           running' = (running \/ count = 0)
    PROVE  CountOK'
<1>1. within = Outside /\ within' = Outside /\ count = Armed
  BY DEF CountOK, InCall
<1>2. count' = Armed'
  BY <1>1, Counted DEF U8
<1>3. armed' # {} /\ running'
  <2>1. armed = {} => Armed = 0
    BY DEF Armed, One
  <2> QED BY <1>1, <2>1 DEF CountOK
<1> QED BY <1>1, <1>2, <1>3 DEF CountOK

\* A timer that ends while the interval runs does not stop the counter.
LEMMA DisarmLeaves ==
    ASSUME LinkInv, CountOK, ~InCall, "interval" \in armed, within' = within,
           NEW i \in {"single", "ifs"}, i \in armed, NEW stopped, Disarm(i, stopped)
    PROVE  /\ armed' = armed \ {i} /\ lapsing' = lapsing \union stopped
           /\ left' = IF i \in stopped THEN left ELSE [left EXCEPT ![i] = 0]
           /\ UNCHANGED <<cb, leftover>>
           /\ CountOK'
<1> DEFINE n == U8(count + 255)
<1>1. within = Outside /\ within' = Outside /\ count = Armed
  BY DEF CountOK, InCall
<1>2. armed' = armed \ {i} /\ CountDown(n) /\ UNCHANGED <<cb, leftover>>
  BY DEF Disarm
<1>3. "interval" \in armed' /\ Armed' > 0 /\ Armed' = Armed - 1 /\ Armed \in 0 .. 3
  <2>1. "interval" \in armed'
    BY <1>2
  <2>2. Armed' = Armed - 1 /\ Armed \in 0 .. 3
    BY <1>2, Counted DEF Timers
  <2>3. Armed' > 0
    BY <2>1 DEF Armed, One
  <2> QED BY <2>1, <2>2, <2>3
<1>4. n = Armed' /\ n # 0
  BY <1>1, <1>3 DEF U8
<1>5. /\ lapsing' = lapsing \union stopped
      /\ left' = IF i \in stopped THEN left ELSE [left EXCEPT ![i] = 0]
  BY <1>4 DEF Disarm
<1>6. count' = Armed'
  BY <1>2, <1>4 DEF CountDown
<1>7. running' <=> armed' # {}
  BY <1>2, <1>3, <1>4 DEF CountDown, CountOK
<1> QED BY <1>1, <1>2, <1>5, <1>6, <1>7 DEF CountOK

-----------------------------------------------------------------------------
(* The timer interrupt and its callbacks.                                    *)

LEMMA TimerIrqLaunched ==
    ASSUME AdvertiserOnly, LinkInv, StartOK, LaunchedOK, CountOK, ~InCall, TimerIrq
    PROVE  StartOK' /\ CountOK' /\ LaunchedOK'
<1> USE Constants, Numbers, ExchangeIsOver
<1>1. /\ due = {} /\ radio.end = FALSE /\ due' = Expired /\ Expired # {} /\ leftover' = {}
      /\ UNCHANGED <<current_state, adv_ch_map, adv_ch_idx, adv_type, callbacks, radio, armed,
                     left, cb, lapsing, todo, goal, slipped, within, count, running, visited>>
  BY DEF TimerIrq, link, thread, ghosts, LinkInv, RadioOK, Radios
<1>2. "ifs" \in Expired => "interval" \notin Expired /\ "single" \notin Expired
  BY DEF Expired, UntilNext, LaunchedOK, LeftoverOK
<1>3. LeftoverOK'
  BY <1>1, <1>2 DEF LaunchedOK, LeftoverOK, Expired, Timers, UntilNext
<1>4. Listening => Expired = {"ifs"} /\ left["ifs"] = 0
  <2> SUFFICES ASSUME Listening PROVE Expired = {"ifs"} /\ left["ifs"] = 0
    OBVIOUS
  <2>1. "ifs" \in armed /\ "ifs" \notin leftover
    BY <1>1 DEF LaunchedOK, ExchangeOK, Listening, Off, Sending, Sent, Heard, Replying, Replied,
                Late, Is
  <2>2. UntilNext # 0 /\ left["ifs"] < UntilNext
    BY <2>1
  <2>3. "single" \notin Expired /\ "interval" \notin Expired
    BY <2>2 DEF LaunchedOK, LeftoverOK, Expired, UntilNext
  <2> QED BY <1>1, <2>1, <2>3 DEF Expired, Timers
<1>5. ExchangeOK'
  BY <1>1, <1>4 DEF LaunchedOK, ExchangeOK, Free, UntilNext, Off, Sending, Sent, Listening,
              Heard, Replying, Replied, Late, Is, Scans
<1>6. EventOK'
  BY <1>1, EventKept DEF LaunchedOK, Sending, Is, Scans
<1>7. StartOK' /\ CountOK' /\ Swift'
  BY <1>1, StartKept, SameCount DEF StartOK, Swift, InCall
<1> QED BY <1>1, <1>3, <1>5, <1>6, <1>7 DEF LaunchedOK, Launched, Scans

\* adv_interval_cb() finds the radio off and starts the event on its first channel,
\* long before the next one.
LEMMA IntervalLaunched ==
    ASSUME AdvertiserOnly, LinkInv, StartOK, LaunchedOK, CountOK, ~InCall, AdvIntervalCb
    PROVE  StartOK' /\ CountOK' /\ LaunchedOK'
<1> USE Constants, Numbers, ExchangeIsOver
<1> DEFINE idx == first_adv_ch_idx
<1>1. /\ "interval" \in due /\ due' = due \ {"interval"}
      /\ radio' = SendAdv(idx) /\ adv_ch_idx' = inc_adv_ch_idx(idx)
      /\ RestartInterval(AdvInterval, HasNext(idx), PduInterval) /\ visited' = {}
      /\ cb["interval"] = "advertising"
      /\ UNCHANGED <<current_state, adv_ch_map, adv_type, callbacks, leftover, todo, goal,
                     slipped, within>>
  BY DEF AdvIntervalCb, NextToServe, thread
<1>2. /\ left["interval"] = 0 /\ leftover = {} /\ "single" \notin armed /\ "ifs" \notin due
      /\ UntilNext = 0
  BY <1>1 DEF LaunchedOK, LeftoverOK, UntilNext
<1>3. Off /\ "ifs" \notin armed /\ "ifs" \notin lapsing
  BY <1>1, <1>2 DEF LaunchedOK, ExchangeOK, Off, Late, Sending, Sent, Heard, Listening, Replying,
                    Replied, Is
<1>4. todo = <<>>
  BY <1>2, <1>1 DEF StartOK, LaunchedOK, AdvertiserOnly, Exchange
<1>5. LinkOK /\ adv_ch_map # {}
  BY DEF LinkInv, LaunchedOK, EventOK
<1>6. /\ idx \in 0 .. 2 /\ Channel(idx) \in adv_ch_map
      /\ \A c \in adv_ch_map : Channel(idx) <= c
  BY <1>5, FirstChannel
<1>7. Sending' /\ radio'.age = 0 /\ radio'.ch = Channel(idx)
  BY <1>1, <1>3, <1>5, <1>6, SendAdvFromOff DEF Sending, Is, Scans
<1>8. /\ armed' = IF HasNext(idx) THEN armed \union {"single"} ELSE armed
      /\ left'["interval"] = AdvInterval /\ left'["ifs"] = left["ifs"]
      /\ HasNext(idx) => left'["single"] = PduInterval /\ cb'["single"] = "advertising"
      /\ cb'["interval"] = "advertising" /\ lapsing' \subseteq lapsing
  BY <1>1, <1>2 DEF RestartInterval, Timers
<1>9. Exchange < UntilNext' /\ UntilNext' \in Nat
  BY <1>2, <1>8 DEF UntilNext, AdvertiserOnly, Exchange
<1>10. ExchangeOK'
  <2>1. Free'
    BY <1>1, <1>2, <1>3, <1>8 DEF Free
  <2>2. radio'.age <= AirTime /\ Exchange < UntilNext' + radio'.age
    BY <1>7, <1>9
  <2> QED BY <1>7, <2>1, <2>2 DEF ExchangeOK
<1>11. EventOK'
  <2>1. visited' = {c \in adv_ch_map' : c < radio'.ch \/ (c = radio'.ch /\ ~Sending')}
    BY <1>1, <1>6, <1>7 DEF Channels, Channel
  <2>2. CASE HasNext(idx)
    <3>1. /\ Channel(adv_ch_idx') \in adv_ch_map /\ Channel(idx) < Channel(adv_ch_idx')
          /\ \A c \in adv_ch_map : c <= Channel(idx) \/ Channel(adv_ch_idx') <= c
      BY <1>1, <1>5, <1>6, <2>2, NextChannel
    <3>2. "single" \in armed' /\ left'["single"] + PduInterval + Exchange < left'["interval"]
      BY <1>8, <2>2 DEF AdvertiserOnly, Exchange
    <3>3. left'["single"] + Exchange < left'["interval"]
      BY <3>2, <1>8, <2>2 DEF Exchange
    <3> QED BY <1>1, <1>4, <1>5, <1>6, <1>7, <1>8, <2>1, <2>2, <3>1, <3>2, <3>3
            DEF EventOK, Channel, Exchange
  <2>3. CASE ~HasNext(idx)
    <3>1. \A c \in adv_ch_map : c <= Channel(idx)
      BY <1>5, <1>6, <2>3, NextChannel
    <3> QED BY <1>1, <1>2, <1>4, <1>5, <1>6, <1>7, <1>8, <2>1, <2>3, <3>1 DEF EventOK, Channel
  <2> QED BY <2>2, <2>3
<1>12. LeftoverOK'
  BY <1>1, <1>2, <1>3, <1>8 DEF LeftoverOK, LaunchedOK, Timers
<1>13. StartOK' /\ Swift'
  BY <1>1, <1>4, <1>8 DEF StartOK, Swift, InCall
<1>14. CountOK'
  <2>1. CASE HasNext(idx)
    <3>1. /\ armed' = armed \union {"single"} /\ count' = U8(count + 1)
          /\ running' = (running \/ count = 0)
      BY <1>1, <1>2, <2>1 DEF RestartInterval
    <3> QED BY <1>1, <1>2, <3>1, StartCounts DEF Timers
  <2>2. CASE ~HasNext(idx)
    <3>1. UNCHANGED <<armed, count>> /\ running' = (running \/ FALSE)
      BY <1>1, <2>2 DEF RestartInterval
    <3> QED BY <1>1, <3>1, SameCount, Zenon
  <2> QED BY <2>1, <2>2
<1> QED BY <1>1, <1>8, <1>10, <1>11, <1>12, <1>13, <1>14 DEF LaunchedOK, Launched, Scans

\* adv_singleshot_cb() does so on the next channel.
LEMMA SingleShotLaunched ==
    ASSUME AdvertiserOnly, LinkInv, StartOK, LaunchedOK, CountOK, ~InCall, AdvSingleShotCb
    PROVE  StartOK' /\ CountOK' /\ LaunchedOK'
<1> USE Constants, Numbers, ExchangeIsOver
<1> DEFINE idx == adv_ch_idx
<1>1. /\ "single" \in due /\ due' = due \ {"single"} /\ "interval" \notin due
      /\ radio' = SendAdv(idx) /\ adv_ch_idx' = inc_adv_ch_idx(idx)
      /\ IF HasNext(idx) THEN RestartSingle(PduInterval) ELSE Disarm("single", {})
      /\ UNCHANGED <<current_state, adv_ch_map, adv_type, callbacks, leftover, todo, goal,
                     slipped, within, visited>>
  BY DEF AdvSingleShotCb, NextToServe, thread, ghosts, Disarm, RestartSingle
<1>2. /\ left["single"] = 0 /\ leftover = {} /\ "single" \in armed /\ "ifs" \notin due
      /\ UntilNext = 0 /\ "interval" \in armed
  BY <1>1 DEF LaunchedOK, LeftoverOK, UntilNext
<1>3. Off /\ "ifs" \notin armed /\ "ifs" \notin lapsing
  BY <1>1, <1>2 DEF LaunchedOK, ExchangeOK, Off, Late, Sending, Sent, Heard, Listening, Replying,
                    Replied, Is
<1>4. /\ LinkOK /\ adv_ch_map # {} /\ idx \in 0 .. 2 /\ todo = <<>>
      /\ radio.ch \in adv_ch_map /\ Channel(idx) \in adv_ch_map /\ radio.ch < Channel(idx)
      /\ \A c \in adv_ch_map : c <= radio.ch \/ Channel(idx) <= c
      /\ cb["single"] = "advertising"
      /\ (IF HasNext(idx) THEN PduInterval ELSE 0) + Exchange < left["interval"]
  BY <1>2 DEF LinkInv, LinkOK, LaunchedOK, EventOK, Exchange
<1>5. visited = {c \in adv_ch_map : c < Channel(idx)}
  <2>1. visited = {c \in adv_ch_map : c < radio.ch \/ c = radio.ch}
    BY <1>3 DEF LaunchedOK, EventOK, Sending, Off, Is
  <2>2. \A c \in adv_ch_map : c < Channel(idx) <=> (c < radio.ch \/ c = radio.ch)
    BY <1>4 DEF Channels, Channel
  <2> QED BY <2>1, <2>2
<1>6. Sending' /\ radio'.age = 0 /\ radio'.ch = Channel(idx)
  BY <1>1, <1>3, <1>4, SendAdvFromOff DEF Sending, Is, Scans
<1>7. /\ armed' = IF HasNext(idx) THEN armed ELSE armed \ {"single"}
      /\ left'["interval"] = left["interval"] /\ left'["ifs"] = left["ifs"]
      /\ HasNext(idx) => left'["single"] = PduInterval
      /\ cb' = cb /\ lapsing' = lapsing /\ CountOK'
  <2>1. CASE HasNext(idx)
    <3>1. Armed >= 2 /\ count = Armed
      <4>1. One("interval") = 1 /\ One("single") = 1 /\ One("ifs") \in {0, 1}
        BY <1>2 DEF One
      <4> QED BY <4>1 DEF Armed, CountOK, InCall
    <3>2. /\ UNCHANGED <<armed, cb, count, lapsing>>
          /\ left' = [left EXCEPT !["single"] = PduInterval]
          /\ running' = (running \/ count = 1)
      BY <1>1, <2>1, <3>1 DEF RestartSingle
    <3>3. count # 1
      BY <3>1
    <3>4. CountOK'
      BY <1>1, <3>2, <3>3, SameCount, Zenon
    <3> QED BY <2>1, <3>2, <3>4 DEF Timers
  <2>2. CASE ~HasNext(idx)
    BY <1>1, <1>2, <2>2, DisarmLeaves DEF Timers
  <2> QED BY <2>1, <2>2
<1>8. Exchange < UntilNext' /\ UntilNext' \in Nat
  BY <1>2, <1>4, <1>7 DEF UntilNext, AdvertiserOnly, Exchange
<1>9. ExchangeOK'
  <2>1. Free'
    BY <1>1, <1>2, <1>3, <1>7 DEF Free
  <2>2. radio'.age <= AirTime /\ Exchange < UntilNext' + radio'.age
    BY <1>6, <1>7, <1>8
  <2> QED BY <1>6, <2>1, <2>2 DEF ExchangeOK
<1>10. EventOK'
  <2>1. visited' = {c \in adv_ch_map' : c < radio'.ch \/ (c = radio'.ch /\ ~Sending')}
    BY <1>1, <1>5, <1>6
  <2>2. CASE HasNext(idx)
    <3>1. /\ Channel(adv_ch_idx') \in adv_ch_map /\ Channel(idx) < Channel(adv_ch_idx')
          /\ \A c \in adv_ch_map : c <= Channel(idx) \/ Channel(adv_ch_idx') <= c
      BY <1>1, <1>4, <2>2, NextChannel
    <3>2. ~HasNext(adv_ch_idx')
      <4>1. idx # 0
        BY <1>4 DEF Channel, Channels
      <4> QED BY <1>1, <1>4, <2>2, <4>1, NextChannel
    <3>3. ~HasNext(adv_ch_idx)'
      BY <1>1, <3>2 DEF HasNext
    <3>4. "single" \in armed' /\ left'["single"] + Exchange < left'["interval"]
      BY <1>2, <1>4, <1>7, <2>2
    <3> QED BY <1>1, <1>4, <1>6, <1>7, <2>1, <3>1, <3>3, <3>4
            DEF EventOK, Channel, Exchange
  <2>3. CASE ~HasNext(idx)
    <3>1. \A c \in adv_ch_map : c <= Channel(idx)
      BY <1>4, <2>3, NextChannel
    <3> QED BY <1>1, <1>4, <1>6, <1>7, <2>1, <2>3, <3>1 DEF EventOK, Channel
  <2> QED BY <2>2, <2>3
<1>11. LeftoverOK'
  BY <1>1, <1>2, <1>3, <1>7 DEF LeftoverOK, LaunchedOK, Timers
<1>12. StartOK' /\ Swift'
  BY <1>1, <1>4, <1>7 DEF StartOK, Swift, InCall
<1> QED BY <1>1, <1>2, <1>7, <1>9, <1>10, <1>11, <1>12 DEF LaunchedOK, Launched, Scans

\* t_ll_ifs_cb() turns the radio off, also with the END of a packet pending; the
\* single shot's callback is that of the advertiser.
LEMMA StopLaunched ==
    ASSUME AdvertiserOnly, LinkInv, StartOK, LaunchedOK, CountOK, ~InCall,
           NEW i \in {"single", "ifs"}, StopRadioCb(i)
    PROVE  StartOK' /\ CountOK' /\ LaunchedOK'
<1> USE Constants, Numbers, ExchangeIsOver
<1>1. /\ i \in due /\ due' = due \ {i} /\ (i = "single" => cb[i] # "advertising")
      /\ radio' = R!Stop(radio) /\ Disarm(i, {}) /\ leftover' = leftover
      /\ UNCHANGED <<current_state, adv_ch_map, adv_ch_idx, adv_type, callbacks, todo, goal,
                     slipped, within, visited>>
  BY DEF StopRadioCb, NextToServe, link, thread, ghosts, Disarm
<1>2. i = "ifs" /\ due = {"ifs"} /\ leftover = {} /\ "ifs" \in armed /\ "interval" \in armed
  BY <1>1 DEF LaunchedOK, EventOK, LeftoverOK
<1>3. /\ armed' = armed \ {"ifs"} /\ lapsing' = lapsing /\ cb' = cb
      /\ left'["interval"] = left["interval"] /\ left'["single"] = left["single"]
      /\ left'["ifs"] = 0 /\ CountOK'
  <2>1. /\ armed' = armed \ {"ifs"} /\ lapsing' = lapsing \union {} /\ cb' = cb /\ CountOK'
        /\ left' = IF "ifs" \in {} THEN left ELSE [left EXCEPT !["ifs"] = 0]
    <3>1. within' = within /\ Disarm("ifs", {})
      BY <1>1, <1>2
    <3> QED BY <1>2, <3>1, DisarmLeaves
  <2> QED BY <2>1 DEF Timers
<1>4. ~Sending /\ ~Sending' /\ radio'.ch = radio.ch
      /\ (Off' \/ Late')
  <2>1. Off \/ Listening \/ Heard
    BY <1>2 DEF LaunchedOK, ExchangeOK, Free, Late
  <2>2. CASE Off \/ Listening
    <3>1. radio.end = FALSE /\ (Is(radio, {}, FALSE, "off", FALSE) \/ radio.status # {})
      BY <2>2 DEF Off, Listening, Is
    <3>2. Is(R!Stop(radio), {}, FALSE, "off", FALSE) /\ R!Stop(radio).ch = radio.ch
      BY <3>1, StopIsOff
    <3> QED BY <1>1, <2>2, <3>2 DEF Off, Listening, Sending, Is
  <2>3. CASE Heard
    <3>1. radio.end = TRUE /\ radio.status # {}
      BY <2>3 DEF Heard, Is
    <3>2. Is(R!Stop(radio), {}, FALSE, "off", TRUE) /\ R!Stop(radio).ch = radio.ch
      BY <3>1, StopIsOff
    <3>3. Scans'
      BY <1>1, <2>3 DEF Heard, Scans
    <3> QED BY <1>1, <2>3, <3>2, <3>3 DEF Late, Heard, Sending, Is
  <2> QED BY <2>1, <2>2, <2>3
<1>5. ExchangeOK'
  BY <1>1, <1>2, <1>3, <1>4 DEF ExchangeOK
<1>6. EventOK'
  BY <1>1, <1>3, <1>4, EventKept DEF LaunchedOK
<1>7. LeftoverOK'
  BY <1>1, <1>2, <1>3 DEF LeftoverOK, LaunchedOK, Timers
<1>8. StartOK' /\ Swift'
  BY <1>1, <1>3, StartKept DEF Swift, InCall
<1> QED BY <1>1, <1>2, <1>3, <1>5, <1>6, <1>7, <1>8 DEF LaunchedOK, Launched, Scans

\* No other callback is ever due.
LEMMA CallbackLaunched ==
    ASSUME AdvertiserOnly, LinkInv, StartOK, LaunchedOK, CountOK, ~InCall, TimerCallback
    PROVE  StartOK' /\ CountOK' /\ LaunchedOK'
<1>1. ~ScanIntervalCb
  BY DEF ScanIntervalCb, LaunchedOK
<1> QED BY <1>1, IntervalLaunched, SingleShotLaunched, StopLaunched DEF TimerCallback

-----------------------------------------------------------------------------
(* The RADIO interrupt.                                                      *)

\* An interrupt leaves what is to come of the event as it is.
LEMMA EventGoesOn ==
    ASSUME LinkInv, StartOK, LaunchedOK, due = {}, ~InCall, ~Sending, ~Sending', ExchangeOK',
           UNCHANGED <<current_state, adv_ch_idx, adv_ch_map, adv_type, callbacks, due, todo,
                       goal, slipped, within, visited, leftover>>,
           radio'.ch = radio.ch,
           \A i \in {"interval", "single"} :
                /\ i \in armed' <=> i \in armed
                /\ left'[i] = left[i] /\ cb'[i] = cb[i],
           left'["ifs"] <= Ifs, lapsing' \subseteq {"ifs"},
           "ifs" \in lapsing' => "ifs" \notin armed' /\ left'["ifs"] \in 1 .. UntilNext - 1
    PROVE  StartOK' /\ LaunchedOK'
<1>1. StartOK'
  BY StartKept
<1>2. EventOK'
  BY EventKept DEF LaunchedOK
<1>3. UntilNext' = UntilNext
  BY DEF UntilNext
<1>4. LeftoverOK'
  BY <1>3 DEF LaunchedOK, LeftoverOK
<1> QED BY <1>1, <1>2, <1>4 DEF LaunchedOK, Launched, Scans, Swift, InCall

\* An END interrupt in each of the radio's states.
LEMMA RadioLaunched ==
    ASSUME AdvertiserOnly, LinkInv, StartOK, LaunchedOK, CountOK, ~InCall, RadioInterrupt
    PROVE  StartOK' /\ CountOK' /\ LaunchedOK'
<1> USE Constants, Numbers, ExchangeIsOver
<1>1. /\ due = {} /\ radio.end = TRUE /\ UntilNext \in Nat
      /\ UNCHANGED <<current_state, adv_ch_idx, adv_ch_map, adv_type, callbacks, due, todo,
                     goal, slipped, within, visited>>
      /\ callbacks = IF Scans THEN "advertising" ELSE "standby"
      /\ left["ifs"] <= Ifs /\ lapsing \subseteq {"ifs"}
      /\ "ifs" \in lapsing => "ifs" \notin armed /\ left["ifs"] \in 1 .. UntilNext - 1
  BY DEF RadioInterrupt, RadioIrqOnly, AdvRadioSendCb, AdvRadioRecvCb, ScanRadioRecvCb,
         InitRadioRecvCb, EndIrq, thread, ghosts, LaunchedOK, LeftoverOK, Radios, StartOK
<1>2. Sent \/ Heard \/ Replied \/ Late
  BY <1>1 DEF LaunchedOK, ExchangeOK, Off, Sending, Listening, Replying, Is
<1>3. ~Sending
  BY <1>1 DEF Sending, Is
<1>4. ASSUME UNCHANGED timers, Is(radio', {}, FALSE, "off", FALSE), radio'.ch = radio.ch,
             "ifs" \in armed => left["ifs"] < UntilNext
      PROVE  StartOK' /\ CountOK' /\ LaunchedOK'
  <2>1. ExchangeOK' /\ ~Sending'
    BY <1>4 DEF ExchangeOK, Off, Sending, UntilNext, timers, Is
  <2>2. CountOK'
    BY <1>1, <1>4, SameCount DEF timers
  <2> QED BY <1>1, <1>3, <1>4, <2>1, <2>2, EventGoesOn DEF timers
<1>5. CASE RadioIrqOnly
  <2>1. /\ R!Received(radio) => callbacks = "standby"
        /\ R!Sent(radio) => callbacks # "advertising"
        /\ radio' = R!HandleEnd(radio) /\ UNCHANGED timers
    BY <1>5 DEF RadioIrqOnly
  <2>2. Is(radio, {"tx"}, FALSE, "off", TRUE) \/ Is(radio, {}, FALSE, "off", TRUE)
    BY <1>1, <1>2, <2>1 DEF Sent, Heard, Replied, Late, Is, R!Received, R!Sent
  <2> QED BY <1>4, <2>1, <2>2, EndIsOff
<1>6. CASE AdvRadioSendCb
  <2>1. /\ R!Sent(radio) /\ radio' = R!HandleEnd(radio) /\ Scans
        /\ TimerStart("ifs", Ifs, "advertising")
    BY <1>1, <1>6 DEF AdvRadioSendCb, EndIrq
  <2>2. "ifs" \notin armed /\ (Sent \/ Replied)
    BY <1>2, <2>1 DEF LaunchedOK, ExchangeOK, Free, Sent, Heard, Replied, Late, Is, R!Sent,
                      Off, Sending, Listening, Replying
  <2>3. /\ armed' = armed \union {"ifs"} /\ left'["ifs"] = Ifs /\ leftover' = leftover
        /\ lapsing' \subseteq {}
        /\ \A i \in {"interval", "single"} : left'[i] = left[i] /\ cb'[i] = cb[i]
        /\ CountOK'
    <3>1. /\ Mark("ifs", Ifs, "advertising") /\ count' = U8(count + 1) /\ leftover' = leftover
          /\ running' = (running \/ count = 0)
      BY <2>1, <2>2 DEF TimerStart
    <3>2. armed' = armed \union {"ifs"} /\ within' = within
      BY <1>1, <3>1 DEF Mark
    <3>3. CountOK'
      BY <1>1, <2>2, <3>1, <3>2, StartCounts DEF Timers
    <3> QED BY <1>1, <3>1, <3>3 DEF Mark, Timers
  <2>4. UntilNext' = UntilNext
    BY <2>3 DEF UntilNext
  <2>5. CASE Sent
    <3>1. Is(radio, {"tx"}, TRUE, "rx", TRUE)
      BY <2>1, <2>5 DEF Sent, Is
    <3>2. Is(radio', {"rx"}, FALSE, "rx", FALSE) /\ radio'.ch = radio.ch
          /\ radio'.age = radio.age
      BY <2>1, <3>1, EndListens
    <3>3. Listening' /\ ~Sending'
      BY <1>1, <2>1, <3>2 DEF Listening, Sending, Is, Scans
    <3>4. radio.age = 0 /\ "ifs" \notin leftover /\ Ifs + AirTime + Ifs < UntilNext
      BY <1>2, <2>1, <2>5 DEF LaunchedOK, ExchangeOK, Free, Sent, Heard, Replied, Late, Is,
                      Off, Sending, Listening, Replying
    <3>5. ExchangeOK'
      BY <1>1, <2>3, <2>4, <3>2, <3>3, <3>4 DEF ExchangeOK
    <3> QED BY <1>1, <1>3, <2>3, <3>2, <3>3, <3>5, EventGoesOn
  <2>6. CASE Replied
    <3>1. Is(radio', {}, FALSE, "off", FALSE) /\ radio'.ch = radio.ch
      BY <2>1, <2>6, EndIsOff DEF Replied
    <3>2. Ifs < UntilNext
      BY <1>2, <2>1, <2>6 DEF LaunchedOK, ExchangeOK, Free, Sent, Heard, Replied, Late, Is,
                      Off, Sending, Listening, Replying
    <3>3. ExchangeOK' /\ ~Sending'
      BY <2>3, <2>4, <3>1, <3>2 DEF ExchangeOK, Off, Sending, Is
    <3> QED BY <1>1, <1>3, <2>3, <3>1, <3>3, EventGoesOn
  <2> QED BY <2>2, <2>5, <2>6
<1>7. CASE AdvRadioRecvCb
  <2> DEFINE handled == R!HandleEnd(radio)
             response == R!Send(handled, "scan_rsp", {})
             req == radio.inbuf
  <2>1. /\ R!Received(radio)
        /\ IF adv_type = "ADV_SCAN_IND" /\ req.type = "SCAN_REQ"
           THEN TimerStop("ifs") /\ radio' = IF req.to = "me" THEN response ELSE R!Stop(response)
           ELSE radio' = handled /\ UNCHANGED timers
    BY <1>7 DEF AdvRadioRecvCb
  <2>2. Heard
    BY <1>2, <2>1 DEF Sent, Heard, Replied, Late, Is, R!Received
  <2>3. /\ "ifs" \in armed /\ left["ifs"] + AirTime + Ifs < UntilNext
    BY <1>1, <2>2 DEF LaunchedOK, ExchangeOK, Sent, Heard, Replied, Late, Is,
                      Off, Sending, Listening, Replying
  <2>4. /\ handled \in Radios /\ Is(handled, {}, FALSE, "off", FALSE)
        /\ handled.ch = radio.ch /\ handled.inbuf = req
    <3>1. Tuned(radio)
      BY DEF LinkInv, RadioOK
    <3> QED BY <2>2, <3>1, EndIsOff, EndRadio DEF Heard
  <2> HIDE DEF handled
  <2>5. CASE ~(adv_type = "ADV_SCAN_IND" /\ req.type = "SCAN_REQ")
    BY <1>4, <2>1, <2>3, <2>4, <2>5
  <2>6. CASE adv_type = "ADV_SCAN_IND" /\ req.type = "SCAN_REQ"
    <3>1. Disarm("ifs", Early("ifs"))
      BY <2>1, <2>3, <2>6 DEF TimerStop
    <3>2. /\ armed' = armed \ {"ifs"} /\ leftover' = leftover
          /\ \A i \in {"interval", "single"} : left'[i] = left[i] /\ cb'[i] = cb[i]
          /\ lapsing' \subseteq {"ifs"}
          /\ left'["ifs"] = left["ifs"]
          /\ "ifs" \in lapsing' => left["ifs"] > 0
          /\ CountOK'
      <4>1. "interval" \in armed
        BY DEF LaunchedOK
      <4>2. CASE left["ifs"] > 0
        <5>1. Early("ifs") = {"ifs"}
          BY <4>2 DEF Early, Timers
        <5> QED BY <1>1, <2>3, <3>1, <4>1, <4>2, <5>1, DisarmLeaves
      <4>3. CASE left["ifs"] = 0
        <5>1. Early("ifs") = {}
          BY <4>3 DEF Early
        <5>2. /\ armed' = armed \ {"ifs"} /\ lapsing' = lapsing \union {} /\ CountOK'
              /\ left' = IF "ifs" \in {} THEN left ELSE [left EXCEPT !["ifs"] = 0]
              /\ UNCHANGED <<cb, leftover>>
          BY <1>1, <2>3, <3>1, <4>1, <5>1, DisarmLeaves
        <5> QED BY <1>1, <4>3, <5>2 DEF Timers
      <4> QED BY <4>2, <4>3
    <3>3. UntilNext' = UntilNext
      BY <3>2 DEF UntilNext
    <3>4. /\ Is(response, {"tx"}, FALSE, "tx", FALSE) /\ response.ptr = "scan_rsp"
          /\ response.age = 0 /\ response.ch = radio.ch /\ response.inbuf = req
      BY <2>4, SendFromOff
    <3>5. CASE req.to = "me"
      <4>1. radio' = response
        BY <2>1, <2>6, <3>5
      <4> HIDE DEF response
      <4>2. Replying' /\ ~Sending'
        BY <1>1, <2>6, <3>4, <4>1 DEF Replying, Sending, Scans, Is
      <4>3. ExchangeOK'
        BY <2>3, <2>6, <3>2, <3>3, <3>4, <3>5, <4>1, <4>2 DEF ExchangeOK
      <4> QED BY <1>1, <1>3, <2>3, <3>2, <3>4, <4>1, <4>2, <4>3, EventGoesOn
    <3>6. CASE req.to # "me"
      <4>1. radio' = R!Stop(response)
        BY <2>1, <2>6, <3>6
      <4>2. response \in Radios
        <5>1. radio.ch \in Channels
          BY <2>2 DEF Heard, Is, LinkInv, RadioOK, Tuned
        <5> QED BY <2>4, <5>1, SendRadio
      <4> HIDE DEF response
      <4>3. Is(radio', {}, FALSE, "off", FALSE) /\ radio'.ch = radio.ch
        <5>1. response.end = FALSE /\ response.status # {}
          BY <3>4 DEF Is
        <5> QED BY <3>4, <4>1, <4>2, <5>1, StopIsOff
      <4>4. ExchangeOK' /\ ~Sending'
        BY <3>2, <4>3 DEF ExchangeOK, Off, Sending, Is
      <4> QED BY <1>1, <1>3, <2>3, <3>2, <4>3, <4>4, EventGoesOn
    <3> QED BY <3>5, <3>6
  <2> QED BY <2>5, <2>6
<1>8. ~ScanRadioRecvCb /\ ~InitRadioRecvCb
  BY <1>1 DEF ScanRadioRecvCb, InitRadioRecvCb, EndIrq
<1> QED BY <1>5, <1>6, <1>7, <1>8 DEF RadioInterrupt

-----------------------------------------------------------------------------
(* The last step of the call, the air and the clock.                         *)

\* Scripts of different lengths.
LEMMA ScriptLengths ==
    /\ Len(<<>>) = 0 /\ Len(ToArm) = 1 /\ Len(ToSend) = 2 /\ Len(ToPrepare) = 3
    /\ Len(ToStop) = 4 /\ Len(ToSelect) = 5 /\ Len(ToEnter) = 6 /\ Len(AdvertiseStart) = 7
BY DEF ToArm, ToSend, ToPrepare, ToStop, ToSelect, ToEnter, AdvertiseStart, Enter

LEMMA ScriptsDiffer ==
    /\ <<>> \notin {AdvertiseStart, ToEnter, ToSelect, ToStop,
                ToPrepare, ToSend, ToArm}
    /\ AdvertiseStart \notin {ToEnter, ToSelect, ToStop, ToPrepare, ToSend, ToArm}
    /\ ToEnter \notin {ToSelect, ToStop, ToPrepare, ToSend, ToArm}
    /\ ToSelect \notin {ToStop, ToPrepare, ToSend, ToArm}
    /\ ToStop \notin {ToPrepare, ToSend, ToArm}
    /\ ToPrepare \notin {ToSend, ToArm}
    /\ ToSend \notin {ToArm}
<1>1. <<>> \notin {AdvertiseStart, ToEnter, ToSelect, ToStop,
                ToPrepare, ToSend, ToArm}
  BY ScriptLengths, EmptyLength
<1>2. AdvertiseStart \notin {ToEnter, ToSelect, ToStop, ToPrepare, ToSend, ToArm}
  <2>1. \A s \in {ToEnter, ToSelect, ToStop, ToPrepare, ToSend, ToArm} : Len(s) # 7
    BY ScriptLengths
  <2>2. Len(AdvertiseStart) = 7
    BY ScriptLengths
  <2> QED BY <2>1, <2>2
<1>3. ToEnter \notin {ToSelect, ToStop, ToPrepare, ToSend, ToArm}
  <2>1. \A s \in {ToSelect, ToStop, ToPrepare, ToSend, ToArm} : Len(s) # 6
    BY ScriptLengths
  <2>2. Len(ToEnter) = 6
    BY ScriptLengths
  <2> QED BY <2>1, <2>2
<1>4. ToSelect \notin {ToStop, ToPrepare, ToSend, ToArm}
  <2>1. \A s \in {ToStop, ToPrepare, ToSend, ToArm} : Len(s) # 5
    BY ScriptLengths
  <2>2. Len(ToSelect) = 5
    BY ScriptLengths
  <2> QED BY <2>1, <2>2
<1>5. ToStop \notin {ToPrepare, ToSend, ToArm}
  <2>1. \A s \in {ToPrepare, ToSend, ToArm} : Len(s) # 4
    BY ScriptLengths
  <2>2. Len(ToStop) = 4
    BY ScriptLengths
  <2> QED BY <2>1, <2>2
<1>6. ToPrepare \notin {ToSend, ToArm}
  <2>1. \A s \in {ToSend, ToArm} : Len(s) # 3
    BY ScriptLengths
  <2>2. Len(ToPrepare) = 3
    BY ScriptLengths
  <2> QED BY <2>1, <2>2
<1>7. ToSend \notin {ToArm}
  BY ScriptLengths, DifferentLengths
<1> QED BY <1>1, <1>2, <1>3, <1>4, <1>5, <1>6, <1>7

LEMMA ScriptSteps ==
    /\ Head(ToArm) = Arming("single") /\ Tail(ToArm) = <<>>
    /\ Head(ToSend) = Do("send") /\ Tail(ToSend) = ToArm
    /\ Head(ToPrepare) = Do("prepare") /\ Tail(ToPrepare) = ToSend
    /\ Head(ToStop) = Do("radio_stop") /\ Tail(ToStop) = ToPrepare
    /\ Head(ToSelect) = Do("first") /\ Tail(ToSelect) = ToStop
    /\ Head(ToEnter) = Do("enter") /\ Tail(ToEnter) = ToSelect
    /\ Head(AdvertiseStart) = Arming("interval") /\ Tail(AdvertiseStart) = ToEnter
<1>1. Head(ToArm) = Arming("single") /\ Tail(ToArm) = <<>>
  BY DEF ToArm
<1>2. Head(ToSend) = Do("send") /\ Tail(ToSend) = ToArm
  BY DEF ToArm, ToSend
<1>3. Head(ToPrepare) = Do("prepare") /\ Tail(ToPrepare) = ToSend
  BY DEF ToSend, ToPrepare
<1>4. Head(ToStop) = Do("radio_stop") /\ Tail(ToStop) = ToPrepare
  BY DEF ToPrepare, ToStop
<1>5. Head(ToSelect) = Do("first") /\ Tail(ToSelect) = ToStop
  BY DEF ToStop, ToSelect
<1>6. Head(ToEnter) = Do("enter") /\ Tail(ToEnter) = ToSelect
  BY DEF ToSelect, ToEnter
<1>7. Tail(AdvertiseStart) = ToEnter
  <2>1. AdvertiseStart \in Seq(Steps) /\ ToEnter \in Seq(Steps)
    BY StepTypes DEF Names, Timers, AdvertiseStart, Enter, ToEnter
  <2>2. Len(AdvertiseStart) = 7 /\ Len(ToEnter) = 6
    BY ScriptLengths
  <2>3. \A k \in 1 .. 6 : AdvertiseStart[k + 1] = ToEnter[k]
    BY DEF AdvertiseStart, Enter, ToEnter
  <2>4. /\ Tail(AdvertiseStart) \in Seq(Steps) /\ Len(Tail(AdvertiseStart)) = 6
        /\ \A k \in 1 .. 6 : Tail(AdvertiseStart)[k] = ToEnter[k]
    <3> DEFINE s == AdvertiseStart
    <3>1. s \in Seq(Steps) /\ Len(s) = 7
      BY <2>1, <2>2
    <3> HIDE DEF s
    <3>2. Len(s) \in Nat /\ Len(s) >= 1 /\ s # <<>>
      BY <3>1, EmptyLength
    <3>3. /\ Tail(s) \in Seq(Steps) /\ Len(Tail(s)) = Len(s) - 1
          /\ \A k \in 1 .. Len(Tail(s)) : Tail(s)[k] = s[k + 1]
      BY <3>1, <3>2
    <3>4. Len(Tail(s)) = 6
      BY <3>1, <3>3
    <3>5. \A k \in 1 .. 6 : Tail(s)[k] = s[k + 1]
      BY <3>3, <3>4
    <3> QED BY <2>3, <3>3, <3>4, <3>5 DEF s
  <2> QED BY <2>1, <2>2, <2>4, SameSequence
<1>8. Head(AdvertiseStart) = Arming("interval")
  BY DEF AdvertiseStart, Enter
<1> QED BY <1>1, <1>2, <1>3, <1>4, <1>5, <1>6, <1>7, <1>8

\* The single shot is armed while the first PDU is being sent, and then counted.
\* timer_start() once the timer's flag is set.
LEMMA CountOn ==
    ASSUME LinkInv, CountOK, within # Outside, armed # {}, ThreadStep
    PROVE  /\ CountOK'
           /\ UNCHANGED <<link, radio, armed, left, lapsing, cb, leftover, due, todo, goal,
                          slipped, visited>>
<1>1. within.at \in {"marked", "up"} /\ count = Armed - 1
  BY DEF CountOK
<1>2. LoadCount \/ StoreCount
  BY <1>1 DEF ThreadStep, ArmInterval, ArmSingle, SetState, SelectChannel, RadioCall, StopTimer,
              ClearFlag, Halt, Doing
<1>3. Armed \in 1 .. 3
  <2>1. "interval" \in armed \/ "single" \in armed \/ "ifs" \in armed
    BY DEF LinkInv, TimersOK, Timers
  <2> QED BY <2>1 DEF Armed, One
<1>4. CASE LoadCount
  <2>1. /\ within' = [at |-> "up", count |-> U8(count + 1)] /\ running' = (running \/ count = 0)
        /\ UNCHANGED <<link, radio, armed, left, lapsing, cb, leftover, count, due, todo, goal,
                       slipped, visited>>
    BY <1>1, <1>4 DEF LoadCount, ghosts
  <2>2. Armed' = Armed /\ U8(count + 1) = Armed
    BY <1>1, <1>3, <2>1, Numbers DEF Armed, One, U8
  <2>3. within.at = "marked"
    BY <1>1, <1>4 DEF LoadCount
  <2>4. running <=> count # 0
    BY <2>3 DEF CountOK
  <2>5. within' # Outside /\ within'.at = "up"
    BY <2>1 DEF Outside
  <2> QED BY <1>1, <2>1, <2>2, <2>4, <2>5 DEF CountOK
<1>5. CASE StoreCount
  <2>1. within = [at |-> "up", count |-> Armed]
    BY <1>5 DEF StoreCount, CountOK
  <2>2. /\ within' = Outside /\ count' = Armed
        /\ UNCHANGED <<link, radio, armed, left, lapsing, running, cb, leftover, due, todo, goal,
                       slipped, visited>>
    BY <1>5, <2>1 DEF StoreCount, ghosts
  <2>3. Armed' = Armed /\ running
    BY <2>1, <2>2 DEF Armed, One, CountOK
  <2> QED BY <2>2, <2>3 DEF CountOK
<1> QED BY <1>2, <1>4, <1>5

LEMMA ThreadLaunched ==
    ASSUME AdvertiserOnly, LinkInv, StartOK, LaunchedOK, CountOK, ThreadStep
    PROVE  StartOK' /\ CountOK' /\ LaunchedOK'
<1> USE Constants, Numbers, ExchangeIsOver
<1>1. /\ InCall /\ Sending /\ Free /\ radio.age = 0 /\ due = {} /\ Exchange < UntilNext
  <2>1. InCall
    <3>1. CASE within = Outside
      BY <3>1, StepOf DEF InCall
    <3> QED BY <3>1 DEF InCall
  <2>2. Sending /\ radio.age = 0 /\ due = {}
    BY <2>1 DEF LaunchedOK, Swift
  <2>3. ~Off /\ ~Sent /\ ~Listening /\ ~Heard /\ ~Replying /\ ~Replied /\ ~Late
    BY <2>2 DEF Off, Sending, Sent, Listening, Heard, Replying, Replied, Late, Is
  <2>4. Free /\ Exchange < UntilNext + radio.age
    BY <2>2, <2>3 DEF LaunchedOK, ExchangeOK
  <2> QED BY <2>1, <2>2, <2>4
<1>2. ASSUME Sending', radio'.age = 0, due' = {}, Free', Exchange < UntilNext', UntilNext' \in Nat
      PROVE  ExchangeOK'
  <2>1. radio'.age <= AirTime /\ Exchange < UntilNext' + radio'.age
    BY <1>2
  <2> QED BY <1>2, <2>1 DEF ExchangeOK
<1>3. CASE within = Outside
  <2>1. todo = ToArm /\ CanRun /\ ArmSingle /\ todo # <<>>
    BY <1>3, StepOf, ScriptSteps DEF LaunchedOK, Launched, Timers
  <2>2. /\ goal = "advertising" /\ adv_ch_map # {}
        /\ AdvInterval <= left["interval"] /\ left["ifs"] <= Ifs
        /\ adv_ch_idx = first_adv_ch_idx /\ radio.ch = Channel(adv_ch_idx)
        /\ "single" \notin armed /\ "interval" \in armed
    BY <2>1 DEF StartOK, LaunchedOK, EventOK
  <2>3. /\ adv_ch_idx' = inc_adv_ch_idx(adv_ch_idx)
        /\ IF HasNext(adv_ch_idx) THEN StartTimer("single", PduInterval)
                                  ELSE Done /\ UNCHANGED timers
        /\ UNCHANGED <<current_state, adv_ch_map, adv_type, callbacks, radio, due, goal, visited>>
    BY <2>1, <2>2 DEF ArmSingle, ghosts
  <2>4. todo' = <<>>
    BY <2>1, <2>3, ScriptSteps DEF StartTimer, Done
  <2>5. LinkOK /\ \A c \in adv_ch_map : c <= radio.ch \/ HasNext(adv_ch_idx)
    BY <2>2, NextChannel DEF LinkInv
  <2>6. Sending' /\ radio'.age = 0 /\ due' = {}
    BY <1>1, <2>3 DEF Sending, Is, Scans
  <2>7. visited' = {c \in adv_ch_map' : c < radio'.ch \/ (c = radio'.ch /\ ~Sending')}
    BY <1>1, <2>3, <2>6 DEF LaunchedOK, EventOK
  <2>8. CASE HasNext(adv_ch_idx)
    <3>1. /\ armed' = armed \union {"single"} /\ lapsing' = lapsing \ {"single"}
          /\ leftover' = leftover /\ left'["single"] = PduInterval
          /\ left'["interval"] = left["interval"] /\ left'["ifs"] = left["ifs"]
          /\ cb'["single"] = "advertising" /\ cb'["interval"] = cb["interval"]
          /\ within' = [at |-> "marked", count |-> 0] /\ count' = count /\ running' = running
      <4>1. /\ Mark("single", PduInterval, "advertising")
            /\ leftover' \in {leftover, IF "single" \in leftover THEN {} ELSE leftover}
            /\ within' = [at |-> "marked", count |-> 0] /\ count' = count /\ running' = running
        BY <2>2, <2>3, <2>8 DEF StartTimer
      <4>2. "single" \notin leftover
        BY DEF LaunchedOK, LeftoverOK
      <4>3. left \in [Timers -> Nat] /\ cb \in [Timers -> States]
        BY DEF LinkInv, TimersOK
      <4> QED BY <4>1, <4>2, <4>3 DEF Mark, Timers
    <3>2. UntilNext' = PduInterval
      BY <3>1 DEF UntilNext
    <3>3. Exchange < PduInterval /\ PduInterval + PduInterval + Exchange < left["interval"]
      BY <2>2 DEF AdvertiserOnly, Exchange
    <3>4. Free'
      BY <1>1, <3>1 DEF Free
    <3>5. ExchangeOK'
      BY <1>2, <2>6, <3>2, <3>3, <3>4
    <3>6. EventOK'
      <4>1. /\ Channel(adv_ch_idx') \in adv_ch_map /\ radio.ch < Channel(adv_ch_idx')
            /\ \A c \in adv_ch_map : c <= radio.ch \/ Channel(adv_ch_idx') <= c
        BY <2>2, <2>3, <2>5, <2>8, NextChannel
      <4>2. /\ left'["single"] + PduInterval + Exchange < left'["interval"]
            /\ left'["single"] + Exchange < left'["interval"]
        BY <3>1, <3>3 DEF Exchange
      <4> QED BY <2>2, <2>3, <2>4, <2>7, <3>1, <4>1, <4>2 DEF LaunchedOK, EventOK, Channel, Exchange
    <3>7. LeftoverOK'
      BY <1>1, <2>3, <3>1 DEF LaunchedOK, LeftoverOK, Free
    <3>8. StartOK' /\ Swift'
      BY <2>2, <2>4, <2>6, <3>1 DEF StartOK, Swift
    <3>9. CountOK'
      <4>1. Armed' = Armed + 1 /\ Armed \in 0 .. 3 /\ count = Armed
        BY <1>3, <2>2, <3>1, Counted DEF Timers, CountOK
      <4>2. count' = Armed' - 1 /\ within'.at = "marked"
        BY <3>1, <4>1
      <4>3. within' # Outside
        BY <4>2 DEF Outside
      <4>4. running' /\ count' # 0
        <5>1. Armed # 0
          BY <2>2, Numbers DEF Armed, One
        <5> QED BY <1>3, <2>2, <3>1, <4>1, <5>1 DEF CountOK
      <4> QED BY <3>1, <4>2, <4>3, <4>4 DEF CountOK
    <3> QED BY <2>3, <2>4, <3>1, <3>5, <3>6, <3>7, <3>8, <3>9 DEF LaunchedOK, Launched, Scans
  <2>9. CASE ~HasNext(adv_ch_idx)
    <3>1. UNCHANGED timers /\ within' = within /\ UntilNext' = UntilNext
      BY <2>3, <2>9 DEF Done, timers, UntilNext
    <3>2. ExchangeOK'
      BY <1>1, <1>2, <2>6, <3>1 DEF Free, timers
    <3>3. EventOK'
      BY <2>2, <2>3, <2>4, <2>5, <2>7, <2>9, <3>1 DEF LaunchedOK, EventOK, timers
    <3>4. LeftoverOK'
      BY <2>3, <3>1 DEF LaunchedOK, LeftoverOK, timers
    <3>5. StartOK' /\ Swift'
      BY <2>2, <2>4, <2>6, <3>1 DEF StartOK, Swift, timers
    <3>6. CountOK'
      BY <3>1 DEF CountOK, Armed, One, timers
    <3> QED BY <2>3, <2>4, <3>1, <3>2, <3>3, <3>4, <3>5, <3>6 DEF LaunchedOK, Launched, Scans, timers
  <2> QED BY <2>8, <2>9
<1>4. CASE within # Outside
  <2>1. todo = <<>> /\ armed # {}
    BY <1>4 DEF LaunchedOK, Swift
  <2>3. /\ CountOK'
        /\ UNCHANGED <<link, radio, armed, left, lapsing, cb, leftover, due, todo, goal, slipped,
                       visited>>
    BY <1>4, <2>1, CountOn
  <2>5. Sending' /\ radio'.age = 0 /\ due' = {} /\ (Sending' <=> Sending)
    BY <1>1, <2>3 DEF Sending, Is, Scans, link
  <2>6. UntilNext' = UntilNext
    BY <2>3 DEF UntilNext
  <2>7. ExchangeOK'
    BY <1>1, <1>2, <2>3, <2>5, <2>6 DEF Free
  <2>8. EventOK'
    BY <2>3, <2>5, EventKept DEF LaunchedOK, link
  <2>9. LeftoverOK' /\ Swift'
    BY <2>1, <2>3, <2>5, <2>6 DEF LaunchedOK, LeftoverOK, Swift
  <2>10. StartOK'
    BY <2>3, StartKept DEF StartOK, link
  <2> QED BY <2>3, <2>7, <2>8, <2>9, <2>10 DEF LaunchedOK, Launched, Scans, link
<1> QED BY <1>3, <1>4

LEMMA AirLaunched ==
    ASSUME AdvertiserOnly, LinkInv, StartOK, LaunchedOK, CountOK, ~InCall,
           PacketSent \/ PacketReceived
    PROVE  StartOK' /\ CountOK' /\ LaunchedOK'
<1> USE Constants, Numbers, ExchangeIsOver
<1>1. /\ UNCHANGED <<current_state, adv_ch_idx, adv_ch_map, adv_type, callbacks, due, todo,
                     goal, slipped, within, armed, left, cb, leftover, lapsing, count, running>>
      /\ radio.end = FALSE
  BY DEF PacketSent, PacketReceived, link, timers, thread, LaunchedOK, Radios
<1>2. StartOK' /\ CountOK' /\ Swift'
  BY <1>1, StartKept, SameCount DEF StartOK, Swift, InCall
<1>3. UntilNext' = UntilNext /\ UntilNext \in Nat
  BY <1>1 DEF UntilNext
<1>4. LeftoverOK'
  BY <1>1, <1>3 DEF LaunchedOK, LeftoverOK
<1>5. SUFFICES ExchangeOK' /\ EventOK'
  BY <1>1, <1>2, <1>4 DEF LaunchedOK, Launched, Scans
<1>6. CASE PacketSent
  <2>1. radio.phase = "tx" /\ radio' = R!AfterEnd(radio)
        /\ visited' = IF radio.ptr = "adv" THEN visited \union {radio.ch} ELSE visited
    BY <1>6 DEF PacketSent, R!PacketSent
  <2>2. \/ /\ Sending /\ Free /\ radio.age <= AirTime /\ Exchange < UntilNext + radio.age
        \/ /\ Replying /\ "ifs" \notin armed
           /\ radio.age <= AirTime /\ AirTime + Ifs < UntilNext + radio.age
    BY <1>1, <2>1 DEF LaunchedOK, ExchangeOK, Off, Sending, Sent, Listening, Heard, Replying,
                      Replied, Late, Is
  <2>3. CASE Sending
    <3>1. Free /\ radio.age <= AirTime /\ Exchange < UntilNext + radio.age
      BY <2>2, <2>3 DEF Sending, Replying
    <3>2. Sent' /\ ~Sending' /\ radio'.age = 0 /\ radio'.ch = radio.ch
      <4>1. CASE Scans
        <5>1. Is(radio, {"tx"}, TRUE, "tx", FALSE)
          BY <2>3, <4>1 DEF Sending, Is
        <5>2. Is(radio', {"tx"}, TRUE, "rx", TRUE) /\ radio'.age = 0 /\ radio'.ch = radio.ch
          BY <2>1, <5>1, AfterSend
        <5> QED BY <1>1, <4>1, <5>2 DEF Sent, Sending, Is, Scans
      <4>2. CASE ~Scans
        <5>1. Is(radio, {"tx"}, FALSE, "tx", FALSE)
          BY <2>3, <4>2 DEF Sending, Is
        <5>2. Is(radio', {"tx"}, FALSE, "off", TRUE) /\ radio'.age = 0 /\ radio'.ch = radio.ch
          BY <2>1, <5>1, AfterSend
        <5> QED BY <1>1, <4>2, <5>2 DEF Sent, Sending, Is, Scans
      <4> QED BY <4>1, <4>2
    <3>3. Ifs + AirTime + Ifs < UntilNext'
      BY <1>3, <3>1 DEF Exchange
    <3>4. ExchangeOK'
      BY <1>1, <3>1, <3>2, <3>3 DEF ExchangeOK, Free
    <3>5. visited' = {c \in adv_ch_map' : c < radio'.ch \/ (c = radio'.ch /\ ~Sending')}
      <4>1. visited' = visited \union {radio.ch} /\ radio.ch \in adv_ch_map
        BY <2>1, <2>3 DEF Sending, LaunchedOK, EventOK
      <4>2. visited = {c \in adv_ch_map : c < radio.ch}
        BY <2>3 DEF LaunchedOK, EventOK
      <4> QED BY <1>1, <3>2, <4>1, <4>2
    <3>6. HasNext(adv_ch_idx)' <=> HasNext(adv_ch_idx)
      BY <1>1 DEF HasNext
    <3>7. Channel(adv_ch_idx)' = Channel(adv_ch_idx) /\ first_adv_ch_idx' = first_adv_ch_idx
      BY <1>1 DEF Channel, first_adv_ch_idx
    <3>8. EventOK'
      BY <1>1, <3>2, <3>5, <3>6, <3>7 DEF LaunchedOK, EventOK
    <3> QED BY <3>4, <3>8
  <2>4. CASE Replying
    <3>1. "ifs" \notin armed /\ radio.age <= AirTime /\ AirTime + Ifs < UntilNext + radio.age
      BY <2>2, <2>4 DEF Sending, Replying
    <3>2. Is(radio', {"tx"}, FALSE, "off", TRUE) /\ radio'.ch = radio.ch
      BY <2>1, <2>4, AfterSend DEF Replying
    <3>3. Replied' /\ ~Sending' /\ ~Sending /\ visited' = visited
      BY <1>1, <2>1, <2>4, <3>2 DEF Replied, Replying, Sending, Is, Scans
    <3>4. ExchangeOK'
      BY <1>1, <1>3, <3>1, <3>3 DEF ExchangeOK
    <3>5. EventOK'
      BY <1>1, <3>2, <3>3, EventKept DEF LaunchedOK
    <3> QED BY <3>4, <3>5
  <2> QED BY <2>2, <2>3, <2>4
<1>7. CASE PacketReceived
  <2>1. radio.phase = "rx" /\ visited' = visited
    BY <1>7 DEF PacketReceived, ghosts
  <2>2. PICK pdu \in Pdus : radio' = R!PacketReceived(radio, pdu)
    BY <1>7 DEF PacketReceived
  <2>3. /\ Listening /\ "ifs" \in armed /\ left["ifs"] + AirTime + Ifs < UntilNext
    BY <1>1, <2>1 DEF LaunchedOK, ExchangeOK, Off, Sending, Sent, Listening, Heard, Replying,
                      Replied, Late, Is
  <2>4. /\ Is(R!AfterEnd(radio), {"rx"}, FALSE, "off", TRUE) /\ R!AfterEnd(radio).age = 0
        /\ R!AfterEnd(radio).ch = radio.ch
    BY <2>3, AfterSend DEF Listening
  <2>5. R!AfterEnd(radio) \in Radios
    BY <2>1, SentRadio DEF LinkInv, RadioOK
  <2>6. Is(radio', {"rx"}, FALSE, "off", TRUE) /\ radio'.age = 0 /\ radio'.ch = radio.ch
    BY <2>2, <2>4, <2>5 DEF R!PacketReceived, Is, Radios
  <2>7. Heard' /\ ~Sending' /\ ~Sending
    BY <1>1, <2>1, <2>3, <2>6 DEF Heard, Listening, Sending, Is, Scans
  <2>8. ExchangeOK'
    BY <1>1, <1>3, <2>3, <2>6, <2>7 DEF ExchangeOK
  <2>9. EventOK'
    BY <1>1, <2>1, <2>6, <2>7, EventKept DEF LaunchedOK
  <2> QED BY <2>8, <2>9
<1> QED BY <1>6, <1>7

LEMMA TickLaunched ==
    ASSUME AdvertiserOnly, LinkInv, StartOK, LaunchedOK, CountOK, ~InCall, Tick
    PROVE  StartOK' /\ CountOK' /\ LaunchedOK'
<1> USE Constants, Numbers, ExchangeIsOver
<1>1. /\ due = {} /\ radio.end = FALSE /\ Expired = {} /\ radio' = R!Aged(radio)
      /\ radio.phase = "tx" => radio.age < AirTime
      /\ left' = [i \in Timers |-> IF left[i] > 0 THEN left[i] - 1 ELSE left[i]]
      /\ UNCHANGED <<current_state, adv_ch_idx, adv_ch_map, adv_type, callbacks, armed, cb, due,
                     todo, goal, within, count, running, visited>>
      /\ "interval" \in armed /\ running
  <2>1. "interval" \in armed /\ running
    BY DEF LaunchedOK, CountOK, InCall
  <2> QED BY <2>1 DEF Tick, link, ghosts, LaunchedOK, Radios
<1>2. PICK matched \in SUBSET lapsing :
        /\ {i \in lapsing : left[i] = 1} \subseteq matched
        /\ lapsing' = lapsing \ matched /\ leftover' = leftover \union matched
  <2>1. PICK drifting \in SUBSET {i \in lapsing : left[i] = 0} :
          LET matched == IF ~running THEN {} ELSE drifting \union {i \in lapsing : left[i] = 1}
          IN  lapsing' = lapsing \ matched /\ leftover' = leftover \union matched
    BY DEF Tick
  <2> DEFINE m == drifting \union {i \in lapsing : left[i] = 1}
  <2>2. m \in SUBSET lapsing
    OBVIOUS
  <2>3. lapsing' = lapsing \ m /\ leftover' = leftover \union m
    BY <1>1, <2>1
  <2> QED BY <2>2, <2>3
<1>3. /\ \A i \in armed : left[i] > 0 /\ i \notin leftover
      /\ left'["interval"] = left["interval"] - 1 /\ left["interval"] > 0
      /\ "single" \in armed => left["single"] > 0 /\ left'["single"] = left["single"] - 1
      /\ left["ifs"] > 0 => left'["ifs"] = left["ifs"] - 1
      /\ left["ifs"] = 0 => left'["ifs"] = 0
  <2>1. \A i \in armed : left[i] > 0 /\ i \notin leftover
    BY <1>1 DEF Expired
  <2> QED BY <1>1, <2>1 DEF Timers
<1>4. UntilNext' = UntilNext - 1 /\ UntilNext > 0
  BY <1>1, <1>3 DEF UntilNext
<1>5. /\ radio'.status = radio.status /\ radio'.flags = radio.flags
      /\ radio'.shorts = radio.shorts /\ radio'.phase = radio.phase /\ radio'.end = radio.end
      /\ radio'.ch = radio.ch /\ radio'.ptr = radio.ptr /\ radio'.inbuf = radio.inbuf
      /\ radio'.age = IF radio.phase = "off" \/ radio.age = Ifs THEN radio.age ELSE radio.age + 1
  BY <1>1, AgedIs
<1>6. (Off <=> Off') /\ (Sending <=> Sending') /\ (Listening <=> Listening')
      /\ (Replying <=> Replying')
  BY <1>1, <1>5 DEF Off, Sending, Listening, Replying, Is, Scans
<1>7. ExchangeOK'
  <2>1. ~Sent /\ ~Heard /\ ~Replied /\ ~Late
    BY <1>1 DEF Sent, Heard, Replied, Late, Is
  <2>2. CASE Off /\ ("ifs" \in armed => left["ifs"] < UntilNext)
    BY <1>1, <1>3, <1>4, <1>6, <2>2 DEF ExchangeOK
  <2>3. CASE Sending /\ Free /\ radio.age <= AirTime /\ Exchange < UntilNext + radio.age
    <3>1. radio'.age = radio.age + 1 /\ radio'.age <= AirTime
      BY <1>1, <1>5, <2>3 DEF Sending, Is
    <3>2. Free'
      BY <1>1, <1>2, <2>3 DEF Free
    <3>3. Exchange < UntilNext' + radio'.age
      BY <1>4, <2>3, <3>1 DEF Exchange
    <3> QED BY <1>6, <2>3, <3>1, <3>2, <3>3 DEF ExchangeOK
  <2>4. CASE /\ Listening /\ "ifs" \in armed /\ "ifs" \notin leftover
             /\ left["ifs"] = Ifs - radio.age /\ left["ifs"] + AirTime + Ifs < UntilNext
    <3>1. radio'.age = radio.age + 1
      BY <1>3, <1>5, <2>4 DEF Listening, Is
    <3>2. left'["ifs"] = left["ifs"] - 1
      BY <1>3, <2>4
    <3>3. "ifs" \notin leftover'
      BY <1>2, <2>4 DEF LaunchedOK, LeftoverOK
    <3>4. left'["ifs"] = Ifs - radio'.age /\ left'["ifs"] + AirTime + Ifs < UntilNext'
      BY <1>4, <2>4, <3>1, <3>2
    <3> QED BY <1>1, <1>6, <2>4, <3>3, <3>4 DEF ExchangeOK
  <2>5. CASE /\ Replying /\ "ifs" \notin armed
             /\ radio.age <= AirTime /\ AirTime + Ifs < UntilNext + radio.age
             /\ radio.inbuf.type = "SCAN_REQ" /\ radio.inbuf.to = "me"
    <3>1. radio'.age = radio.age + 1 /\ radio'.age <= AirTime
      BY <1>1, <1>5, <2>5 DEF Replying, Is
    <3>2. AirTime + Ifs < UntilNext' + radio'.age
      BY <1>4, <2>5, <3>1
    <3> QED BY <1>1, <1>5, <1>6, <2>5, <3>1, <3>2 DEF ExchangeOK
  <2> QED BY <2>1, <2>2, <2>3, <2>4, <2>5 DEF LaunchedOK, ExchangeOK
<1>8. EventOK'
  <2>1. HasNext(adv_ch_idx)' <=> HasNext(adv_ch_idx)
    BY <1>1 DEF HasNext
  <2>2. Channel(adv_ch_idx)' = Channel(adv_ch_idx) /\ first_adv_ch_idx' = first_adv_ch_idx
    BY <1>1 DEF Channel, first_adv_ch_idx
  <2>3. visited' = {c \in adv_ch_map' : c < radio'.ch \/ (c = radio'.ch /\ ~Sending')}
    BY <1>1, <1>5, <1>6 DEF LaunchedOK, EventOK
  <2>4. CASE "single" \in armed
    <3>1. left'["single"] + (IF HasNext(adv_ch_idx) THEN PduInterval ELSE 0) + Exchange
            < left'["interval"]
      BY <1>3, <2>4 DEF LaunchedOK, EventOK, Exchange
    <3> QED BY <1>1, <1>5, <2>1, <2>2, <2>3, <2>4, <3>1 DEF LaunchedOK, EventOK
  <2>5. CASE "single" \notin armed
    BY <1>1, <1>5, <2>1, <2>2, <2>3, <2>5 DEF LaunchedOK, EventOK
  <2> QED BY <2>4, <2>5
<1>9. LeftoverOK'
  <2>1. lapsing' \subseteq {"ifs"} /\ leftover' \subseteq {"ifs"}
    BY <1>2 DEF LaunchedOK, LeftoverOK
  <2>2. "ifs" \in lapsing' => "ifs" \notin armed' /\ left'["ifs"] \in 1 .. UntilNext' - 1
    <3> SUFFICES ASSUME "ifs" \in lapsing'
                 PROVE  "ifs" \notin armed' /\ left'["ifs"] \in 1 .. UntilNext' - 1
      OBVIOUS
    <3>1. "ifs" \in lapsing /\ left["ifs"] # 1
      BY <1>2
    <3>2. "ifs" \notin armed /\ left["ifs"] \in 1 .. UntilNext - 1
      BY <3>1 DEF LaunchedOK, LeftoverOK
    <3>3. left["ifs"] > 1 /\ left'["ifs"] = left["ifs"] - 1
      BY <1>3, <3>1, <3>2
    <3>4. armed' = armed
      BY <1>1
    <3> QED BY <1>4, <3>2, <3>3, <3>4
  <2> QED BY <1>1, <2>1, <2>2 DEF LeftoverOK
<1>10. StartOK' /\ CountOK' /\ Swift'
  <2>1. left'["ifs"] <= Ifs
    BY <1>3 DEF StartOK
  <2>2. todo' = <<>> /\ UNCHANGED <<todo, goal, adv_ch_map, armed, within, count, running>>
    BY <1>1 DEF InCall
  <2> QED BY <2>1, <2>2, SameCount DEF StartOK, Swift, InCall
<1> QED BY <1>1, <1>7, <1>8, <1>9, <1>10 DEF LaunchedOK, Launched, Scans

-----------------------------------------------------------------------------
(* ll_advertise_start() up to its first PDU.                                 *)

LEMMA CallStarts ==
    ASSUME AdvertiserOnly, LinkInv, StartOK, StartingOK, CountOK, Call
    PROVE  StartOK' /\ CountOK' /\ StartingOK'
<1>1. PICK type \in AdvTypes, chmap \in ChMaps : ll_advertise_start(type, chmap)
  <2>1. \A op \in {"ll_advertise_stop", "ll_scan_start", "ll_scan_stop", "ll_conn_create",
                   "ll_conn_cancel"} : ~CanCall(op)
    BY DEF CanCall, AdvertiserOnly
  <2> QED BY <2>1 DEF Call, ll_advertise_stop, ll_scan_start, ll_scan_stop, ll_conn_create,
                      ll_conn_cancel
<1>2. /\ ~InCall /\ todo = <<>> /\ current_state = "standby"
      /\ adv_ch_map' = chmap /\ chmap # {} /\ adv_type' = type /\ goal' = "advertising"
      /\ callbacks' = (IF type = "ADV_SCAN_IND" THEN "advertising" ELSE "standby")
      /\ todo' = AdvertiseStart
      /\ UNCHANGED <<current_state, radio, armed, left, cb, leftover, lapsing, count, running,
                     due, within, visited>>
  <2>1. todo' = AdvertiseStart /\ within' = within
    BY <1>1 DEF ll_advertise_start, BeginCall, AdvertiseStart
  <2>2. UNCHANGED <<current_state, radio, armed, left, cb, leftover, lapsing, count, running, due,
                    visited>>
    BY <1>1 DEF ll_advertise_start, timers, ghosts
  <2>0. chmap # {} /\ ~InCall /\ todo = <<>>
    <3>1. ~InCall
      BY <1>1, Zenon DEF ll_advertise_start, CanCall
    <3> QED BY <3>1, LinkLayerAssumption DEF InCall
  <2>3. /\ current_state = "standby"
        /\ adv_ch_map' = chmap /\ adv_type' = type /\ goal' = "advertising"
    BY <1>1 DEF ll_advertise_start
  <2>4. callbacks' = (IF type = "ADV_SCAN_IND" THEN "advertising" ELSE "standby")
    BY <1>1 DEF ll_advertise_start
  <2> QED BY <2>0, <2>1, <2>2, <2>3, <2>4
<1>3. armed = {}
  BY <1>2, ScriptsDiffer DEF StartingOK
<1>4. StartOK' /\ CountOK'
  BY <1>2, <1>3, SameCount DEF StartOK
<1>5. Off' /\ within' = Outside
  BY <1>2 DEF StartingOK, Off, Is, InCall
<1>6. todo' \notin {ToSend, ToPrepare, ToStop, ToSelect}
  BY <1>2, ScriptsDiffer
<1> QED BY <1>2, <1>3, <1>4, <1>5, <1>6 DEF StartingOK, Scans

LEMMA TickStarts ==
    ASSUME AdvertiserOnly, LinkInv, StartOK, StartingOK, CountOK, Tick
    PROVE  StartOK' /\ CountOK' /\ StartingOK'
<1> USE Constants, Numbers
<1>1. ~InCall
  BY DEF Tick, AdvertiserOnly
<1>2. /\ radio' = R!Aged(radio)
      /\ left' = [i \in Timers |-> IF running /\ left[i] > 0 THEN left[i] - 1 ELSE left[i]]
      /\ UNCHANGED <<current_state, adv_ch_idx, adv_ch_map, adv_type, callbacks, armed, cb, due,
                     todo, goal, within, count, running, visited>>
      /\ todo = <<>> /\ within = Outside /\ lapsing = {} /\ leftover = {} /\ armed = {}
  BY <1>1, ScriptsDiffer DEF Tick, link, ghosts, StartingOK, InCall
<1>3. lapsing' = {} /\ leftover' = {}
  BY <1>2 DEF Tick
<1>4. Off' /\ radio'.ch = radio.ch
  BY <1>2, AgedIs DEF StartingOK, Off, Is
<1>5. StartOK' /\ CountOK'
  <2>1. left'["ifs"] <= Ifs
    BY <1>2 DEF StartOK, Timers
  <2> QED BY <1>1, <1>2, <2>1, SameCount DEF StartOK
<1> QED BY <1>2, <1>3, <1>4, <1>5, ScriptsDiffer DEF StartingOK, Scans

\* The steps of the call, each with what the next one finds.
LEMMA ThreadStarts ==
    ASSUME AdvertiserOnly, LinkInv, StartOK, StartingOK, CountOK, ThreadStep
    PROVE  StartOK' /\ CountOK' /\ (StartingOK' \/ LaunchedOK')
<1> USE Constants, Numbers
<1>0. todo # <<>>
  <2>1. CASE within = Outside
    BY <2>1, StepOf
  <2>2. CASE within # Outside
    BY <2>2, ScriptsDiffer DEF StartingOK
  <2> QED BY <2>1, <2>2
<1>1. /\ todo # <<>> /\ goal = "advertising" /\ adv_ch_map # {} /\ left["ifs"] <= Ifs
      /\ "interval" \in armed => AdvInterval <= left["interval"]
      /\ Off /\ lapsing = {} /\ leftover = {} /\ due = {} /\ visited = {}
      /\ callbacks = IF Scans THEN "advertising" ELSE "standby"
  BY <1>0 DEF StartOK, StartingOK
<1>2. LinkOK
  BY DEF LinkInv
<1>3. \A a, b \in Names : Do(a) = Do(b) => a = b
  BY DistinctSteps
<1>7. CASE within # Outside
  <2>1. todo = ToEnter /\ armed # {}
    BY <1>7, ScriptsDiffer DEF StartingOK
  <2>3. /\ CountOK'
        /\ UNCHANGED <<link, radio, armed, left, lapsing, cb, leftover, due, todo, goal, slipped,
                       visited>>
    BY <1>7, <2>1, CountOn
  <2>5. StartOK' /\ Off'
    BY <1>1, <2>3, StartKept DEF StartOK, link, Off, Is
  <2>6. todo' \notin {ToSend, ToPrepare, ToStop, ToSelect} /\ todo' # <<>>
    BY <2>1, <2>3, ScriptsDiffer
  <2> QED BY <2>1, <2>3, <2>5, <2>6 DEF StartingOK, Scans, link
<1>4. CASE todo = AdvertiseStart
  <2>0. within = Outside
    BY <1>4, ScriptsDiffer DEF StartingOK
  <2>1. ArmInterval /\ armed = {} /\ current_state = "standby"
    <3>1. "interval" \in Timers
      BY DEF Timers
    <3> QED BY <1>1, <1>4, <2>0, <3>1, StepOf, ScriptSteps, ScriptsDiffer DEF StartingOK
  <2>7. /\ Mark("interval", AdvInterval, goal) /\ todo' = ToEnter
        /\ within' = [at |-> "marked", count |-> 0] /\ UNCHANGED <<count, running, leftover>>
        /\ UNCHANGED <<current_state, adv_ch_idx, adv_ch_map, adv_type, callbacks, radio, due,
                       goal, visited>>
    BY <1>1, <1>4, <2>1, ScriptSteps
    DEF ArmInterval, StartTimer, Period, link, ghosts
  <2>2. /\ armed' = {"interval"} /\ left'["interval"] = AdvInterval /\ left'["ifs"] = left["ifs"]
        /\ cb'["interval"] = "advertising" /\ lapsing' = {} /\ leftover' = {}
        /\ todo' = ToEnter
        /\ UNCHANGED <<current_state, adv_ch_idx, adv_ch_map, adv_type, callbacks, radio, due,
                       goal, visited>>
    BY <1>1, <2>1, <2>7 DEF Mark, Timers
  <2>8. CountOK'
    <3>1. count = 0 /\ Armed' = 1
      BY <2>0, <2>1, <2>2 DEF CountOK, Armed, One
    <3>2. within' # Outside /\ within'.at = "marked" /\ count' = Armed' - 1 /\ count' = 0
      BY <2>7, <3>1 DEF Outside
    <3>3. ~running'
      BY <2>0, <2>1, <2>7 DEF CountOK
    <3> QED BY <2>7, <3>2, <3>3 DEF CountOK
  <2>3. StartOK'
    BY <1>1, <2>2 DEF StartOK
  <2>4. Off' /\ Scans' = Scans
    BY <1>1, <2>2 DEF Off, Is, Scans
  <2>5. todo' \notin {ToSend, ToPrepare, ToStop, ToSelect}
    BY <2>2, ScriptsDiffer
  <2> QED BY <1>1, <2>1, <2>2, <2>3, <2>4, <2>5, <2>8 DEF StartingOK, Scans
<1>5. CASE within = Outside /\ todo \in {ToEnter, ToSelect, ToStop, ToPrepare, ToSend}
  <2>1. armed = {"interval"} /\ cb["interval"] = "advertising"
    BY <1>1, <1>5, ScriptsDiffer DEF StartingOK
  <2>2. ASSUME UNCHANGED <<adv_ch_map, adv_type, callbacks, timers, due, goal, within>>,
               todo' # <<>>
        PROVE  /\ StartOK' /\ CountOK' /\ armed' = {"interval"}
               /\ cb'["interval"] = "advertising"
               /\ lapsing' = {} /\ leftover' = {} /\ due' = {} /\ within' = Outside
               /\ callbacks' = IF Scans' THEN "advertising" ELSE "standby"
               /\ left' = left
    <3>1. CountOK'
      BY <2>2 DEF CountOK, Armed, One, timers
    <3> QED BY <1>1, <1>5, <2>1, <2>2, <3>1 DEF StartOK, timers, Scans
  <2>3. CASE todo = ToEnter
    <3>1. SetState /\ Doing(Do("enter"))
      BY <1>3, <1>5, <2>3, StepOf, ScriptSteps
      DEF SetState, SelectChannel, RadioCall, Doing, Names
    <3>2. /\ current_state' = "advertising" /\ todo' = ToSelect /\ within' = within
          /\ UNCHANGED <<adv_ch_map, adv_type, callbacks, timers, due, goal, radio, visited>>
      BY <1>1, <1>3, <2>3, <3>1, ScriptSteps DEF SetState, Doing, Done, Names, ghosts
    <3>3. Off'
      BY <1>1, <3>2 DEF Off, Is
    <3>4. todo' # <<>> /\ todo' \notin {ToStop, ToPrepare, ToSend}
      BY <3>2, ScriptsDiffer
    <3> QED BY <1>1, <2>2, <3>2, <3>3, <3>4 DEF StartingOK
  <2>4. CASE todo = ToSelect
    <3>1. SelectChannel /\ Doing(Do("first"))
      BY <1>3, <1>5, <2>4, StepOf, ScriptSteps
      DEF SetState, SelectChannel, RadioCall, Doing, Names
    <3>2. /\ adv_ch_idx' = first_adv_ch_idx /\ visited' = {} /\ todo' = ToStop
          /\ within' = within
          /\ UNCHANGED <<current_state, adv_ch_map, adv_type, callbacks, timers, due, goal, radio>>
      BY <1>1, <1>3, <2>4, <3>1, ScriptSteps DEF SelectChannel, Doing, Done, Names
    <3>3. Off' /\ first_adv_ch_idx' = first_adv_ch_idx /\ current_state = "advertising"
      BY <1>1, <2>4, <3>2 DEF Off, Is, first_adv_ch_idx, StartingOK
    <3>4. todo' # <<>> /\ todo' # ToSend
      BY <3>2, ScriptsDiffer
    <3> QED BY <1>1, <2>2, <3>2, <3>3, <3>4 DEF StartingOK
  <2>5. CASE todo \in {ToStop, ToPrepare, ToSend}
    <3>1. current_state = "advertising" /\ adv_ch_idx = first_adv_ch_idx
      BY <2>5, ScriptsDiffer DEF StartingOK
    <3>2. RadioCall
      BY <1>3, <1>5, <2>5, StepOf, ScriptSteps
      DEF SetState, SelectChannel, Doing, Names
    <3>3. /\ todo' = Tail(todo) /\ within' = within
          /\ UNCHANGED <<current_state, adv_ch_idx, adv_ch_map, adv_type, callbacks, timers, due,
                         goal, visited>>
      BY <3>2 DEF RadioCall, Done, link, ghosts
    <3>4. first_adv_ch_idx' = first_adv_ch_idx /\ Channel(adv_ch_idx)' = Channel(adv_ch_idx)
      BY <3>3 DEF first_adv_ch_idx, Channel
    <3>5. CASE todo = ToStop
      <4>1. radio' = R!Stop(radio)
        BY <1>3, <3>2, <3>5, ScriptSteps DEF RadioCall, Doing, Names
      <4>2. radio' = radio /\ todo' = ToPrepare
        BY <1>1, <3>3, <3>5, <4>1, ScriptSteps DEF Off, Is, R!Stop
      <4>3. Off'
        BY <1>1, <4>2 DEF Off, Is
      <4>4. todo' # <<>> /\ todo' # ToSend
        BY <4>2, ScriptsDiffer
      <4> QED BY <1>1, <2>2, <3>1, <3>3, <3>4, <4>2, <4>3, <4>4 DEF StartingOK
    <3>6. CASE todo = ToPrepare
      <4>1. radio' = R!Prepare(radio, Channel(adv_ch_idx))
        BY <1>3, <3>2, <3>6, ScriptSteps DEF RadioCall, Doing, Names
      <4>2. Channel(adv_ch_idx) \in Channels
        BY <1>2, NextChannel
      <4>6. todo' = ToSend
        BY <3>3, <3>6, ScriptSteps
      <4>3. radio' = [radio EXCEPT !.ch = Channel(adv_ch_idx)] /\ todo' = ToSend
        BY <1>1, <4>1, <4>2, <4>6 DEF Off, Is, R!Prepare, R!ch2freq, Channels
      <4>4. Off' /\ radio'.ch = Channel(adv_ch_idx)
        BY <1>1, <4>3 DEF Off, Is, Radios
      <4>5. todo' # <<>>
        BY <4>3, ScriptsDiffer
      <4> QED BY <1>1, <2>2, <3>1, <3>3, <3>4, <4>3, <4>4, <4>5 DEF StartingOK
    <3>7. CASE todo = ToSend
      <4>1. radio' = R!Send(radio, "adv", AdvFlags)
        BY <1>3, <3>2, <3>7, ScriptSteps DEF RadioCall, Doing, Names
      <4>2. todo' = ToArm /\ todo' # <<>>
        BY <3>3, <3>7, ScriptSteps, ScriptsDiffer
      <4>3. radio.ch = Channel(adv_ch_idx) /\ radio.ch \in adv_ch_map
            /\ \A c \in adv_ch_map : radio.ch <= c
        BY <1>1, <1>2, <3>1, <3>7, FirstChannel DEF StartingOK
      <4>4. Sending' /\ radio'.age = 0 /\ radio'.ch = radio.ch
        <5> DEFINE sent(f) == R!Send(radio, "adv", f)
        <5>1. /\ Is(sent(IF TRUE THEN {"rx_next"} ELSE {}), {"tx"}, TRUE, "tx", FALSE)
              /\ sent(IF TRUE THEN {"rx_next"} ELSE {}).ptr = "adv"
              /\ sent(IF TRUE THEN {"rx_next"} ELSE {}).age = 0
              /\ sent(IF TRUE THEN {"rx_next"} ELSE {}).ch = radio.ch
          BY <1>1, SendFromOff DEF Off
        <5>2. /\ Is(sent(IF FALSE THEN {"rx_next"} ELSE {}), {"tx"}, FALSE, "tx", FALSE)
              /\ sent(IF FALSE THEN {"rx_next"} ELSE {}).ptr = "adv"
              /\ sent(IF FALSE THEN {"rx_next"} ELSE {}).age = 0
              /\ sent(IF FALSE THEN {"rx_next"} ELSE {}).ch = radio.ch
          BY <1>1, SendFromOff DEF Off
        <5>3. radio' = sent(AdvFlags)
          BY <4>1
        <5> HIDE DEF sent
        <5>4. CASE Scans
          <6>1. AdvFlags = IF TRUE THEN {"rx_next"} ELSE {}
            BY <5>4 DEF AdvFlags, Scans
          <6> QED BY <3>3, <5>1, <5>3, <5>4, <6>1 DEF Sending, Scans, Is
        <5>5. CASE ~Scans
          <6>1. AdvFlags = IF FALSE THEN {"rx_next"} ELSE {}
            BY <5>5 DEF AdvFlags, Scans
          <6> QED BY <3>3, <5>2, <5>3, <5>5, <6>1 DEF Sending, Scans, Is
        <5> QED BY <5>4, <5>5
      <4>5. ExchangeOK'
        <5>1. UntilNext' = left["interval"]
          BY <2>2, <3>3, <4>2 DEF UntilNext
        <5>2. Exchange < left["interval"]
          BY <1>1, <2>1 DEF AdvertiserOnly, Exchange
        <5>3. Free'
          BY <2>2, <3>3, <4>2 DEF Free
        <5>4. radio'.age <= AirTime /\ Exchange < UntilNext' + radio'.age
          BY <4>4, <5>1, <5>2
        <5> QED BY <4>4, <5>3, <5>4 DEF ExchangeOK
      <4>6. EventOK'
        <5>1. visited' = {c \in adv_ch_map' : c < radio'.ch \/ (c = radio'.ch /\ ~Sending')}
          <6>1. \A c \in adv_ch_map : ~(c < radio.ch)
            BY <4>3 DEF Channels
          <6> QED BY <1>1, <3>3, <4>4, <6>1
        <5> QED BY <1>1, <2>2, <3>1, <3>3, <3>4, <4>2, <4>3, <4>4, <5>1 DEF EventOK
      <4>7. LeftoverOK'
        BY <2>2, <3>3, <4>2 DEF LeftoverOK
      <4>8. Swift'
        BY <2>2, <3>3, <4>2, <4>4 DEF Swift
      <4> QED BY <2>2, <3>1, <3>3, <4>2, <4>5, <4>6, <4>7, <4>8 DEF LaunchedOK, Launched
    <3> QED BY <2>5, <3>5, <3>6, <3>7
  <2> QED BY <1>5, <2>3, <2>4, <2>5
<1> QED BY <1>1, <1>4, <1>5, <1>7 DEF StartingOK

-----------------------------------------------------------------------------
(* The invariant is inductive.                                               *)

LEMMA InitAdvertiser == Init => AdvertiserInv
<1> SUFFICES ASSUME Init PROVE AdvertiserInv
  OBVIOUS
<1>1. LinkInv
  BY InitLinkInv
<1>2. StartOK /\ CountOK
  BY Constants DEF Init, StartOK, Timers, CountOK, Armed, One
<1>3. Off
  BY DEF Init, Off, Is, R!Reset
<1>4. <<>> \notin {ToSend, ToPrepare, ToStop, ToSelect}
  BY ScriptsDiffer
<1>5. StartingOK
  BY <1>3, <1>4, ScriptsDiffer DEF Init, StartingOK
<1> QED BY <1>1, <1>2, <1>5 DEF AdvertiserInv

\* Nothing falls into what is left of the call after its PDU has begun.
LEMMA CallIsSwift ==
    ASSUME AdvertiserOnly, LinkInv, LaunchedOK, InCall
    PROVE  ~TimerIrq /\ ~TimerCallback /\ ~RadioInterrupt /\ ~PacketSent /\ ~PacketReceived /\ ~Tick
<1> USE Constants, Numbers, ExchangeIsOver
<1>1. Sending /\ radio.age = 0 /\ due = {} /\ radio.end = FALSE /\ radio.phase = "tx"
  BY DEF LaunchedOK, Swift, Sending, Is
<1>2. UntilNext > 0 /\ Free
  <2>1. ~Off /\ ~Late
    BY <1>1 DEF Off, Late, Is
  <2>2. Free
    BY <1>1 DEF LaunchedOK, ExchangeOK, Off, Sending, Sent, Listening, Heard, Replying, Replied,
                Late, Is
  <2> QED BY <2>1, <2>2
<1>3. ~TimerIrq
  <2>1. \A i \in armed : i # "ifs" /\ left[i] > 0 /\ i \notin leftover
    BY <1>2 DEF Free, UntilNext, LaunchedOK, LeftoverOK, Timers
  <2> QED BY <2>1 DEF TimerIrq, Expired
<1>4. ~TimerCallback
  BY <1>1 DEF TimerCallback, AdvIntervalCb, ScanIntervalCb, AdvSingleShotCb, StopRadioCb,
              NextToServe
<1>5. ~RadioInterrupt
  BY <1>1 DEF RadioInterrupt, RadioIrqOnly, AdvRadioSendCb, AdvRadioRecvCb, ScanRadioRecvCb,
              InitRadioRecvCb, EndIrq
<1>6. ~PacketSent /\ ~PacketReceived
  BY <1>1 DEF PacketSent, PacketReceived
<1>7. ~Tick
  BY DEF Tick, AdvertiserOnly
<1> QED BY <1>3, <1>4, <1>5, <1>6, <1>7

LEMMA LaunchedStep ==
    ASSUME AdvertiserOnly, LinkInv, StartOK, LaunchedOK, CountOK, Next
    PROVE  StartOK' /\ CountOK' /\ LaunchedOK'
<1>1. ~Call
  <2>1. \A op \in {"ll_advertise_stop", "ll_scan_start", "ll_scan_stop", "ll_conn_create",
                   "ll_conn_cancel"} : ~CanCall(op)
    BY DEF CanCall, AdvertiserOnly
  <2>2. current_state # "standby"
    BY DEF LaunchedOK, Launched
  <2> QED BY <2>1, <2>2 DEF Call, ll_advertise_start, ll_advertise_stop, ll_scan_start,
                            ll_scan_stop, ll_conn_create, ll_conn_cancel
<1>2. CASE ~InCall
  BY <1>1, <1>2, TimerIrqLaunched, CallbackLaunched, RadioLaunched, ThreadLaunched, AirLaunched,
     TickLaunched DEF Next
<1>3. CASE InCall
  BY <1>1, <1>3, CallIsSwift, ThreadLaunched DEF Next
<1> QED BY <1>2, <1>3

\* Before the first PDU no timer is due and the radio is off.
LEMMA StartingQuiet ==
    ASSUME AdvertiserOnly, LinkInv, StartOK, StartingOK
    PROVE  ~TimerIrq /\ ~TimerCallback /\ ~RadioInterrupt /\ ~PacketSent /\ ~PacketReceived
<1> USE Constants, Numbers
<1>1. Expired = {}
  <2>1. armed \subseteq {"interval"} /\ leftover = {} /\ (armed # {} => todo # <<>>)
    BY ScriptsDiffer DEF StartingOK
  <2>2. "interval" \in armed => left["interval"] > 0
    BY <2>1 DEF StartOK, AdvertiserOnly, Exchange
  <2>3. ASSUME NEW i \in Expired PROVE FALSE
    <3>1. i = "interval" /\ (left["interval"] = 0 \/ i \in leftover) /\ i \in armed
      BY <2>1 DEF Expired
    <3> QED BY <2>1, <2>2, <3>1
  <2> QED BY <2>3
<1>2. due = {} /\ radio.end = FALSE /\ radio.phase = "off"
  BY DEF StartingOK, Off, Is
<1>3. ~TimerIrq
  BY <1>1 DEF TimerIrq
<1>4. ~TimerCallback
  BY <1>2 DEF TimerCallback, AdvIntervalCb, ScanIntervalCb, AdvSingleShotCb, StopRadioCb,
              NextToServe
<1>5. ~RadioInterrupt
  BY <1>2 DEF RadioInterrupt, RadioIrqOnly, AdvRadioSendCb, AdvRadioRecvCb, ScanRadioRecvCb,
              InitRadioRecvCb, EndIrq
<1>6. ~PacketSent /\ ~PacketReceived
  BY <1>2 DEF PacketSent, PacketReceived
<1> QED BY <1>3, <1>4, <1>5, <1>6

LEMMA StutterAdvertiser ==
    ASSUME StartOK, CountOK, LaunchedOK \/ StartingOK, UNCHANGED vars
    PROVE  StartOK' /\ CountOK' /\ (LaunchedOK' \/ StartingOK')
<1> USE DEF vars
<1>1. StartOK' /\ CountOK'
  BY DEF StartOK, CountOK, Armed, One
<1>2. /\ (Off' <=> Off) /\ (Sending' <=> Sending) /\ (Sent' <=> Sent)
      /\ (Listening' <=> Listening) /\ (Heard' <=> Heard) /\ (Replying' <=> Replying)
      /\ (Replied' <=> Replied) /\ (Late' <=> Late) /\ (Free' <=> Free)
  BY DEF Off, Sending, Sent, Listening, Heard, Replying, Replied, Late, Is, Scans, Free
<1>3. UntilNext' = UntilNext
  BY DEF UntilNext
<1>4. CASE LaunchedOK
  <2>1. ExchangeOK'
    BY <1>2, <1>3, <1>4 DEF LaunchedOK, ExchangeOK
  <2>2. EventOK'
    BY <1>2, <1>4, EventKept DEF LaunchedOK
  <2>3. LeftoverOK' /\ Swift'
    BY <1>2, <1>3, <1>4 DEF LaunchedOK, LeftoverOK, Swift, InCall
  <2> QED BY <1>1, <1>4, <2>1, <2>2, <2>3 DEF LaunchedOK, Launched, Scans
<1>5. CASE StartingOK
  <2>1. first_adv_ch_idx' = first_adv_ch_idx /\ Channel(adv_ch_idx)' = Channel(adv_ch_idx)
    BY DEF first_adv_ch_idx, Channel
  <2> QED BY <1>1, <1>2, <1>5, <2>1 DEF StartingOK, Scans
<1> QED BY <1>4, <1>5

LEMMA NextAdvertiser ==
    ASSUME AdvertiserOnly, AdvertiserInv, [Next]_vars
    PROVE  AdvertiserInv'
<1>1. LinkInv' /\ LinkInv /\ StartOK /\ CountOK /\ (LaunchedOK \/ StartingOK)
  BY NextLinkInv DEF AdvertiserInv
<1>2. CASE Next /\ LaunchedOK
  BY <1>1, <1>2, LaunchedStep DEF AdvertiserInv
<1>3. CASE Next /\ StartingOK
  BY <1>1, <1>3, StartingQuiet, CallStarts, ThreadStarts, TickStarts DEF Next, AdvertiserInv
<1>4. CASE UNCHANGED vars
  BY <1>1, <1>4, StutterAdvertiser DEF AdvertiserInv
<1> QED BY <1>1, <1>2, <1>3, <1>4

\* When a timer's callback runs, the radio is off or listens, and only the T_IFS
\* timer's may find it listening: for as long as the timer took.
LEMMA DueRadio ==
    ASSUME AdvertiserOnly, LinkInv, LaunchedOK, due # {}
    PROVE  /\ Off \/ Listening \/ Heard
           /\ due # {"ifs"} => Off
           /\ Listening => radio.age >= Ifs
<1> USE Constants, Numbers, ExchangeIsOver
<1>1. CASE "ifs" \in due
  <2>1. due = {"ifs"} /\ "ifs" \in armed
    BY <1>1 DEF LaunchedOK, LeftoverOK
  <2>2. \/ Off \/ Heard
        \/ Listening /\ left["ifs"] = Ifs - radio.age /\ left["ifs"] = 0
    BY <2>1 DEF LaunchedOK, ExchangeOK, Free, Late
  <2>3. Off \/ Heard => ~Listening
    BY DEF Off, Heard, Listening, Is
  <2> QED BY <2>1, <2>2, <2>3
<1>2. CASE "ifs" \notin due
  <2>1. UntilNext = 0
    <3>1. PICK i \in due : i # "ifs" /\ i \in Timers
      BY <1>2
    <3>2. left[i] = 0 /\ i \in {"interval", "single"} /\ i \in armed
      BY <3>1 DEF LaunchedOK, LeftoverOK, Timers
    <3> QED BY <3>2 DEF UntilNext
  <2>2. Off \/ Late
    BY <2>1
  <2>3. ~Late
    BY <2>1 DEF LaunchedOK, ExchangeOK, Off, Sending, Sent, Listening, Heard, Replying, Replied,
                Late, Is, Exchange
  <2> QED BY <1>2, <2>2, <2>3 DEF Off, Listening, Is
<1> QED BY <1>1, <1>2

-----------------------------------------------------------------------------
(* The theorems.                                                             *)

LEMMA AdvertiserInvariant ==
    ASSUME AdvertiserOnly
    PROVE  Spec => []AdvertiserInv
<1>1. AdvertiserInv /\ [Next]_vars => AdvertiserInv'
  BY NextAdvertiser
<1> QED BY InitAdvertiser, <1>1, PTL DEF Spec

\* What is on air, and what is received, with no END interrupt pending.
LEMMA OnAir ==
    ASSUME AdvertiserInv, radio.end = FALSE
    PROVE  /\ Off \/ Sending \/ Listening \/ Replying
           /\ Listening => "ifs" \in armed
           /\ Replying => radio.inbuf.type = "SCAN_REQ" /\ radio.inbuf.to = "me"
<1>1. ~Sent /\ ~Heard /\ ~Replied /\ ~Late
  BY DEF Sent, Heard, Replied, Late, Is
<1>2. (Off => ~Listening /\ ~Replying) /\ (Sending => ~Listening /\ ~Replying)
      /\ (Listening => ~Replying)
  BY DEF Off, Sending, Listening, Replying, Is
<1> QED BY <1>1, <1>2 DEF AdvertiserInv, StartingOK, LaunchedOK, ExchangeOK

\* An advertiser that listens after its PDU (adv_radio_send_cb) always has the timer
\* running that turns the radio off, however packets and interrupts fall.
THEOREM AdvertiserListeningIsTimed ==
    ASSUME AdvertiserOnly
    PROVE  Spec => []ListeningIsTimed
<1>1. AdvertiserInv => ListeningIsTimed
  <2> SUFFICES ASSUME AdvertiserInv, radio.phase = "rx", ~radio.end PROVE "ifs" \in armed
    BY DEF ListeningIsTimed
  <2>1. radio.end = FALSE
    BY Numbers DEF AdvertiserInv, Radios
  <2> QED BY <2>1, OnAir DEF Off, Sending, Replying, Is
<1> QED BY <1>1, AdvertiserInvariant, PTL

\* It only ever sends its advertising PDU and, to a SCAN_REQ addressed to it, the
\* response (adv_radio_recv_cb with send_scan_rsp).
THEOREM AdvertiserRepliesToRequests ==
    ASSUME AdvertiserOnly
    PROVE  Spec => []RepliesMatchRequests
<1>1. AdvertiserInv => RepliesMatchRequests
  <2> SUFFICES ASSUME AdvertiserInv, radio.phase = "tx", ~radio.end PROVE RepliesMatchRequests
    BY DEF RepliesMatchRequests
  <2>1. radio.end = FALSE
    BY Numbers DEF AdvertiserInv, Radios
  <2>2. \/ Sending
        \/ Replying /\ radio.inbuf.type = "SCAN_REQ" /\ radio.inbuf.to = "me"
    BY <2>1, OnAir DEF Off, Listening, Is
  <2> QED BY <2>2 DEF RepliesMatchRequests, Sending, Replying
<1> QED BY <1>1, AdvertiserInvariant, PTL

\* With no END pending, the driver's status and flags say what the peripheral does.
THEOREM AdvertiserDriverKnows ==
    ASSUME AdvertiserOnly
    PROVE  Spec => []DriverKnowsRadio
<1>1. AdvertiserInv => DriverKnowsRadio
  <2> SUFFICES ASSUME AdvertiserInv, ~radio.end PROVE R!Agrees(radio) /\ R!FollowUpAgrees(radio)
    BY DEF DriverKnowsRadio
  <2>1. radio.end = FALSE
    BY Numbers DEF AdvertiserInv, Radios
  <2>2. Off \/ Sending \/ Listening \/ Replying
    BY <2>1, OnAir
  <2> QED BY <2>2 DEF Off, Sending, Listening, Replying, Is, R!Agrees, R!FollowUpAgrees
<1> QED BY <1>1, AdvertiserInvariant, PTL

\* adv_interval_cb() begins an event when the one before it has covered the channel
\* map; the PDUs of an event go out on channels of the map, in increasing order.
THEOREM AdvertiserCoversMap ==
    ASSUME AdvertiserOnly
    PROVE  Spec => EventCoversMapInOrder
<1> DEFINE Covers == /\ AdvIntervalCb => visited = adv_ch_map
                     /\ (PacketSent /\ air'.pdu = "adv") =>
                          air'.ch \in adv_ch_map /\ \A c \in visited : c < air'.ch
<1>1. ASSUME AdvertiserInv, AdvIntervalCb
      PROVE  visited = adv_ch_map
  <2> USE Constants, Numbers, ExchangeIsOver
  <2>1. "interval" \in due /\ LaunchedOK /\ LinkInv /\ StartOK
    BY <1>1 DEF AdvIntervalCb, NextToServe, AdvertiserInv, StartingOK
  <2>2. left["interval"] = 0 /\ "interval" \in armed /\ "single" \notin armed
    BY <2>1 DEF LaunchedOK, LeftoverOK
  <2>3. todo = <<>>
    BY <2>1, <2>2 DEF StartOK, AdvertiserOnly, Exchange
  <2>4. Off
    BY <2>1, DueRadio
  <2>5. ~Sending
    BY <2>4 DEF Off, Sending, Is
  <2>6. /\ visited = {c \in adv_ch_map : c < radio.ch \/ c = radio.ch}
        /\ \A c \in adv_ch_map : c <= radio.ch
    BY <2>1, <2>2, <2>3, <2>5, ScriptsDiffer DEF LaunchedOK, EventOK
  <2>7. \A c \in adv_ch_map : c < radio.ch \/ c = radio.ch
    BY <2>1, <2>6 DEF LaunchedOK, EventOK, Channels
  <2> QED BY <2>6, <2>7
<1>2. ASSUME AdvertiserInv, PacketSent, air'.pdu = "adv"
      PROVE  air'.ch \in adv_ch_map /\ \A c \in visited : c < air'.ch
  <2>1. radio.phase = "tx" /\ radio.end = FALSE /\ air'.ch = radio.ch /\ radio.ptr = "adv"
    BY <1>2, Numbers DEF PacketSent, AdvertiserInv, Radios
  <2>2. Sending
    BY <1>2, <2>1, OnAir DEF Off, Listening, Replying, Is
  <2>3. LaunchedOK
    BY <1>2, <2>1 DEF AdvertiserInv, StartingOK, Off, Is
  <2> QED BY <2>1, <2>2, <2>3 DEF LaunchedOK, EventOK
<1>3. AdvertiserInv /\ [Next]_vars => [Covers]_vars
  BY <1>1, <1>2
<1>4. Spec => [][Covers]_vars
  BY <1>3, AdvertiserInvariant, PTL DEF Spec
<1> QED BY <1>4 DEF EventCoversMapInOrder

\* Neither the next PDU, nor the next event, nor the T_IFS timer, nor a call cuts off
\* a transmission: it ends with the END of its packet.
THEOREM AdvertiserCompletes ==
    ASSUME AdvertiserOnly
    PROVE  Spec => TransmissionCompletes
<1> DEFINE Completes == (radio.phase = "tx" /\ ~radio.end) => (radio'.phase = "tx" \/ radio'.end)
<1>1. ASSUME AdvertiserInv, Next, radio.phase = "tx", ~radio.end
      PROVE  radio'.phase = "tx" \/ radio'.end
  <2>1. LaunchedOK /\ LinkInv /\ StartOK /\ radio \in Radios
    BY <1>1, Numbers DEF AdvertiserInv, StartingOK, Off, Is
  <2>2. due = {}
    BY <1>1, <2>1, DueRadio DEF Off, Listening, Heard, Is
  <2>3. ~TimerCallback
    BY <2>2 DEF TimerCallback, AdvIntervalCb, ScanIntervalCb, AdvSingleShotCb, StopRadioCb,
                NextToServe
  <2>4. ~RadioInterrupt
    BY <1>1 DEF RadioInterrupt, RadioIrqOnly, AdvRadioSendCb, AdvRadioRecvCb, ScanRadioRecvCb,
                InitRadioRecvCb, EndIrq
  <2>5. CASE TimerIrq
    BY <1>1, <2>5 DEF TimerIrq
  <2>6. CASE Call
    BY <1>1, <2>6 DEF Call, ll_advertise_start, ll_advertise_stop, ll_scan_start, ll_scan_stop,
                      ll_conn_create, ll_conn_cancel
  <2>7. CASE ThreadStep
    <3>1. CASE within = Outside
      <4>1. ArmSingle
        BY <2>1, <2>7, <3>1, StepOf, ScriptSteps DEF LaunchedOK, Launched, Timers
      <4> QED BY <1>1, <4>1 DEF ArmSingle
    <3>2. CASE within # Outside
      <4>1. armed # {}
        BY <2>1 DEF LaunchedOK
      <4>2. CountOK
        BY <1>1 DEF AdvertiserInv
      <4>3. radio' = radio
        BY <2>1, <2>7, <3>2, <4>1, <4>2, CountOn
      <4> QED BY <1>1, <4>3
    <3> QED BY <3>1, <3>2
  <2>8. CASE PacketSent
    <3>1. radio' = R!AfterEnd(radio)
      BY <2>8 DEF PacketSent, R!PacketSent
    <3> QED BY <2>1, <3>1 DEF R!AfterEnd, Radios
  <2>9. CASE PacketReceived
    BY <1>1, <2>9 DEF PacketReceived
  <2>10. CASE Tick
    BY <1>1, <2>1, <2>10, AgedIs DEF Tick
  <2> QED BY <1>1, <2>3, <2>4, <2>5, <2>6, <2>7, <2>8, <2>9, <2>10 DEF Next
<1>2. AdvertiserInv /\ [Next]_vars => [Completes]_vars
  BY <1>1
<1>3. Spec => [][Completes]_vars
  BY <1>2, AdvertiserInvariant, PTL DEF Spec
<1> QED BY <1>3 DEF TransmissionCompletes

\* t_ll_ifs_cb() never ends the wait for a SCAN_REQ before T_IFS is over: no compare
\* event left over from an exchange before this one makes it hasty.
THEOREM AdvertiserListensInFull ==
    ASSUME AdvertiserOnly
    PROVE  Spec => FullListenWindow
<1> DEFINE Full == due # due' /\ StopRadioCb("ifs") /\ radio.phase = "rx" => radio.age >= Ifs
<1>1. ASSUME AdvertiserInv, StopRadioCb("ifs"), radio.phase = "rx"
      PROVE  radio.age >= Ifs
  <2>1. due # {} /\ LaunchedOK /\ LinkInv
    BY <1>1 DEF StopRadioCb, NextToServe, AdvertiserInv, StartingOK
  <2> QED BY <1>1, <2>1, DueRadio DEF Off, Heard, Is
<1>2. AdvertiserInv /\ [Next]_vars => [Full]_vars
  BY <1>1
<1>3. Spec => [][Full]_vars
  BY <1>2, AdvertiserInvariant, PTL DEF Spec
<1> QED BY <1>3 DEF FullListenWindow
=============================================================================
