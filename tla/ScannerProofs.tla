---------------------------- MODULE ScannerProofs ----------------------------
(***************************************************************************)
(* Theorems about the link layer of a device that scans and initiates,     *)
(* starting and stopping either in any order, for every window shorter     *)
(* than the interval and whatever is received.                             *)
(***************************************************************************)
EXTENDS LinkLayerProofs

\* ll_scan_start() is called where it makes sense; a call takes less time than a
\* packet, interrupts that fall into it included (with CallDelay = 1 a reply can go
\* out before radio_set_out_buffer()); the window is shorter than the interval
\* (equal, the single shot stops the radio in the interval after).
ScannerOnly ==
    /\ Ops \subseteq {"ll_scan_start", "ll_scan_stop", "ll_conn_create", "ll_conn_cancel"}
    /\ ScanFrom \subseteq {"standby", "scanning"}
    /\ ScanWindow < ScanInterval /\ CallDelay = 0

-----------------------------------------------------------------------------
(* The inductive invariant.                                                 *)

\* The calls as they go on: what remains before each of their steps.
ToArm == <<Arming("single")>>
ToSetOut == <<Do("set_out"), Arming("single")>>
ToListen(s) == IF s = "initiating" THEN <<Do("listen"), Do("set_out"), Arming("single")>>
                                   ELSE <<Do("listen"), Arming("single")>>
ToPrepare(s) ==
    IF s = "initiating" THEN <<Do("prepare"), Do("listen"), Do("set_out"), Arming("single")>>
                        ELSE <<Do("prepare"), Do("listen"), Arming("single")>>
ToRotate(s) ==
    IF s = "initiating"
    THEN <<Do("rotate"), Do("prepare"), Do("listen"), Do("set_out"), Arming("single")>>
    ELSE <<Do("rotate"), Do("prepare"), Do("listen"), Arming("single")>>
ToEnter(s) ==
    IF s = "initiating"
    THEN <<Do("enter"), Do("rotate"), Do("prepare"), Do("listen"), Do("set_out"),
           Arming("single")>>
    ELSE <<Do("enter"), Do("rotate"), Do("prepare"), Do("listen"), Arming("single")>>

ToLeave == <<Do("standby")>>
ToStop == <<Do("radio_stop"), Do("standby")>>
ToStopIfs == <<Stopping("ifs"), Do("radio_stop"), Do("standby")>>
ToCancel == <<Stopping("single"), Stopping("ifs"), Do("radio_stop"), Do("standby")>>
ToStopSingle == <<MustStop("single"), Do("radio_stop"), Do("standby")>>

\* The states of the radio, with its flags and shortcuts.
Is(r, status, next, phase, end) ==
    /\ r.status = status /\ r.phase = phase /\ r.end = end
    /\ r.flags = (IF next THEN {"tx_next"} ELSE {})
    /\ r.shorts = (IF next THEN {"txen"} ELSE {})

Initiates == callbacks = "initiating"

Off == Is(radio, {}, FALSE, "off", FALSE)
Late == Is(radio, {}, FALSE, "off", TRUE)
Listening == Is(radio, {"rx"}, Initiates, "rx", FALSE)
Heard == Is(radio, {"rx"}, Initiates, IF Initiates THEN "tx" ELSE "off", TRUE)
Connecting ==
    /\ Is(radio, {"tx"}, FALSE, "tx", FALSE) /\ radio.ptr = "connect_req"
    /\ Connectable(radio.inbuf) /\ target = radio.inbuf.from
Connected == Is(radio, {"tx"}, FALSE, "off", TRUE)

\* In its window a scanner listens; an initiator may also be sending CONNECT_REQ, or
\* have sent it and wait for the next window.
WindowRadio ==
    \/ Listening \/ Heard
    \/ Initiates /\ (Connecting \/ Connected \/ Off)

Ready == Initiates => radio.out = "connect_req"

\* Where the call is in the timer driver: in timer_start() after the flag is set, or in
\* timer_stop() before or after it is taken away.
At(where) ==
    where = IF within.at \in {"marked", "up"} THEN "up"
            ELSE IF within.at \in {"cleared", "down", "zero"} THEN "down" ELSE within.at

\* Nothing is armed: between calls, in STANDBY or where ll_scan_stop() fails half-way.
IdleOK ==
    /\ armed = {} /\ due = {} /\ Off /\ At("outside")
    /\ \/ current_state = "standby"
       \/ current_state = "scanning" /\ "ll_scan_stop" \in Ops /\ left["interval"] = 0
    /\ \/ todo = <<>>
       \/ todo = ScanStart /\ goal = "scanning" /\ callbacks = "scanning"
       \/ todo = ConnCreate /\ goal = "initiating" /\ callbacks = "initiating"
       \/ todo = ScanStop /\ current_state = "scanning"

\* A start function on its way from one timer to the other: no time passes.
StartingOK ==
    /\ armed = {"interval"} /\ due = {} /\ left["interval"] = ScanInterval
    /\ lapsing \subseteq {"single"}
    /\ goal \in {"scanning", "initiating"} /\ callbacks = goal /\ cb["interval"] = goal
    /\ \/ todo = ToEnter(goal) /\ Off /\ (At("outside") \/ At("up"))
       \/ /\ current_state = goal /\ At("outside")
          /\ \/ todo \in {ToRotate(goal), ToPrepare(goal), ToListen(goal)} /\ Off
             \/ todo = ToSetOut /\ Initiates /\ Listening /\ radio.age = 0
             \/ todo = ToArm /\ Ready /\ Listening /\ radio.age = 0

\* The window is open as long as the single shot runs, and ends so much before the
\* interval.
RunningOK ==
    /\ "interval" \in armed /\ armed \subseteq {"interval", "single"} /\ lapsing = {}
    /\ current_state \in {"scanning", "initiating"}
    /\ callbacks = current_state /\ cb["interval"] = current_state
    /\ Ready
    /\ IF "single" \in armed
       THEN /\ left["interval"] = left["single"] + (ScanInterval - ScanWindow)
            /\ cb["single"] = current_state /\ WindowRadio
            /\ due # {} => due = {"single"} /\ left["single"] = 0
       ELSE /\ left["interval"] <= ScanInterval - ScanWindow
            /\ Off \/ (Late /\ due = {})
            /\ due # {} => due = {"interval"} /\ left["interval"] = 0
    /\ InCall => due = {} /\ \A i \in armed : left[i] > 0
    /\ \/ todo = <<>> /\ At("outside")
       \/ todo = <<>> /\ At("up") /\ "single" \in armed /\ Listening /\ radio.age = 0
       \/ todo = ScanStart /\ goal = "scanning" /\ current_state = "scanning" /\ At("outside")
       \/ /\ todo = ScanStop /\ current_state = "scanning" /\ "ll_scan_stop" \in Ops
          /\ At("outside") \/ At("tested")
       \/ /\ todo = ConnCancel /\ current_state = "initiating"
          /\ At("outside") \/ At("tested")

\* A stop function that has stopped the interval: no time passes.
StoppingOK ==
    /\ armed \subseteq {"single"} /\ due = {} /\ callbacks = current_state
    /\ Ready
    /\ "single" \in armed => left["single"] > 0
    /\ \/ /\ todo = ToStopSingle /\ current_state = "scanning" /\ "ll_scan_stop" \in Ops
          /\ IF armed = {} THEN Off /\ (At("outside") => left["interval"] = 0) ELSE WindowRadio
       \/ todo = ToCancel /\ Initiates /\ WindowRadio
       \/ todo = ToStopIfs /\ Initiates /\ WindowRadio /\ armed = {}
       \/ todo = ToStop /\ WindowRadio /\ armed = {} /\ current_state \in {"scanning", "initiating"}
       \/ /\ todo = ToLeave /\ Off /\ armed = {} /\ At("outside")
          /\ current_state \in {"scanning", "initiating"}
    /\ At("outside") \/ At("down") \/ (At("tested") /\ "single" \in armed)

\* No compare event is left over, and the T_IFS timer is not used.
LapsingOK ==
    /\ leftover = {} /\ lapsing \subseteq {"interval", "single"} /\ cb["ifs"] = "standby"

\* The driver's count is right, but for the timer that a call is starting or stopping.
One(i) == IF i \in armed THEN 1 ELSE 0
Armed == One("interval") + One("single") + One("ifs")

CountOK ==
    /\ \/ within = Outside \/ within.at \in {"tested", "marked", "cleared"}
       \/ within \in [at : {"up", "down", "zero"}, count : {Armed}]
    /\ count = IF At("up") THEN Armed - 1
               ELSE IF At("down") /\ within.at # "zero" THEN Armed + 1 ELSE Armed
    /\ running <=> (count # 0 \/ within.at \in {"up", "zero"})
    /\ within.at = "zero" => armed = {}

Base == LapsingOK /\ CountOK

ScannerInv == LinkInv /\ Base /\ (IdleOK \/ StartingOK \/ RunningOK \/ StoppingOK)

-----------------------------------------------------------------------------
(* The steps of the calls.                                                   *)

LEMMA TailIs ==
    ASSUME NEW s \in Seq(Steps), NEW t \in Seq(Steps), Len(s) = Len(t) + 1,
           \A k \in 1 .. Len(t) : s[k + 1] = t[k]
    PROVE  s # <<>> /\ Head(s) = s[1] /\ Tail(s) = t
<1>1. Len(s) \in Nat /\ Len(t) \in Nat /\ s # <<>> /\ Head(s) = s[1]
  OBVIOUS
<1>2. /\ Tail(s) \in Seq(Steps) /\ Len(Tail(s)) = Len(t)
      /\ \A k \in 1 .. Len(t) : Tail(s)[k] = s[k + 1]
  BY <1>1
<1>3. Tail(s) = t
  BY <1>2, SameSequence
<1> QED BY <1>1, <1>3

\* A script whose first step is a and what remains after it.
Follows(s, a, t) == s # <<>> /\ Head(s) = a /\ Tail(s) = t

LEMMA StartSteps ==
    /\ \A st \in {"scanning", "initiating"} :
         /\ Follows(ToEnter(st), Do("enter"), ToRotate(st))
         /\ Follows(ToRotate(st), Do("rotate"), ToPrepare(st))
         /\ Follows(ToPrepare(st), Do("prepare"), ToListen(st))
         /\ Follows(ToListen(st), Do("listen"), IF st = "initiating" THEN ToSetOut ELSE ToArm)
    /\ Follows(ToSetOut, Do("set_out"), ToArm)
    /\ Follows(ToArm, Arming("single"), <<>>)
    /\ Follows(ScanStart, Arming("interval"), ToEnter("scanning"))
    /\ Follows(ConnCreate, Arming("interval"), ToEnter("initiating"))
<1>1. ASSUME NEW st \in {"scanning", "initiating"}
      PROVE  /\ Follows(ToEnter(st), Do("enter"), ToRotate(st))
             /\ Follows(ToRotate(st), Do("rotate"), ToPrepare(st))
             /\ Follows(ToPrepare(st), Do("prepare"), ToListen(st))
             /\ Follows(ToListen(st), Do("listen"),
                        IF st = "initiating" THEN ToSetOut ELSE ToArm)
  <2>1. CASE st = "scanning"
    BY <2>1 DEF Follows, ToEnter, ToRotate, ToPrepare, ToListen, ToArm
  <2>2. CASE st = "initiating"
    BY <2>2 DEF Follows, ToEnter, ToRotate, ToPrepare, ToListen, ToSetOut
  <2> QED BY <2>1, <2>2
<1>2. Follows(ToArm, Arming("single"), <<>>) /\ Follows(ToSetOut, Do("set_out"), ToArm)
  BY DEF ToArm, ToSetOut, Follows
<1>3. Follows(ScanStart, Arming("interval"), ToEnter("scanning"))
  <2> DEFINE t == ToEnter("scanning")
  <2>1. /\ ScanStart \in Seq(Steps) /\ Len(ScanStart) = 6 /\ ScanStart[1] = Arming("interval")
        /\ ScanStart[2] = Do("enter") /\ ScanStart[3] = Do("rotate")
        /\ ScanStart[4] = Do("prepare") /\ ScanStart[5] = Do("listen")
        /\ ScanStart[6] = Arming("single")
    BY StepTypes DEF ScanStart, Enter, Names, Timers
  <2>2. /\ t \in Seq(Steps) /\ Len(t) = 5
        /\ t[1] = Do("enter") /\ t[2] = Do("rotate") /\ t[3] = Do("prepare")
        /\ t[4] = Do("listen") /\ t[5] = Arming("single")
    BY StepTypes DEF ToEnter, Names, Timers
  <2> HIDE DEF t
  <2>3. Len(ScanStart) = Len(t) + 1 /\ \A k \in 1 .. Len(t) : ScanStart[k + 1] = t[k]
    BY <2>1, <2>2
  <2>4. ScanStart # <<>> /\ Head(ScanStart) = ScanStart[1] /\ Tail(ScanStart) = t
    BY <2>1, <2>2, <2>3, TailIs
  <2> QED BY <2>1, <2>4 DEF Follows, t
<1>4. Follows(ConnCreate, Arming("interval"), ToEnter("initiating"))
  <2> DEFINE t == ToEnter("initiating")
  <2>1. /\ ConnCreate \in Seq(Steps) /\ Len(ConnCreate) = 7
        /\ ConnCreate[1] = Arming("interval") /\ ConnCreate[2] = Do("enter")
        /\ ConnCreate[3] = Do("rotate") /\ ConnCreate[4] = Do("prepare")
        /\ ConnCreate[5] = Do("listen") /\ ConnCreate[6] = Do("set_out")
        /\ ConnCreate[7] = Arming("single")
    BY StepTypes DEF ConnCreate, Enter, Names, Timers
  <2>2. /\ t \in Seq(Steps) /\ Len(t) = 6
        /\ t[1] = Do("enter") /\ t[2] = Do("rotate") /\ t[3] = Do("prepare")
        /\ t[4] = Do("listen") /\ t[5] = Do("set_out") /\ t[6] = Arming("single")
    BY StepTypes DEF ToEnter, Names, Timers
  <2> HIDE DEF t
  <2>3. Len(ConnCreate) = Len(t) + 1 /\ \A k \in 1 .. Len(t) : ConnCreate[k + 1] = t[k]
    BY <2>1, <2>2
  <2>4. ConnCreate # <<>> /\ Head(ConnCreate) = ConnCreate[1] /\ Tail(ConnCreate) = t
    BY <2>1, <2>2, <2>3, TailIs
  <2> QED BY <2>1, <2>4 DEF Follows, t
<1> QED BY <1>1, <1>2, <1>3, <1>4

LEMMA StopSteps ==
    /\ Follows(ScanStop, MustStop("interval"), ToStopSingle)
    /\ Follows(ToStopSingle, MustStop("single"), ToStop)
    /\ Follows(ConnCancel, Stopping("interval"), ToCancel)
    /\ Follows(ToCancel, Stopping("single"), ToStopIfs)
    /\ Follows(ToStopIfs, Stopping("ifs"), ToStop)
    /\ Follows(ToStop, Do("radio_stop"), ToLeave)
    /\ Follows(ToLeave, Do("standby"), <<>>)
BY DEF Follows, ScanStop, ToStopSingle, ConnCancel, ToCancel, ToStopIfs, ToStop, ToLeave

-----------------------------------------------------------------------------
(* The radio driver's calls and interrupts in the states of a scanner.       *)

LEMMA ListenFromOff ==
    ASSUME NEW r \in Radios, NEW next \in BOOLEAN, Is(r, {}, FALSE, "off", FALSE)
    PROVE  LET q == R!Recv(r, IF next THEN {"tx_next"} ELSE {}) IN
           Is(q, {"rx"}, next, "rx", FALSE) /\ q.age = 0 /\ q.out = r.out
<1> DEFINE f == IF next THEN {"tx_next"} ELSE {}
           q == [r EXCEPT !.status = @ \union {"rx"}, !.flags = @ \union f, !.ptr = "inbuf",
                     !.shorts = IF "tx_next" \in f THEN @ \union {"txen"} ELSE @]
<1>1. /\ q \in Radios /\ q.status = {"rx"} /\ q.flags = f /\ q.end = FALSE
      /\ q.shorts = (IF next THEN {"txen"} ELSE {}) /\ q.phase = "off" /\ q.out = r.out
  BY DEF Radios, Is
<1>2. R!Recv(r, f) = [q EXCEPT !.phase = "rx", !.age = 0]
  BY <1>1 DEF R!Recv, R!Enable
<1> HIDE DEF q
<1>3. Is(R!Recv(r, f), {"rx"}, next, "rx", FALSE)
  BY <1>1, <1>2 DEF Is, Radios
<1>4. R!Recv(r, f).age = 0 /\ R!Recv(r, f).out = r.out
  BY <1>1, <1>2 DEF Radios
<1> QED BY <1>3, <1>4

\* radio_prepare() of an idle radio.
LEMMA PrepareOff ==
    ASSUME NEW r \in Radios, NEW ch \in Channels, Is(r, {}, FALSE, "off", FALSE)
    PROVE  LET q == R!Prepare(r, ch) IN
           q \in Radios /\ Is(q, {}, FALSE, "off", FALSE) /\ q.out = r.out
<1>1. R!ch2freq(ch) >= 0
  BY DEF Channels, R!ch2freq
<1>2. R!Prepare(r, ch) = [r EXCEPT !.ch = ch]
  BY <1>1 DEF Is, R!Prepare
<1> QED BY <1>2 DEF Is, Radios

LEMMA SetOutIs ==
    ASSUME NEW r \in Radios, NEW s, NEW next \in BOOLEAN, NEW p, Is(r, s, next, p, FALSE)
    PROVE  LET q == R!SetOutBuffer(r, "connect_req") IN
           Is(q, s, next, p, FALSE) /\ q.out = "connect_req" /\ q.age = r.age
BY DEF Is, Radios, R!SetOutBuffer

LEMMA StopOff ==
    ASSUME NEW r \in Radios, Is(r, {}, FALSE, "off", r.end) \/ r.status # {}
    PROVE  Is(R!Stop(r), {}, FALSE, "off", r.end) /\ R!Stop(r).out = r.out
<1>1. CASE r.status = {}
  BY <1>1 DEF R!Stop
<1>2. CASE r.status # {}
  <2>1. R!Stop(r) = [r EXCEPT !.status = {}, !.flags = {}, !.shorts = {}, !.phase = "off", !.age = 0]
    BY <1>2 DEF R!Stop
  <2> QED BY <2>1 DEF Is, Radios
<1> QED BY <1>1, <1>2

\* An END with no follow-up.
LEMMA EndOff ==
    ASSUME NEW r \in Radios, NEW s, Is(r, s, FALSE, "off", TRUE)
    PROVE  LET q == R!HandleEnd(r) IN
           Is(q, {}, FALSE, "off", FALSE) /\ q.out = r.out
BY DEF Is, Radios, R!HandleEnd

\* The END of a packet that an initiator may answer: the radio is sending.
LEMMA EndSends ==
    ASSUME NEW r \in Radios, Is(r, {"rx"}, TRUE, "tx", TRUE)
    PROVE  LET q == R!HandleEnd(r) IN
           /\ Is(q, {"tx"}, FALSE, "tx", FALSE)
           /\ q.ptr = r.out /\ q.out = r.out /\ q.inbuf = r.inbuf
<1> DEFINE idle == [r EXCEPT !.end = FALSE, !.status = {}]
<1>1. /\ idle \in Radios /\ idle.end = FALSE /\ idle.flags = {"tx_next"} /\ idle.shorts = {"txen"}
      /\ idle.phase = "tx" /\ idle.out = r.out /\ idle.inbuf = r.inbuf
  BY DEF Is, Radios
<1>2. R!HandleEnd(r) = [idle EXCEPT !.status = {"tx"}, !.flags = @ \ {"tx_next"}, !.ptr = r.out,
                                    !.shorts = @ \ {"txen"}]
  BY DEF Is, R!HandleEnd, R!Received
<1> HIDE DEF idle
<1>3. Is(R!HandleEnd(r), {"tx"}, FALSE, "tx", FALSE)
  BY <1>1, <1>2 DEF Is, Radios
<1>4. /\ R!HandleEnd(r).ptr = r.out /\ R!HandleEnd(r).out = r.out
      /\ R!HandleEnd(r).inbuf = r.inbuf
  BY <1>1, <1>2 DEF Radios
<1> QED BY <1>3, <1>4

LEMMA AfterIs ==
    ASSUME NEW r \in Radios, NEW s, NEW next \in BOOLEAN, NEW p, Is(r, s, next, p, FALSE)
    PROVE  LET q == R!AfterEnd(r) IN
           Is(q, s, next, IF next THEN "tx" ELSE "off", TRUE) /\ q.out = r.out
BY DEF Is, Radios, R!AfterEnd

-----------------------------------------------------------------------------
(* The radio in its window.                                                  *)

\* scan_interval_cb(), init_interval_cb(): the radio listens.
LEMMA ListenOpens ==
    ASSUME LinkInv, Off, NEW st \in {"scanning", "initiating"}
    PROVE  /\ Is(Listen(st), {"rx"}, st = "initiating", "rx", FALSE)
           /\ st = "initiating" => Listen(st).out = "connect_req"
<1> DEFINE tuned == R!Prepare(radio, Channel(rotated_ch_idx))
           on(next) == R!Recv(tuned, IF next THEN {"tx_next"} ELSE {})
<1>1. radio \in Radios /\ Tuned(radio) /\ Channel(rotated_ch_idx) \in Channels
  BY IndexTypes DEF LinkInv, RadioOK
<1>2. tuned \in Radios /\ Is(tuned, {}, FALSE, "off", FALSE) /\ tuned.ch \in Channels
  BY <1>1, PrepareOff, PrepareRadio DEF Off
<1> HIDE DEF tuned
<1>3. ASSUME NEW next \in BOOLEAN
      PROVE  Is(on(next), {"rx"}, next, "rx", FALSE) /\ on(next) \in Radios
  <2>1. (IF next THEN {"tx_next"} ELSE {}) \in SUBSET {"tx_next"}
    OBVIOUS
  <2>2. on(next) \in Radios
    BY <1>2, <2>1, RecvRadio
  <2> QED BY <1>2, <2>2, ListenFromOff
<1>4. CASE st = "scanning"
  <2>1. Listen(st) = on(FALSE)
    BY <1>4 DEF Listen, RecvFlags, tuned
  <2> HIDE DEF on
  <2> QED BY <1>3, <1>4, <2>1 DEF Is
<1>5. CASE st = "initiating"
  <2>1. Listen(st) = R!SetOutBuffer(on(TRUE), "connect_req")
    BY <1>5 DEF Listen, RecvFlags, tuned
  <2> HIDE DEF on
  <2>2. Is(R!SetOutBuffer(on(TRUE), "connect_req"), {"rx"}, TRUE, "rx", FALSE)
        /\ R!SetOutBuffer(on(TRUE), "connect_req").out = "connect_req"
    BY <1>3, SetOutIs
  <2> QED BY <1>5, <2>1, <2>2 DEF Is
<1> QED BY <1>4, <1>5

\* scan_radio_recv_cb() and init_radio_recv_cb() in the window: the radio listens
\* again unless it connects, and then is off until the next window.
LEMMA WindowEnd ==
    ASSUME LinkInv, WindowRadio, Ready, callbacks \in {"scanning", "initiating"}, RadioInterrupt
    PROVE  WindowRadio' /\ Ready'
<1>1. /\ radio.end = TRUE /\ callbacks' = callbacks /\ ~AdvRadioSendCb /\ ~AdvRadioRecvCb
      /\ radio \in Radios /\ Tuned(radio)
  BY DEF RadioInterrupt, RadioIrqOnly, ScanRadioRecvCb, InitRadioRecvCb, AdvRadioSendCb,
         AdvRadioRecvCb, EndIrq, LinkInv, RadioOK, Radios
<1>2. Heard \/ (Initiates /\ Connected)
  BY <1>1 DEF WindowRadio, Listening, Connecting, Off, Is
<1>3. R!HandleEnd(radio) \in Radios /\ Tuned(R!HandleEnd(radio))
      /\ R!HandleEnd(radio).ch = radio.ch
  BY <1>1, EndRadio
<1>4. CASE Heard /\ ~Initiates
  <2>1. R!Received(radio) /\ callbacks = "scanning"
    BY <1>4 DEF Heard, Is, R!Received, Initiates
  <2>2. radio' = R!Recv(R!HandleEnd(radio), {})
    BY <1>1, <2>1 DEF RadioInterrupt, RadioIrqOnly, ScanRadioRecvCb, InitRadioRecvCb, EndIrq
  <2>3. Is(R!HandleEnd(radio), {}, FALSE, "off", FALSE)
    BY <1>1, <1>4, EndOff DEF Heard, Is
  <2>4. Is(R!Recv(R!HandleEnd(radio), IF FALSE THEN {"tx_next"} ELSE {}), {"rx"}, FALSE, "rx", FALSE)
    BY <1>3, <2>3, ListenFromOff
  <2>5. Listening' /\ ~Initiates'
    BY <1>1, <2>1, <2>2, <2>4 DEF Listening, Is, Initiates
  <2> QED BY <2>5 DEF WindowRadio, Ready
<1>5. CASE Heard /\ Initiates
  <2> DEFINE handled == R!HandleEnd(radio)
  <2>1. R!Received(radio) /\ callbacks = "initiating" /\ radio.out = "connect_req"
    BY <1>5 DEF Heard, Is, R!Received, Initiates, Ready
  <2>2. IF Connectable(radio.inbuf)
        THEN target' = radio.inbuf.from /\ radio' = handled
        ELSE radio' = R!Recv(R!Stop(handled), {"tx_next"}) /\ UNCHANGED target
    BY <1>1, <2>1 DEF RadioInterrupt, RadioIrqOnly, ScanRadioRecvCb, InitRadioRecvCb, EndIrq
  <2>3. /\ Is(handled, {"tx"}, FALSE, "tx", FALSE)
        /\ handled.ptr = "connect_req" /\ handled.out = "connect_req"
        /\ handled.inbuf = radio.inbuf
    <3>1. Is(radio, {"rx"}, TRUE, "tx", TRUE)
      BY <1>5 DEF Heard, Is
    <3> QED BY <1>1, <2>1, <3>1, EndSends
  <2> HIDE DEF handled
  <2>4. CASE Connectable(radio.inbuf)
    <3>1. Connectable(radio'.inbuf) /\ target' = radio'.inbuf.from
      BY <2>2, <2>3, <2>4
    <3>2. Connecting' /\ radio'.out = "connect_req"
      BY <2>2, <2>3, <2>4, <3>1 DEF Connecting, Is, Connectable
    <3> QED BY <1>1, <1>5, <3>2 DEF WindowRadio, Ready, Initiates
  <2>5. CASE ~Connectable(radio.inbuf)
    <3>1. handled \in Radios /\ Tuned(handled)
      BY <1>3 DEF handled
    <3>2. R!Stop(handled) \in Radios
      BY <3>1, StopRadio
    <3>3. Is(R!Stop(handled), {}, FALSE, "off", FALSE) /\ R!Stop(handled).out = "connect_req"
      <4>1. handled.status # {} /\ handled.end = FALSE
        BY <2>3 DEF Is
      <4> QED BY <2>3, <3>1, <4>1, StopOff
    <3>4. /\ Is(R!Recv(R!Stop(handled), IF TRUE THEN {"tx_next"} ELSE {}), {"rx"}, TRUE, "rx", FALSE)
          /\ R!Recv(R!Stop(handled), IF TRUE THEN {"tx_next"} ELSE {}).out = "connect_req"
      BY <3>2, <3>3, ListenFromOff
    <3>5. Listening' /\ radio'.out = "connect_req"
      BY <1>1, <1>5, <2>2, <2>5, <3>4 DEF Listening, Is, Initiates
    <3> QED BY <3>5 DEF WindowRadio, Ready
  <2> QED BY <2>4, <2>5
<1>6. CASE Initiates /\ Connected
  <2>1. ~R!Received(radio)
    BY <1>6 DEF Connected, Is, R!Received
  <2>2. radio' = R!HandleEnd(radio)
    BY <1>1, <2>1 DEF RadioInterrupt, RadioIrqOnly, ScanRadioRecvCb, InitRadioRecvCb
  <2>3. Off' /\ radio'.out = radio.out
    BY <1>1, <1>6, <2>2, EndOff DEF Connected, Off, Is
  <2> QED BY <1>1, <1>6, <2>3 DEF WindowRadio, Ready, Initiates
<1> QED BY <1>2, <1>4, <1>5, <1>6

\* A packet ends: one that was received, or the CONNECT_REQ.
LEMMA WindowPacket ==
    ASSUME LinkInv, WindowRadio, Ready, PacketSent \/ PacketReceived
    PROVE  WindowRadio' /\ Ready'
<1>1. /\ radio.end = FALSE /\ callbacks' = callbacks /\ target' = target
      /\ radio \in Radios
  BY DEF PacketSent, PacketReceived, link, LinkInv, RadioOK, Radios
<1>2. Listening \/ (Initiates /\ Connecting)
  BY <1>1 DEF WindowRadio, Heard, Connected, Off, Is, PacketSent, PacketReceived
<1>3. CASE Listening
  <2>1. PICK pdu \in Pdus : radio' = [R!AfterEnd(radio) EXCEPT !.inbuf = pdu]
    BY <1>3 DEF Listening, Is, PacketSent, PacketReceived, R!PacketReceived
  <2>2. R!AfterEnd(radio).out = radio.out
        /\ Is(R!AfterEnd(radio), {"rx"}, Initiates, IF Initiates THEN "tx" ELSE "off", TRUE)
    BY <1>1, <1>3, AfterIs DEF Listening, Initiates
  <2>3. R!AfterEnd(radio) \in Radios
    BY <1>1, ZeroAge DEF R!AfterEnd, Radios
  <2>4. Heard' /\ radio'.out = radio.out
    BY <1>1, <2>1, <2>2, <2>3 DEF Heard, Is, Initiates, Radios
  <2> QED BY <1>1, <2>4 DEF WindowRadio, Ready, Initiates
<1>4. CASE Initiates /\ Connecting
  <2>1. radio' = R!AfterEnd(radio)
    BY <1>4 DEF Connecting, Is, PacketSent, PacketReceived, R!PacketSent
  <2>2. Connected' /\ radio'.out = radio.out
    <3>1. Is(radio, {"tx"}, FALSE, "tx", FALSE)
      BY <1>4 DEF Connecting
    <3>2. Is(R!AfterEnd(radio), {"tx"}, FALSE, "off", TRUE) /\ R!AfterEnd(radio).out = radio.out
      BY <1>1, <3>1, AfterIs
    <3> QED BY <2>1, <3>2 DEF Connected, Is
  <2> QED BY <1>1, <1>4, <2>2 DEF WindowRadio, Ready, Initiates
<1> QED BY <1>2, <1>3, <1>4

LEMMA WindowAged ==
    ASSUME LinkInv, WindowRadio, Ready, UNCHANGED <<callbacks, target>>, radio' = R!Aged(radio)
    PROVE  WindowRadio' /\ Ready'
<1>1. /\ radio'.status = radio.status /\ radio'.flags = radio.flags
      /\ radio'.shorts = radio.shorts /\ radio'.phase = radio.phase /\ radio'.end = radio.end
      /\ radio'.ptr = radio.ptr /\ radio'.inbuf = radio.inbuf /\ radio'.out = radio.out
  BY DEF R!Aged, Radios, LinkInv, RadioOK
<1>2. Connecting => Connecting'
  BY <1>1 DEF Connecting, Is, Connectable
<1> QED BY <1>1, <1>2 DEF WindowRadio, Listening, Heard, Connected, Off, Is, Ready, Initiates

\* radio_stop(): also with the END of a packet pending.
LEMMA WindowStop ==
    ASSUME LinkInv, WindowRadio, radio' = R!Stop(radio)
    PROVE  /\ Off' \/ Late'
           /\ (radio.end = FALSE => Off')
           /\ radio'.out = radio.out
<1>1. radio \in Radios
  BY DEF LinkInv, RadioOK
<1>2. /\ Is(radio, {}, FALSE, "off", radio.end) \/ radio.status # {}
      /\ radio.end \in BOOLEAN
  BY DEF WindowRadio, Listening, Heard, Connecting, Connected, Off, Is
<1>3. Is(radio', {}, FALSE, "off", radio.end) /\ radio'.out = radio.out
  BY <1>1, <1>2, StopOff
<1> QED BY <1>2, <1>3 DEF Off, Late, Is

-----------------------------------------------------------------------------
(* The steps of the calls, one by one.                                       *)

\* What a step leaves alone, between two accesses to the timers.
Unmoved == UNCHANGED <<armed, left, cb, leftover, lapsing, count, running>>

LEMMA DoStep ==
    ASSUME ThreadStep, within = Outside, NEW a \in Names, Head(todo) = Do(a)
    PROVE  /\ todo # <<>> /\ todo' = Tail(todo) /\ Unmoved
           /\ UNCHANGED <<callbacks, target, due, goal, within>>
           /\ current_state' = (IF a = "enter" THEN goal
                                ELSE IF a = "standby" THEN "standby" ELSE current_state)
           /\ a \in {"enter", "standby", "rotate"} => radio' = radio
           /\ a = "radio_stop" => radio' = R!Stop(radio)
           /\ a = "prepare" => radio' = R!Prepare(radio, Channel(adv_ch_idx))
           /\ a = "listen" => radio' = R!Recv(radio, RecvFlags(goal))
           /\ a = "set_out" => radio' = R!SetOutBuffer(radio, "connect_req")
<1>1. todo # <<>> /\ (SetState \/ SelectChannel \/ RadioCall)
  BY StepOf
<1>2. \A b \in Names : Do(a) = Do(b) => a = b
  BY DistinctSteps
<1>3. CASE SetState
  BY <1>1, <1>2, <1>3 DEF SetState, Doing, Done, Names, timers, Unmoved
<1>4. CASE SelectChannel
  BY <1>1, <1>2, <1>4 DEF SelectChannel, Doing, Done, Names, timers, Unmoved
<1>5. CASE RadioCall
  BY <1>1, <1>2, <1>5 DEF RadioCall, Doing, Done, Names, timers, link, Unmoved
<1> QED BY <1>1, <1>3, <1>4, <1>5

\* timer_stop() tests the flag ...
LEMMA TestStep ==
    ASSUME ThreadStep, within = Outside, NEW i \in Timers, Head(todo) \in {Stopping(i), MustStop(i)}
    PROVE  /\ Unmoved /\ UNCHANGED <<current_state, callbacks, target, radio, due, goal>>
           /\ IF i \in armed THEN within' = [at |-> "tested", count |-> 0] /\ todo' = todo
              ELSE /\ within' = Outside
                   /\ todo' = IF Head(todo) = Stopping(i) THEN Tail(todo) ELSE <<>>
<1>0. ~LoadCount /\ ~StoreCount /\ ~Halt /\ \A j \in Timers : ~ClearFlag(j)
  BY DEF LoadCount, StoreCount, Halt, ClearFlag, Outside
<1>1. ~ArmInterval /\ ~ArmSingle /\ ~SetState /\ ~SelectChannel /\ ~RadioCall
  BY DistinctSteps DEF ArmInterval, ArmSingle, SetState, SelectChannel, RadioCall, Doing, Names,
                       Timers
<1>2. \A j \in Timers : StopTimer(j) => j = i
  BY DistinctSteps DEF StopTimer, Doing, Names
<1>3. StopTimer(i)
  BY <1>0, <1>1, <1>2 DEF ThreadStep
<1>4. Stopping(i) # MustStop(i) /\ Stopping(i).must = FALSE /\ MustStop(i).must = TRUE
  BY DistinctSteps DEF Names, Stopping, MustStop
<1>5. Head(todo).must <=> Head(todo) = MustStop(i)
  BY <1>4
<1> QED BY <1>3, <1>4, <1>5 DEF StopTimer, Done, Fail, link, timers, Unmoved

\* ... takes it away ...
LEMMA ClearStep ==
    ASSUME ThreadStep, At("tested"), NEW i \in Timers, Head(todo) \in {Stopping(i), MustStop(i)}
    PROVE  ClearFlag(i)
<1>1. within # Outside
  BY DEF At, Outside
<1>2. /\ ~ArmInterval /\ ~ArmSingle /\ ~SetState /\ ~SelectChannel /\ ~RadioCall
      /\ ~LoadCount /\ ~StoreCount /\ ~Halt
  BY <1>1 DEF ArmInterval, ArmSingle, SetState, SelectChannel, RadioCall, LoadCount, StoreCount,
              Halt, Doing, At
<1>3. \A j \in Timers : ~StopTimer(j)
  BY <1>1 DEF StopTimer, Doing
<1>4. \A j \in Timers : ClearFlag(j) => Head(todo).timer = j
  BY DEF ClearFlag
<1>5. Head(todo).timer = i
  BY DEF Stopping, MustStop
<1> QED BY <1>2, <1>3, <1>4, <1>5 DEF ThreadStep

\* ... and counts, as timer_start() does.
Counts == LoadCount \/ StoreCount \/ Halt

LEMMA CountStep ==
    ASSUME ThreadStep, At("up") \/ At("down")
    PROVE  Counts
<1>1. within # Outside
  BY DEF At, Outside
<1>2. ~ArmInterval /\ ~ArmSingle /\ ~SetState /\ ~SelectChannel /\ ~RadioCall
  BY <1>1 DEF ArmInterval, ArmSingle, SetState, SelectChannel, RadioCall, Doing
<1>3. \A j \in Timers : ~StopTimer(j) /\ ~ClearFlag(j)
  BY <1>1 DEF StopTimer, ClearFlag, Doing, At
<1> QED BY <1>2, <1>3 DEF ThreadStep, Counts

LEMMA ArmStep ==
    ASSUME ThreadStep, within = Outside, NEW i \in {"interval", "single"},
           Head(todo) = Arming(i), goal \in {"scanning", "initiating"}
    PROVE  /\ UNCHANGED <<current_state, callbacks, target, radio, due, goal>>
           /\ i \notin armed =>
                StartTimer(i, IF i = "interval" THEN ScanInterval ELSE ScanWindow)
           /\ i \in armed => /\ Unmoved /\ within' = Outside
                            /\ todo' = IF i = "interval" THEN <<>> ELSE Tail(todo)
<1>1. (i = "interval" /\ ArmInterval) \/ (i = "single" /\ ArmSingle)
  BY StepOf DEF Timers
<1>2. CASE i = "interval" /\ ArmInterval
  BY <1>2 DEF ArmInterval, Done, Fail, link, Period, timers, Unmoved
<1>3. CASE i = "single" /\ ArmSingle
  BY <1>3 DEF ArmSingle, Done, timers, Unmoved
<1> QED BY <1>1, <1>2, <1>3

\* A step of a call finds no interrupt to be served and no timer due.
LEMMA CallGoesOn ==
    ASSUME ThreadStep
    PROVE  due = {} /\ ~radio.end /\ Expired = {} /\ InCall
<1>1. CASE within = Outside
  BY <1>1, StepOf DEF CanRun, InCall
<1>2. CASE within # Outside
  <2>1. CanRun
    BY DEF ThreadStep, ArmInterval, ArmSingle, SetState, SelectChannel, RadioCall, StopTimer, Doing,
           LoadCount, StoreCount, Halt, ClearFlag
  <2> QED BY <1>2, <2>1 DEF CanRun, InCall
<1> QED BY <1>1, <1>2

-----------------------------------------------------------------------------
(* The counting of the timer driver.                                         *)

LEMMA Wheres ==
    /\ At("outside") => ~At("tested") /\ ~At("up") /\ ~At("down")
    /\ At("tested") => ~At("outside") /\ ~At("up") /\ ~At("down")
    /\ At("up") => ~At("outside") /\ ~At("tested") /\ ~At("down")
    /\ At("down") => ~At("outside") /\ ~At("tested") /\ ~At("up")
    /\ within = Outside => At("outside")
    /\ CountOK /\ At("outside") => within = Outside
<1>1. within = Outside => At("outside")
  BY DEF At, Outside
<1>2. CountOK /\ At("outside") => within = Outside
  BY DEF At, CountOK
<1> QED BY <1>1, <1>2 DEF At

LEMMA Counted ==
    ASSUME LinkInv, NEW i \in Timers
    PROVE  /\ Armed \in 0 .. 3 /\ (armed # {} => Armed > 0) /\ (armed = {} => Armed = 0)
           /\ i \notin armed /\ armed' = armed \union {i} => Armed' = Armed + 1
           /\ i \in armed /\ armed' = armed \ {i} => Armed' = Armed - 1
           /\ armed' = armed => Armed' = Armed
BY Numbers DEF Armed, One, Timers

LEMMA SameCount ==
    ASSUME CountOK, UNCHANGED <<armed, count, running, within>>
    PROVE  CountOK'
BY DEF CountOK, Armed, One, At

\* timer_start() and timer_stop() up to the timer's flag.
LEMMA StartCounts ==
    ASSUME LinkInv, CountOK, within = Outside, NEW i \in Timers, i \notin armed, NEW t,
           StartTimer(i, t)
    PROVE  CountOK' /\ At("up")'
<1>1. /\ armed' = armed \union {i} /\ count' = count /\ running' = running
      /\ within' = [at |-> "marked", count |-> 0]
  BY DEF StartTimer, Mark
<1>2. count = Armed /\ (running <=> count # 0)
  BY Wheres DEF CountOK, Outside
<1>3. count' = Armed' - 1
  BY <1>1, <1>2, Counted
<1>4. At("up")'
  BY <1>1 DEF At
<1> QED BY <1>1, <1>2, <1>3, <1>4 DEF CountOK

LEMMA TestCounts ==
    ASSUME CountOK, within = Outside, UNCHANGED <<armed, count, running>>,
           within' = [at |-> "tested", count |-> 0]
    PROVE  CountOK' /\ At("tested")'
<1>1. At("tested")' /\ ~At("up")' /\ ~At("down")' /\ ~At("up") /\ ~At("down")
  BY DEF At, Outside
<1>2. count = Armed /\ (running <=> count # 0) /\ Armed' = Armed
  BY <1>1 DEF CountOK, Armed, One, Outside
<1> QED BY <1>1, <1>2 DEF CountOK

LEMMA ClearCounts ==
    ASSUME LinkInv, CountOK, At("tested"), NEW i \in Timers, i \in armed, ClearFlag(i)
    PROVE  CountOK' /\ At("down")'
<1>1. /\ armed' = armed \ {i} /\ count' = count /\ running' = running
      /\ within' = [at |-> "cleared", count |-> 0]
  BY DEF ClearFlag
<1>2. count = Armed /\ running /\ count # 0
  <2>1. within.at = "tested"
    BY DEF At
  <2> QED BY <2>1, Wheres, Counted DEF CountOK, Outside
<1>3. count' = Armed' + 1
  <2>1. Armed \in 1 .. 3 /\ Armed' = Armed - 1
    BY <1>1, Counted
  <2> QED BY <1>1, <1>2, <2>1
<1>4. At("down")' /\ ~At("up")'
  BY <1>1 DEF At
<1> QED BY <1>1, <1>2, <1>3, <1>4 DEF CountOK

\* The counting that follows: with the store the count is right again; at 0 the counter
\* is stopped and cleared.
Cleared ==
    IF armed = {} THEN /\ lapsing' = {j \in Timers : cb[j] # "standby"}
                       /\ left' = [j \in Timers |-> 0]
                  ELSE UNCHANGED <<left, lapsing>>

Lingers ==
    /\ UNCHANGED <<left, lapsing>>
    /\ \A w \in {"outside", "tested", "up", "down"} : At(w)' <=> At(w)

LEMMA LoadCounts ==
    ASSUME LinkInv, CountOK, At("up") \/ At("down"), At("up") => armed # {}, LoadCount
    PROVE  CountOK' /\ UNCHANGED <<armed, cb, leftover>> /\ Lingers
<1>1. UNCHANGED <<armed, cb, leftover, count, left, lapsing>>
  BY DEF LoadCount
<1>2. Armed' = Armed /\ "ifs" \in Timers
  BY <1>1 DEF Armed, One, Timers
<1>3. CASE within.at = "marked"
  <2>1. within' = [at |-> "up", count |-> U8(count + 1)] /\ running' = (running \/ count = 0)
    BY <1>3 DEF LoadCount
  <2>2. At("up") /\ At("up")' /\ within'.at = "up"
    BY <1>3, <2>1 DEF At
  <2>3. count = Armed - 1 /\ (running <=> count # 0)
    BY <1>3, <2>2 DEF CountOK
  <2>4. U8(count + 1) = Armed
    BY <1>2, <2>2, <2>3, Counted, Numbers DEF U8
  <2>5. CountOK'
    BY <1>1, <1>2, <2>1, <2>2, <2>3, <2>4 DEF CountOK
  <2>6. Lingers
    BY <1>1, <1>3, <2>1 DEF Lingers, At
  <2> QED BY <1>1, <2>5, <2>6
<1>4. CASE within.at = "cleared"
  <2>1. within' = [at |-> "down", count |-> U8(count + 255)] /\ running' = running
    BY <1>4 DEF LoadCount
  <2>2. At("down") /\ At("down")' /\ within'.at = "down" /\ ~At("up") /\ ~At("up")'
    BY <1>4, <2>1 DEF At
  <2>3. count = Armed + 1 /\ (running <=> count # 0)
    BY <1>4, <2>2 DEF CountOK
  <2>4. U8(count + 255) = Armed
    BY <1>2, <2>3, Counted, Numbers DEF U8
  <2>5. CountOK'
    BY <1>1, <1>2, <2>1, <2>2, <2>3, <2>4 DEF CountOK
  <2>6. Lingers
    BY <1>1, <1>4, <2>1 DEF Lingers, At
  <2> QED BY <1>1, <2>5, <2>6
<1> QED BY <1>3, <1>4 DEF LoadCount

LEMMA StoreCounts ==
    ASSUME LinkInv, CountOK, At("up") \/ At("down"), At("up") => armed # {}, StoreCount
    PROVE  /\ CountOK' /\ UNCHANGED <<armed, cb, leftover>>
           /\ (within' = Outside /\ Cleared) \/ Lingers
<1>1. UNCHANGED <<armed, cb, leftover, left, lapsing, running>> /\ count' = within.count
  BY DEF StoreCount
<1>2. Armed' = Armed /\ "ifs" \in Timers
  BY <1>1 DEF Armed, One, Timers
<1>3. within.at \in {"up", "down"} /\ within.count = Armed /\ (Armed = 0 <=> armed = {})
  <2>1. within.at \in {"up", "down"}
    BY DEF StoreCount
  <2> QED BY <1>2, <2>1, Counted DEF CountOK, Outside
<1>4. running
  <2>1. CASE within.at = "up"
    BY <2>1 DEF CountOK
  <2>2. CASE within.at = "down"
    <3>1. At("down") /\ ~At("up")
      BY <2>2 DEF At
    <3> QED BY <1>2, <2>2, <3>1, Counted, Numbers DEF CountOK
  <2> QED BY <1>3, <2>1, <2>2
<1>5. CASE within.at = "down" /\ armed = {}
  <2>1. within' = [at |-> "zero", count |-> 0]
    BY <1>3, <1>5 DEF StoreCount
  <2>2. At("down")' /\ ~At("up")' /\ within'.at = "zero" /\ Armed' = 0
    BY <1>2, <1>3, <1>5, <2>1 DEF At
  <2>3. CountOK'
    BY <1>1, <1>2, <1>3, <1>4, <2>1, <2>2 DEF CountOK
  <2>4. Lingers
    BY <1>1, <1>5, <2>1 DEF Lingers, At
  <2> QED BY <1>1, <2>3, <2>4
<1>6. CASE ~(within.at = "down" /\ armed = {})
  <2>1. within' = Outside /\ armed # {}
    <3>1. armed # {}
      BY <1>3, <1>6 DEF At
    <3> QED BY <1>3, <1>6, <3>1 DEF StoreCount
  <2>2. ~At("up")' /\ ~At("down")' /\ within'.at = "outside"
    BY <2>1 DEF At, Outside
  <2>3. CountOK'
    BY <1>1, <1>2, <1>3, <1>4, <2>1, <2>2 DEF CountOK
  <2> QED BY <1>1, <2>1, <2>3 DEF Cleared
<1> QED BY <1>5, <1>6

LEMMA HaltCounts ==
    ASSUME LinkInv, CountOK, Halt
    PROVE  CountOK' /\ UNCHANGED <<armed, cb, leftover>> /\ within' = Outside /\ Cleared
<1>1. /\ UNCHANGED <<armed, cb, leftover, count>> /\ within' = Outside /\ running' = FALSE
      /\ within.at = "zero" /\ Clear({}, 0)
  BY DEF Halt
<1>2. Armed' = Armed /\ "ifs" \in Timers
  BY <1>1 DEF Armed, One, Timers
<1>3. within.count = Armed /\ count = Armed
  BY <1>1 DEF CountOK, Outside, At
<1>4. Armed = 0 /\ armed = {}
  BY <1>1, <1>2, Counted DEF CountOK
<1>5. CountOK'
  <2>1. ~At("up")' /\ ~At("down")' /\ within'.at = "outside"
    BY <1>1 DEF At, Outside
  <2> QED BY <1>1, <1>2, <1>3, <1>4, <2>1 DEF CountOK
<1>6. Cleared
  BY <1>1, <1>4 DEF Clear, Cleared
<1> QED BY <1>1, <1>5, <1>6

LEMMA CallCounts ==
    ASSUME LinkInv, CountOK, At("up") \/ At("down"), At("up") => armed # {}, Counts
    PROVE  /\ CountOK' /\ UNCHANGED <<armed, cb, leftover>>
           /\ UNCHANGED <<current_state, callbacks, target, radio, due, todo, goal>>
           /\ (within' = Outside /\ Cleared) \/ Lingers
<1>1. UNCHANGED <<current_state, callbacks, target, radio, due, todo, goal>>
  BY DEF Counts, LoadCount, StoreCount, Halt, link
<1> QED BY <1>1, LoadCounts, StoreCounts, HaltCounts DEF Counts

\* The steps that API calls, interrupts and packets take in a quiet state.
LEMMA Quiet ==
    ASSUME due = {}, radio.end = FALSE, Expired = {}, Next,
           radio.phase = "off" \/ radio.age = 0
    PROVE  Call \/ ThreadStep \/ Tick
<1>1. ~TimerIrq
  BY DEF TimerIrq
<1>2. ~TimerCallback
  BY DEF TimerCallback, AdvIntervalCb, ScanIntervalCb, AdvSingleShotCb, StopRadioCb, NextToServe
<1>3. ~RadioInterrupt
  BY DEF RadioInterrupt, RadioIrqOnly, AdvRadioSendCb, AdvRadioRecvCb, ScanRadioRecvCb,
         InitRadioRecvCb, EndIrq
<1>4. ~PacketSent /\ ~PacketReceived
  BY DEF PacketSent, PacketReceived
<1> QED BY <1>1, <1>2, <1>3, <1>4 DEF Next

LEMMA ScannerConstants ==
    ASSUME ScannerOnly
    PROVE  /\ ScanInterval \in Nat /\ ScanWindow \in Nat /\ ScanWindow > 0
           /\ ScanWindow < ScanInterval /\ CallDelay = 0
BY LinkLayerAssumption DEF ScannerOnly

\* A call takes no time.
LEMMA NoTick ==
    ASSUME ScannerOnly, LinkInv, Tick
    PROVE  ~InCall
BY DEF ScannerOnly, LinkInv, CallOK, Tick

-----------------------------------------------------------------------------
(* Nothing is armed.                                                         *)

LEMMA IdleCall ==
    ASSUME ScannerOnly, LinkInv, Base, IdleOK, Call
    PROVE  Base' /\ IdleOK'
<1>1. /\ UNCHANGED <<current_state, radio, armed, left, cb, leftover, lapsing, count, running, due,
                     within>>
      /\ todo = <<>>
  BY DEF Call, ll_advertise_start, ll_advertise_stop, ll_scan_start, ll_scan_stop,
         ll_conn_create, ll_conn_cancel, CanCall, BeginCall, InCall, timers, link
<1>2. Base' /\ Off' /\ At("outside")'
  BY <1>1, SameCount DEF Base, LapsingOK, IdleOK, Off, Is, At
<1>3. \/ todo' = ScanStart /\ goal' = "scanning" /\ callbacks' = "scanning"
      \/ todo' = ConnCreate /\ goal' = "initiating" /\ callbacks' = "initiating"
      \/ todo' = ScanStop /\ current_state = "scanning"
  <2>1. ~CanCall("ll_advertise_start") /\ ~CanCall("ll_advertise_stop")
    BY DEF CanCall, ScannerOnly
  <2>2. ll_scan_start \/ ll_scan_stop \/ ll_conn_create
    BY <2>1 DEF Call, ll_advertise_start, ll_advertise_stop, ll_conn_cancel, IdleOK
  <2> QED BY <2>2 DEF ll_scan_start, ll_scan_stop, ll_conn_create, BeginCall, ScanStart,
                      ScanStop, ConnCreate
<1> QED BY <1>1, <1>2, <1>3 DEF IdleOK

LEMMA IdleThread ==
    ASSUME ScannerOnly, LinkInv, Base, IdleOK, ThreadStep
    PROVE  Base' /\ (IdleOK' \/ StartingOK')
<1> USE Numbers, ScannerConstants
<1>1. within = Outside /\ todo # <<>> /\ LapsingOK /\ CountOK
  <2>1. within = Outside
    BY Wheres DEF IdleOK, Base
  <2> QED BY <2>1, CallGoesOn DEF InCall, Base
<1>2. ASSUME goal \in {"scanning", "initiating"}, callbacks = goal,
             Follows(todo, Arming("interval"), ToEnter(goal))
      PROVE  Base' /\ StartingOK'
  <2>0. "interval" \in Timers /\ "interval" \notin armed
    BY DEF Timers, IdleOK
  <2>1. /\ StartTimer("interval", ScanInterval)
        /\ UNCHANGED <<current_state, callbacks, target, radio, due, goal>>
    BY <1>1, <1>2, <2>0, ArmStep DEF Follows
  <2>2. /\ armed' = {"interval"} /\ left'["interval"] = ScanInterval /\ cb'["interval"] = goal
        /\ lapsing' = lapsing \ {"interval"} /\ leftover' = leftover
        /\ cb'["ifs"] = cb["ifs"] /\ todo' = ToEnter(goal)
    BY <1>1, <1>2, <2>1 DEF StartTimer, Mark, IdleOK, Timers, Follows, LapsingOK
  <2>3. Off'
    BY <2>1 DEF IdleOK, Off, Is
  <2>4. CountOK' /\ At("up")'
    BY <1>1, <2>0, <2>1, StartCounts
  <2> QED BY <1>1, <1>2, <2>1, <2>2, <2>3, <2>4 DEF IdleOK, StartingOK, LapsingOK, Base
<1>3. CASE todo = ScanStart /\ goal = "scanning" /\ callbacks = "scanning"
  BY <1>2, <1>3, StartSteps
<1>4. CASE todo = ConnCreate /\ goal = "initiating" /\ callbacks = "initiating"
  BY <1>2, <1>4, StartSteps
<1>5. CASE todo = ScanStop
  <2>1. Head(todo) = MustStop("interval") /\ MustStop("interval") # Stopping("interval")
        /\ "interval" \in Timers /\ "interval" \notin armed
    BY <1>5, StopSteps, DistinctSteps DEF Follows, Timers, Names, IdleOK
  <2>2. /\ Unmoved /\ todo' = <<>> /\ within' = Outside
        /\ UNCHANGED <<current_state, callbacks, target, radio, due, goal>>
    BY <1>1, <2>1, TestStep
  <2>3. Off' /\ At("outside")'
    BY <2>2 DEF IdleOK, Off, Is, At, Outside
  <2>4. CountOK'
    BY <1>1, <2>2, SameCount DEF Unmoved
  <2> QED BY <1>1, <2>2, <2>3, <2>4 DEF IdleOK, LapsingOK, Base, Unmoved
<1> QED BY <1>1, <1>3, <1>4, <1>5 DEF IdleOK

LEMMA IdleStep ==
    ASSUME ScannerOnly, LinkInv, Base, IdleOK, Next
    PROVE  Base' /\ (IdleOK' \/ StartingOK')
<1>1. due = {} /\ radio.end = FALSE /\ Expired = {} /\ radio.phase = "off"
  BY DEF IdleOK, Off, Is, Expired
<1>2. CASE Tick
  <2>1. todo = <<>> /\ ~running
    <3>1. todo = <<>> /\ within = Outside /\ CountOK /\ armed = {} /\ "ifs" \in Timers
      BY <1>2, NoTick, Wheres DEF InCall, Base, IdleOK, Timers
    <3>2. count = 0
      BY <3>1, Wheres, Counted DEF CountOK, Outside
    <3> QED BY <3>1, <3>2 DEF CountOK, Outside
  <2>2. /\ UNCHANGED <<current_state, callbacks, armed, cb, count, running, due, todo, goal, within>>
        /\ radio' = radio
    BY <1>1, <1>2 DEF Tick, link, R!Aged
  <2>3. left'["interval"] = left["interval"] /\ leftover' = leftover /\ lapsing' = lapsing
    BY <1>2, <2>1 DEF Tick, Timers
  <2>4. Off' /\ At("outside")'
    BY <2>2 DEF IdleOK, Off, Is, At
  <2>5. Base'
    BY <2>2, <2>3, SameCount DEF Base, LapsingOK
  <2> QED BY <2>1, <2>2, <2>3, <2>4, <2>5 DEF IdleOK
<1> QED BY <1>1, <1>2, Quiet, IdleCall, IdleThread

-----------------------------------------------------------------------------
(* A start function: nothing but its steps until the single shot is armed.   *)

LEMMA StartingThread ==
    ASSUME ScannerOnly, LinkInv, Base, StartingOK, ThreadStep
    PROVE  Base' /\ (StartingOK' \/ RunningOK')
<1> USE Numbers, ScannerConstants
<1> DEFINE rest == IF goal = "initiating" THEN ToSetOut ELSE ToArm
           same == Unmoved /\ UNCHANGED <<callbacks, target, due, goal, within>>
<1>1. /\ goal \in {"scanning", "initiating"} /\ armed = {"interval"} /\ callbacks = goal
      /\ lapsing \subseteq {"single"} /\ due = {} /\ radio \in Radios
      /\ (Initiates <=> goal = "initiating") /\ LapsingOK /\ CountOK
      /\ (At("outside") => within = Outside)
  BY Wheres DEF StartingOK, Initiates, Base
<1>0. same => Base' /\ (At("outside") => At("outside")')
  BY <1>1, SameCount DEF Base, LapsingOK, At, Unmoved
<1>2. ASSUME same, todo' \in {ToRotate(goal), ToPrepare(goal), ToListen(goal)}, Off',
             current_state' = goal, At("outside")
      PROVE  Base' /\ StartingOK'
  BY <1>0, <1>1, <1>2 DEF StartingOK, Unmoved
<1>12. CASE todo = ToEnter(goal) /\ Off /\ At("up")
  <2>1. /\ CountOK' /\ UNCHANGED <<armed, left, lapsing, cb, leftover>>
        /\ UNCHANGED <<current_state, callbacks, target, radio, due, todo, goal>>
        /\ within' = Outside \/ Lingers
    BY <1>1, <1>12, CountStep, CallCounts DEF Cleared, Lingers
  <2>2. Off' /\ (At("outside") \/ At("up"))' /\ LapsingOK'
    BY <1>1, <1>12, <2>1 DEF Off, Is, At, Outside, LapsingOK, Lingers
  <2> QED BY <1>1, <1>12, <2>1, <2>2 DEF StartingOK, Base, ToEnter
<1>3. CASE todo = ToEnter(goal) /\ Off /\ At("outside")
  <2>1. /\ same /\ todo' = ToRotate(goal) /\ current_state' = goal /\ radio' = radio
    BY <1>1, <1>3, StartSteps, DoStep DEF Follows, Names
  <2>2. Off'
    BY <1>3, <2>1 DEF Off, Is
  <2> QED BY <1>2, <1>3, <2>1, <2>2
<1>4. CASE current_state = goal /\ todo = ToRotate(goal) /\ Off /\ At("outside")
  <2>1. /\ same /\ todo' = ToPrepare(goal) /\ current_state' = goal /\ radio' = radio
    BY <1>1, <1>4, StartSteps, DoStep DEF Follows, Names
  <2>2. Off'
    BY <1>4, <2>1 DEF Off, Is
  <2> QED BY <1>2, <1>4, <2>1, <2>2
<1>5. CASE current_state = goal /\ todo = ToPrepare(goal) /\ Off /\ At("outside")
  <2>1. /\ same /\ todo' = ToListen(goal) /\ current_state' = goal
        /\ radio' = R!Prepare(radio, Channel(adv_ch_idx))
    BY <1>1, <1>5, StartSteps, DoStep DEF Follows, Names
  <2>2. Channel(adv_ch_idx) \in Channels
    BY IndexTypes DEF LinkInv
  <2>3. Off'
    BY <1>5, <2>1, <2>2, PrepareOff DEF Off, Is
  <2> QED BY <1>2, <1>5, <2>1, <2>3
<1>6. CASE current_state = goal /\ todo = ToListen(goal) /\ Off /\ At("outside")
  <2> DEFINE on(next) == R!Recv(radio, IF next THEN {"tx_next"} ELSE {})
  <2>1. /\ same /\ todo' = rest /\ current_state' = goal
        /\ radio' = on(goal = "initiating")
    BY <1>1, <1>6, StartSteps, DoStep DEF Follows, Names, RecvFlags
  <2>2. ASSUME NEW next \in BOOLEAN PROVE Is(on(next), {"rx"}, next, "rx", FALSE) /\ on(next).age = 0
    BY <1>6, ListenFromOff DEF Off
  <2> HIDE DEF on
  <2>3. Listening' /\ radio'.age = 0
    BY <1>1, <2>1, <2>2 DEF Listening, Initiates, Is
  <2>4. (Ready' \/ Initiates') /\ (Initiates' <=> Initiates)
    BY <2>1 DEF Ready, Initiates
  <2> QED BY <1>0, <1>1, <1>6, <2>1, <2>3, <2>4 DEF StartingOK, Unmoved
<1>7. CASE /\ current_state = goal /\ todo = ToSetOut /\ Initiates /\ Listening /\ radio.age = 0
           /\ At("outside")
  <2>1. /\ same /\ todo' = ToArm /\ current_state' = goal
        /\ radio' = R!SetOutBuffer(radio, "connect_req")
    BY <1>1, <1>7, StartSteps, DoStep DEF Follows, Names
  <2>2. Is(radio, {"rx"}, TRUE, "rx", FALSE)
    BY <1>7 DEF Listening, Is
  <2>3. Listening' /\ radio'.age = 0 /\ Ready'
    BY <1>1, <1>7, <2>1, <2>2, SetOutIs DEF Listening, Initiates, Is, Ready
  <2> QED BY <1>0, <1>1, <1>7, <2>1, <2>3 DEF StartingOK, Unmoved
<1>8. CASE /\ current_state = goal /\ todo = ToArm /\ Ready /\ Listening /\ radio.age = 0
           /\ At("outside")
  <2>0. "single" \in Timers /\ "single" \notin armed
    BY <1>1 DEF Timers
  <2>1. /\ StartTimer("single", ScanWindow)
        /\ UNCHANGED <<current_state, callbacks, target, radio, due, goal>>
    BY <1>1, <1>8, <2>0, StartSteps, ArmStep DEF Follows
  <2>2. /\ armed' = {"interval", "single"} /\ left'["single"] = ScanWindow
        /\ left'["interval"] = ScanInterval /\ cb'["single"] = goal /\ cb'["interval"] = goal
        /\ cb'["ifs"] = "standby" /\ leftover' = {} /\ lapsing' = {}
    BY <1>1, <2>1 DEF StartTimer, Mark, StartingOK, LapsingOK, Timers
  <2>5. todo' = <<>>
    BY <1>8, <2>1, StartSteps DEF StartTimer, Follows
  <2>3. WindowRadio' /\ Ready' /\ Listening' /\ radio'.age = 0
    BY <1>8, <2>1 DEF WindowRadio, Listening, Ready, Initiates, Is
  <2>4. CountOK' /\ At("up")'
    BY <1>1, <1>8, <2>0, <2>1, StartCounts
  <2> QED BY <1>1, <1>8, <2>1, <2>2, <2>3, <2>4, <2>5 DEF RunningOK, LapsingOK, Base
<1> QED BY <1>12, <1>3, <1>4, <1>5, <1>6, <1>7, <1>8 DEF StartingOK

LEMMA StartingStep ==
    ASSUME ScannerOnly, LinkInv, Base, StartingOK, Next
    PROVE  Base' /\ (StartingOK' \/ RunningOK')
<1>1. due = {} /\ radio.end = FALSE /\ (radio.phase = "off" \/ radio.age = 0)
  BY DEF StartingOK, Off, Listening, Is
<1>2. Expired = {}
  BY ScannerConstants DEF StartingOK, Expired, LapsingOK, Base
<1>3. InCall
  BY StartSteps DEF StartingOK, Follows, InCall
<1>4. ~Call
  BY <1>3 DEF Call, ll_advertise_start, ll_advertise_stop, ll_scan_start, ll_scan_stop,
              ll_conn_create, ll_conn_cancel, CanCall
<1>5. ~Tick
  BY <1>3, NoTick
<1> QED BY <1>1, <1>2, <1>4, <1>5, Quiet, StartingThread

-----------------------------------------------------------------------------
(* A stop function: its steps, and what the radio still receives.            *)

\* Its calls of timer_stop(), of which that of the single shot may find it armed.
LEMMA StoppingTimer ==
    ASSUME ScannerOnly, LinkInv, Base, StoppingOK, ThreadStep, ~At("outside"),
           UNCHANGED <<callbacks, target, radio>> =>
               /\ (WindowRadio => WindowRadio') /\ (Off => Off') /\ Ready'
               /\ (Initiates => Initiates')
    PROVE  Base' /\ StoppingOK'
<1> USE Numbers, ScannerConstants
<1>1. /\ armed \subseteq {"single"} /\ due = {} /\ callbacks = current_state /\ Ready
      /\ "single" \in armed => left["single"] > 0
      /\ LapsingOK /\ CountOK /\ "single" \in Timers
  BY DEF StoppingOK, Base, Timers
<1>2. CASE At("down")
  <2>1. /\ CountOK' /\ UNCHANGED <<armed, cb, leftover>>
        /\ UNCHANGED <<current_state, callbacks, target, radio, due, todo, goal>>
        /\ (within' = Outside /\ Cleared) \/ Lingers
    BY <1>1, <1>2, Wheres, CountStep, CallCounts
  <2>2. CASE within' = Outside /\ Cleared
    <3>1. LapsingOK' /\ At("outside")'
      BY <1>1, <2>1, <2>2 DEF LapsingOK, At, Outside, Timers, Cleared
    <3>2. armed = {} => left'["interval"] = 0
      BY <2>2 DEF Timers, Cleared
    <3>3. armed = {} \/ left'["single"] = left["single"]
      BY <2>2 DEF Cleared
    <3> QED BY <1>1, <2>1, <3>1, <3>2, <3>3 DEF StoppingOK, Base
  <2>3. CASE Lingers
    <3>1. LapsingOK' /\ At("down")' /\ ~At("outside")' /\ left' = left
      BY <1>1, <1>2, <2>1, <2>3, Wheres DEF LapsingOK, Lingers
    <3> QED BY <1>1, <1>2, <2>1, <3>1, Wheres DEF StoppingOK, Base
  <2> QED BY <2>1, <2>2, <2>3
<1>3. CASE At("tested") /\ "single" \in armed
  <2>1. \/ todo = ToStopSingle /\ current_state = "scanning" /\ WindowRadio /\ Tail(todo) = ToStop
        \/ todo = ToCancel /\ Initiates /\ WindowRadio /\ Tail(todo) = ToStopIfs
    BY <1>3, Wheres, StopSteps DEF StoppingOK, Follows
  <2>2. Head(todo) \in {Stopping("single"), MustStop("single")}
    BY <2>1, StopSteps DEF Follows
  <2>3. ClearFlag("single")
    BY <1>1, <1>3, <2>2, ClearStep
  <2>4. /\ armed' = {} /\ lapsing' \subseteq lapsing \union {"single"}
        /\ UNCHANGED <<current_state, callbacks, target, radio, cb, leftover, due, goal>>
        /\ todo' = Tail(todo)
    BY <1>1, <2>3 DEF ClearFlag, link, Early
  <2>5. CountOK' /\ At("down")'
    BY <1>1, <1>3, <2>3, ClearCounts
  <2>6. LapsingOK'
    BY <1>1, <2>4 DEF LapsingOK
  <2>7. CASE todo = ToStopSingle /\ current_state = "scanning" /\ WindowRadio /\ Tail(todo) = ToStop
    BY <1>1, <2>4, <2>5, <2>6, <2>7 DEF StoppingOK, Base
  <2>8. CASE todo = ToCancel /\ Initiates /\ WindowRadio /\ Tail(todo) = ToStopIfs
    BY <1>1, <2>4, <2>5, <2>6, <2>8 DEF StoppingOK, Base
  <2> QED BY <2>1, <2>7, <2>8
<1> QED BY <1>2, <1>3 DEF StoppingOK

LEMMA StoppingThread ==
    ASSUME ScannerOnly, LinkInv, Base, StoppingOK, ThreadStep
    PROVE  Base' /\ (StoppingOK' \/ IdleOK')
<1> USE Numbers, ScannerConstants
<1>1. /\ armed \subseteq {"single"} /\ due = {} /\ callbacks = current_state /\ Ready
      /\ "single" \in armed => left["single"] > 0
      /\ ~radio.end /\ radio.end \in BOOLEAN /\ LapsingOK /\ CountOK
      /\ "single" \in Timers /\ "ifs" \in Timers
  BY CallGoesOn DEF StoppingOK, Radios, Base, Timers
<1>2. ASSUME UNCHANGED <<callbacks, target, radio>>
      PROVE  /\ (WindowRadio => WindowRadio') /\ (Off => Off') /\ Ready'
             /\ (Initiates => Initiates')
  BY <1>1, <1>2 DEF WindowRadio, Listening, Heard, Connecting, Connected, Off, Is, Ready,
                    Initiates, Connectable
<1>10. CASE ~At("outside")
  BY <1>2, <1>10, StoppingTimer
<1>11. CASE At("outside")
  <2>0. within = Outside
    BY <1>1, <1>11, Wheres
  <2>10. ASSUME Unmoved, within' = within
         PROVE  Base' /\ At("outside")'
    BY <1>1, <1>11, <2>10, SameCount DEF Base, LapsingOK, At, Unmoved
  <2>11. ASSUME within' = [at |-> "tested", count |-> 0], Unmoved, "single" \in armed
         PROVE  Base' /\ At("tested")'
    BY <1>1, <2>0, <2>11, TestCounts DEF Base, LapsingOK, Unmoved
  <2>5. CASE todo = ToStopSingle /\ current_state = "scanning" /\ "ll_scan_stop" \in Ops
             /\ (IF armed = {} THEN Off /\ left["interval"] = 0 ELSE WindowRadio)
    <3>1. Head(todo) = MustStop("single") /\ MustStop("single") # Stopping("single")
      BY <2>5, StopSteps, DistinctSteps DEF Follows, Names, Timers
    <3>2. /\ Unmoved /\ UNCHANGED <<current_state, callbacks, target, radio, due, goal>>
          /\ IF "single" \in armed THEN within' = [at |-> "tested", count |-> 0] /\ todo' = todo
             ELSE within' = Outside /\ todo' = <<>>
      BY <1>1, <2>0, <3>1, TestStep
    <3>3. CASE "single" \in armed
      BY <1>1, <1>2, <2>11, <2>5, <3>2, <3>3 DEF StoppingOK, Unmoved
    <3>4. CASE "single" \notin armed
      BY <1>1, <1>2, <2>0, <2>10, <2>5, <3>2, <3>4 DEF IdleOK, Unmoved
    <3> QED BY <3>3, <3>4
  <2>6. CASE todo = ToCancel /\ Initiates /\ WindowRadio
    <3>1. Head(todo) = Stopping("single") /\ Tail(todo) = ToStopIfs
      BY <2>6, StopSteps DEF Follows
    <3>2. /\ Unmoved /\ UNCHANGED <<current_state, callbacks, target, radio, due, goal>>
          /\ IF "single" \in armed THEN within' = [at |-> "tested", count |-> 0] /\ todo' = todo
             ELSE within' = Outside /\ todo' = ToStopIfs
      BY <1>1, <2>0, <3>1, TestStep
    <3>3. CASE "single" \in armed
      BY <1>1, <1>2, <2>11, <2>6, <3>2, <3>3 DEF StoppingOK, Unmoved
    <3>4. CASE "single" \notin armed
      BY <1>1, <1>2, <2>0, <2>10, <2>6, <3>2, <3>4 DEF StoppingOK, Unmoved
    <3> QED BY <3>3, <3>4
  <2>7. CASE todo = ToStopIfs /\ Initiates /\ WindowRadio /\ armed = {}
    <3>1. Head(todo) = Stopping("ifs") /\ Tail(todo) = ToStop
      BY <2>7, StopSteps DEF Follows
    <3>2. /\ Unmoved /\ todo' = ToStop /\ within' = within
          /\ UNCHANGED <<current_state, callbacks, target, radio, due, goal>>
      BY <1>1, <2>0, <2>7, <3>1, TestStep
    <3>3. current_state \in {"scanning", "initiating"}
      BY <1>1, <2>7 DEF Initiates
    <3> QED BY <1>1, <1>2, <2>7, <2>10, <3>2, <3>3 DEF StoppingOK, Unmoved
  <2>8. CASE /\ todo = ToStop /\ WindowRadio /\ armed = {}
             /\ current_state \in {"scanning", "initiating"}
    <3>1. Head(todo) = Do("radio_stop") /\ Tail(todo) = ToLeave
      BY <2>8, StopSteps DEF Follows
    <3>2. /\ todo' = ToLeave /\ current_state' = current_state /\ radio' = R!Stop(radio)
          /\ Unmoved /\ UNCHANGED <<callbacks, target, due, goal, within>>
      BY <2>0, <3>1, DoStep DEF Names
    <3>3. Off' /\ radio'.out = radio.out
      BY <1>1, <2>8, <3>2, WindowStop
    <3>4. Ready'
      BY <1>1, <3>2, <3>3 DEF Ready, Initiates
    <3> QED BY <1>1, <2>8, <2>10, <3>2, <3>3, <3>4 DEF StoppingOK, Unmoved
  <2>9. CASE todo = ToLeave /\ Off /\ armed = {}
    <3>1. Head(todo) = Do("standby") /\ Tail(todo) = <<>>
      BY <2>9, StopSteps DEF Follows
    <3>2. /\ todo' = <<>> /\ current_state' = "standby" /\ radio' = radio
          /\ Unmoved /\ UNCHANGED <<callbacks, target, due, goal, within>>
      BY <2>0, <3>1, DoStep DEF Names
    <3> QED BY <1>1, <1>2, <2>9, <2>10, <3>2 DEF IdleOK, Unmoved
  <2> QED BY <1>11, <2>5, <2>6, <2>7, <2>8, <2>9 DEF StoppingOK
<1> QED BY <1>10, <1>11

LEMMA StoppingStep ==
    ASSUME ScannerOnly, LinkInv, Base, StoppingOK, Next
    PROVE  Base' /\ (StoppingOK' \/ IdleOK')
<1>1. due = {} /\ InCall /\ Expired = {}
  <2>1. due = {} /\ InCall
    BY StopSteps DEF StoppingOK, Follows, InCall
  <2>2. \A i \in armed : left[i] # 0 /\ i \notin leftover
    BY DEF StoppingOK, LapsingOK, Base
  <2> QED BY <2>1, <2>2 DEF Expired
<1>2. ~Call
  BY <1>1 DEF Call, ll_advertise_start, ll_advertise_stop, ll_scan_start, ll_scan_stop,
              ll_conn_create, ll_conn_cancel, CanCall
<1>3. ~Tick
  BY <1>1, NoTick
<1>4. ~TimerIrq /\ ~TimerCallback
  BY <1>1 DEF TimerIrq, TimerCallback, AdvIntervalCb, ScanIntervalCb, AdvSingleShotCb,
              StopRadioCb, NextToServe
<1>5. CASE RadioInterrupt \/ PacketSent \/ PacketReceived
  <2>1. ~Off /\ (WindowRadio /\ Ready) /\ callbacks \in {"scanning", "initiating"}
    <3>1. ~Off
      BY <1>5 DEF Off, Is, RadioInterrupt, RadioIrqOnly, AdvRadioSendCb, AdvRadioRecvCb,
                  ScanRadioRecvCb, InitRadioRecvCb, EndIrq, PacketSent, PacketReceived
    <3> QED BY <3>1 DEF StoppingOK, Initiates
  <2>2. WindowRadio' /\ Ready'
    BY <1>5, <2>1, WindowEnd, WindowPacket
  <2>3. Unmoved /\ UNCHANGED <<current_state, callbacks, due, todo, within>>
    BY <1>5, <2>1 DEF RadioInterrupt, RadioIrqOnly, AdvRadioSendCb, AdvRadioRecvCb,
                  ScanRadioRecvCb, InitRadioRecvCb, EndIrq, PacketSent, PacketReceived, link,
                  timers, thread, Unmoved
  <2>4. Base' /\ (Initiates => Initiates') /\ \A w \in {"outside", "down", "tested"} : At(w)' <=> At(w)
    BY <2>3, SameCount DEF Base, LapsingOK, Initiates, Unmoved, At
  <2> QED BY <2>1, <2>2, <2>3, <2>4 DEF StoppingOK, Unmoved
<1> QED BY <1>2, <1>3, <1>4, <1>5, StoppingThread DEF Next

-----------------------------------------------------------------------------
(* The windows.                                                              *)

\* A step that leaves the timers and the radio as they are.
LEMMA RunningSame ==
    ASSUME Base, RunningOK, Unmoved, within' = within,
           UNCHANGED <<current_state, callbacks, target, radio>>
    PROVE  /\ Base' /\ Ready' /\ (WindowRadio => WindowRadio')
           /\ (Off => Off') /\ (Late => Late') /\ (Listening => Listening')
           /\ At("outside")' <=> At("outside")
<1>1. CountOK' /\ LapsingOK' /\ (At("outside")' <=> At("outside"))
  BY SameCount DEF Unmoved, Base, LapsingOK, At
<1> QED
  BY <1>1 DEF RunningOK, Base, WindowRadio, Listening, Heard, Connecting, Connected, Off, Late, Is,
              Ready, Initiates, Connectable

\* While a timer is due or being served no call is in progress.
LEMMA RunningServed ==
    ASSUME LinkInv, Base, RunningOK, due # {} \/ (\E i \in armed : left[i] = 0)
    PROVE  ~InCall /\ todo = <<>> /\ within = Outside
<1>1. ~InCall
  <2>1. \A i \in armed : left[i] > 0 => left[i] # 0
    BY Numbers
  <2> QED BY <2>1 DEF RunningOK
<1> QED BY <1>1 DEF InCall

LEMMA RunningIrq ==
    ASSUME ScannerOnly, LinkInv, Base, RunningOK, TimerIrq
    PROVE  Base' /\ RunningOK'
<1> USE Numbers, ScannerConstants
<1>1. /\ due = {} /\ radio.end = FALSE /\ Expired # {} /\ due' = Expired /\ leftover = {}
      /\ Unmoved
      /\ UNCHANGED <<current_state, callbacks, target, radio, todo, goal, within>>
  BY DEF TimerIrq, link, thread, LapsingOK, Base, Radios, Unmoved
<1>2. \A i \in Expired : i \in armed /\ left[i] = 0
  BY <1>1 DEF Expired
<1>3. todo = <<>> /\ ~InCall /\ At("outside") /\ ~InCall'
  <2>1. PICK i \in Expired : TRUE
    BY <1>1
  <2>2. i \in armed /\ left[i] = 0
    BY <1>2, <2>1
  <2> QED BY <1>1, <2>2, RunningServed, Wheres DEF InCall
<1>4. CASE "single" \in armed
  <2>1. left["interval"] > 0 /\ armed \subseteq {"interval", "single"}
    BY <1>4 DEF RunningOK
  <2>2. "interval" \notin Expired
    BY <1>2, <2>1
  <2>3. Expired = {"single"}
    BY <1>1, <1>2, <2>1, <2>2
  <2>4. left["single"] = 0
    BY <1>2, <2>3
  <2> QED BY <1>1, <1>3, <1>4, <2>3, <2>4, RunningSame DEF RunningOK, Unmoved
<1>5. CASE "single" \notin armed
  <2>1. Expired = {"interval"} /\ left["interval"] = 0
    BY <1>1, <1>2, <1>5 DEF RunningOK
  <2>2. Off
    BY <1>1, <1>5 DEF RunningOK, Late, Is
  <2> QED BY <1>1, <1>3, <1>5, <2>1, <2>2, RunningSame DEF RunningOK, Unmoved
<1> QED BY <1>4, <1>5

\* scan_interval_cb(), init_interval_cb(): the window before is over, the next opens.
LEMMA RunningOpens ==
    ASSUME ScannerOnly, LinkInv, Base, RunningOK, ScanIntervalCb
    PROVE  Base' /\ RunningOK'
<1> USE Numbers, ScannerConstants
<1>1. /\ "interval" \in due /\ due' = due \ {"interval"}
      /\ radio' = Listen(cb["interval"]) /\ RestartInterval(ScanInterval, TRUE, ScanWindow)
      /\ UNCHANGED <<current_state, callbacks, target, leftover, todo, goal, within>>
  BY DEF ScanIntervalCb, NextToServe, thread
<1>2. /\ due = {"interval"} /\ "single" \notin armed /\ Off /\ todo = <<>>
      /\ armed = {"interval"} /\ current_state \in {"scanning", "initiating"}
      /\ callbacks = current_state /\ cb["interval"] = current_state
      /\ within = Outside /\ At("outside") /\ At("outside")' /\ ~InCall'
  <2>1. /\ due = {"interval"} /\ "single" \notin armed /\ Off
        /\ armed = {"interval"} /\ current_state \in {"scanning", "initiating"}
        /\ callbacks = current_state /\ cb["interval"] = current_state
    <3>1. ~("single" \in armed) /\ due # {}
      BY <1>1 DEF RunningOK
    <3>2. due = {"interval"} /\ armed = {"interval"} /\ (Off \/ (Late /\ due = {}))
      BY <3>1 DEF RunningOK
    <3> QED BY <3>1, <3>2 DEF RunningOK
  <2>2. todo = <<>> /\ within = Outside
    BY <2>1, RunningServed
  <2> QED BY <1>1, <2>1, <2>2 DEF At, InCall, Outside
<1>3. /\ armed' = {"interval", "single"} /\ left'["interval"] = ScanInterval
      /\ left'["single"] = ScanWindow /\ cb'["single"] = current_state
      /\ cb'["interval"] = current_state /\ cb'["ifs"] = cb["ifs"] /\ lapsing' \subseteq lapsing
  BY <1>1, <1>2 DEF RestartInterval, Timers
<1>6. CountOK'
  <2>1. count' = U8(count + 1) /\ running' = (running \/ count = 0)
    BY <1>1, <1>2 DEF RestartInterval
  <2>2. count = 1 /\ running
    BY <1>2, Wheres DEF Base, CountOK, Armed, One
  <2>3. count' = 2 /\ running'
    <3>1. U8(1 + 1) = 2
      BY DEF U8
    <3> QED BY <2>1, <2>2, <3>1
  <2>4. Armed' = 2
    BY <1>3 DEF Armed, One
  <2>5. within' = Outside /\ ~At("up")' /\ ~At("down")'
    BY <1>1, <1>2 DEF At, Outside
  <2> QED BY <2>3, <2>4, <2>5 DEF CountOK, Outside
<1>4. Listening' /\ Ready'
  <2>1. /\ Is(Listen(current_state), {"rx"}, current_state = "initiating", "rx", FALSE)
        /\ current_state = "initiating" => Listen(current_state).out = "connect_req"
    BY <1>2, ListenOpens
  <2> QED BY <1>1, <1>2, <2>1 DEF Listening, Ready, Initiates, Is
<1>5. lapsing = {}
  BY DEF RunningOK
<1> QED BY <1>1, <1>2, <1>3, <1>4, <1>5, <1>6 DEF RunningOK, LapsingOK, WindowRadio, Base

\* scan_singleshot_cb(), init_singleshot_cb(): it closes, also as a packet ends.
LEMMA RunningCloses ==
    ASSUME ScannerOnly, LinkInv, Base, RunningOK, NEW i \in {"single", "ifs"}, StopRadioCb(i)
    PROVE  Base' /\ RunningOK'
<1> USE Numbers, ScannerConstants
<1>1. /\ i \in due /\ due' = due \ {i} /\ radio' = R!Stop(radio) /\ Disarm(i, {})
      /\ UNCHANGED <<current_state, callbacks, target, cb, leftover, todo, goal, within>>
  BY DEF StopRadioCb, NextToServe, link, thread, Disarm
<1>2. /\ i = "single" /\ due = {"single"} /\ left["single"] = 0 /\ todo = <<>>
      /\ armed = {"interval", "single"} /\ WindowRadio /\ lapsing = {}
      /\ left["interval"] = ScanInterval - ScanWindow
      /\ within = Outside
  <2>1. "single" \in armed
    BY <1>1 DEF RunningOK
  <2>2. /\ due = {"single"} /\ left["single"] = 0
        /\ left["interval"] = left["single"] + (ScanInterval - ScanWindow)
    BY <1>1, <2>1 DEF RunningOK
  <2>3. i = "single" /\ todo = <<>> /\ within = Outside
    BY <1>1, <2>2, RunningServed
  <2>4. armed = {"interval", "single"} /\ WindowRadio /\ lapsing = {}
    BY <2>1 DEF RunningOK
  <2>5. left["interval"] = ScanInterval - ScanWindow
    BY <2>2
  <2> QED BY <2>2, <2>3, <2>4, <2>5
<1>6. /\ count = 2 /\ running /\ U8(count + 255) = 1 /\ At("outside") /\ At("outside")'
      /\ ~InCall'
  <2>1. At("outside") /\ At("outside")' /\ ~InCall'
    BY <1>1, <1>2 DEF At, InCall, Outside
  <2>2. count = 2 /\ running
    BY <1>2, <2>1, Wheres DEF Base, CountOK, Armed, One
  <2> QED BY <2>1, <2>2 DEF U8
<1>3. /\ armed' = {"interval"} /\ lapsing' = {} /\ left'["interval"] = left["interval"]
      /\ count' = 1 /\ running' = running
  <2>1. U8(count + 255) # 0
    BY <1>6
  <2>2. armed' = armed \ {i} /\ lapsing' = lapsing \union {} /\ left' = [left EXCEPT ![i] = 0]
    BY <1>1, <2>1 DEF Disarm
  <2>3. count' = 1
    BY <1>1, <1>6 DEF Disarm, CountDown
  <2>4. running' = running
    BY <1>1, <1>6, <2>1 DEF Disarm, CountDown
  <2> QED BY <1>2, <2>2, <2>3, <2>4
<1>7. CountOK'
  <2>1. Armed' = 1
    BY <1>3 DEF Armed, One
  <2>2. within' = Outside /\ ~At("up")' /\ ~At("down")'
    BY <1>1, <1>2 DEF At, Outside
  <2>3. count' = 1 /\ running'
    BY <1>3, <1>6
  <2> QED BY <2>1, <2>2, <2>3 DEF CountOK, Outside
<1>4. (Off' \/ Late') /\ radio'.out = radio.out
  BY <1>1, <1>2, WindowStop
<1>5. Ready'
  BY <1>1, <1>4 DEF Ready, Initiates, RunningOK
<1> QED BY <1>1, <1>2, <1>3, <1>4, <1>5, <1>6, <1>7 DEF RunningOK, LapsingOK, Base

LEMMA RunningCallback ==
    ASSUME ScannerOnly, LinkInv, Base, RunningOK, TimerCallback
    PROVE  Base' /\ RunningOK'
<1>1. ~AdvIntervalCb
  BY DEF AdvIntervalCb, RunningOK
<1>2. ~AdvSingleShotCb
  BY DEF AdvSingleShotCb, NextToServe, RunningOK
<1> QED BY <1>1, <1>2, RunningOpens, RunningCloses DEF TimerCallback

\* The END of a packet, and the END that a closed window has left pending.
LEMMA RunningRadio ==
    ASSUME ScannerOnly, LinkInv, Base, RunningOK,
           RadioInterrupt \/ PacketSent \/ PacketReceived
    PROVE  Base' /\ RunningOK'
<1>1. /\ Unmoved /\ UNCHANGED <<current_state, callbacks, due, todo, goal, within>>
      /\ callbacks \in {"scanning", "initiating"} /\ Ready
  <2>1. callbacks # "advertising" /\ callbacks \in {"scanning", "initiating"} /\ Ready
    BY DEF RunningOK
  <2> QED BY <2>1 DEF RadioInterrupt, RadioIrqOnly, AdvRadioSendCb, AdvRadioRecvCb,
                      ScanRadioRecvCb, InitRadioRecvCb, EndIrq, PacketSent, PacketReceived, link,
                      timers, thread, Unmoved
<1>2. /\ Base' /\ (\A w \in {"outside", "tested", "up"} : At(w)' <=> At(w))
      /\ (InCall' <=> InCall)
  BY <1>1, SameCount DEF Base, LapsingOK, Unmoved, At, InCall
<1>6. ~(todo = <<>> /\ At("up") /\ "single" \in armed /\ Listening /\ radio.age = 0)
  BY DEF Listening, Is, RadioInterrupt, RadioIrqOnly, AdvRadioSendCb, AdvRadioRecvCb,
         ScanRadioRecvCb, InitRadioRecvCb, EndIrq, PacketSent, PacketReceived
<1>3. ASSUME Ready', "single" \in armed => WindowRadio', "single" \notin armed => Off'
      PROVE  RunningOK'
  BY <1>1, <1>2, <1>3, <1>6 DEF RunningOK, Unmoved
<1>4. CASE "single" \in armed
  BY <1>1, <1>2, <1>3, <1>4, WindowEnd, WindowPacket DEF RunningOK
<1>5. CASE "single" \notin armed
  <2>1. Late /\ due = {}
    <3>1. ~Off
      BY DEF Off, Is, RadioInterrupt, RadioIrqOnly, AdvRadioSendCb, AdvRadioRecvCb,
             ScanRadioRecvCb, InitRadioRecvCb, EndIrq, PacketSent, PacketReceived
    <3> QED BY <1>5, <3>1 DEF RunningOK
  <2>2. radio' = R!HandleEnd(radio)
    BY <1>1, <2>1 DEF Late, Is, RadioInterrupt, RadioIrqOnly, AdvRadioSendCb, AdvRadioRecvCb,
                      ScanRadioRecvCb, InitRadioRecvCb, EndIrq, R!Received, R!Sent, PacketSent,
                      PacketReceived
  <2>3. Off' /\ radio'.out = radio.out
    <3>1. radio \in Radios
      BY Numbers
    <3> QED BY <2>1, <2>2, <3>1, EndOff DEF Off, Late
  <2>4. Ready'
    BY <1>1, <2>3 DEF Ready, Initiates
  <2> QED BY <1>2, <1>3, <1>5, <2>3, <2>4
<1> QED BY <1>4, <1>5

LEMMA RunningCall ==
    ASSUME ScannerOnly, LinkInv, Base, RunningOK, Call
    PROVE  Base' /\ RunningOK'
<1> USE Numbers
<1>1. /\ Unmoved /\ UNCHANGED <<current_state, target, radio, due, within>>
      /\ todo = <<>> /\ within = Outside /\ CanRun
  BY DEF Call, ll_advertise_start, ll_advertise_stop, ll_scan_start, ll_scan_stop,
         ll_conn_create, ll_conn_cancel, CanCall, BeginCall, InCall, timers, link, Unmoved
<1>2. due = {} /\ At("outside") /\ \A i \in armed : left[i] > 0
  <2>1. \A i \in armed : left[i] # 0 /\ left[i] \in Nat
    BY <1>1 DEF CanRun, Expired
  <2> QED BY <1>1, <2>1 DEF CanRun, At, Outside
<1>3. /\ callbacks' = callbacks
      /\ \/ todo' = ScanStart /\ goal' = "scanning" /\ current_state = "scanning"
         \/ todo' = ScanStop /\ current_state = "scanning" /\ "ll_scan_stop" \in Ops
         \/ todo' = ConnCancel /\ current_state = "initiating"
  <2>1. ~CanCall("ll_advertise_start") /\ ~CanCall("ll_advertise_stop")
    BY DEF CanCall, ScannerOnly
  <2>2. current_state \in {"scanning", "initiating"} /\ callbacks = current_state
    BY DEF RunningOK
  <2>3. ll_scan_start \/ ll_scan_stop \/ ll_conn_cancel
    BY <2>1, <2>2 DEF Call, ll_advertise_start, ll_advertise_stop, ll_conn_create
  <2>4. CASE ll_scan_start
    BY <2>2, <2>4 DEF ll_scan_start, BeginCall, ScanStart, ScannerOnly
  <2>5. CASE ll_scan_stop
    BY <2>5 DEF ll_scan_stop, BeginCall, ScanStop, CanCall, link
  <2>6. CASE ll_conn_cancel
    BY <2>6 DEF ll_conn_cancel, BeginCall, ConnCancel, link
  <2> QED BY <2>3, <2>4, <2>5, <2>6
<1> QED BY <1>1, <1>2, <1>3, RunningSame DEF RunningOK, Unmoved

\* ll_scan_start() while scanning fails with the interval timer; a stop function
\* stops that one first.
LEMMA RunningThread ==
    ASSUME ScannerOnly, LinkInv, Base, RunningOK, ThreadStep
    PROVE  Base' /\ (RunningOK' \/ StoppingOK')
<1> USE Numbers
<1>1. /\ InCall /\ due = {} /\ radio.end = FALSE /\ "interval" \in armed
      /\ armed \subseteq {"interval", "single"} /\ \A i \in armed : left[i] > 0
      /\ callbacks = current_state /\ LapsingOK /\ CountOK
      /\ "interval" \in Timers /\ armed # {}
  BY CallGoesOn DEF RunningOK, Radios, Base, Timers
<1>2. ASSUME UNCHANGED <<callbacks, target, radio>>
      PROVE  /\ (WindowRadio => WindowRadio') /\ (Off => Off') /\ Ready'
             /\ (Initiates => Initiates')
  BY <1>2 DEF WindowRadio, Listening, Heard, Connecting, Connected, Off, Is, Ready,
              Initiates, Connectable, RunningOK
<1>3. IF "single" \in armed THEN WindowRadio ELSE Off
  <2>1. ~Late
    BY <1>1 DEF Late, Is
  <2> QED BY <2>1 DEF RunningOK
<1>4. CASE At("up")
  <2>1. todo = <<>> /\ "single" \in armed
    BY <1>4, Wheres DEF RunningOK
  <2>3. /\ CountOK' /\ UNCHANGED <<armed, cb, leftover, left, lapsing>>
        /\ UNCHANGED <<current_state, callbacks, target, radio, due, todo, goal>>
        /\ within' = Outside \/ Lingers
    BY <1>1, <1>4, CountStep, CallCounts DEF Cleared, Lingers
  <2>4. LapsingOK' /\ lapsing = {} /\ Ready' /\ WindowRadio'
    BY <1>1, <1>2, <1>3, <2>1, <2>3 DEF LapsingOK, RunningOK
  <2>5. At("outside")' \/ (At("up")' /\ Listening' /\ radio'.age = 0)
    <3>1. CASE within' = Outside
      BY <3>1 DEF At, Outside
    <3>2. CASE Lingers
      <4>1. At("up")' /\ Listening /\ radio.age = 0
        BY <1>4, <3>2, Wheres DEF Lingers, RunningOK
      <4> QED BY <2>3, <4>1 DEF Listening, Is, Initiates
    <3> QED BY <2>3, <3>1, <3>2
  <2> QED BY <1>1, <2>1, <2>3, <2>4, <2>5 DEF RunningOK, Base
<1>5. CASE At("tested")
  <2>1. \/ /\ todo = ScanStop /\ current_state = "scanning" /\ "ll_scan_stop" \in Ops
           /\ Tail(todo) = ToStopSingle
        \/ todo = ConnCancel /\ current_state = "initiating" /\ Tail(todo) = ToCancel
    BY <1>5, Wheres, StopSteps DEF RunningOK, Follows
  <2>2. Head(todo) \in {Stopping("interval"), MustStop("interval")}
    BY <2>1, StopSteps DEF Follows
  <2>3. ClearFlag("interval")
    BY <1>1, <1>5, <2>2, ClearStep
  <2>4. /\ armed' = armed \ {"interval"} /\ lapsing' \subseteq lapsing \union {"interval"}
        /\ UNCHANGED <<current_state, callbacks, target, radio, left, cb, leftover, due, goal>>
        /\ todo' = Tail(todo)
    BY <2>3 DEF ClearFlag, link, Early
  <2>5. CountOK' /\ At("down")' /\ ~At("outside")'
    <3>1. CountOK' /\ At("down")'
      BY <1>1, <1>5, <2>3, ClearCounts
    <3> QED BY <3>1 DEF At
  <2>6. LapsingOK' /\ armed' \subseteq {"single"}
    BY <1>1, <2>4 DEF LapsingOK
  <2>7. CASE todo = ScanStop /\ current_state = "scanning" /\ "ll_scan_stop" \in Ops
             /\ Tail(todo) = ToStopSingle
    <3>1. CASE "single" \in armed
      BY <1>1, <1>2, <1>3, <2>4, <2>5, <2>6, <2>7, <3>1 DEF StoppingOK, Base
    <3>2. CASE "single" \notin armed
      BY <1>1, <1>2, <1>3, <2>4, <2>5, <2>6, <2>7, <3>2 DEF StoppingOK, Base
    <3> QED BY <3>1, <3>2
  <2>8. CASE todo = ConnCancel /\ current_state = "initiating" /\ Tail(todo) = ToCancel
    <3>1. WindowRadio /\ Initiates
      BY <1>1, <1>3, <2>8 DEF WindowRadio, Initiates
    <3> QED BY <1>1, <1>2, <2>4, <2>5, <2>6, <2>8, <3>1 DEF StoppingOK, Base
  <2> QED BY <2>1, <2>7, <2>8
<1>6. CASE At("outside")
  <2>0. within = Outside /\ todo # <<>>
    BY <1>1, <1>6, Wheres DEF InCall
  <2>1. CASE todo = ScanStart /\ goal = "scanning" /\ current_state = "scanning"
    <3>1. Head(todo) = Arming("interval")
      BY <2>1, StartSteps DEF Follows
    <3>2. /\ Unmoved /\ within' = within /\ todo' = <<>>
          /\ UNCHANGED <<current_state, callbacks, target, radio, due, goal>>
      BY <1>1, <2>0, <2>1, <3>1, ArmStep
    <3>3. ~InCall'
      BY <2>0, <3>2 DEF InCall
    <3> QED BY <1>1, <1>6, <3>2, <3>3, RunningSame DEF RunningOK, Unmoved
  <2>2. ASSUME Head(todo) \in {Stopping("interval"), MustStop("interval")}
        PROVE  /\ Unmoved /\ UNCHANGED <<current_state, callbacks, target, radio, due, goal, todo>>
               /\ Base' /\ At("tested")'
    <3>1. /\ Unmoved /\ UNCHANGED <<current_state, callbacks, target, radio, due, goal, todo>>
          /\ within' = [at |-> "tested", count |-> 0]
      BY <1>1, <2>0, <2>2, TestStep
    <3> QED BY <1>1, <2>0, <3>1, TestCounts DEF Base, LapsingOK, Unmoved
  <2>3. CASE \/ todo = ScanStop /\ current_state = "scanning" /\ "ll_scan_stop" \in Ops
             \/ todo = ConnCancel /\ current_state = "initiating"
    <3>1. Head(todo) \in {Stopping("interval"), MustStop("interval")}
      BY <2>3, StopSteps DEF Follows
    <3>2. (IF "single" \in armed THEN WindowRadio' ELSE Off') /\ Ready'
      BY <1>2, <1>3, <2>2, <3>1
    <3> QED BY <1>1, <2>2, <2>3, <3>1, <3>2 DEF RunningOK, Unmoved
  <2> QED BY <1>6, <2>0, <2>1, <2>3, Wheres DEF RunningOK
<1> QED BY <1>4, <1>5, <1>6 DEF RunningOK

LEMMA RunningTick ==
    ASSUME ScannerOnly, LinkInv, Base, RunningOK, Tick
    PROVE  Base' /\ RunningOK'
<1> USE Numbers, ScannerConstants
<1>1. /\ ~InCall /\ due = {} /\ radio.end = FALSE /\ Expired = {} /\ radio' = R!Aged(radio)
      /\ UNCHANGED <<current_state, callbacks, target, armed, cb, count, running, due, todo, goal,
                     within>>
      /\ left' = [i \in Timers |-> IF running /\ left[i] > 0 THEN left[i] - 1 ELSE left[i]]
      /\ lapsing = {} /\ leftover = {} /\ Ready /\ "interval" \in armed
  BY NoTick DEF Tick, link, RunningOK, Base, LapsingOK, Radios
<1>7. /\ todo = <<>> /\ within = Outside /\ running /\ ~InCall' /\ At("outside")'
  <2>1. todo = <<>> /\ within = Outside /\ CountOK /\ "interval" \in Timers
    BY <1>1 DEF InCall, Base, Timers
  <2>2. count # 0
    BY <1>1, <2>1, Wheres, Counted DEF CountOK, Outside
  <2> QED BY <1>1, <2>1, <2>2 DEF InCall, CountOK, At, Outside
<1>2. \A i \in armed : left[i] > 0 /\ left'[i] = left[i] - 1
  <2>1. \A i \in armed : left[i] # 0 /\ left[i] \in Nat
    BY <1>1 DEF Expired
  <2>2. \A i \in armed : left'[i] = IF left[i] > 0 THEN left[i] - 1 ELSE left[i]
    BY <1>1, <1>7
  <2> QED BY <2>1, <2>2
<1>3. lapsing' = {} /\ leftover' = {}
  BY <1>1 DEF Tick
<1>4. Base'
  BY <1>1, <1>3, SameCount DEF LapsingOK, Base
<1>5. CASE "single" \in armed
  <2>1. WindowRadio' /\ Ready'
    BY <1>1, <1>5, WindowAged DEF RunningOK
  <2>2. left'["interval"] = left'["single"] + (ScanInterval - ScanWindow)
    <3>1. left["interval"] = left["single"] + (ScanInterval - ScanWindow)
      BY <1>5 DEF RunningOK
    <3>2. left'["interval"] = left["interval"] - 1 /\ left'["single"] = left["single"] - 1
      BY <1>1, <1>2, <1>5
    <3> QED BY <3>1, <3>2
  <2> QED BY <1>1, <1>3, <1>4, <1>5, <1>7, <2>1, <2>2 DEF RunningOK
<1>6. CASE "single" \notin armed
  <2>1. Off
    BY <1>1, <1>6 DEF RunningOK, Late, Is
  <2>2. radio' = radio /\ Off'
    BY <1>1, <2>1 DEF Off, Is, R!Aged
  <2>3. Ready'
    BY <1>1, <2>2 DEF Ready, Initiates
  <2>4. left'["interval"] <= ScanInterval - ScanWindow
    BY <1>1, <1>2, <1>6 DEF RunningOK
  <2> QED BY <1>1, <1>3, <1>4, <1>6, <1>7, <2>2, <2>3, <2>4 DEF RunningOK
<1> QED BY <1>5, <1>6

LEMMA RunningStep ==
    ASSUME ScannerOnly, LinkInv, Base, RunningOK, Next
    PROVE  Base' /\ (RunningOK' \/ StoppingOK')
BY RunningIrq, RunningCallback, RunningRadio, RunningCall, RunningThread, RunningTick DEF Next

-----------------------------------------------------------------------------
(* The invariant is inductive.                                               *)

LEMMA InitScanner == Init => ScannerInv
<1> SUFFICES ASSUME Init PROVE ScannerInv
  OBVIOUS
<1>1. LinkInv
  BY InitLinkInv
<1>2. LapsingOK
  BY DEF Init, LapsingOK, Timers
<1>4. within = Outside /\ At("outside") /\ armed = {} /\ count = 0 /\ ~running
  BY DEF Init, Outside, At
<1>5. Armed = 0 /\ ~At("up") /\ ~At("down")
  BY <1>4, Wheres DEF Armed, One
<1>6. Base
  BY <1>2, <1>4, <1>5 DEF Base, CountOK, Outside
<1>3. IdleOK
  BY <1>4 DEF Init, IdleOK, Off, Is, R!Reset
<1> QED BY <1>1, <1>3, <1>6 DEF ScannerInv

LEMMA StutterScanner ==
    ASSUME Base, IdleOK \/ StartingOK \/ RunningOK \/ StoppingOK, UNCHANGED vars
    PROVE  Base' /\ (IdleOK' \/ StartingOK' \/ RunningOK' \/ StoppingOK')
<1> USE DEF vars
<1>1. /\ (Off' <=> Off) /\ (Late' <=> Late) /\ (Listening' <=> Listening)
      /\ (Heard' <=> Heard) /\ (Connected' <=> Connected) /\ (Connecting' <=> Connecting)
      /\ (Initiates' <=> Initiates) /\ (Ready' <=> Ready)
  BY DEF Off, Late, Listening, Heard, Connected, Connecting, Initiates, Ready, Is, Connectable
<1>2. (WindowRadio' <=> WindowRadio) /\ Base'
  BY <1>1, SameCount DEF WindowRadio, LapsingOK, Base
<1>7. (InCall' <=> InCall) /\ within' = within
  BY DEF InCall
<1>3. IdleOK => IdleOK'
  BY <1>1, <1>7 DEF IdleOK, At
<1>4. StartingOK => StartingOK'
  BY <1>1, <1>7 DEF StartingOK, At
<1>5. RunningOK => RunningOK'
  BY <1>1, <1>2, <1>7 DEF RunningOK, At
<1>6. StoppingOK => StoppingOK'
  BY <1>1, <1>2, <1>7 DEF StoppingOK, At
<1> QED BY <1>2, <1>3, <1>4, <1>5, <1>6

LEMMA NextScanner ==
    ASSUME ScannerOnly, ScannerInv, [Next]_vars
    PROVE  ScannerInv'
<1>1. /\ LinkInv' /\ LinkInv /\ Base
      /\ IdleOK \/ StartingOK \/ RunningOK \/ StoppingOK
  BY NextLinkInv DEF ScannerInv
<1>2. Base' /\ (IdleOK' \/ StartingOK' \/ RunningOK' \/ StoppingOK')
  BY <1>1, IdleStep, StartingStep, RunningStep, StoppingStep, StutterScanner
<1> QED BY <1>1, <1>2 DEF ScannerInv

LEMMA ScannerInvariant ==
    ASSUME ScannerOnly
    PROVE  Spec => []ScannerInv
<1>1. ScannerInv /\ [Next]_vars => ScannerInv'
  BY NextScanner
<1> QED BY InitScanner, <1>1, PTL DEF Spec

-----------------------------------------------------------------------------
(* The theorems.                                                             *)

\* Between interrupts and calls only the idle and the running states are left.
LEMMA CalmScanner ==
    ASSUME ScannerInv, Calm
    PROVE  /\ IdleOK \/ RunningOK
           /\ radio.end = FALSE
<1>1. todo = <<>> /\ ~radio.end /\ radio.end \in BOOLEAN
  BY Numbers DEF Calm, CanRun, InCall, ScannerInv, Radios
<1>2. ~StartingOK
  BY <1>1, StartSteps DEF StartingOK, Follows
<1>3. ~StoppingOK
  BY <1>1, StopSteps DEF StoppingOK, Follows
<1> QED BY <1>1, <1>2, <1>3 DEF ScannerInv

\* What the radio does with no END interrupt pending.
LEMMA ScannerRadio ==
    ASSUME ScannerInv, ~radio.end
    PROVE  Off \/ Listening \/ Connecting
<1>1. radio.end = FALSE
  BY Numbers DEF ScannerInv, Radios
<1>2. ~Heard /\ ~Connected /\ ~Late
  BY <1>1 DEF Heard, Connected, Late, Is
<1> QED BY <1>2 DEF ScannerInv, IdleOK, StartingOK, RunningOK, StoppingOK, WindowRadio

\* A scanner listens exactly while its window timer runs: scan_radio_recv_cb() turns the
\* radio on again after every packet, never past the window that scan_singleshot_cb()
\* closes, however the END of a packet falls together with it.  An initiator listens in
\* its window only: init_radio_recv_cb() never turns the radio on after it has closed.
THEOREM ScannerListensInWindow ==
    ASSUME ScannerOnly
    PROVE  Spec => []ListensOnlyInWindow
<1>1. ScannerInv => ListensOnlyInWindow
  <2> SUFFICES ASSUME ScannerInv, Calm, current_state \in {"scanning", "initiating"}
               PROVE  /\ radio.phase = "rx" => "single" \in armed
                      /\ current_state = "scanning" /\ "single" \in armed => radio.phase = "rx"
    BY DEF ListensOnlyInWindow
  <2>1. radio.end = FALSE
    BY CalmScanner
  <2>2. CASE IdleOK
    BY <2>2 DEF IdleOK, Off, Is
  <2>3. CASE RunningOK /\ "single" \in armed
    <3>1. WindowRadio /\ callbacks = current_state
      BY <2>3 DEF RunningOK
    <3>2. current_state = "scanning" => ~Initiates
      BY <3>1 DEF Initiates
    <3> QED BY <2>1, <2>3, <3>1, <3>2 DEF WindowRadio, Listening, Heard, Is
  <2>4. CASE RunningOK /\ "single" \notin armed
    BY <2>1, <2>4 DEF RunningOK, Off, Late, Is
  <2> QED BY <2>2, <2>3, <2>4, CalmScanner
<1> QED BY <1>1, ScannerInvariant, PTL

\* What a stop function leaves in STANDBY is silent: its timers are stopped and the radio
\* is off, whichever packet ended while it was stopping them.
THEOREM ScannerStandbyIsSilent ==
    ASSUME ScannerOnly
    PROVE  Spec => []StandbyIsSilent
<1>1. ScannerInv => StandbyIsSilent
  BY CalmScanner DEF StandbyIsSilent, IdleOK, RunningOK, Off, Is
<1> QED BY <1>1, ScannerInvariant, PTL

\* It listens from the start of each interval for the whole of the window.
THEOREM ScannerWindowIsOpen ==
    ASSUME ScannerOnly
    PROVE  Spec => []WindowIsOpen
<1>1. ScannerInv => WindowIsOpen
  <2> SUFFICES ASSUME ScannerInv, Calm, current_state = "scanning",
                      left["interval"] > ScanInterval - ScanWindow
               PROVE  radio.phase = "rx"
    BY DEF WindowIsOpen
  <2>1. ScanInterval - ScanWindow \in Nat /\ LinkInv
    BY ScannerConstants DEF ScannerInv
  <2>2. ~IdleOK
    BY <2>1 DEF IdleOK
  <2>3. RunningOK
    BY <2>2, CalmScanner
  <2>4. "single" \in armed
    BY <2>1, <2>3, Numbers DEF RunningOK
  <2>5. WindowRadio /\ ~Initiates /\ radio.end = FALSE
    BY <2>3, <2>4, CalmScanner DEF RunningOK, Initiates
  <2> QED BY <2>5 DEF WindowRadio, Listening, Heard, Is
<1> QED BY <1>1, ScannerInvariant, PTL

\* An initiator sends nothing but CONNECT_REQ, and that only to an advertiser that is
\* connectable, accepted and, if it directs its PDU, directs it here: init_radio_recv_cb()
\* stops any other reply in time.  A scanner sends nothing.
THEOREM ScannerRepliesToAdvertisers ==
    ASSUME ScannerOnly
    PROVE  Spec => []RepliesMatchRequests
<1>1. ScannerInv => RepliesMatchRequests
  <2> SUFFICES ASSUME ScannerInv, radio.phase = "tx", ~radio.end PROVE RepliesMatchRequests
    BY DEF RepliesMatchRequests
  <2>1. Connecting
    BY ScannerRadio DEF Off, Listening, Is
  <2> QED BY <2>1 DEF Connecting, Connectable, RepliesMatchRequests
<1> QED BY <1>1, ScannerInvariant, PTL

\* The driver's status, flags and shortcuts say what the peripheral does also where an
\* initiator's reply is stopped and where the window ends during a packet.
THEOREM ScannerDriverKnows ==
    ASSUME ScannerOnly
    PROVE  Spec => []DriverKnowsRadio
<1>1. ScannerInv => DriverKnowsRadio
  <2> SUFFICES ASSUME ScannerInv, ~radio.end PROVE R!Agrees(radio) /\ R!FollowUpAgrees(radio)
    BY DEF DriverKnowsRadio
  <2>1. Off \/ Listening \/ Connecting
    BY ScannerRadio
  <2> QED BY <2>1 DEF Off, Listening, Connecting, Is, R!Agrees, R!FollowUpAgrees
<1> QED BY <1>1, ScannerInvariant, PTL

\* Without ll_scan_stop(), whose MustStop of the single shot may fail, no start or stop
\* function returns half-way: ll_scan_start(), ll_conn_create() and ll_conn_cancel() keep
\* the state and the interval timer together, whatever interrupts them.
THEOREM ScannerStateMatchesTimers ==
    ASSUME ScannerOnly, "ll_scan_stop" \notin Ops
    PROVE  Spec => []StateMatchesTimers
<1>1. ScannerInv => StateMatchesTimers
  <2> SUFFICES ASSUME ScannerInv, Calm
               PROVE  current_state = "standby" <=> "interval" \notin armed
    BY DEF StateMatchesTimers
  <2> QED BY CalmScanner DEF IdleOK, RunningOK
<1> QED BY <1>1, ScannerInvariant, PTL
=============================================================================
