-------------------------- MODULE LinkLayerProofs --------------------------
(***************************************************************************)
(* Theorems about the link layer with any use of its API: every function,  *)
(* in every state that LinkLayer lets it be called in, interrupted between *)
(* any two of its steps, for all intervals, windows and packets.           *)
(***************************************************************************)
EXTENDS LinkLayer, TLAPS

-----------------------------------------------------------------------------
(* What the calls of the radio driver do to its record.                     *)

Radios == [status : SUBSET {"rx", "tx"}, flags : SUBSET {"rx_next", "tx_next"},
           shorts : SUBSET {"rxen", "txen"}, ch : {0} \union Channels,
           ptr : {"none", "inbuf", "adv", "scan_rsp", "connect_req"},
           out : {"none", "connect_req"}, inbuf : Pdus \union {R!Reset.inbuf},
           phase : {"off", "rx", "tx"}, age : 0 .. Ifs, end : BOOLEAN]

\* A radio that is used has been given a channel to use.
Tuned(r) == r.status # {} \/ r.phase # "off" => r.ch \in Channels

\* ch2freq() gives each of the 40 channels a frequency of its own, an even number
\* of MHz from 2402 to 2480: no two channels interfere and none is out of band.
THEOREM ChannelsAreDistinct ==
    /\ \A a \in 0 .. 39 : R!ch2freq(a) \in 2 .. 80 /\ \E k \in 1 .. 40 : R!ch2freq(a) = 2 * k
    /\ \A a, b \in 0 .. 39 : R!ch2freq(a) = R!ch2freq(b) => a = b
<1>1. ASSUME NEW a \in 0 .. 39
      PROVE  R!ch2freq(a) \in 2 .. 80 /\ \E k \in 1 .. 40 : R!ch2freq(a) = 2 * k
  <2>1. CASE a = 37  BY <2>1 DEF R!ch2freq
  <2>2. CASE a = 38  BY <2>2 DEF R!ch2freq
  <2>3. CASE a = 39  BY <2>3 DEF R!ch2freq
  <2>4. CASE a < 11
    <3>1. R!ch2freq(a) = 2 * (2 + a)  BY <2>4 DEF R!ch2freq
    <3> QED  BY <2>4, <3>1
  <2>5. CASE a \in 11 .. 36
    <3>1. R!ch2freq(a) = 2 * (3 + a)  BY <2>5 DEF R!ch2freq
    <3> QED  BY <2>5, <3>1
  <2> QED  BY <2>1, <2>2, <2>3, <2>4, <2>5
<1>2. ASSUME NEW a \in 0 .. 39, NEW b \in 0 .. 39, R!ch2freq(a) = R!ch2freq(b)
      PROVE  a = b
  BY <1>2 DEF R!ch2freq
<1> QED  BY <1>1, <1>2

LEMMA ZeroAge == 0 \in 0 .. Ifs
BY LinkLayerAssumption

LEMMA ResetRadio == R!Reset \in Radios /\ Tuned(R!Reset)
BY LinkLayerAssumption DEF Radios, R!Reset, Tuned

LEMMA StopRadio ==
    ASSUME NEW r \in Radios, Tuned(r)
    PROVE  /\ R!Stop(r) \in Radios /\ Tuned(R!Stop(r)) /\ R!Stop(r).ch = r.ch
           /\ R!Stop(r).status = {}
<1>1. CASE r.status = {}
  BY <1>1 DEF R!Stop
<1>2. CASE r.status # {}
  <2>1. R!Stop(r) = [r EXCEPT !.status = {}, !.flags = {}, !.shorts = {}, !.phase = "off", !.age = 0]
    BY <1>2 DEF R!Stop
  <2> HIDE DEF R!Stop
  <2>2. R!Stop(r) \in Radios
    BY <2>1, ZeroAge DEF Radios
  <2>3. R!Stop(r).status = {} /\ R!Stop(r).ch = r.ch /\ R!Stop(r).phase = "off"
    BY <2>1 DEF Radios
  <2> QED BY <2>2, <2>3 DEF Tuned
<1> QED BY <1>1, <1>2

LEMMA PrepareRadio ==
    ASSUME NEW r \in Radios, Tuned(r), NEW ch \in Channels
    PROVE  /\ R!Prepare(r, ch) \in Radios /\ Tuned(R!Prepare(r, ch))
           /\ R!Prepare(r, ch).ch \in Channels
BY DEF Radios, R!Prepare, R!ch2freq, Tuned, Channels

\* Powering up touches no more than the phase and the age.
LEMMA EnableRadio ==
    ASSUME NEW r \in Radios, NEW p \in {"rx", "tx"}, r.ch \in Channels
    PROVE  R!Enable(r, p) \in Radios /\ R!Enable(r, p).ch = r.ch
BY ZeroAge DEF Radios, R!Enable, Tuned

LEMMA SendRadio ==
    ASSUME NEW r \in Radios, NEW pdu \in {"adv", "scan_rsp"}, NEW f \in SUBSET {"rx_next"},
           r.ch \in Channels
    PROVE  /\ R!Send(r, pdu, f) \in Radios /\ Tuned(R!Send(r, pdu, f))
           /\ R!Send(r, pdu, f).ch = r.ch
<1> DEFINE q == [r EXCEPT !.status = @ \union {"tx"}, !.flags = @ \union f, !.ptr = pdu,
                     !.shorts = IF "rx_next" \in f THEN @ \union {"rxen"} ELSE @]
<1>1. q \in Radios /\ q.ch = r.ch
  BY DEF Radios
<1>2. R!Send(r, pdu, f) = R!Enable(q, "tx")
  BY DEF R!Send
<1> HIDE DEF q
<1> QED BY <1>1, <1>2, EnableRadio DEF Tuned

LEMMA RecvRadio ==
    ASSUME NEW r \in Radios, NEW f \in SUBSET {"tx_next"}, r.ch \in Channels
    PROVE  /\ R!Recv(r, f) \in Radios /\ Tuned(R!Recv(r, f))
           /\ R!Recv(r, f).ch = r.ch
<1> DEFINE q == [r EXCEPT !.status = @ \union {"rx"}, !.flags = @ \union f, !.ptr = "inbuf",
                     !.shorts = IF "tx_next" \in f THEN @ \union {"txen"} ELSE @]
<1>1. q \in Radios /\ q.ch = r.ch
  BY DEF Radios
<1>2. R!Recv(r, f) = R!Enable(q, "rx")
  BY DEF R!Recv
<1> HIDE DEF q
<1> QED BY <1>1, <1>2, EnableRadio DEF Tuned

LEMMA OutRadio ==
    ASSUME NEW r \in Radios, Tuned(r)
    PROVE  /\ R!SetOutBuffer(r, "connect_req") \in Radios
           /\ Tuned(R!SetOutBuffer(r, "connect_req"))
           /\ R!SetOutBuffer(r, "connect_req").ch = r.ch
BY DEF Radios, R!SetOutBuffer, Tuned

LEMMA EndRadio ==
    ASSUME NEW r \in Radios, Tuned(r)
    PROVE  /\ R!HandleEnd(r) \in Radios /\ Tuned(R!HandleEnd(r))
           /\ R!HandleEnd(r).ch = r.ch
BY DEF Radios, R!HandleEnd, R!Received, R!Sent, Tuned

LEMMA SentRadio ==
    ASSUME NEW r \in Radios, Tuned(r), r.phase # "off"
    PROVE  /\ R!AfterEnd(r) \in Radios /\ R!AfterEnd(r).ch = r.ch /\ r.ch \in Channels
           /\ Tuned(R!AfterEnd(r))
<1>1. PICK p \in {"off", "rx", "tx"} :
        R!AfterEnd(r) = [r EXCEPT !.end = TRUE, !.age = 0, !.phase = p]
  BY DEF R!AfterEnd
<1>2. r.ch \in Channels
  BY DEF Tuned
<1>3. R!AfterEnd(r) \in Radios /\ R!AfterEnd(r).ch = r.ch
  BY <1>1, ZeroAge DEF Radios
<1> QED BY <1>2, <1>3 DEF Tuned

LEMMA ReceivedRadio ==
    ASSUME NEW r \in Radios, Tuned(r), r.phase # "off", NEW pdu \in Pdus
    PROVE  /\ R!PacketReceived(r, pdu) \in Radios /\ Tuned(R!PacketReceived(r, pdu))
           /\ R!PacketReceived(r, pdu).ch = r.ch
<1>1. R!PacketReceived(r, pdu) = [R!AfterEnd(r) EXCEPT !.inbuf = pdu]
  BY DEF R!PacketReceived
<1>2. /\ R!PacketReceived(r, pdu) \in Radios
      /\ R!PacketReceived(r, pdu).ch = R!AfterEnd(r).ch
  BY <1>1, SentRadio DEF Radios
<1> QED BY <1>2, SentRadio DEF Tuned

LEMMA AgedRadio ==
    ASSUME NEW r \in Radios, Tuned(r)
    PROVE  R!Aged(r) \in Radios /\ Tuned(R!Aged(r)) /\ R!Aged(r).ch = r.ch
BY LinkLayerAssumption DEF Radios, R!Aged, Tuned

-----------------------------------------------------------------------------
(* The shape of a call: what remains of it is the end of one of the API      *)
(* functions' sequences of steps.                                            *)

StopsInterval == {Stopping("interval"), MustStop("interval")}
StopsSingle == {Stopping("single"), MustStop("single")}
Starts == {Arming("interval"), Arming("single"), Do("enter")}
RadioOn == {Do("send"), Do("listen")}

Stops == {Stopping(i) : i \in Timers} \union {MustStop(i) : i \in Timers}

Rest(s) == {s[k] : k \in 1 .. Len(s)}

\* A start function arms the interval timer before all else, enters its state, and
\* selects a channel before it turns the radio on; a stop function stops the
\* interval timer before the single shot, arms nothing, and goes to STANDBY last.
Shape(s) ==
    /\ s \in Seq(Steps)
    /\ \A k \in 2 .. Len(s) : s[k] # Arming("interval")
    /\ Arming("interval") \in Rest(s) => Do("enter") \in Rest(s)
    /\ \A j, k \in 1 .. Len(s) :
         j < k => s[j] # Do("standby") /\ (s[k] = Do("prepare") => s[j] \notin RadioOn)
    /\ s # <<>> => s[Len(s)] \in {Do("standby"), Arming("single")}
    /\ \A k \in 1 .. Len(s) : s[k] \in StopsInterval =>
            \E j \in k + 1 .. Len(s) : s[j] \in StopsSingle
    /\ Do("standby") \in Rest(s) => Starts \intersect Rest(s) = {}
    /\ Stops \intersect Rest(s) # {} => Do("standby") \in Rest(s)

Names == {"enter", "standby", "first", "rotate", "radio_stop", "prepare", "send", "listen",
          "set_out"}

LEMMA DistinctSteps ==
    /\ \A a, b \in Names : Do(a) = Do(b) => a = b
    /\ \A a \in Names, i, j \in Timers :
         /\ Do(a) # Arming(i) /\ Do(a) # Stopping(i) /\ Do(a) # MustStop(i)
         /\ Arming(i) # Stopping(j) /\ Arming(i) # MustStop(j) /\ Stopping(i) # MustStop(j)
         /\ Arming(i) = Arming(j) => i = j
         /\ Stopping(i) = Stopping(j) => i = j
         /\ MustStop(i) = MustStop(j) => i = j
BY DEF Do, Arming, Stopping, MustStop, Timers, Names

LEMMA StepTypes ==
    /\ \A a \in Names : Do(a) \in Steps
    /\ \A i \in Timers : Arming(i) \in Steps /\ Stopping(i) \in Steps /\ MustStop(i) \in Steps
BY DEF Do, Arming, Stopping, MustStop, Steps, Names

LEMMA ShapeEmpty == Shape(<<>>) /\ Rest(<<>>) = {}
BY DEF Shape, Rest

LEMMA ShapeTail ==
    ASSUME NEW s, Shape(s), s # <<>>
    PROVE  /\ Shape(Tail(s))
           /\ Rest(s) = {Head(s)} \union Rest(Tail(s)) /\ Head(s) \in Rest(s)
           /\ Arming("interval") \notin Rest(Tail(s))
           /\ Tail(s) = <<>> => Head(s) \in {Do("standby"), Arming("single")}
           /\ Head(s) \in StopsSingle => StopsInterval \intersect Rest(Tail(s)) = {} \/
                                         StopsSingle \intersect Rest(Tail(s)) # {}
           /\ Head(s) = Do("standby") => Tail(s) = <<>>
           /\ Head(s) \in RadioOn => Do("prepare") \notin Rest(Tail(s))
<1> DEFINE t == Tail(s)
<1>1. s \in Seq(Steps) /\ Len(s) \in Nat /\ Len(s) >= 1
  BY DEF Shape
<1>2. /\ t \in Seq(Steps) /\ Len(t) = Len(s) - 1 /\ Head(s) = s[1]
      /\ \A k \in 1 .. Len(t) : t[k] = s[k + 1]
  BY <1>1
<1> HIDE DEF t
<1>3. Rest(s) = {s[1]} \union Rest(t)
  <2>1. ASSUME NEW k \in 1 .. Len(s) PROVE s[k] \in {s[1]} \union Rest(t)
    <3>1. CASE k = 1
      BY <3>1
    <3>2. CASE k # 1
      <4>1. k - 1 \in 1 .. Len(t) /\ t[k - 1] = s[k]
        BY <1>1, <1>2, <3>2
      <4> QED BY <4>1 DEF Rest
    <3> QED BY <3>1, <3>2
  <2>2. ASSUME NEW k \in 1 .. Len(t) PROVE t[k] \in Rest(s)
    <3>1. k + 1 \in 1 .. Len(s) /\ t[k] = s[k + 1]
      BY <1>1, <1>2
    <3> QED BY <3>1 DEF Rest
  <2>3. s[1] \in Rest(s)
    BY <1>1 DEF Rest
  <2>4. Rest(s) \subseteq {s[1]} \union Rest(t)
    BY <2>1 DEF Rest
  <2>5. Rest(t) \subseteq Rest(s)
    BY <2>2 DEF Rest
  <2> QED BY <2>3, <2>4, <2>5
<1>4. Arming("interval") \notin Rest(t)
  <2>1. ASSUME NEW k \in 1 .. Len(t) PROVE t[k] # Arming("interval")
    BY <1>1, <1>2 DEF Shape
  <2> QED BY <2>1 DEF Rest
<1>5. t # <<>> => t[Len(t)] = s[Len(s)]
  BY <1>1, <1>2
<1>6. ASSUME NEW k \in 1 .. Len(t), t[k] \in StopsInterval
      PROVE  \E j \in k + 1 .. Len(t) : t[j] \in StopsSingle
  <2>1. k + 1 \in 1 .. Len(s) /\ s[k + 1] \in StopsInterval
    BY <1>1, <1>2, <1>6
  <2>2. PICK j \in k + 2 .. Len(s) : s[j] \in StopsSingle
    BY <2>1 DEF Shape
  <2>3. j - 1 \in k + 1 .. Len(t) /\ t[j - 1] = s[j]
    BY <1>1, <1>2, <2>2
  <2> QED BY <2>2, <2>3
<1>7. Do("standby") \in Rest(t) => Starts \intersect Rest(t) = {}
  BY <1>3 DEF Shape
<1>8. Stops \intersect Rest(t) # {} =>
        Do("standby") \in Rest(t)
  <2>1. SUFFICES ASSUME Stops
                          \intersect Rest(t) # {}
                 PROVE  Do("standby") \in Rest(t)
    OBVIOUS
  <2>2. Do("standby") \in Rest(s) /\ Arming("single") \notin Rest(s)
    BY <1>3, <2>1 DEF Shape, Starts
  <2>3. t # <<>> /\ s[Len(s)] \in Rest(s)
    BY <1>1, <2>1, ShapeEmpty DEF Rest
  <2>4. t[Len(t)] = Do("standby") /\ Len(t) \in 1 .. Len(t)
    BY <1>1, <1>2, <1>5, <2>2, <2>3 DEF Shape
  <2> QED BY <2>4 DEF Rest
<1>0. ASSUME NEW j \in 1 .. Len(t), NEW k \in 1 .. Len(t), j < k
      PROVE  t[j] # Do("standby") /\ (t[k] = Do("prepare") => t[j] \notin RadioOn)
  <2>1. /\ j + 1 \in 1 .. Len(s) /\ k + 1 \in 1 .. Len(s) /\ j + 1 < k + 1
        /\ t[j] = s[j + 1] /\ t[k] = s[k + 1]
    BY <1>0, <1>1, <1>2
  <2> QED BY <2>1 DEF Shape
<1>9. Shape(t)
  BY <1>0, <1>2, <1>3, <1>4, <1>5, <1>6, <1>7, <1>8 DEF Shape, Rest
<1>10. t = <<>> => Head(s) \in {Do("standby"), Arming("single")}
  <2>1. t = <<>> => Len(s) = 1 /\ s # <<>>
    BY <1>1, <1>2
  <2> QED BY <1>2, <2>1 DEF Shape
<1>11. Head(s) \in StopsSingle => StopsInterval \intersect Rest(t) = {} \/
                                  StopsSingle \intersect Rest(t) # {}
  <2>1. ASSUME NEW k \in 1 .. Len(t), t[k] \in StopsInterval
        PROVE  StopsSingle \intersect Rest(t) # {}
    BY <1>6, <2>1 DEF Rest
  <2> QED BY <2>1 DEF Rest
<1>12. ASSUME NEW k \in 1 .. Len(t)
       PROVE  s[1] # Do("standby") /\ (t[k] = Do("prepare") => s[1] \notin RadioOn)
  <2>1. 1 \in 1 .. Len(s) /\ k + 1 \in 1 .. Len(s) /\ 1 < k + 1 /\ t[k] = s[k + 1]
    BY <1>1, <1>2
  <2> QED BY <2>1 DEF Shape
<1>13. Head(s) = Do("standby") => t = <<>>
  BY <1>2, <1>12
<1>14. Head(s) \in RadioOn => Do("prepare") \notin Rest(t)
  BY <1>2, <1>12 DEF Rest
<1> QED BY <1>2, <1>3, <1>4, <1>9, <1>10, <1>11, <1>13, <1>14 DEF t


\* What a start function is made of: both kinds of interval timer, the entry of
\* the state, and steps that neither stop a timer nor leave the state.
LEMMA StartShape ==
    ASSUME NEW s \in Seq(Steps), Len(s) >= 3, s[1] = Arming("interval"), s[2] = Do("enter"),
           s[Len(s)] = Arming("single"),
           \A k \in 3 .. Len(s) - 1 : s[k] \in {Do(a) : a \in Names \ {"enter", "standby"}},
           \A j, k \in 1 .. Len(s) : j < k /\ s[k] = Do("prepare") => s[j] \notin RadioOn
    PROVE  Shape(s) /\ Do("enter") \in Rest(s) /\ Do("standby") \notin Rest(s)
<1> USE DEF Names, Timers
<1>1. Len(s) \in Nat
  OBVIOUS
<1>2. ASSUME NEW k \in 1 .. Len(s)
      PROVE  /\ s[k] # Do("standby") /\ (k # 1 => s[k] # Arming("interval"))
             /\ s[k] \notin Stops
  <2>1. CASE k \in {1, 2, Len(s)}
    BY <1>1, <2>1, DistinctSteps DEF Stops
  <2>2. CASE k \in 3 .. Len(s) - 1
    <3>1. PICK a \in Names \ {"enter", "standby"} : s[k] = Do(a)
      BY <2>2
    <3> QED BY <3>1, DistinctSteps DEF Stops
  <2> QED BY <1>1, <2>1, <2>2
<1>3. Do("enter") \in Rest(s) /\ Do("standby") \notin Rest(s)
  BY <1>1, <1>2 DEF Rest
<1>4. Stops \intersect Rest(s) = {}
  BY <1>2 DEF Rest
<1>5. /\ \A k \in 2 .. Len(s) : s[k] # Arming("interval")
      /\ \A k \in 1 .. Len(s) : s[k] \notin StopsInterval
      /\ \A j \in 1 .. Len(s) : s[j] # Do("standby")
  BY <1>1, <1>2 DEF Stops, StopsInterval
<1> QED BY <1>3, <1>4, <1>5 DEF Shape

AdvertiseStart == Enter \o <<Do("first"), Do("radio_stop"), Do("prepare"), Do("send"),
                             Arming("single")>>
ScanStart == Enter \o <<Do("rotate"), Do("prepare"), Do("listen"), Arming("single")>>
ConnCreate == Enter \o <<Do("rotate"), Do("prepare"), Do("listen"), Do("set_out"),
                         Arming("single")>>
AdvertiseStop == <<Stopping("ifs"), MustStop("interval"), MustStop("single"), Do("standby")>>
ScanStop == <<MustStop("interval"), MustStop("single"), Do("radio_stop"), Do("standby")>>
ConnCancel == <<Stopping("interval"), Stopping("single"), Stopping("ifs"), Do("radio_stop"),
                Do("standby")>>

LEMMA EmptyLength == \A s : Len(s) # 0 => s # <<>>
OBVIOUS

LEMMA StartScripts ==
    ASSUME NEW s \in {AdvertiseStart, ScanStart, ConnCreate}
    PROVE  /\ Shape(s) /\ Do("enter") \in Rest(s) /\ Do("standby") \notin Rest(s)
           /\ s # <<>> /\ Do("prepare") \in Rest(s)
<1> USE StepTypes DEF Names, Timers
<1>1. CASE s = AdvertiseStart
  <2>1. /\ s \in Seq(Steps) /\ Len(s) = 7 /\ s[1] = Arming("interval") /\ s[2] = Do("enter")
        /\ s[3] = Do("first") /\ s[4] = Do("radio_stop") /\ s[5] = Do("prepare")
        /\ s[6] = Do("send") /\ s[7] = Arming("single")
    BY <1>1 DEF AdvertiseStart, Enter
  <2>2. ASSUME NEW k \in 3 .. 6
        PROVE  s[k] \in {Do(a) : a \in Names \ {"enter", "standby"}}
    BY <2>1
  <2>3. 5 \in 1 .. Len(s) /\ s[5] = Do("prepare")
    BY <2>1
  <2>4. Do("prepare") \in Rest(s)
    BY <2>3 DEF Rest
  <2>5. \A k \in 3 .. Len(s) - 1 : s[k] \in {Do(a) : a \in Names \ {"enter", "standby"}}
    BY <2>1, <2>2
  <2>6. s \in Seq(Steps) /\ Len(s) >= 3 /\ s[1] = Arming("interval") /\ s[2] = Do("enter")
        /\ s[Len(s)] = Arming("single")
    BY <2>1
  <2>7. \A k \in 1 .. 7 : s[k] = Do("prepare") => k = 5
    BY <2>1, DistinctSteps
  <2>8. \A j \in 1 .. 4 : s[j] \notin RadioOn
    BY <2>1, DistinctSteps DEF RadioOn
  <2>9. \A j, k \in 1 .. Len(s) : j < k /\ s[k] = Do("prepare") => s[j] \notin RadioOn
    BY <2>1, <2>7, <2>8
  <2>10. Len(s) # 0
    BY <2>1
  <2> HIDE DEF Names
  <2> QED BY <2>4, <2>5, <2>6, <2>9, <2>10, StartShape, EmptyLength
<1>2. CASE s = ScanStart
  <2>1. /\ s \in Seq(Steps) /\ Len(s) = 6 /\ s[1] = Arming("interval") /\ s[2] = Do("enter")
        /\ s[3] = Do("rotate") /\ s[4] = Do("prepare") /\ s[5] = Do("listen")
        /\ s[6] = Arming("single")
    BY <1>2 DEF ScanStart, Enter
  <2>2. ASSUME NEW k \in 3 .. 5
        PROVE  s[k] \in {Do(a) : a \in Names \ {"enter", "standby"}}
    BY <2>1
  <2>3. 4 \in 1 .. Len(s) /\ s[4] = Do("prepare")
    BY <2>1
  <2>4. Do("prepare") \in Rest(s)
    BY <2>3 DEF Rest
  <2>5. \A k \in 3 .. Len(s) - 1 : s[k] \in {Do(a) : a \in Names \ {"enter", "standby"}}
    BY <2>1, <2>2
  <2>6. s \in Seq(Steps) /\ Len(s) >= 3 /\ s[1] = Arming("interval") /\ s[2] = Do("enter")
        /\ s[Len(s)] = Arming("single")
    BY <2>1
  <2>7. \A k \in 1 .. 6 : s[k] = Do("prepare") => k = 4
    BY <2>1, DistinctSteps
  <2>8. \A j \in 1 .. 3 : s[j] \notin RadioOn
    BY <2>1, DistinctSteps DEF RadioOn
  <2>9. \A j, k \in 1 .. Len(s) : j < k /\ s[k] = Do("prepare") => s[j] \notin RadioOn
    BY <2>1, <2>7, <2>8
  <2>10. Len(s) # 0
    BY <2>1
  <2> HIDE DEF Names
  <2> QED BY <2>4, <2>5, <2>6, <2>9, <2>10, StartShape, EmptyLength
<1>3. CASE s = ConnCreate
  <2>1. /\ s \in Seq(Steps) /\ Len(s) = 7 /\ s[1] = Arming("interval") /\ s[2] = Do("enter")
        /\ s[3] = Do("rotate") /\ s[4] = Do("prepare") /\ s[5] = Do("listen")
        /\ s[6] = Do("set_out") /\ s[7] = Arming("single")
    BY <1>3 DEF ConnCreate, Enter
  <2>2. ASSUME NEW k \in 3 .. 6
        PROVE  s[k] \in {Do(a) : a \in Names \ {"enter", "standby"}}
    BY <2>1
  <2>3. 4 \in 1 .. Len(s) /\ s[4] = Do("prepare")
    BY <2>1
  <2>4. Do("prepare") \in Rest(s)
    BY <2>3 DEF Rest
  <2>5. \A k \in 3 .. Len(s) - 1 : s[k] \in {Do(a) : a \in Names \ {"enter", "standby"}}
    BY <2>1, <2>2
  <2>6. s \in Seq(Steps) /\ Len(s) >= 3 /\ s[1] = Arming("interval") /\ s[2] = Do("enter")
        /\ s[Len(s)] = Arming("single")
    BY <2>1
  <2>7. \A k \in 1 .. 7 : s[k] = Do("prepare") => k = 4
    BY <2>1, DistinctSteps
  <2>8. \A j \in 1 .. 3 : s[j] \notin RadioOn
    BY <2>1, DistinctSteps DEF RadioOn
  <2>9. \A j, k \in 1 .. Len(s) : j < k /\ s[k] = Do("prepare") => s[j] \notin RadioOn
    BY <2>1, <2>7, <2>8
  <2>10. Len(s) # 0
    BY <2>1
  <2> HIDE DEF Names
  <2> QED BY <2>4, <2>5, <2>6, <2>9, <2>10, StartShape, EmptyLength
<1> QED BY <1>1, <1>2, <1>3

LEMMA StopScripts ==
    ASSUME NEW s \in {AdvertiseStop, ScanStop, ConnCancel}
    PROVE  /\ Shape(s) /\ s # <<>>
           /\ Starts \intersect Rest(s) = {} /\ Do("standby") \in Rest(s)
           /\ StopsInterval \intersect Rest(s) # {} /\ StopsSingle \intersect Rest(s) # {}
           /\ RadioOn \intersect Rest(s) = {}
<1> USE StepTypes, DistinctSteps DEF Names, Timers
<1>1. CASE s = AdvertiseStop
  <2>1. /\ s \in Seq(Steps) /\ Len(s) = 4
        /\ s[1] = Stopping("ifs") /\ s[2] = MustStop("interval") /\ s[3] = MustStop("single")
        /\ s[4] = Do("standby")
    BY <1>1 DEF AdvertiseStop
  <2>2. Rest(s) = {Stopping("ifs"), MustStop("interval"), MustStop("single"), Do("standby")}
    BY <2>1 DEF Rest
  <2>3. Starts \intersect Rest(s) = {}
    BY <2>2 DEF Starts
  <2>4. \A k \in 1 .. 4 : s[k] \in StopsInterval => k = 2
    BY <2>1 DEF StopsInterval
  <2>5. \A k \in 2 .. 4 : s[k] # Arming("interval")
    BY <2>1
  <2>6. 3 \in 3 .. 4 /\ s[3] \in StopsSingle
    BY <2>1 DEF StopsSingle
  <2>7. Shape(s)
    BY <2>1, <2>2, <2>3, <2>4, <2>5, <2>6 DEF Shape
  <2>8. RadioOn \intersect Rest(s) = {}
    BY <2>2 DEF RadioOn
  <2>9. StopsInterval \intersect Rest(s) # {} /\ StopsSingle \intersect Rest(s) # {}
    BY <2>2 DEF StopsInterval, StopsSingle
  <2>10. s # <<>> /\ Do("standby") \in Rest(s)
    <3>1. Len(s) # 0
      BY <2>1
    <3> QED BY <2>2, <3>1, EmptyLength
  <2> QED BY <2>3, <2>7, <2>8, <2>9, <2>10
<1>2. CASE s = ScanStop
  <2>1. /\ s \in Seq(Steps) /\ Len(s) = 4
        /\ s[1] = MustStop("interval") /\ s[2] = MustStop("single")
        /\ s[3] = Do("radio_stop") /\ s[4] = Do("standby")
    BY <1>2 DEF ScanStop
  <2>2. Rest(s) = {MustStop("interval"), MustStop("single"), Do("radio_stop"), Do("standby")}
    BY <2>1 DEF Rest
  <2>3. Starts \intersect Rest(s) = {}
    BY <2>2 DEF Starts
  <2>4. \A k \in 1 .. 4 : s[k] \in StopsInterval => k = 1
    BY <2>1 DEF StopsInterval
  <2>5. \A k \in 2 .. 4 : s[k] # Arming("interval")
    BY <2>1
  <2>6. 2 \in 2 .. 4 /\ s[2] \in StopsSingle
    BY <2>1 DEF StopsSingle
  <2>7. Shape(s)
    BY <2>1, <2>2, <2>3, <2>4, <2>5, <2>6 DEF Shape
  <2>8. RadioOn \intersect Rest(s) = {}
    BY <2>2 DEF RadioOn
  <2>9. StopsInterval \intersect Rest(s) # {} /\ StopsSingle \intersect Rest(s) # {}
    BY <2>2 DEF StopsInterval, StopsSingle
  <2>10. s # <<>> /\ Do("standby") \in Rest(s)
    <3>1. Len(s) # 0
      BY <2>1
    <3> QED BY <2>2, <3>1, EmptyLength
  <2> QED BY <2>3, <2>7, <2>8, <2>9, <2>10
<1>3. CASE s = ConnCancel
  <2>1. /\ s \in Seq(Steps) /\ Len(s) = 5
        /\ s[1] = Stopping("interval") /\ s[2] = Stopping("single") /\ s[3] = Stopping("ifs")
        /\ s[4] = Do("radio_stop") /\ s[5] = Do("standby")
    BY <1>3 DEF ConnCancel
  <2>2. Rest(s) = {Stopping("interval"), Stopping("single"), Stopping("ifs"), Do("radio_stop"),
                   Do("standby")}
    BY <2>1 DEF Rest
  <2>3. Starts \intersect Rest(s) = {}
    BY <2>2 DEF Starts
  <2>4. \A k \in 1 .. 5 : s[k] \in StopsInterval => k = 1
    BY <2>1 DEF StopsInterval
  <2>5. \A k \in 2 .. 5 : s[k] # Arming("interval")
    BY <2>1
  <2>6. 2 \in 2 .. 5 /\ s[2] \in StopsSingle
    BY <2>1 DEF StopsSingle
  <2>7. Shape(s)
    BY <2>1, <2>2, <2>3, <2>4, <2>5, <2>6 DEF Shape
  <2>8. RadioOn \intersect Rest(s) = {}
    BY <2>2 DEF RadioOn
  <2>9. StopsInterval \intersect Rest(s) # {} /\ StopsSingle \intersect Rest(s) # {}
    BY <2>2 DEF StopsInterval, StopsSingle
  <2>10. s # <<>> /\ Do("standby") \in Rest(s)
    <3>1. Len(s) # 0
      BY <2>1
    <3> QED BY <2>2, <3>1, EmptyLength
  <2> QED BY <2>3, <2>7, <2>8, <2>9, <2>10
<1> QED BY <1>1, <1>2, <1>3

-----------------------------------------------------------------------------
(* The inductive invariant.  Which timers are armed follows from the state    *)
(* and from what remains of a call: both periodic timers are stopped by the   *)
(* time STANDBY is entered, and no callback arms one again once the interval  *)
(* timer is.                                                                  *)

ArmedOK ==
    /\ current_state = "standby" /\ (todo = <<>> \/ Arming("interval") \in Rest(todo)) =>
            armed \subseteq {"ifs"}
    /\ todo # <<>> /\ Do("enter") \notin Rest(todo) => current_state # "standby"
    /\ Do("enter") \in Rest(todo) => goal # "standby"
    /\ Do("standby") \in Rest(todo) /\ StopsInterval \intersect Rest(todo) = {} =>
            "interval" \notin armed
    /\ Do("standby") \in Rest(todo) /\ StopsSingle \intersect Rest(todo) = {} =>
            "single" \notin armed

RadioOK ==
    /\ radio \in Radios /\ Tuned(radio)
    /\ RadioOn \intersect Rest(todo) # {} =>
            radio.ch \in Channels \/ Do("prepare") \in Rest(todo)

\* A call that has found a timer armed is about to stop it.
Places == {"outside", "tested", "marked", "cleared", "up", "down", "zero"}

WithinOK ==
    /\ within \in [at : Places, count : 0 .. 255]
    /\ within.at = "tested" => todo # <<>> /\ Head(todo) \in Stops

CallOK ==
    /\ Shape(todo) /\ ArmedOK /\ WithinOK
    /\ goal \in States /\ slipped \in 0 .. CallDelay

IrqOK == due \in SUBSET Timers /\ due \subseteq armed

LinkInv == LinkOK /\ TimersOK /\ IrqOK /\ RadioOK /\ CallOK /\ visited \in SUBSET Channels

LEMMA LinkInvTypes == LinkInv => TypeOK
BY DEF LinkInv, TypeOK, IrqOK, RadioOK, Radios, CallOK, Shape, WithinOK, Places

LEMMA ConstantTypes ==
    /\ {Ifs, CallDelay, PduInterval, AdvInterval, ScanInterval, ScanWindow} \subseteq Nat
    /\ 0 \in 0 .. CallDelay
BY LinkLayerAssumption

LEMMA OutsideOK == /\ Outside.at = "outside"
                   /\ Outside \in [at : Places, count : 0 .. 255]
BY DEF Outside, Places

LEMMA InitLinkInv == Init => LinkInv
<1> SUFFICES ASSUME Init PROVE LinkInv
  OBVIOUS
<1>1. LinkOK /\ TimersOK /\ IrqOK /\ visited \in SUBSET Channels
  <2>1. left \in [Timers -> Nat] /\ cb \in [Timers -> States]
    BY DEF Init, States
  <2>2. count = 0 /\ running = FALSE
    BY DEF Init
  <2>6. count \in 0 .. 255
    BY <2>2
  <2>3. count \in 0 .. 255 /\ running \in BOOLEAN
    <3>1. running \in BOOLEAN
      BY <2>2
    <3> QED BY <2>6, <3>1
  <2>4. LinkOK
    <3>1. /\ current_state = "standby" /\ adv_ch_idx = 0 /\ adv_ch_map = {}
          /\ adv_type = "ADV_NONCONN_IND" /\ callbacks = "standby" /\ target = "none"
      BY DEF Init
    <3> QED BY <3>1 DEF LinkOK, States, AdvTypes
  <2>5. armed = {} /\ leftover = {} /\ lapsing = {} /\ due = {} /\ visited = {}
    BY DEF Init
  <2> QED BY <2>1, <2>3, <2>4, <2>5 DEF TimersOK, IrqOK
<1>2. RadioOK
  BY ResetRadio, ShapeEmpty DEF Init, RadioOK
<1>4. WithinOK
  BY OutsideOK DEF Init, WithinOK
<1>5. CallOK
  BY <1>4, ShapeEmpty, ConstantTypes DEF Init, CallOK, ArmedOK, States
<1> QED BY <1>1, <1>2, <1>5 DEF LinkInv

-----------------------------------------------------------------------------
(* The timer driver and the channel index.                                    *)

LEMMA Octets == \A n \in Nat : U8(n) \in 0 .. 255
BY DEF U8

LEMMA MarkTypes ==
    ASSUME TimersOK, NEW i \in Timers, NEW t \in Nat, NEW st \in States, Mark(i, t, st),
           count' \in 0 .. 255, running' \in BOOLEAN, leftover' \in SUBSET Timers
    PROVE  TimersOK' /\ armed' = armed \union {i}
<1>1. left' \in [Timers -> Nat] /\ cb' \in [Timers -> States]
  BY DEF Mark, TimersOK
<1> QED BY <1>1 DEF Mark, TimersOK

LEMMA TimerStartTypes ==
    ASSUME TimersOK, NEW i \in Timers, NEW t \in Nat, NEW st \in States, TimerStart(i, t, st)
    PROVE  TimersOK' /\ armed' = armed \union {i}
<1>1. CASE i \in armed
  BY <1>1 DEF TimerStart, TimersOK, timers
<1>2. CASE i \notin armed
  <2>1. Mark(i, t, st) /\ count' \in 0 .. 255
    BY <1>2, Octets DEF TimerStart, TimersOK
  <2>2. running' \in BOOLEAN /\ leftover' \in SUBSET Timers
    BY <1>2 DEF TimerStart, TimersOK
  <2> QED BY <2>1, <2>2, MarkTypes
<1> QED BY <1>1, <1>2

LEMMA ClearTypes ==
    ASSUME NEW since \in SUBSET Timers, NEW t \in Nat, Clear(since, t), armed' \in SUBSET Timers
    PROVE  left' \in [Timers -> Nat] /\ lapsing' \in SUBSET Timers
<1>1. PICK match \in [armed' \ since -> 1 .. AdvInterval] :
        left' = [j \in Timers |-> IF j \in since THEN t
                                 ELSE IF j \in armed' THEN match[j] ELSE 0]
  BY DEF Clear
<1>2. ASSUME NEW j \in Timers
      PROVE  (IF j \in since THEN t ELSE IF j \in armed' THEN match[j] ELSE 0) \in Nat
  <2>1. j \in armed' \ since => match[j] \in Nat
    BY ConstantTypes
  <2> QED BY <2>1
<1>3. left' \in [Timers -> Nat]
  BY <1>1, <1>2
<1> QED BY <1>3 DEF Clear

LEMMA CountDownTypes ==
    ASSUME TimersOK, NEW n \in 0 .. 255, CountDown(n)
    PROVE  count' \in 0 .. 255 /\ running' \in BOOLEAN
BY DEF CountDown, TimersOK

LEMMA DisarmTypes ==
    ASSUME TimersOK, NEW i \in Timers, NEW s \in SUBSET Timers, Disarm(i, s)
    PROVE  TimersOK' /\ armed' = armed \ {i}
<1> DEFINE n == U8(count + 255)
<1>1. n \in 0 .. 255
  BY Octets DEF TimersOK
<1>2. /\ armed' = armed \ {i} /\ CountDown(n) /\ UNCHANGED <<cb, leftover>>
      /\ \/ Clear({}, 0)
         \/ /\ lapsing' = lapsing \union s
            /\ left' \in {left, [left EXCEPT ![i] = 0]}
  BY DEF Disarm
<1> HIDE DEF n
<1>3. armed' \in SUBSET Timers
  BY <1>2 DEF TimersOK
<1>4. count' \in 0 .. 255 /\ running' \in BOOLEAN
  BY <1>1, <1>2, CountDownTypes
<1>5. left' \in [Timers -> Nat] /\ lapsing' \in SUBSET Timers
  <2>1. CASE Clear({}, 0)
    BY <1>3, <2>1, ClearTypes
  <2>2. CASE lapsing' = lapsing \union s /\ left' \in {left, [left EXCEPT ![i] = 0]}
    BY <2>2 DEF TimersOK
  <2> QED BY <1>2, <2>1, <2>2
<1> QED BY <1>2, <1>3, <1>4, <1>5 DEF TimersOK

LEMMA TimerStopTypes ==
    ASSUME TimersOK, NEW i \in Timers, TimerStop(i)
    PROVE  TimersOK' /\ armed' = armed \ {i}
<1>1. CASE i \in armed
  <2>1. Early(i) \in SUBSET Timers
    BY DEF Early
  <2> QED BY <1>1, <2>1, DisarmTypes DEF TimerStop
<1>2. CASE i \notin armed
  BY <1>2 DEF TimerStop, TimersOK, timers
<1> QED BY <1>1, <1>2

LEMMA RestartTypes ==
    ASSUME TimersOK, NEW p \in Nat, NEW start \in BOOLEAN, NEW t \in Nat,
           RestartInterval(p, start, t), UNCHANGED leftover
    PROVE  /\ TimersOK' /\ armed \subseteq armed' /\ armed' \subseteq armed \union {"single"}
<1>1. count' \in 0 .. 255 /\ running' \in BOOLEAN
  BY Octets DEF RestartInterval, TimersOK
<1>2. left' \in [Timers -> Nat] /\ cb' \in [Timers -> States]
  BY DEF RestartInterval, TimersOK, Timers
<1>3. armed' \in {armed, armed \union {"single"}} /\ lapsing' \in {lapsing, lapsing \ {"single"}}
  BY DEF RestartInterval
<1> QED BY <1>1, <1>2, <1>3 DEF TimersOK, Timers

LEMMA RestartSingleTypes ==
    ASSUME TimersOK, NEW t \in Nat, RestartSingle(t)
    PROVE  TimersOK' /\ armed' = armed
<1>1. left' \in [Timers -> Nat] /\ lapsing' \in SUBSET Timers
  <2>1. CASE count = 1
    BY <2>1, ClearTypes DEF RestartSingle, TimersOK, Timers
  <2>2. CASE count # 1
    BY <2>2 DEF RestartSingle, TimersOK
  <2> QED BY <2>1, <2>2
<1> QED BY <1>1 DEF RestartSingle, TimersOK

LEMMA IndexTypes ==
    ASSUME LinkOK
    PROVE  /\ first_adv_ch_idx \in 0 .. 2 /\ rotated_ch_idx \in 0 .. 2
           /\ \A i \in 0 .. 2 : inc_adv_ch_idx(i) \in 0 .. 2 /\ Channel(i) \in Channels
           /\ \A i \in 0 .. 2 : HasNext(i) \in BOOLEAN
           /\ AdvFlags \in SUBSET {"rx_next"}
           /\ \A st \in States : RecvFlags(st) \in SUBSET {"tx_next"}
BY DEF LinkOK, first_adv_ch_idx, rotated_ch_idx, inc_adv_ch_idx, next_adv_ch_idx, HasNext,
       Channel, Channels, AdvFlags, RecvFlags

LEMMA SendAdvRadio ==
    ASSUME radio \in Radios, Tuned(radio), LinkOK, NEW i \in 0 .. 2
    PROVE  SendAdv(i) \in Radios /\ Tuned(SendAdv(i)) /\ SendAdv(i).ch \in Channels
BY StopRadio, PrepareRadio, SendRadio, IndexTypes DEF SendAdv

LEMMA ListenRadio ==
    ASSUME radio \in Radios, Tuned(radio), LinkOK, NEW st \in States
    PROVE  Listen(st) \in Radios /\ Tuned(Listen(st)) /\ Listen(st).ch \in Channels
<1> DEFINE tuned == R!Prepare(radio, Channel(rotated_ch_idx))
           on == R!Recv(tuned, RecvFlags(st))
<1>1. tuned \in Radios /\ Tuned(tuned) /\ tuned.ch \in Channels
  BY PrepareRadio, IndexTypes
<1>2. on \in Radios /\ Tuned(on) /\ on.ch \in Channels
  <2> HIDE DEF tuned
  <2> QED BY <1>1, RecvRadio, IndexTypes
<1>3. Listen(st) = IF st = "initiating" THEN R!SetOutBuffer(on, "connect_req") ELSE on
  BY DEF Listen
<1> HIDE DEF on
<1> QED BY <1>2, <1>3, OutRadio

-----------------------------------------------------------------------------
(* The interrupt handlers.                                                    *)

\* A handler does not disturb an API call: the periodic timers that a stop function
\* has stopped stay so, since only the interval timer's callback arms one.
LEMMA HandlerKeepsCall ==
    ASSUME CallOK, UNCHANGED <<todo, goal, slipped, current_state>>,
           within' \in {within, Outside} \/ WithinOK',
           \/ armed' \subseteq armed \union {"ifs"}
           \/ "interval" \in armed /\ armed' \subseteq armed \union {"single"}
    PROVE  CallOK'
<1>1. StopsInterval \intersect Rest(todo) # {} => StopsSingle \intersect Rest(todo) # {}
  <2>1. ASSUME NEW k \in 1 .. Len(todo), todo[k] \in StopsInterval
        PROVE  StopsSingle \intersect Rest(todo) # {}
    <3>1. todo \in Seq(Steps) /\ Len(todo) \in Nat
      BY DEF CallOK, Shape
    <3>2. PICK j \in k + 1 .. Len(todo) : todo[j] \in StopsSingle
      BY <2>1 DEF CallOK, Shape
    <3>3. j \in 1 .. Len(todo)
      BY <3>1, <3>2
    <3> QED BY <3>2, <3>3 DEF Rest
  <2> QED BY <2>1 DEF Rest
<1>2. ArmedOK'
  BY <1>1 DEF CallOK, ArmedOK
<1>3. WithinOK'
  BY OutsideOK DEF CallOK, WithinOK
<1> QED BY <1>2, <1>3 DEF CallOK

LEMMA HandlerKeepsRadio ==
    ASSUME RadioOK, UNCHANGED todo, radio' \in Radios, Tuned(radio'),
           radio'.ch = radio.ch \/ radio'.ch \in Channels
    PROVE  RadioOK'
BY DEF RadioOK, Tuned

LEMMA ServeKeepsIrq ==
    ASSUME IrqOK, NEW i \in Timers, NextToServe(i), armed \ {i} \subseteq armed'
    PROVE  IrqOK' /\ i \in armed
BY DEF IrqOK, NextToServe

LEMMA TimerIrqStep ==
    ASSUME LinkInv, TimerIrq
    PROVE  LinkInv'
<1>1. /\ due' = Expired /\ leftover' = {}
      /\ UNCHANGED <<link, radio, armed, left, cb, lapsing, count, running>>
      /\ UNCHANGED <<todo, goal, slipped, within, visited>>
  BY DEF TimerIrq, thread, ghosts
<1>2. IrqOK'
  BY <1>1 DEF IrqOK, Expired, LinkInv, TimersOK
<1>3. TimersOK' /\ LinkOK'
  BY <1>1 DEF LinkInv, TimersOK, LinkOK, link
<1>4. RadioOK' /\ CallOK'
  BY <1>1, HandlerKeepsCall, HandlerKeepsRadio DEF LinkInv, link, RadioOK
<1> QED BY <1>1, <1>2, <1>3, <1>4 DEF LinkInv

LEMMA TimerCallbackStep ==
    ASSUME LinkInv, TimerCallback
    PROVE  LinkInv'
<1> USE DEF LinkInv
<1>0. radio \in Radios /\ Tuned(radio)
  BY DEF RadioOK
<1>1. CASE AdvIntervalCb
  <2>1. /\ NextToServe("interval") /\ radio' = SendAdv(first_adv_ch_idx)
        /\ adv_ch_idx' = inc_adv_ch_idx(first_adv_ch_idx)
        /\ RestartInterval(AdvInterval, HasNext(first_adv_ch_idx), PduInterval)
        /\ visited' = {}
        /\ UNCHANGED <<current_state, adv_ch_map, adv_type, callbacks, target, leftover,
                       todo, goal, slipped, within>>
    BY <1>1 DEF AdvIntervalCb, thread
  <2>2. /\ TimersOK' /\ armed \subseteq armed' /\ armed' \subseteq armed \union {"single"}
    BY <2>1, RestartTypes, IndexTypes, ConstantTypes
  <2>3. IrqOK' /\ "interval" \in armed
    BY <2>1, <2>2, ServeKeepsIrq DEF Timers
  <2>4. RadioOK'
    BY <1>0, <2>1, SendAdvRadio, IndexTypes, HandlerKeepsRadio
  <2>5. CallOK'
    BY <2>1, <2>2, <2>3, HandlerKeepsCall
  <2>6. LinkOK'
    BY <2>1, IndexTypes DEF LinkOK
  <2> QED BY <2>1, <2>2, <2>3, <2>4, <2>5, <2>6
<1>2. CASE ScanIntervalCb
  <2>1. /\ NextToServe("interval") /\ radio' = Listen(cb["interval"])
        /\ adv_ch_idx' = rotated_ch_idx
        /\ RestartInterval(ScanInterval, TRUE, ScanWindow)
        /\ UNCHANGED <<current_state, adv_ch_map, adv_type, callbacks, target, leftover,
                       todo, goal, slipped, within, visited>>
    BY <1>2 DEF ScanIntervalCb, thread, ghosts
  <2>2. cb["interval"] \in States
    BY DEF TimersOK, Timers
  <2>3. /\ TimersOK' /\ armed \subseteq armed' /\ armed' \subseteq armed \union {"single"}
    BY <2>1, RestartTypes, ConstantTypes
  <2>4. IrqOK' /\ "interval" \in armed
    BY <2>1, <2>3, ServeKeepsIrq DEF Timers
  <2>5. RadioOK'
    BY <1>0, <2>1, <2>2, ListenRadio, HandlerKeepsRadio
  <2>6. CallOK'
    BY <2>1, <2>3, <2>4, HandlerKeepsCall
  <2>7. LinkOK'
    BY <2>1, IndexTypes DEF LinkOK
  <2> QED BY <2>1, <2>3, <2>4, <2>5, <2>6, <2>7
<1>3. CASE AdvSingleShotCb
  <2>1. /\ NextToServe("single") /\ radio' = SendAdv(adv_ch_idx)
        /\ adv_ch_idx' = inc_adv_ch_idx(adv_ch_idx)
        /\ RestartSingle(PduInterval) \/ Disarm("single", {})
        /\ UNCHANGED <<current_state, adv_ch_map, adv_type, callbacks, target,
                       todo, goal, slipped, within, visited>>
    BY <1>3 DEF AdvSingleShotCb, thread, ghosts
  <2>2. TimersOK' /\ armed \ {"single"} \subseteq armed' /\ armed' \subseteq armed
    <3>1. CASE Disarm("single", {})
      BY <3>1, DisarmTypes DEF Timers
    <3>2. CASE RestartSingle(PduInterval)
      BY <3>2, RestartSingleTypes, ConstantTypes
    <3> QED BY <2>1, <3>1, <3>2
  <2>3. IrqOK'
    BY <2>1, <2>2, ServeKeepsIrq DEF Timers
  <2>4. adv_ch_idx \in 0 .. 2
    BY DEF LinkOK
  <2>5. RadioOK'
    BY <1>0, <2>1, <2>4, SendAdvRadio, HandlerKeepsRadio
  <2>6. CallOK'
    BY <2>1, <2>2, HandlerKeepsCall
  <2>7. LinkOK'
    BY <2>1, <2>4, IndexTypes DEF LinkOK
  <2> QED BY <2>1, <2>2, <2>3, <2>5, <2>6, <2>7
<1>4. ASSUME NEW i \in {"single", "ifs"}, StopRadioCb(i)
      PROVE  LinkInv'
  <2>1. /\ NextToServe(i) /\ radio' = R!Stop(radio) /\ Disarm(i, {}) /\ i \in Timers
        /\ UNCHANGED <<link, todo, goal, slipped, within, visited>>
    BY <1>4 DEF StopRadioCb, thread, ghosts, Timers
  <2>2. TimersOK' /\ armed' = armed \ {i}
    BY <2>1, DisarmTypes
  <2>3. IrqOK'
    BY <2>1, <2>2, ServeKeepsIrq
  <2>4. RadioOK'
    BY <1>0, <2>1, StopRadio, HandlerKeepsRadio
  <2>5. CallOK'
    BY <2>1, <2>2, HandlerKeepsCall DEF link
  <2>6. LinkOK'
    BY <2>1 DEF LinkOK, link
  <2> QED BY <2>1, <2>2, <2>3, <2>4, <2>5, <2>6
<1> QED BY <1>1, <1>2, <1>3, <1>4 DEF TimerCallback

\* What the callbacks of the radio do: at most the T_IFS timer is started or
\* stopped, and the radio is left in a state its driver's calls lead to.
LEMMA RadioInterruptStep ==
    ASSUME LinkInv, RadioInterrupt
    PROVE  LinkInv'
<1> USE DEF LinkInv
<1> DEFINE handled == R!HandleEnd(radio)
<1>1. /\ radio \in Radios /\ Tuned(radio)
      /\ handled \in Radios /\ Tuned(handled) /\ handled.ch = radio.ch
  BY EndRadio DEF RadioOK
<1> HIDE DEF handled
<1>2. ASSUME R!Received(radio)
      PROVE  radio.ch \in Channels /\ handled.ch \in Channels
  BY <1>1, <1>2 DEF R!Received, Tuned
<1>3. ASSUME NEW st, EndIrq(st), TimersOK', armed' \subseteq armed \union {"ifs"},
             armed \ {"ifs"} \subseteq armed', target' \in Peers \union {"none"},
             radio' \in Radios, Tuned(radio'), radio'.ch = radio.ch
      PROVE  LinkInv'
  <2>1. /\ UNCHANGED <<current_state, adv_ch_idx, adv_ch_map, adv_type, callbacks,
                       due, todo, goal, slipped, within, visited>>
        /\ due = {}
    BY <1>3 DEF EndIrq, thread, ghosts
  <2>2. LinkOK' /\ IrqOK'
    BY <1>3, <2>1 DEF LinkOK, IrqOK
  <2>3. RadioOK' /\ CallOK'
    BY <1>3, <2>1, HandlerKeepsRadio, HandlerKeepsCall
  <2> QED BY <1>3, <2>1, <2>2, <2>3
<1>4. target \in Peers \union {"none"}
  BY DEF LinkOK
<1>5. UNCHANGED timers => TimersOK' /\ armed' = armed
  BY DEF timers, TimersOK
<1>6. CASE RadioIrqOnly
  BY <1>1, <1>3, <1>4, <1>5, <1>6 DEF RadioIrqOnly, handled
<1>7. CASE AdvRadioSendCb
  <2>1. TimersOK' /\ armed' = armed \union {"ifs"}
    BY <1>7, TimerStartTypes, ConstantTypes DEF AdvRadioSendCb, Timers, States
  <2> QED BY <1>1, <1>3, <1>4, <1>7, <2>1 DEF AdvRadioSendCb, handled
<1>8. CASE AdvRadioRecvCb
  <2> DEFINE response == R!Send(handled, "scan_rsp", {})
  <2>1. /\ EndIrq("advertising") /\ R!Received(radio) /\ UNCHANGED target
        /\ \/ TimerStop("ifs") /\ radio' \in {response, R!Stop(response)}
           \/ radio' = handled /\ UNCHANGED timers
    BY <1>8 DEF AdvRadioRecvCb, handled
  <2>2. response \in Radios /\ Tuned(response) /\ response.ch = radio.ch
    BY <1>1, <1>2, <2>1, SendRadio
  <2> HIDE DEF response
  <2>3. /\ R!Stop(response) \in Radios /\ Tuned(R!Stop(response))
        /\ R!Stop(response).ch = radio.ch
    BY <2>2, StopRadio
  <2>4. CASE TimerStop("ifs") /\ radio' \in {response, R!Stop(response)}
    <3>1. TimersOK' /\ armed' = armed \ {"ifs"}
      BY <2>4, TimerStopTypes DEF Timers
    <3> QED BY <1>3, <1>4, <2>1, <2>2, <2>3, <2>4, <3>1
  <2>5. CASE radio' = handled /\ UNCHANGED timers
    BY <1>1, <1>3, <1>4, <1>5, <2>1, <2>5
  <2> QED BY <2>1, <2>4, <2>5
<1>9. CASE ScanRadioRecvCb
  <2>1. /\ EndIrq("scanning") /\ R!Received(radio) /\ radio' = R!Recv(handled, {})
        /\ UNCHANGED <<timers, target>>
    BY <1>9 DEF ScanRadioRecvCb, handled
  <2>2. /\ R!Recv(handled, {}) \in Radios /\ Tuned(R!Recv(handled, {}))
        /\ R!Recv(handled, {}).ch = radio.ch
    BY <1>1, <1>2, <2>1, RecvRadio
  <2> QED BY <1>3, <1>4, <1>5, <2>1, <2>2
<1>10. CASE InitRadioRecvCb
  <2> DEFINE again == R!Recv(R!Stop(handled), {"tx_next"})
  <2>1. /\ EndIrq("initiating") /\ R!Received(radio) /\ UNCHANGED timers
        /\ \/ /\ Connectable(radio.inbuf) /\ target' = radio.inbuf.from /\ radio' = handled
           \/ radio' = again /\ UNCHANGED target
    BY <1>10 DEF InitRadioRecvCb, handled
  <2>2. again \in Radios /\ Tuned(again) /\ again.ch = radio.ch
    <3>1. /\ R!Stop(handled) \in Radios /\ R!Stop(handled).ch = radio.ch
          /\ radio.ch \in Channels
      BY <1>1, <1>2, <2>1, StopRadio
    <3> QED BY <3>1, RecvRadio
  <2> HIDE DEF again
  <2>3. target' \in Peers \union {"none"}
    BY <1>4, <2>1 DEF Connectable
  <2> QED BY <1>1, <1>3, <1>5, <2>1, <2>2, <2>3
<1> QED BY <1>6, <1>7, <1>8, <1>9, <1>10 DEF RadioInterrupt

-----------------------------------------------------------------------------
(* The application's calls.                                                   *)

LEMMA CallStep ==
    ASSUME LinkInv, Call
    PROVE  LinkInv'
<1> USE DEF LinkInv
<1>1. ASSUME NEW s \in {AdvertiseStart, ScanStart, ConnCreate}, todo' = s, slipped' = 0,
             todo = <<>>, within' = within, goal' \in States \ {"standby"}, current_state' = current_state,
             UNCHANGED <<radio, timers, due, ghosts>>, LinkOK'
      PROVE  LinkInv'
  <2>1. /\ Shape(s) /\ Do("enter") \in Rest(s) /\ Do("standby") \notin Rest(s)
        /\ s # <<>> /\ Do("prepare") \in Rest(s)
    BY <1>1, StartScripts
  <2>2. CallOK'
    BY <1>1, <2>1, ConstantTypes DEF CallOK, ArmedOK, WithinOK, timers
  <2>3. RadioOK'
    BY <1>1, <2>1 DEF RadioOK
  <2>4. TimersOK' /\ IrqOK' /\ visited' = visited
    BY <1>1 DEF TimersOK, IrqOK, timers, ghosts
  <2> QED BY <1>1, <2>2, <2>3, <2>4
<1>2. ASSUME NEW s \in {AdvertiseStop, ScanStop, ConnCancel}, todo' = s, slipped' = 0,
             todo = <<>>, within' = within, goal' = goal, current_state # "standby",
             UNCHANGED <<link, radio, timers, due, ghosts>>
      PROVE  LinkInv'
  <2>1. /\ Shape(s) /\ s # <<>>
        /\ Starts \intersect Rest(s) = {} /\ Do("standby") \in Rest(s)
        /\ StopsInterval \intersect Rest(s) # {} /\ StopsSingle \intersect Rest(s) # {}
        /\ RadioOn \intersect Rest(s) = {}
    BY <1>2, StopScripts
  <2>2. CallOK'
    BY <1>2, <2>1, ConstantTypes DEF CallOK, ArmedOK, WithinOK, timers, Starts, link
  <2>3. RadioOK' /\ LinkOK'
    BY <1>2, <2>1 DEF RadioOK, LinkOK, link
  <2>4. TimersOK' /\ IrqOK' /\ visited' = visited
    BY <1>2 DEF TimersOK, IrqOK, timers, ghosts
  <2> QED BY <1>2, <2>2, <2>3, <2>4
<1> USE DEF CanCall, BeginCall, InCall
<1>3. ASSUME NEW type \in AdvTypes, NEW chmap \in ChMaps, ll_advertise_start(type, chmap)
      PROVE  LinkInv'
  <2>1. LinkOK'
    BY <1>3, LinkLayerAssumption DEF ll_advertise_start, LinkOK, States
  <2> QED BY <1>1, <1>3, <2>1 DEF ll_advertise_start, AdvertiseStart, States
<1>4. CASE ll_scan_start
  <2>1. LinkOK'
    BY <1>4 DEF ll_scan_start, LinkOK, States
  <2> QED BY <1>1, <1>4, <2>1 DEF ll_scan_start, ScanStart, States
<1>5. CASE ll_conn_create
  <2>1. LinkOK'
    BY <1>5 DEF ll_conn_create, LinkOK, States
  <2> QED BY <1>1, <1>5, <2>1 DEF ll_conn_create, ConnCreate, States
<1>6. CASE ll_advertise_stop \/ ll_scan_stop \/ ll_conn_cancel
  BY <1>2, <1>6 DEF ll_advertise_stop, ll_scan_stop, ll_conn_cancel, AdvertiseStop, ScanStop,
                    ConnCancel
<1> QED BY <1>3, <1>4, <1>5, <1>6 DEF Call

\* The call goes on to its next step.
Advance ==
    /\ todo' = Tail(todo) /\ slipped' = slipped
    /\ within' \in [at : {"outside", "marked", "cleared"}, count : 0 .. 255]

LEMMA DoneAdvances == Done /\ within = Outside => Advance
BY DEF Done, Advance, Outside

\* A step done: the invariant of the call holds of what remains, whichever step it
\* was, if the step armed and stopped no timer but its own.
LEMMA CallAdvances ==
    ASSUME CallOK, todo # <<>>, Advance, goal' = goal, armed' \in SUBSET Timers,
           Head(todo) = Do("enter") => current_state' = goal,
           Head(todo) \notin {Do("enter"), Do("standby")} => current_state' = current_state,
           "interval" \in armed' =>
                ("interval" \in armed /\ Head(todo) \notin StopsInterval) \/ Head(todo) \in Starts,
           "single" \in armed' =>
                ("single" \in armed /\ Head(todo) \notin StopsSingle) \/ Head(todo) \in Starts
    PROVE  CallOK'
<1> DEFINE h == Head(todo)
           t == Tail(todo)
<1>1. /\ Shape(todo) /\ ArmedOK /\ todo' = t
      /\ goal' \in States /\ slipped' \in 0 .. CallDelay
  BY DEF CallOK, Advance
<1>2. /\ Shape(t) /\ Rest(todo) = {h} \union Rest(t)
      /\ Arming("interval") \notin Rest(t)
      /\ t = <<>> => h \in {Do("standby"), Arming("single")}
      /\ h = Do("standby") => t = <<>>
  BY <1>1, ShapeTail
<1>3. Do("standby") \in Rest(todo) => h \notin Starts
  BY <1>1, <1>2 DEF Shape
<1>4. Do("standby") # Do("enter") /\ Arming("single") # Do("enter")
      /\ Arming("single") # Do("standby")
  BY DistinctSteps DEF Names, Timers
<1>5. t = <<>> => Rest(t) = {}
  BY ShapeEmpty
<1> HIDE DEF h, t
<1>6. ASSUME current_state' = "standby", t = <<>>
      PROVE  armed' \subseteq {"ifs"}
  <2>1. h = Do("standby")
    <3>1. CASE h = Arming("single")
      <4>1. Do("enter") \notin Rest(todo) /\ current_state' = current_state
        BY <1>2, <1>4, <1>5, <1>6, <3>1 DEF h
      <4> QED BY <1>1, <1>6, <4>1 DEF ArmedOK
    <3> QED BY <1>2, <1>6, <3>1
  <2>2. Rest(todo) = {Do("standby")}
    BY <1>2, <1>5, <1>6, <2>1
  <2>3. Do("standby") \notin StopsInterval \union StopsSingle
    BY DistinctSteps DEF Names, Timers, StopsInterval, StopsSingle
  <2>4. "interval" \notin armed /\ "single" \notin armed
    BY <1>1, <2>2, <2>3 DEF ArmedOK
  <2>5. "interval" \notin armed' /\ "single" \notin armed'
    BY <1>3, <2>1, <2>2, <2>4 DEF h
  <2> QED BY <2>5 DEF Timers
<1>7. ASSUME t # <<>>, Do("enter") \notin Rest(t)
      PROVE  current_state' # "standby"
  <2>1. CASE h = Do("enter")
    BY <1>1, <1>2, <2>1 DEF ArmedOK, h
  <2>2. CASE h # Do("enter")
    BY <1>1, <1>2, <1>7, <2>2 DEF ArmedOK, h
  <2> QED BY <2>1, <2>2
<1>8. Do("enter") \in Rest(t) => goal' # "standby"
  BY <1>1, <1>2 DEF ArmedOK
<1>9. Do("standby") \in Rest(t) /\ StopsInterval \intersect Rest(t) = {} => "interval" \notin armed'
  BY <1>1, <1>2, <1>3 DEF ArmedOK, h
<1>10. Do("standby") \in Rest(t) /\ StopsSingle \intersect Rest(t) = {} => "single" \notin armed'
  BY <1>1, <1>2, <1>3 DEF ArmedOK, h
<1>11. ArmedOK'
  BY <1>1, <1>2, <1>6, <1>7, <1>8, <1>9, <1>10 DEF ArmedOK
<1>12. WithinOK'
  BY DEF Advance, WithinOK, Places
<1> QED BY <1>1, <1>2, <1>11, <1>12 DEF CallOK

\* An error that ends a call: the state was not STANDBY.
LEMMA CallFails ==
    ASSUME CallOK, Fail, within = Outside, goal' = goal, current_state' = current_state,
           current_state # "standby"
    PROVE  CallOK'
BY ShapeEmpty, OutsideOK DEF CallOK, ArmedOK, WithinOK, Fail

LEMMA RadioAdvances ==
    ASSUME CallOK, RadioOK, todo # <<>>, todo' \in {Tail(todo), <<>>},
           radio' \in Radios, Tuned(radio'),
           radio'.ch = radio.ch \/ radio'.ch \in Channels,
           Head(todo) = Do("prepare") => radio'.ch \in Channels
    PROVE  RadioOK'
<1>1. Rest(todo) = {Head(todo)} \union Rest(Tail(todo))
  BY ShapeTail DEF CallOK
<1>2. CASE todo' = Tail(todo)
  BY <1>1, <1>2 DEF RadioOK
<1>3. CASE todo' = <<>>
  BY <1>3, ShapeEmpty DEF RadioOK
<1> QED BY <1>2, <1>3

LEMMA StartTimerTypes ==
    ASSUME TimersOK, NEW i \in Timers, NEW t \in Nat, StartTimer(i, t), goal \in States
    PROVE  TimersOK' /\ armed' = armed \union {i} /\ Advance
<1>2. Advance
  BY DEF StartTimer, Advance
<1>3. Mark(i, t, goal) /\ count' \in 0 .. 255 /\ running' \in BOOLEAN
  BY DEF StartTimer, TimersOK
<1>4. leftover' \in SUBSET Timers
  BY DEF StartTimer, TimersOK
<1> QED BY <1>2, <1>3, <1>4, MarkTypes

\* Which timer a step of a call stops.
LEMMA StopStep ==
    ASSUME NEW i \in Timers, Head(todo) \in {Stopping(i), MustStop(i)}
    PROVE  /\ Head(todo) \in Stops
           /\ i = "interval" <=> Head(todo) \in StopsInterval
           /\ i = "single" <=> Head(todo) \in StopsSingle
           /\ Head(todo) \notin {Do("enter"), Do("standby"), Do("prepare")}
<1>1. Head(todo) \in Stops
  BY DEF Stops
<1>2. \A j \in Timers : Head(todo) \in {Stopping(j), MustStop(j)} => i = j
  BY DistinctSteps DEF Names
<1>3. "interval" \in Timers /\ "single" \in Timers
  BY DEF Timers
<1>4. Head(todo) \notin {Do("enter"), Do("standby"), Do("prepare")}
  BY DistinctSteps DEF Names
<1> QED BY <1>1, <1>2, <1>3, <1>4 DEF StopsInterval, StopsSingle

LEMMA StopTimerOf ==
    ASSUME NEW s \in Stops, NEW i \in Timers, s.timer = i
    PROVE  s \in {Stopping(i), MustStop(i)}
<1>1. \A j \in Timers : Stopping(j).timer = j /\ MustStop(j).timer = j
  BY DEF Stopping, MustStop
<1>2. PICK j \in Timers : s \in {Stopping(j), MustStop(j)}
  BY DEF Stops
<1>3. i = j
  BY <1>1, <1>2
<1> QED BY <1>2, <1>3

LEMMA DoneIsNotTested == [at |-> "tested", count |-> 0] # Outside
BY DEF Outside

LEMMA ThreadStepStep ==
    ASSUME LinkInv, ThreadStep
    PROVE  LinkInv'
<1> USE DEF LinkInv
<1>0. Shape(todo) /\ ArmedOK /\ radio \in Radios /\ Tuned(radio) /\ goal \in States
      /\ WithinOK
  BY DEF CallOK, RadioOK
<1>1. CASE ArmInterval
  <2>1. /\ Head(todo) = Arming("interval") /\ due = {} /\ todo # <<>> /\ within = Outside
        /\ IF "interval" \in armed THEN Fail /\ UNCHANGED timers
                                   ELSE StartTimer("interval", Period)
        /\ UNCHANGED <<link, radio, due, goal, visited>>
    BY <1>1 DEF ArmInterval, Doing, CanRun, ghosts
  <2>2. Period \in Nat
    BY ConstantTypes DEF Period
  <2>3. Arming("interval") # Do("enter") /\ Arming("interval") # Do("standby")
        /\ Arming("interval") # Do("prepare") /\ Arming("interval") \in Starts
        /\ Arming("interval") \notin StopsSingle
    BY DistinctSteps DEF Names, Timers, Starts, StopsSingle
  <2>4. CASE "interval" \in armed
    <3>1. current_state # "standby"
      BY <1>0, <2>1, <2>4, ShapeTail DEF ArmedOK
    <3>2. CallOK' /\ todo' = <<>>
      BY <2>1, <2>4, <3>1, CallFails DEF link, Fail
    <3>3. TimersOK' /\ armed' = armed
      BY <2>1, <2>4 DEF TimersOK, timers
    <3>4. RadioOK'
      BY <1>0, <2>1, <2>3, <3>2, RadioAdvances
    <3>5. LinkOK' /\ IrqOK'
      BY <2>1, <3>3 DEF LinkOK, IrqOK, link
    <3> QED BY <2>1, <3>2, <3>3, <3>4, <3>5
  <2>5. CASE "interval" \notin armed
    <3>1. TimersOK' /\ armed' = armed \union {"interval"} /\ Advance
      BY <1>0, <2>1, <2>2, <2>5, StartTimerTypes DEF Timers
    <3>2. CallOK'
      BY <1>0, <2>1, <2>3, <3>1, CallAdvances DEF link, TimersOK
    <3>3. RadioOK'
      BY <1>0, <2>1, <2>3, <3>1, RadioAdvances DEF Advance
    <3>4. LinkOK' /\ IrqOK'
      BY <2>1, <3>1 DEF LinkOK, IrqOK, link
    <3> QED BY <2>1, <3>1, <3>2, <3>3, <3>4
  <2> QED BY <2>4, <2>5
<1>2. CASE ArmSingle
  <2>1. /\ Head(todo) = Arming("single") /\ due = {} /\ todo # <<>> /\ within = Outside
        /\ \/ StartTimer("single", ScanWindow) \/ StartTimer("single", PduInterval)
           \/ Done /\ UNCHANGED timers
        /\ adv_ch_idx' \in {adv_ch_idx, inc_adv_ch_idx(adv_ch_idx)}
        /\ UNCHANGED <<current_state, adv_ch_map, adv_type, callbacks, target, radio, due,
                       goal, visited>>
    BY <1>2 DEF ArmSingle, Doing, CanRun, ghosts
  <2>2. TimersOK' /\ (armed' = armed \/ armed' = armed \union {"single"}) /\ Advance
    <3>1. CASE Done /\ UNCHANGED timers
      BY <2>1, <3>1, DoneAdvances DEF timers, TimersOK
    <3>2. CASE StartTimer("single", ScanWindow) \/ StartTimer("single", PduInterval)
      BY <1>0, <3>2, StartTimerTypes, ConstantTypes DEF Timers
    <3> QED BY <2>1, <3>1, <3>2
  <2>3. Arming("single") # Do("enter") /\ Arming("single") # Do("standby")
        /\ Arming("single") # Do("prepare") /\ Arming("single") \in Starts
    BY DistinctSteps DEF Names, Timers, Starts
  <2>4. CallOK'
    BY <1>0, <2>1, <2>2, <2>3, CallAdvances DEF TimersOK
  <2>5. RadioOK'
    BY <1>0, <2>1, <2>2, <2>3, RadioAdvances DEF Advance
  <2>6. LinkOK' /\ IrqOK'
    BY <2>1, <2>2, IndexTypes DEF LinkOK, IrqOK
  <2> QED BY <2>1, <2>2, <2>4, <2>5, <2>6
<1>3. ASSUME NEW i \in Timers, StopTimer(i)
      PROVE  LinkInv'
  <2>1. /\ Head(todo) \in {Stopping(i), MustStop(i)} /\ due = {} /\ todo # <<>>
        /\ within = Outside
        /\ \/ within' = [at |-> "tested", count |-> 0] /\ UNCHANGED <<todo, slipped>>
           \/ Done \/ Fail
        /\ UNCHANGED <<link, radio, timers, due, goal, visited>>
    BY <1>3 DEF StopTimer, Doing, CanRun, ghosts
  <2>2. Head(todo) \in Stops /\ Head(todo) \notin {Do("enter"), Do("standby"), Do("prepare")}
    BY <2>1, StopStep
  <2>3. Head(todo) \in Rest(todo) /\ Do("enter") \notin Rest(todo)
    BY <1>0, <2>1, <2>2, ShapeTail DEF Shape, Starts
  <2>4. TimersOK' /\ LinkOK' /\ IrqOK' /\ visited' = visited
    BY <2>1 DEF TimersOK, LinkOK, IrqOK, link, timers
  <2>5. CASE within' = [at |-> "tested", count |-> 0] /\ UNCHANGED <<todo, slipped>>
    <3>1. WithinOK'
      BY <2>1, <2>2, <2>5 DEF WithinOK, Places
    <3>2. CallOK' /\ RadioOK'
      BY <1>0, <2>1, <2>5, <3>1, HandlerKeepsCall, HandlerKeepsRadio DEF link, timers
    <3> QED BY <2>4, <3>2
  <2>6. CASE Done \/ Fail
    <3>1. current_state # "standby"
      BY <1>0, <2>1, <2>3 DEF ArmedOK
    <3>2. Done => Advance
      BY <2>1, DoneAdvances
    <3>3. CASE Fail
      <4>1. CallOK' /\ todo' = <<>>
        BY <2>1, <3>1, <3>3, CallFails DEF link, Fail
      <4>2. RadioOK'
        BY <1>0, <2>1, <2>2, <4>1, RadioAdvances
      <4> QED BY <2>4, <4>1, <4>2
    <3>4. CASE Done
      <4>1. /\ i = "interval" <=> Head(todo) \in StopsInterval
            /\ i = "single" <=> Head(todo) \in StopsSingle
        BY <2>1, StopStep
      <4>2. i \notin armed
        BY <1>3, <2>1, <3>4, DoneIsNotTested DEF StopTimer, Done
      <4>3. CallOK'
        BY <1>0, <2>1, <2>2, <3>2, <3>4, <4>1, <4>2, CallAdvances DEF link, timers, TimersOK
      <4>4. RadioOK'
        BY <1>0, <2>1, <2>2, <3>4, RadioAdvances DEF Done
      <4> QED BY <2>4, <4>3, <4>4
    <3> QED BY <2>6, <3>3, <3>4
  <2> QED BY <2>1, <2>5, <2>6
<1>9. ASSUME NEW i \in Timers, ClearFlag(i)
      PROVE  LinkInv'
  <2>1. /\ within.at = "tested" /\ Head(todo).timer = i /\ armed' = armed \ {i}
        /\ within' = [at |-> "cleared", count |-> 0] /\ todo' = Tail(todo)
        /\ lapsing' = lapsing \union (armed \intersect Early(i)) /\ due = {}
        /\ UNCHANGED <<link, radio, left, cb, leftover, count, running, due, goal, slipped,
                       visited>>
    BY <1>9 DEF ClearFlag, CanRun, ghosts
  <2>2. todo # <<>> /\ Head(todo) \in {Stopping(i), MustStop(i)}
    BY <1>0, <2>1, StopTimerOf DEF WithinOK
  <2>3. /\ Head(todo) \notin {Do("enter"), Do("standby"), Do("prepare")}
        /\ i = "interval" <=> Head(todo) \in StopsInterval
        /\ i = "single" <=> Head(todo) \in StopsSingle
    BY <2>2, StopStep
  <2>4. Advance
    BY <2>1 DEF Advance
  <2>5. TimersOK'
    BY <2>1 DEF TimersOK
  <2>6. CallOK'
    BY <1>0, <2>1, <2>2, <2>3, <2>4, <2>5, CallAdvances DEF link, TimersOK
  <2>7. RadioOK'
    BY <1>0, <2>1, <2>2, <2>3, RadioAdvances
  <2>8. LinkOK' /\ IrqOK'
    BY <2>1 DEF LinkOK, IrqOK, link
  <2> QED BY <2>1, <2>5, <2>6, <2>7, <2>8
<1>10. CASE LoadCount \/ StoreCount \/ Halt
  <2>1. /\ armed' = armed
        /\ UNCHANGED <<link, radio, cb, leftover, due, todo, goal, slipped, visited>>
    BY <1>10 DEF LoadCount, StoreCount, Halt, ghosts
  <2>2. count' \in 0 .. 255 /\ running' \in BOOLEAN
    BY <1>0, <1>10 DEF LoadCount, StoreCount, Halt, WithinOK, TimersOK
  <2>3. left' \in [Timers -> Nat] /\ lapsing' \in SUBSET Timers
    <3>1. CASE Clear({}, 0)
      BY <2>1, <3>1, ClearTypes DEF TimersOK
    <3>2. CASE UNCHANGED <<left, lapsing>>
      BY <3>2 DEF TimersOK
    <3> QED BY <1>10, <3>1, <3>2 DEF LoadCount, StoreCount, Halt
  <2>4. WithinOK'
    <3>1. U8(count + 1) \in 0 .. 255 /\ U8(count + 255) \in 0 .. 255
      BY Octets DEF TimersOK
    <3>2. CASE LoadCount
      <4>1. PICK n \in 0 .. 255 : \/ within' = [at |-> "up", count |-> n]
                                 \/ within' = [at |-> "down", count |-> n]
        BY <3>1, <3>2 DEF LoadCount
      <4>2. within' \in [at : Places, count : 0 .. 255] /\ within'.at # "tested"
        BY <4>1 DEF Places
      <4> QED BY <4>2 DEF WithinOK
    <3>3. CASE StoreCount \/ Halt
      BY <3>3 DEF StoreCount, Halt, WithinOK, Places, Outside
    <3> QED BY <1>10, <3>2, <3>3
  <2>5. TimersOK' /\ LinkOK' /\ IrqOK'
    BY <2>1, <2>2, <2>3 DEF TimersOK, LinkOK, IrqOK, link
  <2>6. CallOK' /\ RadioOK'
    BY <1>0, <2>1, <2>4, HandlerKeepsCall, HandlerKeepsRadio DEF link
  <2> QED BY <2>1, <2>5, <2>6
<1>4. ASSUME Head(todo) \in {Do(a) : a \in Names}, Done, due = {}, todo # <<>>,
             within = Outside,
             UNCHANGED <<timers, goal, due>>, LinkOK', visited' \in SUBSET Channels,
             Head(todo) = Do("enter") => current_state' = goal,
             Head(todo) \notin {Do("enter"), Do("standby")} => current_state' = current_state,
             radio' \in Radios, Tuned(radio'),
             radio'.ch = radio.ch \/ radio'.ch \in Channels,
             Head(todo) = Do("prepare") => radio'.ch \in Channels
      PROVE  LinkInv'
  <2>1. Head(todo) \notin StopsInterval \union StopsSingle
    BY <1>4, DistinctSteps DEF StopsInterval, StopsSingle, Timers
  <2>2. TimersOK' /\ IrqOK' /\ armed' = armed
    BY <1>4 DEF TimersOK, IrqOK, timers
  <2>3. CallOK'
    BY <1>0, <1>4, <2>1, <2>2, CallAdvances, DoneAdvances DEF TimersOK
  <2>4. RadioOK'
    BY <1>0, <1>4, RadioAdvances DEF Done
  <2> QED BY <1>4, <2>2, <2>3, <2>4
<1>5. \A a \in Names : \A b \in Names : Do(a) = Do(b) => a = b
  BY DistinctSteps
<1>6. CASE SetState
  <2>1. goal \in States
    BY DEF CallOK
  <2>2. LinkOK' /\ radio' = radio /\ visited' = visited
    BY <1>6, <2>1 DEF SetState, LinkOK, States, ghosts
  <2> QED BY <1>0, <1>4, <1>5, <1>6, <2>2 DEF SetState, Doing, CanRun, Names
<1>7. CASE SelectChannel
  <2>1. LinkOK' /\ radio' = radio /\ visited' \in SUBSET Channels
    BY <1>7, IndexTypes DEF SelectChannel, LinkOK
  <2> QED BY <1>0, <1>4, <1>5, <1>7, <2>1 DEF SelectChannel, Doing, CanRun, Names
<1>8. CASE RadioCall
  <2>1. /\ Done /\ due = {} /\ todo # <<>> /\ within = Outside /\ LinkOK'
        /\ UNCHANGED <<current_state, timers, due, goal, visited>>
    BY <1>8 DEF RadioCall, Doing, CanRun, link, ghosts, LinkOK
  <2>2. ASSUME Head(todo) \in RadioOn PROVE radio.ch \in Channels
    <3>1. Head(todo) # Do("prepare") /\ Do("prepare") \notin Rest(todo)
      BY <1>0, <2>1, <2>2, ShapeTail, DistinctSteps DEF RadioOn, Names
    <3>2. Head(todo) \in Rest(todo)
      BY <1>0, <2>1, ShapeTail
    <3> QED BY <2>2, <3>1, <3>2 DEF RadioOK
  <2>3. CASE Head(todo) = Do("radio_stop") /\ radio' = R!Stop(radio)
    BY <1>0, <1>4, <1>5, <2>1, <2>3, StopRadio DEF Names
  <2>4. CASE Head(todo) = Do("prepare") /\ radio' = R!Prepare(radio, Channel(adv_ch_idx))
    <3>1. Channel(adv_ch_idx) \in Channels
      BY IndexTypes DEF LinkOK
    <3>2. /\ radio' \in Radios /\ Tuned(radio') /\ radio'.ch \in Channels
      BY <1>0, <2>4, <3>1, PrepareRadio
    <3> QED BY <1>0, <1>4, <1>5, <2>1, <2>4, <3>2 DEF Names
  <2>5. CASE Head(todo) = Do("send") /\ radio' = R!Send(radio, "adv", AdvFlags)
    <3>1. radio' \in Radios /\ Tuned(radio') /\ radio'.ch = radio.ch
      BY <1>0, <2>2, <2>5, SendRadio, IndexTypes DEF RadioOn
    <3> QED BY <1>0, <1>4, <1>5, <2>1, <2>5, <3>1 DEF Names
  <2>6. CASE Head(todo) = Do("listen") /\ radio' = R!Recv(radio, RecvFlags(goal))
    <3>0. goal \in States
      BY DEF CallOK
    <3>1. radio' \in Radios /\ Tuned(radio') /\ radio'.ch = radio.ch
      BY <1>0, <2>2, <2>6, <3>0, RecvRadio, IndexTypes DEF RadioOn
    <3> QED BY <1>0, <1>4, <1>5, <2>1, <2>6, <3>1 DEF Names
  <2>7. CASE Head(todo) = Do("set_out") /\ radio' = R!SetOutBuffer(radio, "connect_req")
    <3>1. radio' \in Radios /\ Tuned(radio') /\ radio'.ch = radio.ch
      BY <1>0, <2>7, OutRadio
    <3> QED BY <1>0, <1>4, <1>5, <2>1, <2>7, <3>1 DEF Names
  <2> QED BY <1>8, <2>3, <2>4, <2>5, <2>6, <2>7 DEF RadioCall, Doing
<1> QED BY <1>1, <1>2, <1>3, <1>6, <1>7, <1>8, <1>9, <1>10 DEF ThreadStep

-----------------------------------------------------------------------------
(* Facts that the proofs for one use of the API share.                        *)

LEMMA Constants ==
    /\ Ifs \in Nat /\ AirTime \in Nat /\ CallDelay \in Nat
    /\ PduInterval \in Nat /\ AdvInterval \in Nat
    /\ 1 <= AirTime /\ AirTime <= Ifs
BY LinkLayerAssumption

LEMMA Numbers ==
    ASSUME LinkInv
    PROVE  /\ left \in [Timers -> Nat]
           /\ left["interval"] \in Nat /\ left["single"] \in Nat /\ left["ifs"] \in Nat
           /\ radio \in Radios /\ radio.age \in Nat /\ radio.age <= Ifs
           /\ adv_ch_map \in SUBSET Channels /\ adv_ch_idx \in 0 .. 2
           /\ armed \subseteq Timers /\ due \subseteq armed
           /\ slipped \in Nat /\ slipped <= CallDelay
           /\ adv_type \in AdvTypes /\ cb \in [Timers -> States]
           /\ count \in 0 .. 255 /\ running \in BOOLEAN
BY Constants DEF LinkInv, TimersOK, LinkOK, IrqOK, RadioOK, CallOK, Radios, Timers

LEMMA AgedIs ==
    ASSUME NEW r \in Radios
    PROVE  LET q == R!Aged(r) IN
           /\ q.status = r.status /\ q.flags = r.flags /\ q.shorts = r.shorts
           /\ q.phase = r.phase /\ q.end = r.end /\ q.ch = r.ch /\ q.ptr = r.ptr
           /\ q.inbuf = r.inbuf
           /\ q.age = IF r.phase = "off" \/ r.age = Ifs THEN r.age ELSE r.age + 1
BY DEF Radios, R!Aged

LEMMA DifferentLengths == \A s, t : Len(s) # Len(t) => s # t
OBVIOUS

LEMMA SameSequence ==
    ASSUME NEW S, NEW s \in Seq(S), NEW t \in Seq(S), Len(s) = Len(t),
           \A k \in 1 .. Len(s) : s[k] = t[k]
    PROVE  s = t
OBVIOUS

\* A step of a call that is not a timer's is the one that Head(todo) names.
LEMMA StepOf ==
    ASSUME ThreadStep, within = Outside
    PROVE  /\ CanRun /\ todo # <<>>
           /\ \A i \in Timers : Head(todo) = Arming(i) =>
                (i = "interval" /\ ArmInterval) \/ (i = "single" /\ ArmSingle)
           /\ \A a \in Names : Head(todo) = Do(a) => SetState \/ SelectChannel \/ RadioCall
<1>0. ~LoadCount /\ ~StoreCount /\ ~Halt /\ \A i \in Timers : ~ClearFlag(i)
  BY DEF LoadCount, StoreCount, Halt, ClearFlag, Outside
<1>1. CanRun /\ todo # <<>>
  BY <1>0 DEF ThreadStep, ArmInterval, ArmSingle, SetState, SelectChannel, RadioCall, StopTimer, Doing
<1>2. ASSUME NEW i \in Timers, Head(todo) = Arming(i)
      PROVE  (i = "interval" /\ ArmInterval) \/ (i = "single" /\ ArmSingle)
  <2>1. ~SetState /\ ~SelectChannel /\ ~RadioCall
    BY <1>2, DistinctSteps DEF SetState, SelectChannel, RadioCall, Doing, Names
  <2>2. \A j \in Timers : ~StopTimer(j)
    BY <1>2, DistinctSteps DEF StopTimer, Doing, Names
  <2>3. ArmInterval => i = "interval"
    BY <1>2, DistinctSteps DEF ArmInterval, Doing, Names, Timers
  <2>4. ArmSingle => i = "single"
    BY <1>2, DistinctSteps DEF ArmSingle, Doing, Names, Timers
  <2> QED BY <1>0, <2>1, <2>2, <2>3, <2>4 DEF ThreadStep
<1>3. ASSUME NEW a \in Names, Head(todo) = Do(a)
      PROVE  SetState \/ SelectChannel \/ RadioCall
  <2>1. \A j \in Timers : ~StopTimer(j)
    BY <1>3, DistinctSteps DEF StopTimer, Doing
  <2>2. ~ArmInterval /\ ~ArmSingle
    BY <1>3, DistinctSteps DEF ArmInterval, ArmSingle, Doing, Timers
  <2> QED BY <1>0, <2>1, <2>2 DEF ThreadStep
<1> QED BY <1>1, <1>2, <1>3

-----------------------------------------------------------------------------
(* The air and the clock.                                                     *)

LEMMA AirStep ==
    ASSUME LinkInv, PacketSent \/ PacketReceived
    PROVE  LinkInv'
<1> USE DEF LinkInv
<1>1. radio \in Radios /\ Tuned(radio) /\ radio.phase # "off"
  BY DEF PacketSent, PacketReceived, RadioOK
<1>2. /\ radio' \in Radios /\ Tuned(radio') /\ radio'.ch = radio.ch
      /\ visited' \in SUBSET Channels
  <2>1. CASE PacketSent
    <3>1. radio' = R!AfterEnd(radio) /\ visited' \in {visited, visited \union {radio.ch}}
      BY <2>1 DEF PacketSent, R!PacketSent
    <3> QED BY <1>1, <3>1, SentRadio
  <2>2. CASE PacketReceived
    BY <1>1, <2>2, ReceivedRadio DEF PacketReceived, ghosts
  <2> QED BY <2>1, <2>2
<1>3. UNCHANGED <<link, timers, due, todo, goal, slipped, within>>
  BY DEF PacketSent, PacketReceived, thread
<1>4. LinkOK' /\ TimersOK' /\ IrqOK'
  BY <1>3 DEF LinkOK, TimersOK, IrqOK, link, timers
<1>5. CallOK' /\ RadioOK'
  BY <1>2, <1>3, HandlerKeepsCall, HandlerKeepsRadio DEF link, timers
<1> QED BY <1>2, <1>4, <1>5

LEMMA TickStep ==
    ASSUME LinkInv, Tick
    PROVE  LinkInv'
<1> USE DEF LinkInv
<1>1. /\ slipped' = slipped \/ (slipped < CallDelay /\ slipped' = slipped + 1)
      /\ radio' = R!Aged(radio)
      /\ left' = [i \in Timers |-> IF running /\ left[i] > 0 THEN left[i] - 1 ELSE left[i]]
      /\ UNCHANGED <<link, armed, cb, count, running, due, todo, goal, within, visited>>
  BY DEF Tick, ghosts
<1>2. TimersOK'
  <2>1. PICK drifting \in SUBSET {i \in lapsing : left[i] = 0} :
          LET matched == IF ~running THEN {} ELSE drifting \union {i \in lapsing : left[i] = 1}
          IN  lapsing' = lapsing \ matched /\ leftover' = leftover \union matched
    BY DEF Tick
  <2>2. lapsing' \in SUBSET Timers /\ leftover' \in SUBSET Timers
    BY <2>1 DEF TimersOK
  <2>3. left' \in [Timers -> Nat]
    <3>1. ASSUME NEW i \in Timers
          PROVE  (IF running /\ left[i] > 0 THEN left[i] - 1 ELSE left[i]) \in Nat
      BY DEF TimersOK
    <3> QED BY <1>1, <3>1
  <2> QED BY <1>1, <2>2, <2>3 DEF TimersOK
<1>3. LinkOK' /\ IrqOK'
  BY <1>1 DEF LinkOK, IrqOK, link
<1>4. RadioOK'
  BY <1>1, AgedRadio, HandlerKeepsRadio DEF RadioOK
<1>5. slipped' \in 0 .. CallDelay
  BY <1>1, ConstantTypes DEF CallOK
<1>6. CallOK'
  BY <1>1, <1>5 DEF CallOK, ArmedOK, WithinOK, link
<1> QED BY <1>1, <1>2, <1>3, <1>4, <1>6

LEMMA StutterStep ==
    ASSUME LinkInv, UNCHANGED vars
    PROVE  LinkInv'
BY DEF LinkInv, vars, LinkOK, TimersOK, IrqOK, RadioOK, CallOK, ArmedOK, WithinOK

LEMMA NextLinkInv == LinkInv /\ [Next]_vars => LinkInv'
BY TimerIrqStep, TimerCallbackStep, RadioInterruptStep, CallStep, ThreadStepStep, AirStep,
   TickStep, StutterStep
DEF Next

\* The variables of ll.c and of the drivers below it keep their types, whatever the
\* order of calls and interrupts: adv_ch_idx stays an index of adv_chs.
THEOREM LinkTypeCorrect == Spec => []TypeOK
BY InitLinkInv, NextLinkInv, LinkInvTypes, PTL DEF Spec

\* A radio that is off in STANDBY stays off until the next call: whatever interrupted
\* the stop function, neither the interval nor the single-shot timer is armed then,
\* and no other callback turns the radio on but at an END.
LEMMA StandbyStep ==
    ASSUME LinkInv, [Next]_vars, current_state = "standby", ~InCall, radio.phase = "off",
           ~radio.end
    PROVE  radio'.phase = "off"
<1>1. armed \subseteq {"ifs"} /\ due \subseteq {"ifs"} /\ todo = <<>> /\ within = Outside
  BY DEF LinkInv, IrqOK, CallOK, ArmedOK, InCall
<1>2. radio \in Radios
  BY DEF LinkInv, RadioOK
<1>3. CASE TimerCallback
  <2>1. ~AdvIntervalCb /\ ~ScanIntervalCb /\ ~AdvSingleShotCb
    BY <1>1 DEF AdvIntervalCb, ScanIntervalCb, AdvSingleShotCb, NextToServe
  <2>2. radio' = R!Stop(radio)
    BY <1>3, <2>1 DEF TimerCallback, StopRadioCb
  <2> QED BY <1>2, <2>2 DEF R!Stop, Radios
<1>4. CASE TimerIrq \/ Call \/ UNCHANGED vars
  BY <1>4 DEF TimerIrq, Call, ll_advertise_start, ll_advertise_stop, ll_scan_start, ll_scan_stop,
              ll_conn_create, ll_conn_cancel, vars
<1>5. ~RadioInterrupt /\ ~PacketSent /\ ~PacketReceived
  BY DEF RadioInterrupt, RadioIrqOnly, AdvRadioSendCb, AdvRadioRecvCb, ScanRadioRecvCb,
         InitRadioRecvCb, EndIrq, PacketSent, PacketReceived
<1>6. ~ThreadStep
  <2>1. ~LoadCount /\ ~StoreCount /\ ~Halt /\ \A i \in Timers : ~ClearFlag(i)
    BY <1>1 DEF LoadCount, StoreCount, Halt, ClearFlag, Outside
  <2> QED BY <1>1, <2>1 DEF ThreadStep, ArmInterval, ArmSingle, SetState, SelectChannel, RadioCall,
                            StopTimer, Doing
<1>7. CASE Tick
  BY <1>2, <1>7, AgedIs DEF Tick
<1> QED BY <1>3, <1>4, <1>5, <1>6, <1>7 DEF Next

\* With any use of the API, interrupted anywhere: no event, channel or window begins
\* in STANDBY.
THEOREM StandbyIsQuiet == Spec => StandbyStaysOff
<1>1. LinkInv /\ [Next]_vars =>
        [(current_state = "standby" /\ ~InCall /\ radio.phase = "off" /\ ~radio.end)
          => radio'.phase = "off"]_vars
  BY StandbyStep
<1> QED BY <1>1, InitLinkInv, NextLinkInv, PTL DEF Spec, StandbyStaysOff

=============================================================================
