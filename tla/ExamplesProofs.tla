--------------------------- MODULE ExamplesProofs ---------------------------
(***************************************************************************)
(* Theorems about the examples that use the drivers directly, for all      *)
(* times and all packets.                                                  *)
(***************************************************************************)
EXTENDS Examples, TLAPS

-----------------------------------------------------------------------------
(* The timer driver's record.  Each program has an instance of Device with   *)
(* timers and a period of its own: here both are arguments.                  *)

Timers(ids, turn) ==
    [armed : SUBSET ids, active : 0 .. 255, running : BOOLEAN, counter : 0 .. turn - 1,
     cc : [ids -> 0 .. turn - 1], events : SUBSET ids, inten : SUBSET ids, irq : BOOLEAN,
     due : SUBSET ids]

Compare(t, i, k, turn) ==
    [t EXCEPT !.cc[i] = (t.counter + k) % turn, !.inten = @ \union {i},
              !.irq = @ \/ i \in t.events]
Start(t, i, k, turn) ==
    IF i \in t.armed THEN t
    ELSE [Compare(t, i, k, turn) EXCEPT !.armed = @ \union {i}, !.active = (@ + 1) % 256,
                                        !.running = @ \/ t.active = 0]
Drop(t, i) ==
    LET n == (t.active + 255) % 256 IN
    [t EXCEPT !.armed = @ \ {i}, !.active = n, !.running = @ /\ n # 0,
              !.counter = IF n = 0 THEN 0 ELSE @]
Halt(t, i) == IF i \in t.armed THEN Drop([t EXCEPT !.inten = @ \ {i}], i) ELSE t
Taken(t, i) == [t EXCEPT !.due = @ \ {i}]
Gather(t) == [t EXCEPT !.due = t.events \intersect t.armed, !.events = {}, !.irq = FALSE]
Elapse(t, ids, turn) ==
    LET now == (t.counter + 1) % turn
        hits == {i \in ids : t.cc[i] = now}
    IN  IF ~t.running THEN t
        ELSE [t EXCEPT !.counter = now, !.events = @ \union hits,
                       !.irq = @ \/ hits \intersect t.inten # {}]

\* What each of these does to the fields that only the passive observer's proof needs.
Compared(q, t, i, k, turn) ==
    /\ q.cc = [t.cc EXCEPT ![i] = (t.counter + k) % turn]
    /\ q.inten = t.inten \union {i} /\ (q.irq <=> t.irq \/ i \in t.events)
Kept(q, t) == q.active = t.active /\ (q.running <=> t.running)
Started(q, t, i, k, turn) ==
    /\ Compared(q, t, i, k, turn)
    /\ q.active = (t.active + 1) % 256 /\ (q.running <=> t.running \/ t.active = 0)
Dropped(q, t) ==
    LET n == (t.active + 255) % 256
    IN  /\ q.active = n /\ (q.running <=> t.running /\ n # 0)
        /\ q.counter = IF n = 0 THEN 0 ELSE t.counter
Unset(q, t) == q.cc = t.cc /\ q.inten = t.inten /\ (q.irq <=> t.irq)
Ticked(q, t, ids, turn) ==
    LET now == (t.counter + 1) % turn
        hits == {i \in ids : t.cc[i] = now}
    IN  /\ ~t.running => q = t
        /\ t.running => /\ q.counter = now /\ q.events = t.events \union hits
                        /\ (q.irq <=> t.irq \/ hits \intersect t.inten # {})

LEMMA CompareIs ==
    ASSUME NEW ids, NEW turn \in Nat \ {0}, NEW t \in Timers(ids, turn), NEW i \in ids,
           NEW k \in Nat
    PROVE  LET q == Compare(t, i, k, turn)
           IN  /\ q \in Timers(ids, turn)
               /\ q.armed = t.armed /\ q.due = t.due /\ q.events = t.events
               /\ q.counter = t.counter
               /\ Compared(q, t, i, k, turn) /\ Kept(q, t)
<1> DEFINE at == (t.counter + k) % turn
           irq == t.irq \/ i \in t.events
           q == [t EXCEPT !.cc[i] = at, !.inten = @ \union {i}, !.irq = irq]
<1>1. at \in 0 .. turn - 1 /\ irq \in BOOLEAN
  BY DEF Timers
<1>2. Compare(t, i, k, turn) = q
  BY DEF Compare
<1> HIDE DEF at, irq
<1>3. /\ q \in Timers(ids, turn)
      /\ q.cc = [t.cc EXCEPT ![i] = at] /\ q.inten = t.inten \union {i} /\ (q.irq <=> irq)
      /\ q.armed = t.armed /\ q.active = t.active /\ (q.running <=> t.running)
      /\ q.counter = t.counter /\ q.events = t.events /\ q.due = t.due
  BY <1>1 DEF Timers
<1> HIDE DEF q
<1>4. Compared(q, t, i, k, turn) /\ Kept(q, t)
  BY <1>3 DEF Compared, Kept, at, irq
<1> QED BY <1>2, <1>3, <1>4

LEMMA StartIs ==
    ASSUME NEW ids, NEW turn \in Nat \ {0}, NEW t \in Timers(ids, turn), NEW i \in ids,
           NEW k \in Nat
    PROVE  LET q == Start(t, i, k, turn)
           IN  /\ q \in Timers(ids, turn)
               /\ q.armed = t.armed \union {i} /\ q.due = t.due /\ q.events = t.events
               /\ q.counter = t.counter
               /\ i \notin t.armed => Started(q, t, i, k, turn)
<1>1. CASE i \in t.armed
  BY <1>1 DEF Start
<1>2. CASE i \notin t.armed
  <2> DEFINE u == Compare(t, i, k, turn)
             active == (t.active + 1) % 256
             running == t.running \/ t.active = 0
             q == [u EXCEPT !.armed = @ \union {i}, !.active = active, !.running = running]
  <2>1. /\ u \in Timers(ids, turn)
        /\ u.armed = t.armed /\ u.due = t.due /\ u.events = t.events
        /\ u.counter = t.counter
        /\ Compared(u, t, i, k, turn) /\ Kept(u, t)
    BY CompareIs
  <2>2. active \in 0 .. 255 /\ running \in BOOLEAN /\ (running <=> u.running \/ t.active = 0)
    BY <2>1 DEF Timers, Kept
  <2>3. Start(t, i, k, turn) =
            [u EXCEPT !.armed = @ \union {i}, !.active = (@ + 1) % 256,
                      !.running = @ \/ t.active = 0]
    BY <1>2 DEF Start
  <2>4. (u.active + 1) % 256 = active /\ (u.running \/ t.active = 0) = running
    <3>1. u.active = t.active /\ (u.running <=> t.running)
      BY <2>1 DEF Kept
    <3>2. u.running = t.running
      BY <3>1, <2>1 DEF Timers
    <3> QED BY <3>1, <3>2
  <2>5. Start(t, i, k, turn) = q
    BY <2>3, <2>4
  <2> HIDE DEF u, active, running
  <2>6. /\ q \in Timers(ids, turn)
        /\ q.armed = u.armed \union {i} /\ q.active = active /\ (q.running <=> running)
        /\ q.cc = u.cc /\ q.inten = u.inten /\ (q.irq <=> u.irq)
        /\ q.counter = u.counter /\ q.events = u.events /\ q.due = u.due
    BY <2>1, <2>2 DEF Timers
  <2> HIDE DEF q
  <2>7. Started(q, t, i, k, turn)
    BY <2>1, <2>6 DEF Started, Compared, active, running
  <2> QED BY <2>1, <2>5, <2>6, <2>7
<1> QED BY <1>1, <1>2

LEMMA DropIs ==
    ASSUME NEW ids, NEW turn \in Nat \ {0}, NEW t \in Timers(ids, turn), NEW i \in ids
    PROVE  LET q == Drop(t, i)
           IN  /\ q \in Timers(ids, turn)
               /\ q.armed = t.armed \ {i} /\ q.due = t.due /\ q.events = t.events
               /\ Dropped(q, t) /\ Unset(q, t)
<1> DEFINE n == (t.active + 255) % 256
           running == t.running /\ n # 0
           counter == IF n = 0 THEN 0 ELSE t.counter
           q == [t EXCEPT !.armed = @ \ {i}, !.active = n, !.running = running,
                          !.counter = counter]
<1>1. n \in 0 .. 255 /\ running \in BOOLEAN /\ counter \in 0 .. turn - 1
  BY DEF Timers
<1>2. Drop(t, i) = q
  BY DEF Drop
<1> HIDE DEF n, running, counter
<1>3. /\ q \in Timers(ids, turn)
      /\ q.armed = t.armed \ {i} /\ q.active = n /\ (q.running <=> running)
      /\ q.counter = counter
      /\ q.cc = t.cc /\ q.events = t.events /\ q.inten = t.inten /\ (q.irq <=> t.irq)
      /\ q.due = t.due
  BY <1>1 DEF Timers
<1> HIDE DEF q
<1>4. Dropped(q, t) /\ Unset(q, t)
  BY <1>3 DEF Dropped, Unset, n, running, counter
<1> QED BY <1>2, <1>3, <1>4

LEMMA HaltIs ==
    ASSUME NEW ids, NEW turn \in Nat \ {0}, NEW t \in Timers(ids, turn), NEW i \in ids
    PROVE  LET q == Halt(t, i)
           IN  /\ q \in Timers(ids, turn)
               /\ q.armed = t.armed \ {i} /\ q.due = t.due
<1> DEFINE u == [t EXCEPT !.inten = @ \ {i}]
<1>1. u \in Timers(ids, turn) /\ u.armed = t.armed /\ u.due = t.due
  BY DEF Timers
<1>2. Halt(t, i) = IF i \in t.armed THEN Drop(u, i) ELSE t
  BY DEF Halt
<1> HIDE DEF u
<1>3. Drop(u, i) \in Timers(ids, turn) /\ Drop(u, i).armed = u.armed \ {i}
      /\ Drop(u, i).due = u.due
  BY <1>1, DropIs
<1> QED BY <1>1, <1>2, <1>3

LEMMA TakenIs ==
    ASSUME NEW ids, NEW turn, NEW t \in Timers(ids, turn), NEW i
    PROVE  LET q == Taken(t, i)
           IN  /\ q \in Timers(ids, turn)
               /\ q.armed = t.armed /\ q.due = t.due \ {i} /\ q.events = t.events
               /\ q.counter = t.counter
               /\ Kept(q, t) /\ Unset(q, t)
BY DEF Timers, Taken, Kept, Unset

LEMMA GatherIs ==
    ASSUME NEW ids, NEW turn, NEW t \in Timers(ids, turn)
    PROVE  LET q == Gather(t)
           IN  /\ q \in Timers(ids, turn)
               /\ q.armed = t.armed /\ q.due = t.events \intersect t.armed /\ q.events = {}
               /\ q.counter = t.counter /\ q.cc = t.cc /\ q.inten = t.inten /\ ~q.irq
               /\ Kept(q, t)
BY DEF Timers, Gather, Kept

LEMMA ElapseIs ==
    ASSUME NEW ids, NEW turn \in Nat \ {0}, NEW t \in Timers(ids, turn)
    PROVE  LET q == Elapse(t, ids, turn)
           IN  /\ q \in Timers(ids, turn)
               /\ q.armed = t.armed /\ q.due = t.due
               /\ q.cc = t.cc /\ q.inten = t.inten /\ Kept(q, t)
               /\ Ticked(q, t, ids, turn)
<1> DEFINE now == (t.counter + 1) % turn
           hits == {i \in ids : t.cc[i] = now}
           irq == t.irq \/ hits \intersect t.inten # {}
           q == [t EXCEPT !.counter = now, !.events = @ \union hits, !.irq = irq]
<1>1. now \in 0 .. turn - 1 /\ hits \in SUBSET ids /\ irq \in BOOLEAN
  BY DEF Timers
<1>2. Elapse(t, ids, turn) = IF ~t.running THEN t ELSE q
  BY DEF Elapse
<1> HIDE DEF now, hits, irq
<1>3. /\ q \in Timers(ids, turn)
      /\ q.armed = t.armed /\ q.active = t.active /\ (q.running <=> t.running)
      /\ q.cc = t.cc /\ q.inten = t.inten /\ q.due = t.due
      /\ q.counter = now /\ q.events = t.events \union hits /\ (q.irq <=> irq)
  BY <1>1 DEF Timers
<1> HIDE DEF q
<1>4. CASE t.running
  <2>1. Ticked(q, t, ids, turn)
    BY <1>3, <1>4 DEF Ticked, now, hits, irq
  <2> QED BY <1>2, <1>3, <1>4, <2>1 DEF Kept
<1>5. CASE ~t.running
  BY <1>2, <1>5 DEF Ticked, Kept
<1> QED BY <1>4, <1>5


\* The counter k ticks after c.
Turned(c, k, turn) == IF c + k < turn THEN c + k ELSE c + k - turn

LEMMA Turns ==
    ASSUME NEW turn \in Nat \ {0}, NEW c \in 0 .. turn - 1, NEW k \in 0 .. turn
    PROVE  (c + k) % turn = Turned(c, k, turn)
BY DEF Turned

\* A compare register that is k ticks ahead is hit when k is 1, and is k - 1 ahead then.
LEMMA TurnsOn ==
    ASSUME NEW turn \in Nat \ {0}, NEW c \in 0 .. turn - 1, NEW k \in 1 .. turn
    PROVE  LET now == (c + 1) % turn
           IN  /\ now \in 0 .. turn - 1
               /\ Turned(c, k, turn) = Turned(now, k - 1, turn)
               /\ Turned(c, k, turn) = now <=> k = 1
<1>1. (c + 1) % turn = Turned(c, 1, turn)
  BY Turns
<1>2. /\ Turned(c, 1, turn) \in 0 .. turn - 1
      /\ Turned(c, k, turn) = Turned(Turned(c, 1, turn), k - 1, turn)
      /\ Turned(c, k, turn) = Turned(c, 1, turn) <=> k = 1
  BY DEF Turned
<1> QED BY <1>1, <1>2
-----------------------------------------------------------------------------
(* The radio driver's record.                                                *)

R == INSTANCE Radio WITH MaxAge <- 0

Radios(pdus) ==
    [status : SUBSET {"rx", "tx"}, flags : SUBSET {"rx_next", "tx_next"},
     shorts : SUBSET {"rxen", "txen"}, ch : {0} \union 37 .. 39,
     ptr : {"none", "inbuf", "adv", "adv_scan_ind", "scan_rsp", "scan_req"},
     out : {"none", "scan_req"}, inbuf : pdus, phase : {"off", "rx", "tx"}, age : Nat,
     end : BOOLEAN]

\* What a radio does and will do next.
Is(r, status, flags, shorts, ptr, phase, end) ==
    /\ r.status = status /\ r.flags = flags /\ r.shorts = shorts
    /\ r.ptr = ptr /\ r.phase = phase /\ r.end = end

\* What only radio_prepare(), the program and a reception change.
Same(q, r) == q.ch = r.ch /\ q.out = r.out /\ q.inbuf = r.inbuf

LEMMA StopIs ==
    ASSUME NEW pdus, NEW r \in Radios(pdus)
    PROVE  LET q == R!Stop(r)
           IN  /\ q \in Radios(pdus) /\ Same(q, r)
               /\ r.status # {} => Is(q, {}, {}, {}, r.ptr, "off", r.end)
               /\ r.status = {} => q = r
<1>1. CASE r.status # {}
  <2> DEFINE q == [r EXCEPT !.status = {}, !.flags = {}, !.shorts = {}, !.phase = "off",
                            !.age = 0]
  <2>1. R!Stop(r) = q
    BY <1>1 DEF R!Stop
  <2>2. q \in Radios(pdus) /\ Same(q, r) /\ Is(q, {}, {}, {}, r.ptr, "off", r.end)
    BY DEF Radios, Is, Same
  <2> QED BY <1>1, <2>1, <2>2
<1>2. CASE r.status = {}
  BY <1>2 DEF R!Stop, Same
<1> QED BY <1>1, <1>2

LEMMA EnableIs ==
    ASSUME NEW pdus, NEW r \in Radios(pdus), NEW p \in {"rx", "tx"}
    PROVE  LET q == R!Enable(r, p)
           IN  /\ q \in Radios(pdus) /\ Same(q, r)
               /\ Is(q, r.status, r.flags, r.shorts, r.ptr,
                     IF r.phase = "off" THEN p ELSE r.phase, r.end)
               /\ q.age = IF r.phase = "off" THEN 0 ELSE r.age
<1>1. CASE r.phase = "off"
  <2> DEFINE q == [r EXCEPT !.phase = p, !.age = 0]
  <2>1. R!Enable(r, p) = q
    BY <1>1 DEF R!Enable
  <2>2. /\ q \in Radios(pdus) /\ Same(q, r) /\ q.age = 0
        /\ Is(q, r.status, r.flags, r.shorts, r.ptr, p, r.end)
    BY DEF Radios, Is, Same
  <2> QED BY <1>1, <2>1, <2>2
<1>2. CASE r.phase # "off"
  BY <1>2 DEF R!Enable, Same, Is
<1> QED BY <1>1, <1>2

LEMMA RecvIs ==
    ASSUME NEW pdus, NEW r \in Radios(pdus), NEW f \in SUBSET {"tx_next"}
    PROVE  LET q == R!Recv(r, f)
           IN  /\ q \in Radios(pdus) /\ Same(q, r)
               /\ Is(q, r.status \union {"rx"}, r.flags \union f,
                     IF "tx_next" \in f THEN r.shorts \union {"txen"} ELSE r.shorts, "inbuf",
                     IF r.phase = "off" THEN "rx" ELSE r.phase, r.end)
               /\ q.age = IF r.phase = "off" THEN 0 ELSE r.age
<1> DEFINE s == IF "tx_next" \in f THEN r.shorts \union {"txen"} ELSE r.shorts
           p == [r EXCEPT !.status = @ \union {"rx"}, !.flags = @ \union f, !.ptr = "inbuf",
                          !.shorts = s]
<1>1. s \in SUBSET {"rxen", "txen"} /\ r.flags \union f \in SUBSET {"rx_next", "tx_next"}
  BY DEF Radios
<1>2. R!Recv(r, f) = R!Enable(p, "rx")
  BY DEF R!Recv
<1> HIDE DEF s
<1>3. /\ p \in Radios(pdus) /\ Same(p, r) /\ p.age = r.age
      /\ Is(p, r.status \union {"rx"}, r.flags \union f, s, "inbuf", r.phase, r.end)
  BY <1>1 DEF Radios, Is, Same
<1> HIDE DEF p
<1>4. LET q == R!Enable(p, "rx")
      IN  /\ q \in Radios(pdus) /\ Same(q, p)
          /\ Is(q, p.status, p.flags, p.shorts, p.ptr,
                IF p.phase = "off" THEN "rx" ELSE p.phase, p.end)
          /\ q.age = IF p.phase = "off" THEN 0 ELSE p.age
  BY <1>3, EnableIs
<1> QED BY <1>2, <1>3, <1>4 DEF Is, Same, s

LEMMA SendIs ==
    ASSUME NEW pdus, NEW r \in Radios(pdus), NEW pdu \in {"adv", "adv_scan_ind", "scan_rsp"},
           NEW f \in SUBSET {"rx_next"}
    PROVE  LET q == R!Send(r, pdu, f)
           IN  /\ q \in Radios(pdus) /\ Same(q, r)
               /\ Is(q, r.status \union {"tx"}, r.flags \union f,
                     IF "rx_next" \in f THEN r.shorts \union {"rxen"} ELSE r.shorts, pdu,
                     IF r.phase = "off" THEN "tx" ELSE r.phase, r.end)
               /\ q.age = IF r.phase = "off" THEN 0 ELSE r.age
<1> DEFINE s == IF "rx_next" \in f THEN r.shorts \union {"rxen"} ELSE r.shorts
           p == [r EXCEPT !.status = @ \union {"tx"}, !.flags = @ \union f, !.ptr = pdu,
                          !.shorts = s]
<1>1. s \in SUBSET {"rxen", "txen"} /\ r.flags \union f \in SUBSET {"rx_next", "tx_next"}
  BY DEF Radios
<1>2. R!Send(r, pdu, f) = R!Enable(p, "tx")
  BY DEF R!Send
<1> HIDE DEF s
<1>3. /\ p \in Radios(pdus) /\ Same(p, r) /\ p.age = r.age
      /\ Is(p, r.status \union {"tx"}, r.flags \union f, s, pdu, r.phase, r.end)
  BY <1>1 DEF Radios, Is, Same
<1> HIDE DEF p
<1>4. LET q == R!Enable(p, "tx")
      IN  /\ q \in Radios(pdus) /\ Same(q, p)
          /\ Is(q, p.status, p.flags, p.shorts, p.ptr,
                IF p.phase = "off" THEN "tx" ELSE p.phase, p.end)
          /\ q.age = IF p.phase = "off" THEN 0 ELSE p.age
  BY <1>3, EnableIs
<1> QED BY <1>2, <1>3, <1>4 DEF Is, Same, s

LEMMA PrepareIs ==
    ASSUME NEW pdus, NEW r \in Radios(pdus), NEW ch \in 37 .. 39
    PROVE  LET q == R!Prepare(r, ch)
           IN  /\ q \in Radios(pdus) /\ q.out = r.out /\ q.inbuf = r.inbuf /\ q.age = r.age
               /\ Is(q, r.status, r.flags, r.shorts, r.ptr, r.phase, r.end)
               /\ q.ch = IF r.status = {} THEN ch ELSE r.ch
<1>1. R!ch2freq(ch) >= 0
  BY DEF R!ch2freq
<1> QED BY <1>1 DEF R!Prepare, Radios, Is

LEMMA HandleEndIs ==
    ASSUME NEW pdus, NEW r \in Radios(pdus)
    PROVE  LET q == R!HandleEnd(r)
           IN  /\ q \in Radios(pdus) /\ Same(q, r) /\ q.age = r.age
               /\ IF R!Received(r) /\ "tx_next" \in r.flags
                  THEN Is(q, {"tx"}, r.flags \ {"tx_next"}, r.shorts \ {"txen"}, r.out, r.phase,
                          FALSE)
                  ELSE IF R!Sent(r) /\ "rx_next" \in r.flags
                  THEN Is(q, {"rx"}, r.flags \ {"rx_next"}, r.shorts \ {"rxen"}, "inbuf",
                          r.phase, FALSE)
                  ELSE Is(q, {}, r.flags, r.shorts, r.ptr, r.phase, FALSE)
<1> DEFINE idle == [r EXCEPT !.end = FALSE, !.status = {}]
           follows == [idle EXCEPT !.status = {"tx"}, !.flags = @ \ {"tx_next"}, !.ptr = r.out,
                                !.shorts = @ \ {"txen"}]
           answered == [idle EXCEPT !.status = {"rx"}, !.flags = @ \ {"rx_next"}, !.ptr = "inbuf",
                                    !.shorts = @ \ {"rxen"}]
<1>1. R!HandleEnd(r) = IF R!Received(r) /\ "tx_next" \in r.flags THEN follows
                       ELSE IF R!Sent(r) /\ "rx_next" \in r.flags THEN answered ELSE idle
  BY DEF R!HandleEnd
<1>2. /\ idle \in Radios(pdus) /\ Same(idle, r) /\ idle.age = r.age
      /\ Is(idle, {}, r.flags, r.shorts, r.ptr, r.phase, FALSE)
  BY DEF Radios, Same, Is
<1>3. r.out \in {"none", "scan_req"}
  BY DEF Radios
<1> HIDE DEF idle
<1>4. /\ follows \in Radios(pdus) /\ Same(follows, r) /\ follows.age = r.age
      /\ Is(follows, {"tx"}, r.flags \ {"tx_next"}, r.shorts \ {"txen"}, r.out, r.phase, FALSE)
  BY <1>2, <1>3 DEF Radios, Same, Is
<1>5. /\ answered \in Radios(pdus) /\ Same(answered, r) /\ answered.age = r.age
      /\ Is(answered, {"rx"}, r.flags \ {"rx_next"}, r.shorts \ {"rxen"}, "inbuf", r.phase,
            FALSE)
  BY <1>2 DEF Radios, Same, Is
<1> HIDE DEF follows, answered
<1> QED BY <1>1, <1>2, <1>4, <1>5

LEMMA AfterEndIs ==
    ASSUME NEW pdus, NEW r \in Radios(pdus)
    PROVE  LET q == R!AfterEnd(r)
           IN  /\ q \in Radios(pdus) /\ Same(q, r) /\ q.age = 0
               /\ Is(q, r.status, r.flags, r.shorts, r.ptr,
                     IF "rxen" \in r.shorts THEN "rx"
                     ELSE IF "txen" \in r.shorts THEN "tx" ELSE "off", TRUE)
<1> DEFINE phase == IF "rxen" \in r.shorts THEN "rx"
                    ELSE IF "txen" \in r.shorts THEN "tx" ELSE "off"
           q == [r EXCEPT !.end = TRUE, !.age = 0, !.phase = phase]
<1>1. R!AfterEnd(r) = q /\ phase \in {"off", "rx", "tx"}
  BY DEF R!AfterEnd
<1> HIDE DEF phase
<1>2. /\ q \in Radios(pdus) /\ Same(q, r) /\ q.age = 0
      /\ Is(q, r.status, r.flags, r.shorts, r.ptr, phase, TRUE)
  BY <1>1 DEF Radios, Same, Is
<1> QED BY <1>1, <1>2 DEF phase

LEMMA ReceivedIs ==
    ASSUME NEW pdus, NEW r \in Radios(pdus), NEW pdu \in pdus
    PROVE  LET q == R!PacketReceived(r, pdu)
           IN  /\ q \in Radios(pdus) /\ q.ch = r.ch /\ q.out = r.out /\ q.inbuf = pdu
               /\ q.age = 0
               /\ Is(q, r.status, r.flags, r.shorts, r.ptr,
                     IF "rxen" \in r.shorts THEN "rx"
                     ELSE IF "txen" \in r.shorts THEN "tx" ELSE "off", TRUE)
<1> DEFINE u == R!AfterEnd(r)
           q == [u EXCEPT !.inbuf = pdu]
<1>1. R!PacketReceived(r, pdu) = q
  BY DEF R!PacketReceived
<1>2. /\ u \in Radios(pdus) /\ Same(u, r) /\ u.age = 0
      /\ Is(u, r.status, r.flags, r.shorts, r.ptr,
            IF "rxen" \in r.shorts THEN "rx"
            ELSE IF "txen" \in r.shorts THEN "tx" ELSE "off", TRUE)
  BY AfterEndIs
<1> HIDE DEF u
<1>3. /\ q \in Radios(pdus) /\ q.ch = u.ch /\ q.out = u.out /\ q.inbuf = pdu /\ q.age = u.age
      /\ Is(q, u.status, u.flags, u.shorts, u.ptr, u.phase, u.end)
  BY <1>2 DEF Radios, Is
<1> HIDE DEF q
<1> QED BY <1>1, <1>2, <1>3 DEF Is, Same

-----------------------------------------------------------------------------
(* The active observer.                                                      *)

Two == {0, 1}
ATimers == Timers(Two, Active.Turn)
APdus == Advertisers \union {A!ZeroedPdu}
ARadios == Radios(APdus)

LEMMA ActiveConstants ==
    /\ Active.Turn \in Nat \ {0} /\ Active.SCAN_WINDOW \in Nat /\ Active.T_IFS \in Nat
BY ExamplesAssumption DEF A!DeviceAssumption, A!ActiveObserverAssumption

LEMMA ActiveTimerDriver ==
    ASSUME NEW t \in ATimers, NEW i \in Two, NEW k \in Nat
    PROVE  /\ A!timer_start(t, i, k) = Start(t, i, k, Active.Turn)
           /\ A!timer_stop(t, i) = Halt(t, i)
           /\ A!Served(t, 0, k) = Compare(Taken(t, 0), 0, k, Active.Turn)
           /\ A!Served(t, 1, k) = Drop(Taken(t, 1), 1)
           /\ A!Collect(t) = Gather(t)
           /\ A!Elapsed(t) = Elapse(t, Two, Active.Turn)
<1>1. A!timer_start(t, i, k) = Start(t, i, k, Active.Turn)
  BY DEF A!timer_start, A!update_cc, Start, Compare
<1>2. A!timer_stop(t, i) = Halt(t, i)
  BY DEF A!timer_stop, A!Release, Halt, Drop
<1>3. A!Served(t, 0, k) = Compare(Taken(t, 0), 0, k, Active.Turn)
  BY DEF A!Served, A!update_cc, Compare, Taken
<1>4. A!Served(t, 1, k) = Drop(Taken(t, 1), 1)
  BY DEF A!Served, A!Release, Drop, Taken
<1>5. A!Collect(t) = Gather(t)
  BY DEF A!Collect, Gather
<1>6. A!Elapsed(t) = Elapse(t, Two, Active.Turn)
  BY DEF A!Elapsed, Elapse, Two
<1> QED BY <1>1, <1>2, <1>3, <1>4, <1>5, <1>6

\* What is kept of it: which timers are armed and which are served.
LEMMA ActiveTimers ==
    ASSUME NEW t \in ATimers, NEW i \in Two, NEW k \in Nat
    PROVE  /\ LET q == A!timer_start(t, i, k)
              IN  q \in ATimers /\ q.armed = t.armed \union {i} /\ q.due = t.due
           /\ LET q == A!timer_stop(t, i)
              IN  q \in ATimers /\ q.armed = t.armed \ {i} /\ q.due = t.due
           /\ LET q == A!Served(t, i, k)
              IN  /\ q \in ATimers /\ q.due = t.due \ {i}
                  /\ i = 0 => q.armed = t.armed
           /\ LET q == A!Collect(t) IN q \in ATimers /\ q.armed = t.armed
           /\ LET q == A!Elapsed(t) IN q \in ATimers /\ q.armed = t.armed /\ q.due = t.due
<1> USE DEF ATimers
<1> DEFINE turn == Active.Turn
<1>0. turn \in Nat \ {0} /\ i \in Two /\ Active.Turn = turn
  BY ActiveConstants
<1> HIDE DEF turn
<1>1. LET q == Start(t, i, k, turn)
      IN  q \in ATimers /\ q.armed = t.armed \union {i} /\ q.due = t.due
  BY <1>0, StartIs
<1>2. LET q == Halt(t, i)
      IN  q \in ATimers /\ q.armed = t.armed \ {i} /\ q.due = t.due
  BY <1>0, HaltIs
<1>3. LET u == Taken(t, i) IN u \in ATimers /\ u.due = t.due \ {i} /\ u.armed = t.armed
  BY <1>0, TakenIs
<1>4. LET q == Compare(Taken(t, i), i, k, turn)
      IN  q \in ATimers /\ q.armed = t.armed /\ q.due = t.due \ {i}
  BY <1>0, <1>3, CompareIs
<1>5. LET q == Drop(Taken(t, i), i) IN q \in ATimers /\ q.due = t.due \ {i}
  BY <1>0, <1>3, DropIs
<1>6. LET q == Gather(t) IN q \in ATimers /\ q.armed = t.armed
  BY <1>0, GatherIs
<1>7. LET q == Elapse(t, Two, turn)
      IN  q \in ATimers /\ q.armed = t.armed /\ q.due = t.due
  BY <1>0, ElapseIs
<1>8. i = 0 \/ i = 1
  BY DEF Two
<1> QED BY <1>0, <1>1, <1>2, <1>4, <1>5, <1>6, <1>7, <1>8, ActiveTimerDriver

LEMMA ActiveRadioDriver ==
    ASSUME NEW r, NEW f, NEW ch, NEW pdu
    PROVE  /\ A!Stop(r) = R!Stop(r) /\ A!Recv(r, f) = R!Recv(r, f)
           /\ A!Prepare(r, ch) = R!Prepare(r, ch) /\ A!HandleEnd(r) = R!HandleEnd(r)
           /\ A!AfterEnd(r) = R!AfterEnd(r)
           /\ A!PacketSent(r) = R!AfterEnd(r)
           /\ A!PacketReceived(r, pdu) = R!PacketReceived(r, pdu)
<1>1. A!Stop(r) = R!Stop(r)
  BY DEF A!Stop, R!Stop
<1>2. A!Recv(r, f) = R!Recv(r, f)
  BY DEF A!Recv, R!Recv, A!Enable, R!Enable
<1>3. A!Prepare(r, ch) = R!Prepare(r, ch)
  BY DEF A!Prepare, R!Prepare, A!ch2freq, R!ch2freq
<1>4. A!HandleEnd(r) = R!HandleEnd(r)
  BY DEF A!HandleEnd, R!HandleEnd, A!Received, R!Received, A!Sent, R!Sent
<1>5. A!AfterEnd(r) = R!AfterEnd(r) /\ A!PacketSent(r) = R!AfterEnd(r)
  BY DEF A!AfterEnd, R!AfterEnd, A!PacketSent
<1>6. A!PacketReceived(r, pdu) = R!PacketReceived(r, pdu)
  BY DEF A!PacketReceived, R!PacketReceived, A!AfterEnd, R!AfterEnd
<1> QED BY <1>1, <1>2, <1>3, <1>4, <1>5, <1>6

\* The observer's radio: it listens and will answer; it answers an advertisement; it
\* waits for the response, and T_IFS runs; or it is off until the window ends.
Listening(r) == Is(r, {"rx"}, {"tx_next"}, {"txen"}, "inbuf", "rx", FALSE)
Asking(r, req) == /\ Is(r, {"tx"}, {}, {}, "scan_req", "tx", FALSE)
                  /\ A!Answered(r.inbuf) /\ req.adva = r.inbuf.from
Waiting(r, t) == Is(r, {"rx"}, {}, {}, "inbuf", "rx", FALSE) /\ 1 \in t.armed
Deaf(r) == Is(r, {}, {}, {}, "inbuf", "off", FALSE)

\* A packet has ended and the radio's handler not run: its reply may be under way.
Heard(r) == Is(r, {"rx"}, {"tx_next"}, {"txen"}, "inbuf", "tx", TRUE)
Asked(r) == Is(r, {"tx"}, {}, {}, "scan_req", "off", TRUE)
Told(r) == Is(r, {"rx"}, {}, {}, "inbuf", "off", TRUE)

Froms == {"empty"} \union {pdu.from : pdu \in APdus}
Requests == [header : SUBSET Nat, adva : Froms]

\* The inductive invariant of the active observer, of which only the radio's handler
\* sees the radio after a packet's end.
ActiveOK(r, t, i, req) ==
    /\ r \in ARadios /\ t \in ATimers /\ i \in 0 .. 2 /\ req \in Requests
    /\ r.out = "scan_req" /\ r.ch = A!channels[i + 1]
    /\ A!Type(req.header) = A!SCAN_REQ
    /\ \/ Listening(r) \/ Asking(r, req) \/ Waiting(r, t) \/ Deaf(r)
       \/ (Heard(r) \/ Asked(r) \/ Told(r)) /\ t.due = {}
ActiveInv == program = "active" => ActiveOK(radio, tm, idx, scan_req)

\* Stopped and turned on again, it listens.
LEMMA ListensAgain ==
    ASSUME NEW r \in ARadios, r.status = {} => Is(r, {}, {}, {}, r.ptr, "off", r.end)
    PROVE  LET q == A!Recv(A!Stop(r), {"tx_next"})
           IN  /\ q \in ARadios /\ Same(q, r)
               /\ Is(q, {"rx"}, {"tx_next"}, {"txen"}, "inbuf", "rx", r.end)
<1> USE DEF ARadios
<1> DEFINE s == R!Stop(r)
           q == R!Recv(s, {"tx_next"})
<1>1. s \in ARadios /\ Same(s, r) /\ Is(s, {}, {}, {}, r.ptr, "off", r.end)
  BY StopIs
<1> HIDE DEF s
<1>2. /\ q \in ARadios /\ Same(q, s)
      /\ Is(q, s.status \union {"rx"}, s.flags \union {"tx_next"}, s.shorts \union {"txen"},
            "inbuf", IF s.phase = "off" THEN "rx" ELSE s.phase, s.end)
  BY <1>1, RecvIs
<1> HIDE DEF q
<1>3. A!Recv(A!Stop(r), {"tx_next"}) = q
  BY ActiveRadioDriver DEF q, s
<1> QED BY <1>1, <1>2, <1>3 DEF Same, Is

\* Retuned in between, it listens on the channel asked for.
LEMMA ListensThere ==
    ASSUME NEW r \in ARadios, r.status = {} => Is(r, {}, {}, {}, r.ptr, "off", r.end),
           NEW i \in 0 .. 2
    PROVE  LET q == A!Listen(A!Stop(r), i)
           IN  /\ q \in ARadios /\ q.out = r.out /\ q.inbuf = r.inbuf
               /\ q.ch = A!channels[i + 1]
               /\ Is(q, {"rx"}, {"tx_next"}, {"txen"}, "inbuf", "rx", r.end)
<1> USE DEF ARadios
<1> DEFINE ch == A!channels[i + 1]
           s == R!Stop(r)
           p == R!Prepare(s, ch)
           q == R!Recv(p, {"tx_next"})
<1>0. ch \in 37 .. 39
  BY DEF A!channels
<1> HIDE DEF ch
<1>1. s \in ARadios /\ Same(s, r) /\ Is(s, {}, {}, {}, r.ptr, "off", r.end)
  BY StopIs
<1> HIDE DEF s
<1>2. /\ p \in ARadios /\ p.out = s.out /\ p.inbuf = s.inbuf
      /\ Is(p, s.status, s.flags, s.shorts, s.ptr, s.phase, s.end)
      /\ p.ch = IF s.status = {} THEN ch ELSE s.ch
  BY <1>0, <1>1, PrepareIs
<1> HIDE DEF p
<1>3. /\ q \in ARadios /\ Same(q, p)
      /\ Is(q, p.status \union {"rx"}, p.flags \union {"tx_next"}, p.shorts \union {"txen"},
            "inbuf", IF p.phase = "off" THEN "rx" ELSE p.phase, p.end)
  BY <1>2, RecvIs
<1> HIDE DEF q
<1>4. A!Listen(A!Stop(r), i) = q
  BY ActiveRadioDriver DEF A!Listen, q, p, s, ch
<1> QED BY <1>1, <1>2, <1>3, <1>4 DEF Same, Is, ch

LEMMA ActiveInitially == Init => ActiveInv
<1> SUFFICES ASSUME A!Init PROVE ActiveOK(radio, tm, idx, scan_req)
  BY DEF Init, ActiveInv
<1> DEFINE t == A!TimersReset
           r == A!SetOutBuffer([A!Reset EXCEPT !.inbuf = A!ZeroedPdu], "scan_req")
<1>1. t \in ATimers /\ t.due = {}
  BY ActiveConstants DEF A!TimersReset, ATimers, Timers, Two
<1>2. /\ r \in ARadios /\ r.out = "scan_req"
      /\ Is(r, {}, {}, {}, "inbuf", "off", FALSE)
  BY DEF A!SetOutBuffer, A!Reset, ARadios, APdus, Radios, Is
<1> HIDE DEF t, r
<1>3. tm \in ATimers
  BY <1>1, ActiveConstants, ActiveTimers DEF A!Init, A!scan_window, t, Two
<1>4. A!Stop(r) = r
  BY <1>2 DEF A!Stop, Is
<1>5. radio = A!Listen(A!Stop(r), 0)
  BY <1>4 DEF A!Init, r
<1>6. /\ radio \in ARadios /\ radio.out = "scan_req" /\ radio.ch = A!channels[0 + 1]
      /\ Listening(radio)
  BY <1>2, <1>5, ListensThere DEF Is, Listening
<1>7. scan_req \in Requests /\ A!Type(scan_req.header) = A!SCAN_REQ /\ idx = 0
  BY DEF A!Init, A!ScanReq, Requests, Froms, A!Type, A!SCAN_REQ, A!TxAdd
<1> QED BY <1>3, <1>6, <1>7 DEF ActiveOK

\* The steps of the program that change what its invariant says: one lemma each.
LEMMA ActiveTifs ==
    ASSUME ActiveOK(radio, tm, idx, scan_req), A!t_ifs_timeout
    PROVE  ActiveOK(radio, tm, idx, scan_req)'
<1>1. radio' = A!Recv(A!Stop(radio), {"tx_next"}) /\ tm' = A!Served(tm, 1, 0)
  BY DEF A!t_ifs_timeout, A!t_ifs
<1>2. tm.due # {}
  BY DEF A!t_ifs_timeout, A!Serving
<1>3. radio.status = {} => Is(radio, {}, {}, {}, radio.ptr, "off", radio.end)
  BY <1>2 DEF ActiveOK, Listening, Asking, Waiting, Deaf, Is
<1>4. ~radio.end
  BY <1>2 DEF ActiveOK, Listening, Asking, Waiting, Deaf, Is
<1>5. radio' \in ARadios /\ Same(radio', radio) /\ Listening(radio')
  BY <1>1, <1>3, <1>4, ListensAgain DEF ActiveOK, Listening, Is
<1>6. tm' \in ATimers
  BY <1>1, ActiveTimers DEF ActiveOK, Two
<1> QED BY <1>5, <1>6 DEF ActiveOK, Same, A!t_ifs_timeout, A!data

LEMMA ActiveWindow ==
    ASSUME ActiveOK(radio, tm, idx, scan_req), A!scan_window_timeout
    PROVE  ActiveOK(radio, tm, idx, scan_req)'
<1> DEFINE i == (idx + 1) % 3
           t == A!Served(tm, 0, Active.SCAN_WINDOW)
<1>1. radio' = A!Listen(A!Stop(radio), i) /\ tm' = A!timer_stop(t, 1) /\ idx' = i
  BY DEF A!scan_window_timeout, A!scan_window, A!t_ifs
<1>2. tm.due # {}
  BY DEF A!scan_window_timeout, A!Serving
<1>3. radio.status = {} => Is(radio, {}, {}, {}, radio.ptr, "off", radio.end)
  BY <1>2 DEF ActiveOK, Listening, Asking, Waiting, Deaf, Is
<1>4. ~radio.end
  BY <1>2 DEF ActiveOK, Listening, Asking, Waiting, Deaf, Is
<1>5. i \in 0 .. 2
  BY DEF ActiveOK
<1>6. t \in ATimers
  BY ActiveTimers, ActiveConstants DEF ActiveOK, Two
<1> HIDE DEF i, t
<1>7. /\ radio' \in ARadios /\ radio'.out = radio.out /\ radio'.ch = A!channels[i + 1]
      /\ Listening(radio')
  BY <1>1, <1>3, <1>4, <1>5, ListensThere DEF ActiveOK, Listening, Is
<1>8. tm' \in ATimers
  BY <1>1, <1>6, ActiveTimers DEF Two
<1> QED BY <1>1, <1>5, <1>7, <1>8 DEF ActiveOK, A!scan_window_timeout

\* The request's header gets RxAdd, and remains that of a request.
LEMMA RequestStays ==
    ASSUME NEW req \in Requests, NEW pdu \in APdus
    PROVE  LET q == [req EXCEPT !.header = @ \union A!CopiedBit(pdu.header), !.adva = pdu.from]
           IN  /\ q \in Requests /\ q.adva = pdu.from
               /\ A!Type(q.header) = A!Type(req.header)
<1> DEFINE bit == A!CopiedBit(pdu.header)
           q == [req EXCEPT !.header = @ \union bit, !.adva = pdu.from]
<1>1. bit \subseteq {4} /\ bit \subseteq Nat
  BY DEF A!CopiedBit
<1> HIDE DEF bit
<1> DEFINE from == pdu.from
           header == req.header \union bit
<1>2. from \in Froms /\ header \in SUBSET Nat
  <2>1. from \in Froms
    BY DEF Froms
  <2>2. req.header \in SUBSET Nat
    BY DEF Requests
  <2>3. header \subseteq Nat
    BY <1>1, <2>2
  <2> QED BY <2>1, <2>3
<1>3. q = [req EXCEPT !.header = header, !.adva = from]
  OBVIOUS
<1> HIDE DEF q, header, from
<1>4. q \in Requests /\ q.adva = from /\ q.header = header
  BY <1>2, <1>3 DEF Requests
<1>5. A!Type(q.header) = A!Type(req.header)
  BY <1>1, <1>4 DEF A!Type, header
<1> QED BY <1>4, <1>5 DEF bit, q, from

\* An advertisement's reply is completed, any other is stopped; of a response nothing
\* follows, and the radio stays off if it was an advertisement.
LEMMA ActiveReceives ==
    ASSUME ActiveOK(radio, tm, idx, scan_req), A!radio_recv_cb
    PROVE  ActiveOK(radio, tm, idx, scan_req)'
<1> USE DEF ARadios
<1> DEFINE h == R!HandleEnd(radio)
<1>1. tm' = A!timer_stop(tm, 1) /\ UNCHANGED idx /\ radio.end /\ "rx" \in radio.status
  BY DEF A!radio_recv_cb, A!t_ifs, A!Ended, A!Received
<1>2. Heard(radio) \/ Told(radio)
  BY <1>1 DEF ActiveOK, Listening, Asking, Waiting, Deaf, Asked, Is
<1>3. /\ h \in ARadios /\ Same(h, radio)
      /\ Heard(radio) => Is(h, {"tx"}, {}, {}, "scan_req", "tx", FALSE)
      /\ Told(radio) => Is(h, {}, {}, {}, "inbuf", "off", FALSE)
  <2>1. radio \in ARadios /\ radio.out = "scan_req"
    BY DEF ActiveOK
  <2>2. /\ h \in ARadios /\ Same(h, radio)
        /\ IF R!Received(radio) /\ "tx_next" \in radio.flags
           THEN Is(h, {"tx"}, radio.flags \ {"tx_next"}, radio.shorts \ {"txen"}, radio.out,
                   radio.phase, FALSE)
           ELSE IF R!Sent(radio) /\ "rx_next" \in radio.flags
           THEN Is(h, {"rx"}, radio.flags \ {"rx_next"}, radio.shorts \ {"rxen"}, "inbuf",
                   radio.phase, FALSE)
           ELSE Is(h, {}, radio.flags, radio.shorts, radio.ptr, radio.phase, FALSE)
    BY <2>1, HandleEndIs
  <2> HIDE DEF h
  <2>3. CASE Heard(radio)
    BY <2>1, <2>2, <2>3 DEF Heard, Told, Is, R!Received
  <2>4. CASE Told(radio)
    BY <2>1, <2>2, <2>4 DEF Heard, Told, Is, R!Received, R!Sent
  <2> QED BY <1>2, <2>2, <2>3, <2>4
<1>4. h = A!HandleEnd(radio)
  BY ActiveRadioDriver
<1> HIDE DEF h
<1>5. tm' \in ATimers
  BY <1>1, ActiveTimers DEF ActiveOK, Two
<1>6. CASE A!Answered(radio.inbuf)
  <2> DEFINE pdu == radio.inbuf
             q == [scan_req EXCEPT !.header = @ \union A!CopiedBit(pdu.header),
                                   !.adva = pdu.from]
  <2>1. radio' = h /\ scan_req' = q
    BY <1>4, <1>6 DEF A!radio_recv_cb
  <2>2. pdu \in APdus
    BY DEF ActiveOK, Radios
  <2>3. q \in Requests /\ q.adva = pdu.from /\ A!Type(q.header) = A!Type(scan_req.header)
    BY <2>2, RequestStays DEF ActiveOK
  <2> HIDE DEF q
  <2>4. Asking(h, q) \/ Deaf(h)
    BY <1>2, <1>3, <1>6, <2>3 DEF Asking, Deaf, Same
  <2> QED BY <1>1, <1>3, <1>5, <2>1, <2>3, <2>4 DEF ActiveOK, Same
<1>7. CASE ~A!Answered(radio.inbuf)
  <2>1. radio' = A!Recv(A!Stop(h), {"tx_next"}) /\ UNCHANGED scan_req
    BY <1>4, <1>7 DEF A!radio_recv_cb
  <2>2. h.status = {} => Is(h, {}, {}, {}, h.ptr, "off", h.end)
    BY <1>2, <1>3 DEF Is
  <2>3. ~h.end
    BY <1>2, <1>3 DEF Is
  <2>4. radio' \in ARadios /\ Same(radio', h) /\ Listening(radio')
    BY <1>3, <2>1, <2>2, <2>3, ListensAgain DEF Listening, Is
  <2> QED BY <1>1, <1>3, <1>5, <2>1, <2>4 DEF ActiveOK, Same
<1> QED BY <1>6, <1>7

LEMMA ActiveSends ==
    ASSUME ActiveOK(radio, tm, idx, scan_req), A!radio_send_cb
    PROVE  ActiveOK(radio, tm, idx, scan_req)'
<1> USE DEF ARadios
<1> DEFINE h == R!HandleEnd(radio)
           q == R!Recv(h, {})
<1>1. /\ tm' = A!timer_start(tm, 1, Active.T_IFS) /\ UNCHANGED <<idx, scan_req>>
      /\ radio.end /\ radio.status = {"tx"}
  BY DEF A!radio_send_cb, A!t_ifs, A!Ended, A!Sent, A!data
<1>2. Asked(radio) /\ radio \in ARadios /\ radio.out = "scan_req"
  BY <1>1 DEF ActiveOK, Listening, Asking, Waiting, Deaf, Heard, Told, Is
<1>3. h \in ARadios /\ Same(h, radio) /\ Is(h, {}, {}, {}, radio.ptr, "off", FALSE)
  <2>1. ~R!Received(radio) /\ "rx_next" \notin radio.flags
    BY <1>2 DEF Asked, Is, R!Received
  <2>2. /\ h \in ARadios /\ Same(h, radio)
        /\ IF R!Received(radio) /\ "tx_next" \in radio.flags
           THEN Is(h, {"tx"}, radio.flags \ {"tx_next"}, radio.shorts \ {"txen"}, radio.out,
                   radio.phase, FALSE)
           ELSE IF R!Sent(radio) /\ "rx_next" \in radio.flags
           THEN Is(h, {"rx"}, radio.flags \ {"rx_next"}, radio.shorts \ {"rxen"}, "inbuf",
                   radio.phase, FALSE)
           ELSE Is(h, {}, radio.flags, radio.shorts, radio.ptr, radio.phase, FALSE)
    BY <1>2, HandleEndIs
  <2> HIDE DEF h
  <2> QED BY <1>2, <2>1, <2>2 DEF Asked, Is
<1>4. h = A!HandleEnd(radio)
  BY ActiveRadioDriver
<1> HIDE DEF h
<1>5. /\ q \in ARadios /\ Same(q, h)
      /\ Is(q, h.status \union {"rx"}, h.flags \union {}, h.shorts, "inbuf",
            IF h.phase = "off" THEN "rx" ELSE h.phase, h.end)
  BY <1>3, RecvIs
<1>6. radio' = q
  BY <1>4, ActiveRadioDriver DEF A!radio_send_cb
<1> HIDE DEF q
<1>7. tm' \in ATimers /\ 1 \in tm'.armed
  <2>1. 1 \in Two /\ tm \in ATimers /\ Active.T_IFS \in Nat
    BY ActiveConstants DEF ActiveOK, Two
  <2>2. tm' \in ATimers /\ tm'.armed = tm.armed \union {1}
    BY <1>1, <2>1, ActiveTimers
  <2> QED BY <2>2
<1>8. Waiting(radio', tm')
  BY <1>3, <1>5, <1>6, <1>7 DEF Waiting, Is
<1> QED BY <1>1, <1>3, <1>5, <1>6, <1>7, <1>8 DEF ActiveOK, Same

LEMMA ActiveHears ==
    ASSUME ~ObserverLateEnd, ActiveOK(radio, tm, idx, scan_req), A!PacketIn
    PROVE  ActiveOK(radio, tm, idx, scan_req)'
<1> USE DEF ARadios
<1>1. /\ radio.phase = "rx" /\ ~radio.end /\ tm.due = {} /\ UNCHANGED <<tm, idx>>
  BY DEF A!PacketIn, A!MayEnd
<1>2. (Listening(radio) \/ Waiting(radio, tm)) /\ radio \in ARadios /\ radio.ptr = "inbuf"
  BY <1>1 DEF ActiveOK, Listening, Asking, Waiting, Deaf, Heard, Asked, Told, Is
<1>3. PICK pdu \in APdus : radio' = R!PacketReceived(radio, pdu) /\ UNCHANGED scan_req
  BY <1>2, ActiveRadioDriver DEF A!PacketIn, APdus
<1> DEFINE q == R!PacketReceived(radio, pdu)
<1>4. /\ q \in ARadios /\ q.ch = radio.ch /\ q.out = radio.out
      /\ Is(q, radio.status, radio.flags, radio.shorts, radio.ptr,
            IF "rxen" \in radio.shorts THEN "rx"
            ELSE IF "txen" \in radio.shorts THEN "tx" ELSE "off", TRUE)
  <2>1. /\ q \in Radios(APdus) /\ q.ch = radio.ch /\ q.out = radio.out /\ q.inbuf = pdu
        /\ q.age = 0
        /\ Is(q, radio.status, radio.flags, radio.shorts, radio.ptr,
              IF "rxen" \in radio.shorts THEN "rx"
              ELSE IF "txen" \in radio.shorts THEN "tx" ELSE "off", TRUE)
    BY <1>2, ReceivedIs
  <2> QED BY <2>1
<1> HIDE DEF q
<1>5. Heard(q) \/ Told(q)
  BY <1>2, <1>4 DEF Listening, Waiting, Heard, Told, Is
<1>6. radio' = q
  BY <1>3 DEF q
<1> QED BY <1>1, <1>3, <1>4, <1>5, <1>6 DEF ActiveOK

LEMMA ActiveSent ==
    ASSUME ~ObserverLateEnd, ActiveOK(radio, tm, idx, scan_req), A!PacketOut,
           UNCHANGED <<idx, scan_req>>
    PROVE  ActiveOK(radio, tm, idx, scan_req)'
<1> USE DEF ARadios
<1>1. radio.phase = "tx" /\ ~radio.end /\ tm.due = {} /\ UNCHANGED tm
  BY DEF A!PacketOut, A!MayEnd
<1>2. Asking(radio, scan_req) /\ radio \in ARadios
  BY <1>1 DEF ActiveOK, Listening, Waiting, Deaf, Heard, Asked, Told, Is
<1> DEFINE q == R!AfterEnd(radio)
<1>3. /\ q \in ARadios /\ Same(q, radio)
      /\ Is(q, radio.status, radio.flags, radio.shorts, radio.ptr,
            IF "rxen" \in radio.shorts THEN "rx"
            ELSE IF "txen" \in radio.shorts THEN "tx" ELSE "off", TRUE)
  BY <1>2, AfterEndIs
<1>4. radio' = q
  BY ActiveRadioDriver DEF A!PacketOut
<1> HIDE DEF q
<1>5. Asked(q)
  BY <1>2, <1>3 DEF Asking, Asked, Is
<1> QED BY <1>1, <1>3, <1>4, <1>5 DEF ActiveOK, Same

\* Ageing changes nothing that the invariant speaks of.
LEMMA AgesOnly ==
    ASSUME NEW pdus, NEW r \in Radios(pdus), NEW q, q = r \/ q = [r EXCEPT !.age = @ + 1]
    PROVE  /\ q \in Radios(pdus) /\ Same(q, r)
           /\ Is(q, r.status, r.flags, r.shorts, r.ptr, r.phase, r.end)
BY DEF Radios, Same, Is

LEMMA ActiveTicks ==
    ASSUME ActiveOK(radio, tm, idx, scan_req), A!Tick, UNCHANGED <<idx, scan_req>>
    PROVE  ActiveOK(radio, tm, idx, scan_req)'
<1> USE DEF ARadios
<1>1. /\ tm' = A!Elapsed(tm) /\ ~radio.end
      /\ radio' = radio \/ radio' = [radio EXCEPT !.age = @ + 1]
  BY DEF A!Tick, A!Quiet, A!Aged
<1>2. /\ radio' \in ARadios /\ Same(radio', radio)
      /\ Is(radio', radio.status, radio.flags, radio.shorts, radio.ptr, radio.phase, radio.end)
  BY <1>1, AgesOnly DEF ActiveOK
<1>3. tm' \in ATimers /\ tm'.armed = tm.armed
  BY <1>1, ActiveTimers DEF ActiveOK, Two
<1>4. \/ Listening(radio') \/ Asking(radio', scan_req') \/ Waiting(radio', tm')
      \/ Deaf(radio')
  BY <1>1, <1>2, <1>3
  DEF ActiveOK, Listening, Asking, Waiting, Deaf, Heard, Asked, Told, Is, Same
<1> QED BY <1>2, <1>3, <1>4 DEF ActiveOK, Same

LEMMA ActiveIrq ==
    ASSUME ActiveOK(radio, tm, idx, scan_req), A!TimerIrq, UNCHANGED <<idx, scan_req>>
    PROVE  ActiveOK(radio, tm, idx, scan_req)'
<1>1. tm' = A!Collect(tm) /\ ~radio.end /\ UNCHANGED radio
  BY DEF A!TimerIrq
<1>2. tm' \in ATimers /\ tm'.armed = tm.armed
  BY <1>1, ActiveTimers DEF ActiveOK, Two
<1> QED BY <1>1, <1>2
        DEF ActiveOK, Listening, Asking, Waiting, Deaf, Heard, Asked, Told, Is

LEMMA ActiveInvariant == ASSUME ~ObserverLateEnd PROVE Spec => []ActiveInv
<1>1. ActiveInv /\ [Next]_vars => ActiveInv'
  <2> SUFFICES ASSUME program = "active", ActiveOK(radio, tm, idx, scan_req), [Next]_vars
               PROVE  ActiveOK(radio, tm, idx, scan_req)'
    BY DEF ActiveInv, Next, Progress, PacketIn, vars
  <2>1. CASE A!Progress
    BY <2>1, ActiveTifs, ActiveWindow, ActiveReceives, ActiveSends, ActiveIrq, ActiveSent,
       ActiveTicks
    DEF A!Progress, A!data
  <2>2. CASE A!PacketIn
    BY <2>2, ActiveHears
  <2>3. CASE UNCHANGED vars
    <3>1. UNCHANGED <<radio, tm, idx, scan_req>>
      BY <2>3 DEF vars
    <3> QED BY <3>1
        DEF ActiveOK, Listening, Asking, Waiting, Deaf, Heard, Asked, Told, Is
  <2> QED BY <2>1, <2>2, <2>3 DEF Next, Progress, PacketIn
<1> QED BY <1>1, ActiveInitially, PTL DEF Spec

-----------------------------------------------------------------------------
(* What is sent in reply.  The scannable broadcaster's part does not depend  *)
(* on its timers: radio_recv_cb() starts the response and stops it in the    *)
(* same interrupt, and no shortcut or flag of it survives.                   *)

SPdus == Scanners \union {[type |-> "zero", me |-> FALSE, rxadd |-> FALSE]}

LEMMA ScannableRadioDriver ==
    ASSUME NEW r, NEW f, NEW ch, NEW pdu
    PROVE  /\ S!Stop(r) = R!Stop(r) /\ S!Send(r, pdu, f) = R!Send(r, pdu, f)
           /\ S!Prepare(r, ch) = R!Prepare(r, ch) /\ S!HandleEnd(r) = R!HandleEnd(r)
           /\ S!PacketSent(r) = R!AfterEnd(r)
           /\ S!PacketReceived(r, pdu) = R!PacketReceived(r, pdu)
<1>1. S!Stop(r) = R!Stop(r)
  BY DEF S!Stop, R!Stop
<1>2. S!Send(r, pdu, f) = R!Send(r, pdu, f)
  BY DEF S!Send, R!Send, S!Enable, R!Enable
<1>3. S!Prepare(r, ch) = R!Prepare(r, ch)
  BY DEF S!Prepare, R!Prepare, S!ch2freq, R!ch2freq
<1>4. S!HandleEnd(r) = R!HandleEnd(r)
  BY DEF S!HandleEnd, R!HandleEnd, S!Received, R!Received, S!Sent, R!Sent
<1>5. S!PacketSent(r) = R!AfterEnd(r)
  BY DEF S!AfterEnd, R!AfterEnd, S!PacketSent
<1>6. S!PacketReceived(r, pdu) = R!PacketReceived(r, pdu)
  BY DEF S!PacketReceived, R!PacketReceived, S!AfterEnd, R!AfterEnd
<1> QED BY <1>1, <1>2, <1>3, <1>4, <1>5, <1>6

Three == {0, 1, 2}
STimers == Timers(Three, Scannable.Turn)

LEMMA ScannableConstants ==
    /\ Scannable.Turn \in Nat \ {0} /\ Scannable.T_IFS \in Nat
    /\ Scannable.ADV_INTERVAL \in Nat /\ Scannable.ADV_EVENT \in Nat
BY ExamplesAssumption DEF S!DeviceAssumption, S!ScannableBroadcasterAssumption

LEMMA ScannableTimerDriver ==
    ASSUME NEW t \in STimers, NEW i \in Three, NEW k \in Nat
    PROVE  /\ S!timer_start(t, i, k) = Start(t, i, k, Scannable.Turn)
           /\ S!timer_stop(t, i) = Halt(t, i)
           /\ S!Served(t, 0, k) = Drop(Taken(t, 0), 0)
           /\ S!Served(t, 1, k) = Compare(Taken(t, 1), 1, k, Scannable.Turn)
           /\ S!Served(t, 2, k) = Drop(Taken(t, 2), 2)
           /\ S!Collect(t) = Gather(t)
           /\ S!Elapsed(t) = Elapse(t, Three, Scannable.Turn)
<1>1. S!timer_start(t, i, k) = Start(t, i, k, Scannable.Turn)
  BY DEF S!timer_start, S!update_cc, Start, Compare
<1>2. S!timer_stop(t, i) = Halt(t, i)
  BY DEF S!timer_stop, S!Release, Halt, Drop
<1>3. /\ S!Served(t, 0, k) = Drop(Taken(t, 0), 0)
      /\ S!Served(t, 2, k) = Drop(Taken(t, 2), 2)
  BY DEF S!Served, S!Release, Drop, Taken
<1>4. S!Served(t, 1, k) = Compare(Taken(t, 1), 1, k, Scannable.Turn)
  BY DEF S!Served, S!update_cc, Compare, Taken
<1>5. S!Collect(t) = Gather(t)
  BY DEF S!Collect, Gather
<1>6. S!Elapsed(t) = Elapse(t, Three, Scannable.Turn)
  BY DEF S!Elapsed, Elapse, Three
<1> QED BY <1>1, <1>2, <1>3, <1>4, <1>5, <1>6

LEMMA ScannableTimers ==
    ASSUME NEW t \in STimers, NEW i \in Three, NEW k \in Nat
    PROVE  /\ LET q == S!timer_start(t, i, k)
              IN  q \in STimers /\ q.armed = t.armed \union {i} /\ q.due = t.due
           /\ LET q == S!timer_stop(t, i)
              IN  q \in STimers /\ q.armed = t.armed \ {i} /\ q.due = t.due
           /\ LET q == S!Collect(t)
              IN  q \in STimers /\ q.armed = t.armed /\ q.due = t.events \intersect t.armed
           /\ LET q == S!Elapsed(t) IN q \in STimers /\ q.armed = t.armed /\ q.due = t.due
<1> USE DEF STimers
<1> DEFINE turn == Scannable.Turn
<1>0. turn \in Nat \ {0} /\ i \in Three /\ Scannable.Turn = turn
  BY ScannableConstants
<1> HIDE DEF turn
<1>1. LET q == Start(t, i, k, turn)
      IN  q \in STimers /\ q.armed = t.armed \union {i} /\ q.due = t.due
  BY <1>0, StartIs
<1>2. LET q == Halt(t, i)
      IN  q \in STimers /\ q.armed = t.armed \ {i} /\ q.due = t.due
  BY <1>0, HaltIs
<1>3. LET q == Gather(t)
      IN  q \in STimers /\ q.armed = t.armed /\ q.due = t.events \intersect t.armed
  BY <1>0, GatherIs
<1>4. LET q == Elapse(t, Three, turn)
      IN  q \in STimers /\ q.armed = t.armed /\ q.due = t.due
  BY <1>0, ElapseIs
<1> QED BY <1>0, <1>1, <1>2, <1>3, <1>4, ScannableTimerDriver

LEMMA ScannableServes ==
    ASSUME NEW t \in STimers, NEW i \in Three, NEW k \in Nat
    PROVE  LET q == S!Served(t, i, k)
           IN  /\ q \in STimers /\ q.due = t.due \ {i}
               /\ i = 1 => q.armed = t.armed
               /\ i # 1 => q.armed = t.armed \ {i}
<1> USE DEF STimers
<1> DEFINE turn == Scannable.Turn
<1>0. turn \in Nat \ {0} /\ i \in Three /\ Scannable.Turn = turn
  BY ScannableConstants
<1> HIDE DEF turn
<1>3. LET u == Taken(t, i) IN u \in STimers /\ u.due = t.due \ {i} /\ u.armed = t.armed
  BY <1>0, TakenIs
<1>4. LET q == Compare(Taken(t, i), i, k, turn)
      IN  q \in STimers /\ q.armed = t.armed /\ q.due = t.due \ {i}
  BY <1>0, <1>3, CompareIs
<1>5. LET q == Drop(Taken(t, i), i)
      IN  q \in STimers /\ q.armed = t.armed \ {i} /\ q.due = t.due \ {i}
  BY <1>0, <1>3, DropIs
<1>6. CASE i = 1
  BY <1>0, <1>4, <1>6, ScannableTimerDriver
<1>7. CASE i # 1
  <2>1. i = 0 \/ i = 2
    BY <1>7 DEF Three
  <2> QED BY <1>5, <1>7, <2>1, ScannableTimerDriver
<1> QED BY <1>6, <1>7

\* The timer of the interval runs only while there is a channel left.
ChannelLeft(t, i) ==
    t \in STimers /\ i \in 0 .. 3 /\ (0 \in t.armed \union t.due => i <= 2)

LEMMA ContinuedIs ==
    ASSUME NEW t \in STimers, NEW i \in 0 .. 3, i = 3 => 0 \notin t.armed \union t.due
    PROVE  ChannelLeft(S!Continued(t, i), i)
<1>1. CASE i < 3
  <2> DEFINE q == S!timer_start(t, 0, Scannable.ADV_INTERVAL)
  <2>1. q \in STimers
    BY ScannableTimers, ScannableConstants DEF Three
  <2>2. S!Continued(t, i) = q
    BY <1>1 DEF S!Continued, S!adv_interval
  <2> HIDE DEF q
  <2> QED BY <1>1, <2>1, <2>2 DEF ChannelLeft
<1>2. CASE i = 3
  BY <1>2 DEF S!Continued, ChannelLeft
<1> QED BY <1>1, <1>2

LEMMA ChannelLeftNext ==
    ASSUME ChannelLeft(tm, idx), S!Progress \/ S!PacketIn
    PROVE  ChannelLeft(tm, idx)'
<1>0. tm \in STimers
  BY DEF ChannelLeft
<1>9. 0 \in Three /\ 1 \in Three /\ 2 \in Three
  BY DEF Three
<1>1. CASE S!t_ifs_timeout
  <2> DEFINE i == 2
  <2>1. tm' = S!Served(tm, i, 0) /\ UNCHANGED idx /\ i \in Three /\ i # 1
    BY <1>9, <1>1 DEF S!t_ifs_timeout, S!t_ifs, S!data
  <2> HIDE DEF i
  <2>2. tm' \in STimers /\ tm'.due = tm.due \ {i} /\ tm'.armed = tm.armed \ {i}
    BY <1>0, <2>1, ScannableServes
  <2> QED BY <2>1, <2>2 DEF ChannelLeft
<1>2. CASE S!adv_interval_timeout
  <2> DEFINE first == 0
             t == S!Served(tm, first, 0)
             i == idx + 1
  <2>1. tm' = S!Continued(t, i) /\ idx' = i /\ 0 \in tm.due
    BY <1>2 DEF S!adv_interval_timeout, S!Serving, S!adv_interval
  <2>2. t \in STimers /\ 0 \notin t.due /\ 0 \notin t.armed
    <3>1. first \in Three /\ first # 1 /\ first = 0
      BY <1>9
    <3> HIDE DEF first
    <3>2. t \in STimers /\ t.due = tm.due \ {first} /\ t.armed = tm.armed \ {first}
      BY <1>0, <3>1, ScannableServes
    <3> QED BY <3>1, <3>2
  <2>3. i \in 0 .. 3
    BY <2>1 DEF ChannelLeft
  <2> HIDE DEF t, i
  <2> QED BY <2>1, <2>2, <2>3, ContinuedIs
<1>3. CASE S!adv_event_timeout
  <2> DEFINE t == S!Served(tm, 1, Scannable.ADV_EVENT)
  <2>1. tm' = S!Continued(t, 1) /\ idx' = 1
    BY <1>3 DEF S!adv_event_timeout, S!adv_event
  <2>2. t \in STimers
    BY <1>0, <1>9, ScannableConstants, ScannableServes
  <2> HIDE DEF t
  <2> QED BY <2>1, <2>2, ContinuedIs
<1>4. CASE S!radio_recv_cb
  <2>1. tm' = S!timer_stop(tm, 2) /\ UNCHANGED idx
    BY <1>4 DEF S!radio_recv_cb, S!t_ifs, S!data
  <2>2. tm' \in STimers /\ tm'.due = tm.due /\ tm'.armed = tm.armed \ {2}
    BY <1>0, <1>9, <2>1, ScannableTimers
  <2> QED BY <2>1, <2>2 DEF ChannelLeft
<1>5. CASE S!radio_send_cb
  <2> DEFINE i == 2
  <2>1. tm' = S!timer_start(tm, i, Scannable.T_IFS) /\ UNCHANGED idx /\ i \in Three /\ i # 0
    BY <1>9, <1>5 DEF S!radio_send_cb, S!t_ifs, S!data
  <2> HIDE DEF i
  <2>2. tm' \in STimers /\ tm'.due = tm.due /\ tm'.armed = tm.armed \union {i}
    <3>1. Scannable.T_IFS \in Nat
      BY ScannableConstants
    <3> DEFINE k == Scannable.T_IFS
               q == S!timer_start(tm, i, k)
    <3>2. k \in Nat /\ i \in Three /\ tm' = q
      BY <2>1, <3>1
    <3> HIDE DEF k
    <3>3. q \in STimers /\ q.armed = tm.armed \union {i} /\ q.due = tm.due
      BY <1>0, <3>2, ScannableTimers
    <3> QED BY <3>2, <3>3
  <2> QED BY <2>1, <2>2 DEF ChannelLeft
<1>6. CASE S!TimerIrq /\ UNCHANGED idx
  <2>1. tm' = S!Collect(tm)
    BY <1>6 DEF S!TimerIrq
  <2>2. tm' \in STimers /\ tm'.armed = tm.armed /\ tm'.due = tm.events \intersect tm.armed
    BY <1>0, <1>9, <2>1, ScannableTimers
  <2> QED BY <1>6, <2>2 DEF ChannelLeft
<1>7. CASE S!Tick /\ UNCHANGED idx
  <2>1. tm' = S!Elapsed(tm)
    BY <1>7 DEF S!Tick
  <2>2. tm' \in STimers /\ tm'.due = tm.due /\ tm'.armed = tm.armed
    BY <1>0, <1>9, <2>1, ScannableTimers
  <2> QED BY <1>7, <2>2 DEF ChannelLeft
<1>8. CASE UNCHANGED <<tm, idx>>
  BY <1>8 DEF ChannelLeft
<1> QED BY <1>1, <1>2, <1>3, <1>4, <1>5, <1>6, <1>7, <1>8
        DEF S!Progress, S!PacketIn, S!OnAirEnds, S!PacketOut, S!StaleEnd, S!data

Response(r) == r.phase = "tx" /\ r.ptr = "scan_rsp"
ScannableOK(r) ==
    /\ r \in Radios(SPdus) /\ "txen" \notin r.shorts /\ "tx_next" \notin r.flags
    /\ Response(r) => ~r.end /\ S!Right(r.inbuf)
ScannableInv == program = "scannable" => ScannableOK(radio) /\ ChannelLeft(tm, idx)

LEMMA ScannableSends ==
    ASSUME NEW r, ScannableOK(r), NEW i \in 0 .. 2
    PROVE  ScannableOK(S!SendPdu(r, i))
<1> DEFINE ch == S!channels[i + 1]
           s == R!Stop(r)
           p == R!Prepare(s, ch)
           q == R!Send(p, "adv_scan_ind", {"rx_next"})
<1>1. S!SendPdu(r, i) = q
  BY ScannableRadioDriver DEF S!SendPdu
<1>2. ch \in 37 .. 39 /\ r \in Radios(SPdus)
  BY DEF S!channels, ScannableOK
<1> HIDE DEF ch
<1>3. /\ s \in Radios(SPdus) /\ Same(s, r)
      /\ r.status # {} => Is(s, {}, {}, {}, r.ptr, "off", r.end)
      /\ r.status = {} => s = r
  BY <1>2, StopIs
<1>4. "txen" \notin s.shorts /\ "tx_next" \notin s.flags
  <2> HIDE DEF s
  <2> QED BY <1>3 DEF Is, ScannableOK
<1> HIDE DEF s
<1>5. /\ p \in Radios(SPdus) /\ p.out = s.out /\ p.inbuf = s.inbuf
      /\ Is(p, s.status, s.flags, s.shorts, s.ptr, s.phase, s.end)
  BY <1>2, <1>3, PrepareIs
<1> HIDE DEF p
<1>6. /\ q \in Radios(SPdus) /\ Same(q, p)
      /\ Is(q, p.status \union {"tx"}, p.flags \union {"rx_next"}, p.shorts \union {"rxen"},
            "adv_scan_ind", IF p.phase = "off" THEN "tx" ELSE p.phase, p.end)
  BY <1>5, SendIs
<1> HIDE DEF q
<1> QED BY <1>1, <1>4, <1>5, <1>6 DEF ScannableOK, Response, Is

LEMMA ScannableStops ==
    ASSUME NEW r, ScannableOK(r)
    PROVE  ScannableOK(R!Stop(r))
<1> DEFINE q == R!Stop(r)
<1>1. /\ q \in Radios(SPdus) /\ Same(q, r)
      /\ r.status # {} => Is(q, {}, {}, {}, r.ptr, "off", r.end)
      /\ r.status = {} => q = r
  BY StopIs DEF ScannableOK
<1> HIDE DEF q
<1>2. ScannableOK(q)
  BY <1>1 DEF ScannableOK, Response, Is
<1> QED BY <1>2 DEF q

LEMMA ScannableHandles ==
    ASSUME NEW r, ScannableOK(r), r.end
    PROVE  LET q == R!HandleEnd(r)
           IN  ScannableOK(q) /\ Same(q, r) /\ ~Response(q) /\ ~q.end
<1> DEFINE q == R!HandleEnd(r)
<1>1. r \in Radios(SPdus) /\ "tx_next" \notin r.flags /\ ~Response(r)
  BY DEF ScannableOK
<1>2. /\ q \in Radios(SPdus) /\ Same(q, r)
      /\ IF R!Received(r) /\ "tx_next" \in r.flags
         THEN Is(q, {"tx"}, r.flags \ {"tx_next"}, r.shorts \ {"txen"}, r.out, r.phase, FALSE)
         ELSE IF R!Sent(r) /\ "rx_next" \in r.flags
         THEN Is(q, {"rx"}, r.flags \ {"rx_next"}, r.shorts \ {"rxen"}, "inbuf", r.phase, FALSE)
         ELSE Is(q, {}, r.flags, r.shorts, r.ptr, r.phase, FALSE)
  BY <1>1, HandleEndIs
<1> HIDE DEF q
<1>3. ScannableOK(q) /\ Same(q, r) /\ ~Response(q) /\ ~q.end
  BY <1>1, <1>2 DEF ScannableOK, Response, Is
<1> QED BY <1>3 DEF q

LEMMA ScannableEnds ==
    ASSUME NEW r, ScannableOK(r)
    PROVE  /\ ScannableOK(R!AfterEnd(r))
           /\ \A pdu \in SPdus : ScannableOK(R!PacketReceived(r, pdu))
<1> DEFINE q == R!AfterEnd(r)
<1>1. r \in Radios(SPdus) /\ "txen" \notin r.shorts
  BY DEF ScannableOK
<1>2. /\ q \in Radios(SPdus) /\ Same(q, r)
      /\ Is(q, r.status, r.flags, r.shorts, r.ptr,
            IF "rxen" \in r.shorts THEN "rx"
            ELSE IF "txen" \in r.shorts THEN "tx" ELSE "off", TRUE)
  BY <1>1, AfterEndIs
<1> HIDE DEF q
<1>3. ScannableOK(q)
  BY <1>1, <1>2 DEF ScannableOK, Response, Is
<1>4. ASSUME NEW pdu \in SPdus PROVE ScannableOK(R!PacketReceived(r, pdu))
  <2> DEFINE p == R!PacketReceived(r, pdu)
  <2>1. /\ p \in Radios(SPdus) /\ p.ch = r.ch /\ p.out = r.out /\ p.inbuf = pdu
        /\ p.age = 0
        /\ Is(p, r.status, r.flags, r.shorts, r.ptr,
              IF "rxen" \in r.shorts THEN "rx"
              ELSE IF "txen" \in r.shorts THEN "tx" ELSE "off", TRUE)
    BY <1>1, ReceivedIs
  <2> HIDE DEF p
  <2>2. ScannableOK(p)
    BY <1>1, <2>1 DEF ScannableOK, Response, Is
  <2> QED BY <2>2 DEF p
<1> QED BY <1>3, <1>4 DEF q

LEMMA ScannableResponds ==
    ASSUME ScannableOK(radio), S!radio_recv_cb
    PROVE  ScannableOK(radio')
<1> DEFINE h == R!HandleEnd(radio)
           q == R!Send(h, "scan_rsp", {})
<1>1. radio.end /\ radio' = IF S!Right(radio.inbuf) THEN q ELSE R!Stop(q)
  BY ScannableRadioDriver DEF S!radio_recv_cb, S!Ended
<1>2. ScannableOK(h) /\ Same(h, radio) /\ ~h.end
  BY <1>1, ScannableHandles
<1> HIDE DEF h
<1>3. /\ q \in Radios(SPdus) /\ Same(q, h)
      /\ Is(q, h.status \union {"tx"}, h.flags \union {}, h.shorts, "scan_rsp",
            IF h.phase = "off" THEN "tx" ELSE h.phase, h.end)
  BY <1>2, SendIs DEF ScannableOK
<1> HIDE DEF q
<1>4. CASE S!Right(radio.inbuf)
  BY <1>1, <1>2, <1>3, <1>4 DEF ScannableOK, Response, Is, Same
<1>5. CASE ~S!Right(radio.inbuf)
  <2> DEFINE p == R!Stop(q)
  <2>1. /\ p \in Radios(SPdus) /\ Same(p, q)
        /\ q.status # {} => Is(p, {}, {}, {}, q.ptr, "off", q.end)
        /\ q.status = {} => p = q
    BY <1>3, StopIs
  <2> HIDE DEF p
  <2>2. ScannableOK(p)
    BY <1>3, <2>1 DEF ScannableOK, Response, Is
  <2> QED BY <1>1, <1>5, <2>2 DEF p
<1> QED BY <1>4, <1>5

LEMMA ScannableInvariant == Spec => []ScannableInv
<1>1. Init => ScannableInv
  <2> SUFFICES ASSUME S!Init PROVE ScannableOK(radio) /\ ChannelLeft(tm, idx)
    BY DEF Init, ScannableInv
  <2> DEFINE r == [S!Reset EXCEPT !.inbuf = [type |-> "zero", me |-> FALSE, rxadd |-> FALSE]]
  <2>1. ScannableOK(r)
    BY DEF S!Reset, SPdus, Radios, ScannableOK, Response
  <2>2. radio = S!SendPdu(r, 0)
    BY DEF S!Init
  <2> HIDE DEF r
  <2>3. ScannableOK(radio)
    BY <2>1, <2>2, ScannableSends
  <2> DEFINE reset == S!TimersReset
             t == S!timer_start(reset, 1, Scannable.ADV_EVENT)
  <2>4. reset \in STimers
    BY ScannableConstants DEF S!TimersReset, STimers, Timers, Three
  <2>5. tm = S!Continued(t, 1) /\ idx = 1
    BY DEF S!Init, S!adv_event
  <2> HIDE DEF reset
  <2>6. t \in STimers
    BY <2>4, ScannableConstants, ScannableTimers DEF Three
  <2> HIDE DEF t
  <2> QED BY <2>3, <2>5, <2>6, ContinuedIs
<1>2. ScannableInv /\ [Next]_vars => ScannableInv'
  <2> SUFFICES ASSUME program = "scannable", ScannableOK(radio), ChannelLeft(tm, idx),
                      [Next]_vars
               PROVE  ScannableOK(radio') /\ ChannelLeft(tm, idx)'
    BY DEF ScannableInv, Next, Progress, PacketIn, vars
  <2>0. ChannelLeft(tm, idx)'
    <3>1. CASE UNCHANGED vars
      BY <3>1 DEF vars, ChannelLeft
    <3>2. CASE Next
      BY <3>2, ChannelLeftNext DEF Next, Progress, PacketIn
    <3> QED BY <3>1, <3>2
  <2> SUFFICES ScannableOK(radio')
    BY <2>0
  <2>1. CASE S!t_ifs_timeout
    BY <2>1, ScannableStops, ScannableRadioDriver DEF S!t_ifs_timeout
  <2>2. CASE S!adv_interval_timeout
    <3>1. 0 \in tm.due /\ radio' = S!SendPdu(radio, idx)
      BY <2>2 DEF S!adv_interval_timeout, S!Serving, S!adv_interval
    <3>2. idx \in 0 .. 2
      BY <3>1 DEF ChannelLeft
    <3> QED BY <3>1, <3>2, ScannableSends
  <2>3. CASE S!adv_event_timeout
    BY <2>3, ScannableSends DEF S!adv_event_timeout
  <2>4. CASE S!radio_recv_cb
    BY <2>4, ScannableResponds
  <2>5. CASE S!radio_send_cb \/ S!StaleEnd
    BY <2>5, ScannableHandles, ScannableRadioDriver DEF S!radio_send_cb, S!StaleEnd, S!Ended
  <2>6. CASE S!OnAirEnds
    BY <2>6, ScannableEnds, ScannableRadioDriver DEF S!OnAirEnds, S!PacketOut
  <2>7. CASE S!PacketIn
    BY <2>7, ScannableEnds, ScannableRadioDriver DEF S!PacketIn, SPdus
  <2>8. CASE S!Tick
    <3>1. radio' = radio \/ radio' = [radio EXCEPT !.age = @ + 1]
      BY <2>8 DEF S!Tick, S!Aged
    <3>2. /\ radio' \in Radios(SPdus) /\ Same(radio', radio)
          /\ Is(radio', radio.status, radio.flags, radio.shorts, radio.ptr, radio.phase,
                radio.end)
      BY <3>1, AgesOnly DEF ScannableOK
    <3> QED BY <3>2 DEF ScannableOK, Response, Same, Is
  <2>9. CASE S!TimerIrq \/ UNCHANGED vars
    BY <2>9 DEF S!TimerIrq, vars
  <2> QED BY <2>1, <2>2, <2>3, <2>4, <2>5, <2>6, <2>7, <2>8, <2>9
          DEF Next, Progress, PacketIn, S!Progress
<1> QED BY <1>1, <1>2, PTL DEF Spec

\* The active observer sends a SCAN_REQ only to the device whose advertisement it has
\* just received and the scannable broadcaster a SCAN_RSP only to a right request: the
\* replies that are started before the packet is looked at are stopped for all others,
\* whatever the times and the packets.
THEOREM ExamplesReplyToRequests ==
    ASSUME ~ObserverLateEnd
    PROVE  Spec => []RepliesMatchRequests
<1>1. ActiveInv /\ ScannableInv => RepliesMatchRequests
  <2> SUFFICES ASSUME ActiveInv, ScannableInv PROVE RepliesMatchRequests
    OBVIOUS
  <2>1. ASSUME program = "active"
        PROVE  A!RequestsAnswerAdvertisements /\ A!OutBufferIsScanReq
    <3>1. ActiveOK(radio, tm, idx, scan_req)
      BY <2>1 DEF ActiveInv
    <3> QED BY <3>1 DEF ActiveOK, Listening, Asking, Waiting, Deaf, Heard, Asked, Told, Is,
                        A!RequestsAnswerAdvertisements, A!OutBufferIsScanReq, A!OnAir
  <2>2. ASSUME program = "scannable" PROVE S!AnswersOnlyRequests
    <3>1. ScannableOK(radio)
      BY <2>2 DEF ScannableInv
    <3> QED BY <3>1 DEF ScannableOK, Response, S!Right, S!AnswersOnlyRequests
  <2> QED BY <2>1, <2>2 DEF RepliesMatchRequests
<1> QED BY <1>1, ActiveInvariant, ScannableInvariant, PTL

-----------------------------------------------------------------------------
(* The passive observer, whose timers its invariant follows tick by tick: k  *)
(* ticks before the interval ends the window's timer is armed, and due Gap   *)
(* ticks before the interval's, or its compare value is one already passed.  *)

PTurn == Passive.Turn
Interval == Passive.SCAN_INTERVAL
Gap == Passive.SCAN_INTERVAL - Passive.SCAN_WINDOW
PTimers == Timers(Two, PTurn)

LEMMA PassiveConstants ==
    /\ PTurn \in Nat \ {0} /\ Interval \in Nat /\ Interval < PTurn
    /\ Gap \in Nat /\ 0 < Gap /\ Gap < Interval
    /\ Passive.SCAN_WINDOW \in Nat /\ Passive.SCAN_WINDOW = Interval - Gap
BY ExamplesAssumption
DEF P!DeviceAssumption, P!PassiveObserverAssumption, PTurn, Interval, Gap

Times(t, k) ==
    /\ t \in PTimers /\ k \in 0 .. Interval
    /\ 1 \in t.armed /\ t.inten = Two /\ t.running
    /\ t.cc[1] = Turned(t.counter, k, PTurn)
    /\ 0 \in t.armed => /\ k >= Gap /\ t.active = 2 /\ t.cc[0] = Turned(t.counter, k - Gap, PTurn)
    /\ 0 \notin t.armed => /\ k <= Gap /\ t.active = 1
                           /\ t.cc[0] = Turned(t.counter, PTurn - Gap + k, PTurn)
    /\ t.events = {} \/ t.due = {}
    /\ \A i \in Two : i \in t.events \union t.due <=>
                          (i = 1 /\ k = 0) \/ (i = 0 /\ 0 \in t.armed /\ k = Gap)
    /\ t.irq <=> t.events # {}

\* The radio is on while the window's timer runs, or a packet has just ended; what is
\* left of one when it is off has ended with the window.
Radioed(r, t, i, k) ==
    /\ r \in Radios({P!Reset.inbuf}) /\ i \in 0 .. 2
    /\ 0 \in t.armed => /\ r.ch = P!channels[i + 1]
                        /\ \/ Is(r, {"rx"}, {}, {}, "inbuf", "rx", FALSE)
                           \/ Is(r, {"rx"}, {}, {}, "inbuf", "off", TRUE)
    /\ 0 \notin t.armed => Is(r, {}, {}, {}, "inbuf", "off", r.end) /\ (r.end => k = Gap)
PassiveOK(r, t, i) == \E k \in 0 .. Interval : Times(t, k) /\ Radioed(r, t, i, k)
PassiveInv == program = "passive" => PassiveOK(radio, tm, idx)

LEMMA PassiveTimerDriver ==
    ASSUME NEW t \in PTimers, NEW i \in Two, NEW k \in Nat
    PROVE  /\ P!timer_start(t, i, k) = Start(t, i, k, PTurn)
           /\ P!Served(t, 0, k) = Drop(Taken(t, 0), 0)
           /\ P!Served(t, 1, k) = Compare(Taken(t, 1), 1, k, PTurn)
           /\ P!Collect(t) = Gather(t)
           /\ P!Elapsed(t) = Elapse(t, Two, PTurn)
<1>1. P!timer_start(t, i, k) = Start(t, i, k, PTurn)
  BY DEF P!timer_start, P!update_cc, Start, Compare, PTurn
<1>2. P!Served(t, 0, k) = Drop(Taken(t, 0), 0)
  BY DEF P!Served, P!Release, Drop, Taken
<1>3. P!Served(t, 1, k) = Compare(Taken(t, 1), 1, k, PTurn)
  BY DEF P!Served, P!update_cc, Compare, Taken, PTurn
<1>4. P!Collect(t) = Gather(t)
  BY DEF P!Collect, Gather
<1>5. P!Elapsed(t) = Elapse(t, Two, PTurn)
  BY DEF P!Elapsed, Elapse, Two, PTurn
<1> QED BY <1>1, <1>2, <1>3, <1>4, <1>5

LEMMA PassiveRadioDriver ==
    ASSUME NEW r, NEW f, NEW ch
    PROVE  /\ P!Stop(r) = R!Stop(r) /\ P!Recv(r, f) = R!Recv(r, f)
           /\ P!Prepare(r, ch) = R!Prepare(r, ch) /\ P!HandleEnd(r) = R!HandleEnd(r)
           /\ P!AfterEnd(r) = R!AfterEnd(r)
<1>1. P!Stop(r) = R!Stop(r)
  BY DEF P!Stop, R!Stop
<1>2. P!Recv(r, f) = R!Recv(r, f)
  BY DEF P!Recv, R!Recv, P!Enable, R!Enable
<1>3. P!Prepare(r, ch) = R!Prepare(r, ch)
  BY DEF P!Prepare, R!Prepare, P!ch2freq, R!ch2freq
<1>4. P!HandleEnd(r) = R!HandleEnd(r)
  BY DEF P!HandleEnd, R!HandleEnd, P!Received, R!Received, P!Sent, R!Sent
<1>5. P!AfterEnd(r) = R!AfterEnd(r)
  BY DEF P!AfterEnd, R!AfterEnd
<1> QED BY <1>1, <1>2, <1>3, <1>4, <1>5

\* The window closes: its timer is served, and its compare value left behind.
LEMMA WindowCloses ==
    ASSUME NEW t, NEW k \in 0 .. Interval, Times(t, k), 0 \in t.due
    PROVE  /\ Times(P!Served(t, 0, 0), k) /\ 0 \notin P!Served(t, 0, 0).armed
           /\ k = Gap /\ 0 \in t.armed
<1> DEFINE first == 0
           u == Taken(t, first)
           q == Drop(u, first)
<1>1. first \in Two /\ 1 \in Two /\ first = 0 /\ t \in PTimers
  BY DEF Two, Times
<1>2. P!Served(t, 0, 0) = q
  BY <1>1, PassiveTimerDriver
<1> HIDE DEF first
<1>3. /\ u \in PTimers /\ u.armed = t.armed /\ u.due = t.due \ {first}
      /\ u.events = t.events /\ u.counter = t.counter
      /\ Kept(u, t) /\ Unset(u, t)
  BY <1>1, TakenIs DEF PTimers
<1> HIDE DEF u
<1>4. /\ q \in PTimers /\ q.armed = u.armed \ {first} /\ q.due = u.due
      /\ q.events = u.events
      /\ Dropped(q, u) /\ Unset(q, u)
  BY <1>1, <1>3, PassiveConstants, DropIs DEF PTimers
<1> HIDE DEF q
<1>5. k = Gap /\ 0 \in t.armed /\ t.active = 2
  BY <1>1 DEF Times
<1>6. u.active = 2 /\ (u.running <=> t.running)
  BY <1>3, <1>5 DEF Kept
<1>7. q.active = 1 /\ (q.running <=> t.running) /\ q.counter = t.counter
  BY <1>3, <1>4, <1>6 DEF Dropped
<1>8. q.cc = t.cc /\ q.inten = t.inten /\ (q.irq <=> t.irq)
  BY <1>3, <1>4 DEF Unset
<1>9. q.armed = t.armed \ {first} /\ q.due = t.due \ {first} /\ q.events = t.events
  BY <1>3, <1>4
<1>10. Turned(t.counter, k - Gap, PTurn) = Turned(t.counter, PTurn - Gap + k, PTurn)
  BY <1>1, <1>5, PassiveConstants DEF Turned, PTimers, Timers
<1>11. t.events = {} /\ t.due \subseteq Two
  BY <1>1 DEF Times, PTimers, Timers
<1>12. \A i \in Two : i \in t.due <=> i = 0
  BY <1>1, <1>5, <1>11, PassiveConstants DEF Times, Two
<1>13. q.due = {}
  BY <1>1, <1>9, <1>11, <1>12
<1>14. Times(q, k)
  BY <1>1, <1>4, <1>5, <1>7, <1>8, <1>9, <1>10, <1>11, <1>13, PassiveConstants DEF Times
<1> QED BY <1>1, <1>2, <1>5, <1>9, <1>14

\* The window's timer is armed when that of the interval has just been.
LEMMA WindowStarts ==
    ASSUME NEW t, t \in PTimers, t.armed = {1}, 1 \in t.inten, t.running,
           t.cc[1] = Turned(t.counter, Interval, PTurn),
           t.active = 1, t.events = {}, t.due = {}, ~t.irq
    PROVE  LET q == P!timer_start(t, 0, Passive.SCAN_WINDOW)
           IN  Times(q, Interval) /\ 0 \in q.armed
<1> DEFINE first == 0
           w == Passive.SCAN_WINDOW
           turn == PTurn
           q == Start(t, first, w, turn)
<1>1. /\ first \in Two /\ first = 0 /\ first \notin t.armed /\ 1 \in Two
      /\ \A i \in Two : i = first \/ i = 1
  BY DEF Two
<1>2. w \in Nat /\ w = Interval - Gap /\ turn \in Nat \ {0} /\ turn = PTurn
  BY PassiveConstants
<1>3. P!timer_start(t, 0, w) = q
  BY <1>1, <1>2, PassiveTimerDriver
<1> HIDE DEF first, w, turn
<1>4. /\ q \in PTimers /\ q.armed = t.armed \union {first} /\ q.due = t.due
      /\ q.events = t.events /\ q.counter = t.counter
      /\ first \notin t.armed => Started(q, t, first, w, turn)
  <2>1. t \in Timers(Two, turn) /\ turn \in Nat \ {0} /\ first \in Two /\ w \in Nat
    BY <1>1, <1>2 DEF PTimers
  <2>2. /\ q \in Timers(Two, turn)
        /\ q.armed = t.armed \union {first} /\ q.due = t.due /\ q.events = t.events
        /\ q.counter = t.counter
        /\ first \notin t.armed => Started(q, t, first, w, turn)
    BY <2>1, StartIs
  <2> QED BY <1>2, <2>2 DEF PTimers
<1> HIDE DEF q
<1>5. Compared(q, t, first, w, turn)
  BY <1>1, <1>4 DEF Started
<1>6. q.active = 2 /\ q.running
  BY <1>1, <1>4 DEF Started
<1>7. (t.counter + w) % turn = Turned(t.counter, w, PTurn)
  <2>1. w \in 0 .. PTurn
    BY <1>2, PassiveConstants
  <2>2. t.counter \in 0 .. PTurn - 1
    BY DEF PTimers, Timers
  <2> QED BY <1>2, <2>1, <2>2, Turns
<1>8. q.cc[first] = Turned(t.counter, w, PTurn) /\ q.cc[1] = t.cc[1]
  BY <1>1, <1>5, <1>7 DEF Compared, PTimers, Timers
<1>9. q.inten = Two /\ ~q.irq
  <2>1. q.inten = t.inten \union {first} /\ (q.irq <=> t.irq \/ first \in t.events)
    BY <1>5 DEF Compared
  <2>2. q.inten \subseteq Two
    BY <1>4 DEF PTimers, Timers
  <2> QED BY <1>1, <2>1, <2>2
<1>10. /\ \A i \in Two : i \notin q.events \union q.due
       /\ Interval - Gap = w /\ Interval # 0 /\ Interval >= Gap /\ Interval # Gap
       /\ Interval \in 0 .. Interval
  BY <1>2, <1>4, PassiveConstants
<1>11. /\ q.cc[0] = Turned(q.counter, Interval - Gap, PTurn)
       /\ q.cc[1] = Turned(q.counter, Interval, PTurn)
  BY <1>1, <1>4, <1>8, <1>10
<1>12. Times(q, Interval)
  BY <1>1, <1>4, <1>6, <1>9, <1>10, <1>11 DEF Times
<1> QED BY <1>1, <1>3, <1>4, <1>12 DEF w

LEMMA WindowOpens ==
    ASSUME NEW t, NEW k \in 0 .. Interval, Times(t, k), 1 \in t.due
    PROVE  /\ LET q == P!timer_start(P!Served(t, 1, Interval), 0, Passive.SCAN_WINDOW)
              IN  Times(q, Interval) /\ 0 \in q.armed
           /\ k = 0 /\ 0 \notin t.armed
<1> DEFINE second == 1
           turn == PTurn
           u == Taken(t, second)
           q == Compare(u, second, Interval, turn)
<1>1. /\ second \in Two /\ second = 1 /\ 0 \in Two /\ t \in PTimers
      /\ \A i \in Two : i = 0 \/ i = second
  BY DEF Two, Times
<1>2. turn \in Nat \ {0} /\ turn = PTurn /\ Interval \in Nat
  BY PassiveConstants
<1>3. P!Served(t, 1, Interval) = q
  BY <1>1, <1>2, PassiveTimerDriver
<1> HIDE DEF second, turn
<1>4. /\ u \in PTimers /\ u.armed = t.armed /\ u.due = t.due \ {second}
      /\ u.events = t.events /\ u.counter = t.counter
      /\ Kept(u, t) /\ Unset(u, t)
  BY <1>1, <1>2, TakenIs DEF PTimers
<1> HIDE DEF u
<1>5. /\ q \in PTimers /\ q.armed = u.armed /\ q.due = u.due /\ q.events = u.events
      /\ q.counter = u.counter
      /\ Compared(q, u, second, Interval, turn) /\ Kept(q, u)
  <2>1. Interval \in Nat /\ u \in Timers(Two, turn)
    BY <1>2, <1>4 DEF PTimers
  <2>2. turn \in Nat \ {0} /\ second \in Two
    BY <1>1, <1>2
  <2>3. /\ q \in Timers(Two, turn) /\ q.armed = u.armed /\ q.due = u.due
        /\ q.events = u.events /\ q.counter = u.counter
        /\ Compared(q, u, second, Interval, turn) /\ Kept(q, u)
    BY <2>1, <2>2, CompareIs
  <2> QED BY <1>2, <2>3 DEF PTimers
<1> HIDE DEF q
<1>6. k = 0 /\ 0 \notin t.armed
  <2>1. k = 0
    BY <1>1 DEF Times
  <2> QED BY <2>1, PassiveConstants DEF Times
<1>7. t.events = {} /\ t.due \subseteq Two /\ t.armed \subseteq Two /\ 1 \in t.armed
  BY <1>1 DEF Times, PTimers, Timers
<1>8. t.due = {second} /\ t.armed = {1}
  <2>1. 0 \notin t.due
    BY <1>1, <1>6, <1>7 DEF Times
  <2> QED BY <1>1, <1>6, <1>7, <2>1
<1>9. q.armed = {1} /\ q.due = {} /\ q.events = {}
  BY <1>4, <1>5, <1>7, <1>8
<1>10. (q.running <=> t.running) /\ q.active = t.active
  BY <1>4, <1>5 DEF Kept
<1>11. (t.counter + Interval) % turn = Turned(t.counter, Interval, PTurn)
  BY <1>1, <1>2, PassiveConstants, Turns DEF PTimers, Timers
<1>12. q.cc[1] = Turned(q.counter, Interval, PTurn) /\ 1 \in q.inten /\ ~q.irq
  <2>1. u.cc \in [Two -> 0 .. PTurn - 1] /\ u.counter = t.counter
    BY <1>4 DEF PTimers, Timers
  <2>2. /\ q.cc = [u.cc EXCEPT ![second] = (u.counter + Interval) % turn]
        /\ q.inten = u.inten \union {second} /\ (q.irq <=> u.irq \/ second \in u.events)
    BY <1>5 DEF Compared
  <2>3. q.cc[second] = Turned(q.counter, Interval, PTurn)
    BY <1>1, <1>4, <1>5, <1>11, <2>1, <2>2
  <2>4. ~u.irq
    BY <1>4, <1>7 DEF Unset, Times
  <2> QED BY <1>1, <1>4, <1>7, <2>2, <2>3, <2>4
<1>13. q.running /\ q.active = 1
  BY <1>6, <1>10 DEF Times
<1> QED BY <1>3, <1>5, <1>6, <1>9, <1>12, <1>13, WindowStarts

LEMMA TimesGathered ==
    ASSUME NEW t, NEW k \in 0 .. Interval, Times(t, k), t.due = {}
    PROVE  LET q == P!Collect(t) IN Times(q, k) /\ q.armed = t.armed
<1> DEFINE q == Gather(t)
<1>1. t \in PTimers
  BY DEF Times
<1>2. /\ q \in PTimers
      /\ q.armed = t.armed /\ q.due = t.events \intersect t.armed /\ q.events = {}
      /\ q.counter = t.counter /\ q.cc = t.cc /\ q.inten = t.inten /\ ~q.irq
      /\ Kept(q, t)
  BY <1>1, GatherIs DEF PTimers
<1>3. P!Collect(t) = q
  BY DEF P!Collect, Gather
<1> HIDE DEF q
<1>4. q.active = t.active /\ (q.running <=> t.running)
  BY <1>2 DEF Kept
<1>5. \A i \in Two : i \in t.events => i \in t.armed
  BY <1>1 DEF Times, Two
<1>6. \A i \in Two : i \in q.events \union q.due <=> i \in t.events \union t.due
  BY <1>2, <1>5
<1>7. Times(q, k)
  BY <1>2, <1>4, <1>6 DEF Times
<1> QED BY <1>2, <1>3, <1>7

LEMMA TimesElapse ==
    ASSUME NEW t, NEW k \in 0 .. Interval, Times(t, k), t.due = {}, ~t.irq
    PROVE  /\ LET q == P!Elapsed(t) IN Times(q, k - 1) /\ q.armed = t.armed
           /\ k # 0 /\ ~(0 \in t.armed /\ k = Gap)
<1> DEFINE turn == PTurn
           q == Elapse(t, Two, turn)
           now == (t.counter + 1) % PTurn
           hits == {i \in Two : t.cc[i] = now}
<1>1. t \in PTimers /\ 0 \in Two /\ 1 \in Two /\ \A i \in Two : i = 0 \/ i = 1
  BY DEF Times, Two
<1>2. turn \in Nat \ {0} /\ turn = PTurn
  BY PassiveConstants
<1>3. P!Elapsed(t) = q
  BY DEF P!Elapsed, Elapse, Two, PTurn
<1> HIDE DEF turn
<1>4. /\ q \in PTimers /\ q.armed = t.armed /\ q.due = t.due
      /\ q.cc = t.cc /\ q.inten = t.inten /\ Kept(q, t)
      /\ Ticked(q, t, Two, turn)
  BY <1>1, <1>2, ElapseIs DEF PTimers
<1> HIDE DEF q
<1>5. q.active = t.active /\ q.running
  BY <1>4 DEF Kept, Times
<1>6. q.counter = now /\ q.events = t.events \union hits
      /\ (q.irq <=> t.irq \/ hits \intersect t.inten # {})
  BY <1>2, <1>4 DEF Ticked, Times
<1>7. t.events = {}
  BY DEF Times
<1>8. k # 0 /\ ~(0 \in t.armed /\ k = Gap)
  BY <1>1, <1>7 DEF Times
<1>9. t.counter \in 0 .. PTurn - 1 /\ PTurn \in Nat \ {0}
  BY <1>1, PassiveConstants DEF PTimers, Timers
<1>10. /\ t.cc[1] = Turned(now, k - 1, PTurn)
       /\ t.cc[1] = now <=> k = 1
  <2>1. k \in 1 .. PTurn /\ t.cc[1] = Turned(t.counter, k, PTurn)
    BY <1>8, PassiveConstants DEF Times
  <2> QED BY <1>9, <2>1, TurnsOn
<1>11. ASSUME 0 \in t.armed
       PROVE  /\ k - 1 >= Gap /\ t.cc[0] = Turned(now, k - 1 - Gap, PTurn)
              /\ t.cc[0] = now <=> k - 1 = Gap
  <2> DEFINE m == k - Gap
  <2>1. m \in 1 .. PTurn /\ t.cc[0] = Turned(t.counter, m, PTurn)
    BY <1>8, <1>11, PassiveConstants DEF Times
  <2>2. m - 1 = k - 1 - Gap /\ k - 1 >= Gap /\ (m = 1 <=> k - 1 = Gap)
    BY <1>8, <1>11, PassiveConstants DEF Times
  <2> HIDE DEF m
  <2>3. t.cc[0] = Turned(now, m - 1, PTurn) /\ (t.cc[0] = now <=> m = 1)
    BY <1>9, <2>1, TurnsOn
  <2> QED BY <2>2, <2>3
<1>12. ASSUME 0 \notin t.armed
       PROVE  /\ k - 1 <= Gap /\ t.cc[0] = Turned(now, PTurn - Gap + (k - 1), PTurn)
              /\ t.cc[0] # now
  <2> DEFINE m == PTurn - Gap + k
  <2>1. m \in 1 .. PTurn /\ t.cc[0] = Turned(t.counter, m, PTurn) /\ k <= Gap
    BY <1>8, <1>12, PassiveConstants DEF Times
  <2>2. m - 1 = PTurn - Gap + (k - 1) /\ k - 1 <= Gap /\ m # 1
    BY <1>8, <2>1, PassiveConstants
  <2> HIDE DEF m
  <2>3. t.cc[0] = Turned(now, m - 1, PTurn) /\ (t.cc[0] = now <=> m = 1)
    BY <1>9, <2>1, TurnsOn
  <2> QED BY <2>1, <2>2, <2>3
<1> HIDE DEF now
<1>13. hits = {i \in Two : (i = 1 /\ k - 1 = 0) \/ (i = 0 /\ 0 \in t.armed /\ k - 1 = Gap)}
  BY <1>1, <1>8, <1>10, <1>11, <1>12
<1> HIDE DEF hits
<1>14. \A i \in Two : i \in q.events \union q.due <=>
                          (i = 1 /\ k - 1 = 0) \/ (i = 0 /\ 0 \in q.armed /\ k - 1 = Gap)
  BY <1>4, <1>6, <1>7, <1>13
<1>15. q.irq <=> q.events # {}
  <2>1. hits \intersect t.inten = hits
    BY <1>13 DEF Times
  <2> QED BY <1>6, <1>7, <2>1
<1>16. k - 1 \in 0 .. Interval
  BY <1>8, PassiveConstants
<1>17. 0 \in q.armed => /\ k - 1 >= Gap /\ q.active = 2
                        /\ q.cc[0] = Turned(q.counter, k - 1 - Gap, PTurn)
  BY <1>4, <1>5, <1>6, <1>11 DEF Times
<1>18. 0 \notin q.armed => /\ k - 1 <= Gap /\ q.active = 1
                           /\ q.cc[0] = Turned(q.counter, PTurn - Gap + (k - 1), PTurn)
  BY <1>4, <1>5, <1>6, <1>12 DEF Times
<1>19. q.cc[1] = Turned(q.counter, k - 1, PTurn) /\ 1 \in q.armed /\ q.inten = Two
  BY <1>4, <1>6, <1>10 DEF Times
<1>20. Times(q, k - 1)
  BY <1>4, <1>5, <1>14, <1>15, <1>16, <1>17, <1>18, <1>19 DEF Times
<1> QED BY <1>3, <1>4, <1>8, <1>20

PRadios == Radios({P!Reset.inbuf})
On(r) == Is(r, {"rx"}, {}, {}, "inbuf", "rx", FALSE)
Late(r) == Is(r, {"rx"}, {}, {}, "inbuf", "off", TRUE)

\* Turned on when it was off, it listens on the channel asked for.
LEMMA PassiveListens ==
    ASSUME NEW r \in PRadios, Is(r, {}, {}, {}, "inbuf", "off", FALSE)
    PROVE  /\ P!Recv(r, {}) \in PRadios /\ On(P!Recv(r, {})) /\ P!Recv(r, {}).ch = r.ch
           /\ \A i \in 0 .. 2 :
                LET q == P!Listen(r, i)
                IN  q \in PRadios /\ On(q) /\ q.ch = P!channels[i + 1]
<1> USE DEF PRadios
<1>1. ASSUME NEW s \in PRadios, Is(s, {}, {}, {}, "inbuf", "off", FALSE)
      PROVE  LET q == P!Recv(s, {}) IN q \in PRadios /\ On(q) /\ q.ch = s.ch
  <2> DEFINE q == R!Recv(s, {})
  <2>1. /\ q \in PRadios /\ Same(q, s)
        /\ Is(q, s.status \union {"rx"}, s.flags \union {}, s.shorts, "inbuf",
              IF s.phase = "off" THEN "rx" ELSE s.phase, s.end)
    BY RecvIs
  <2> HIDE DEF q
  <2>2. P!Recv(s, {}) = q
    BY PassiveRadioDriver DEF q
  <2> QED BY <1>1, <2>1, <2>2 DEF Is, On, Same
<1>2. ASSUME NEW i \in 0 .. 2
      PROVE  LET q == P!Listen(r, i)
             IN  q \in PRadios /\ On(q) /\ q.ch = P!channels[i + 1]
  <2> DEFINE ch == P!channels[i + 1]
             p == R!Prepare(r, ch)
  <2>1. ch \in 37 .. 39
    BY DEF P!channels
  <2> HIDE DEF ch
  <2>2. /\ p \in PRadios /\ p.out = r.out /\ p.inbuf = r.inbuf
        /\ Is(p, r.status, r.flags, r.shorts, r.ptr, r.phase, r.end)
        /\ p.ch = IF r.status = {} THEN ch ELSE r.ch
    BY <2>1, PrepareIs
  <2> HIDE DEF p
  <2>3. Is(p, {}, {}, {}, "inbuf", "off", FALSE) /\ p.ch = ch
    BY <2>2 DEF Is
  <2>4. P!Listen(r, i) = P!Recv(p, {})
    BY PassiveRadioDriver DEF P!Listen, p, ch
  <2> QED BY <1>1, <2>2, <2>3, <2>4 DEF ch
<1> QED BY <1>1, <1>2

LEMMA PassiveInitially == ASSUME P!Init PROVE PassiveOK(radio, tm, idx)
<1> DEFINE reset == P!TimersReset
           second == 1
           turn == PTurn
           t == Start(reset, second, Interval, turn)
           r == P!Reset
<1>1. second \in Two /\ second = 1 /\ turn = PTurn /\ turn \in Nat \ {0}
  BY PassiveConstants DEF Two
<1>2. /\ reset \in PTimers /\ reset.armed = {} /\ reset.active = 0 /\ reset.counter = 0
      /\ reset.events = {} /\ reset.due = {} /\ ~reset.irq /\ ~reset.running
      /\ reset.cc \in [Two -> 0 .. PTurn - 1]
  BY <1>1 DEF P!TimersReset, PTimers, Timers, Two
<1>3. tm = P!timer_start(P!timer_start(reset, 1, Interval), 0, Passive.SCAN_WINDOW)
  BY DEF P!Init, P!scan_interval, P!scan_window, Interval
<1> HIDE DEF reset
<1>4. P!timer_start(reset, 1, Interval) = t
  BY <1>1, <1>2, PassiveConstants, PassiveTimerDriver
<1> HIDE DEF second, turn
<1>5. /\ t \in PTimers /\ t.armed = reset.armed \union {second} /\ t.due = reset.due
      /\ t.events = reset.events /\ t.counter = reset.counter
      /\ Started(t, reset, second, Interval, turn)
  <2>1. Interval \in Nat /\ reset \in Timers(Two, turn)
    BY <1>1, <1>2, PassiveConstants DEF PTimers
  <2>2. /\ t \in Timers(Two, turn) /\ t.armed = reset.armed \union {second}
        /\ t.due = reset.due /\ t.events = reset.events /\ t.counter = reset.counter
        /\ second \notin reset.armed => Started(t, reset, second, Interval, turn)
    BY <1>1, <2>1, StartIs
  <2> QED BY <1>1, <1>2, <2>2 DEF PTimers
<1> HIDE DEF t
<1>6. t.active = 1 /\ t.running
  BY <1>2, <1>5 DEF Started
<1>7. 1 \in t.inten /\ ~t.irq /\ t.cc = [reset.cc EXCEPT ![second] = (0 + Interval) % turn]
  BY <1>1, <1>2, <1>5 DEF Started, Compared
<1>8. (0 + Interval) % turn = Turned(0, Interval, PTurn)
  <2>1. 0 \in 0 .. PTurn - 1 /\ Interval \in 0 .. PTurn
    BY PassiveConstants
  <2> QED BY <1>1, <2>1, Turns
<1>9. t.cc[1] = Turned(t.counter, Interval, PTurn)
  BY <1>1, <1>2, <1>5, <1>7, <1>8
<1>10. t.armed = {1} /\ t.events = {} /\ t.due = {}
  BY <1>1, <1>2, <1>5
<1>11. Times(tm, Interval) /\ 0 \in tm.armed
  BY <1>3, <1>4, <1>5, <1>6, <1>7, <1>9, <1>10, WindowStarts
<1>12. r \in PRadios /\ Is(r, {}, {}, {}, "inbuf", "off", FALSE)
  BY DEF P!Reset, PRadios, Radios, Is
<1>13. radio = P!Listen(r, idx) /\ idx \in 0 .. 2
  BY DEF P!Init
<1> HIDE DEF r
<1>14. radio \in PRadios /\ On(radio) /\ radio.ch = P!channels[idx + 1]
  BY <1>12, <1>13, PassiveListens
<1>15. Radioed(radio, tm, idx, Interval)
  BY <1>11, <1>13, <1>14 DEF Radioed, On, PRadios
<1>16. Interval \in 0 .. Interval
  BY PassiveConstants
<1> QED BY <1>11, <1>15, <1>16 DEF PassiveOK

LEMMA PassiveNext ==
    ASSUME PassiveOK(radio, tm, idx), P!Progress \/ P!PacketIn
    PROVE  PassiveOK(radio, tm, idx)'
<1>1. PICK k \in 0 .. Interval : Times(tm, k) /\ Radioed(radio, tm, idx, k)
  BY DEF PassiveOK
<1>2. radio \in PRadios /\ idx \in 0 .. 2
  BY <1>1 DEF Radioed, PRadios
<1> USE DEF PRadios
<1>3. CASE P!scan_window_timeout
  <2> DEFINE q == R!Stop(radio)
  <2>1. tm' = P!Served(tm, 0, 0) /\ radio' = q /\ UNCHANGED idx /\ 0 \in tm.due
    BY <1>3, PassiveRadioDriver DEF P!scan_window_timeout, P!Serving, P!scan_window
  <2>2. Times(tm', k) /\ 0 \notin tm'.armed /\ k = Gap /\ 0 \in tm.armed
    BY <1>1, <2>1, WindowCloses
  <2>3. /\ q \in PRadios /\ Same(q, radio)
        /\ radio.status # {} => Is(q, {}, {}, {}, radio.ptr, "off", radio.end)
        /\ radio.status = {} => q = radio
    BY <1>2, StopIs
  <2> HIDE DEF q
  <2>4. Is(q, {}, {}, {}, "inbuf", "off", q.end)
    BY <1>1, <2>2, <2>3 DEF Radioed, Is
  <2>5. Radioed(radio', tm', idx', k)
    BY <1>2, <2>1, <2>2, <2>3, <2>4 DEF Radioed
  <2> QED BY <2>2, <2>5 DEF PassiveOK
<1>4. CASE P!scan_interval_timeout
  <2> DEFINE i == (idx + 1) % 3
  <2>1. /\ tm' = P!timer_start(P!Served(tm, 1, Interval), 0, Passive.SCAN_WINDOW)
        /\ radio' = P!Listen(radio, i) /\ idx' = i /\ 1 \in tm.due
    BY <1>4 DEF P!scan_interval_timeout, P!Serving, P!scan_interval, P!scan_window, Interval
  <2>2. Times(tm', Interval) /\ 0 \in tm'.armed /\ k = 0 /\ 0 \notin tm.armed
    BY <1>1, <2>1, WindowOpens
  <2>3. Is(radio, {}, {}, {}, "inbuf", "off", FALSE)
    BY <1>1, <2>2, PassiveConstants DEF Radioed, Is, Radios
  <2>4. i \in 0 .. 2
    BY <1>2
  <2> HIDE DEF i
  <2>5. radio' \in PRadios /\ On(radio') /\ radio'.ch = P!channels[i + 1]
    BY <1>2, <2>1, <2>3, <2>4, PassiveListens
  <2>6. Radioed(radio', tm', idx', Interval)
    BY <2>1, <2>2, <2>4, <2>5 DEF Radioed, On
  <2>7. Interval \in 0 .. Interval
    BY PassiveConstants
  <2> QED BY <2>2, <2>6, <2>7 DEF PassiveOK
<1>5. CASE P!radio_recv_cb
  <2> DEFINE h == R!HandleEnd(radio)
  <2>1. /\ radio' = P!Recv(h, {}) /\ UNCHANGED <<tm, idx>> /\ "rx" \in radio.status
        /\ radio.end
    BY <1>5, PassiveRadioDriver DEF P!radio_recv_cb, P!Received, P!Ended
  <2>2. 0 \in tm.armed /\ Late(radio) /\ radio.ch = P!channels[idx + 1]
    BY <1>1, <2>1 DEF Radioed, Is, Late
  <2>3. /\ h \in PRadios /\ Same(h, radio)
        /\ IF R!Received(radio) /\ "tx_next" \in radio.flags
           THEN Is(h, {"tx"}, radio.flags \ {"tx_next"}, radio.shorts \ {"txen"}, radio.out,
                   radio.phase, FALSE)
           ELSE IF R!Sent(radio) /\ "rx_next" \in radio.flags
           THEN Is(h, {"rx"}, radio.flags \ {"rx_next"}, radio.shorts \ {"rxen"}, "inbuf",
                   radio.phase, FALSE)
           ELSE Is(h, {}, radio.flags, radio.shorts, radio.ptr, radio.phase, FALSE)
    BY <1>2, HandleEndIs
  <2> HIDE DEF h
  <2>4. Is(h, {}, {}, {}, "inbuf", "off", FALSE) /\ h.ch = radio.ch
    BY <2>2, <2>3 DEF Late, Is, Same
  <2>5. radio' \in PRadios /\ On(radio') /\ radio'.ch = h.ch
    BY <2>1, <2>3, <2>4, PassiveListens
  <2>6. Radioed(radio', tm', idx', k)
    BY <1>2, <2>1, <2>2, <2>4, <2>5 DEF Radioed, On
  <2> QED BY <1>1, <2>1, <2>6 DEF PassiveOK
<1>6. CASE P!TimerIrq /\ UNCHANGED idx
  <2>1. tm' = P!Collect(tm) /\ UNCHANGED <<radio, idx>> /\ tm.due = {}
    BY <1>6 DEF P!TimerIrq
  <2>2. Times(tm', k) /\ tm'.armed = tm.armed
    BY <1>1, <2>1, TimesGathered
  <2>3. Radioed(radio', tm', idx', k)
    BY <1>1, <2>1, <2>2 DEF Radioed
  <2> QED BY <2>2, <2>3 DEF PassiveOK
<1>7. CASE P!StaleEnd /\ UNCHANGED idx
  <2> DEFINE h == R!HandleEnd(radio)
  <2>1. radio' = h /\ UNCHANGED <<tm, idx>> /\ radio.status = {}
    BY <1>7, PassiveRadioDriver DEF P!StaleEnd
  <2>2. 0 \notin tm.armed /\ Is(radio, {}, {}, {}, "inbuf", "off", radio.end)
    BY <1>1, <2>1 DEF Radioed, Is
  <2>3. /\ h \in PRadios /\ Same(h, radio)
        /\ IF R!Received(radio) /\ "tx_next" \in radio.flags
           THEN Is(h, {"tx"}, radio.flags \ {"tx_next"}, radio.shorts \ {"txen"}, radio.out,
                   radio.phase, FALSE)
           ELSE IF R!Sent(radio) /\ "rx_next" \in radio.flags
           THEN Is(h, {"rx"}, radio.flags \ {"rx_next"}, radio.shorts \ {"rxen"}, "inbuf",
                   radio.phase, FALSE)
           ELSE Is(h, {}, radio.flags, radio.shorts, radio.ptr, radio.phase, FALSE)
    BY <1>2, HandleEndIs
  <2> HIDE DEF h
  <2>4. Is(h, {}, {}, {}, "inbuf", "off", FALSE)
    BY <2>2, <2>3 DEF Is
  <2>5. Radioed(radio', tm', idx', k)
    BY <1>2, <2>1, <2>2, <2>3, <2>4 DEF Radioed, Is
  <2> QED BY <1>1, <2>1, <2>5 DEF PassiveOK
<1>8. CASE P!Tick /\ UNCHANGED idx
  <2>1. /\ tm' = P!Elapsed(tm) /\ ~radio.end /\ tm.due = {} /\ ~tm.irq /\ UNCHANGED idx
        /\ radio' = radio \/ radio' = [radio EXCEPT !.age = @ + 1]
    BY <1>8 DEF P!Tick, P!Quiet, P!Aged
  <2>2. Times(tm', k - 1) /\ tm'.armed = tm.armed /\ k # 0
    BY <1>1, <2>1, TimesElapse
  <2>3. /\ radio' \in PRadios /\ Same(radio', radio)
        /\ Is(radio', radio.status, radio.flags, radio.shorts, radio.ptr, radio.phase,
              radio.end)
    BY <1>2, <2>1, AgesOnly
  <2>4. Radioed(radio', tm', idx', k - 1)
    BY <1>1, <2>1, <2>2, <2>3 DEF Radioed, Is, Same
  <2>5. k - 1 \in 0 .. Interval
    BY <2>2, PassiveConstants
  <2> QED BY <2>2, <2>4, <2>5 DEF PassiveOK
<1>9. CASE P!PacketIn
  <2> DEFINE q == R!AfterEnd(radio)
  <2>1. radio' = q /\ UNCHANGED <<tm, idx>> /\ radio.phase = "rx"
    BY <1>9, PassiveRadioDriver DEF P!PacketIn, P!MayEnd
  <2>2. 0 \in tm.armed /\ On(radio) /\ radio.ch = P!channels[idx + 1]
    BY <1>1, <2>1 DEF Radioed, Is, On
  <2>3. /\ q \in PRadios /\ Same(q, radio)
        /\ Is(q, radio.status, radio.flags, radio.shorts, radio.ptr,
              IF "rxen" \in radio.shorts THEN "rx"
              ELSE IF "txen" \in radio.shorts THEN "tx" ELSE "off", TRUE)
    BY <1>2, AfterEndIs
  <2> HIDE DEF q
  <2>4. Late(q) /\ q.ch = radio.ch
    BY <2>2, <2>3 DEF On, Late, Is, Same
  <2>5. Radioed(radio', tm', idx', k)
    BY <1>2, <2>1, <2>2, <2>3, <2>4 DEF Radioed, Late
  <2> QED BY <1>1, <2>1, <2>5 DEF PassiveOK
<1> QED BY <1>3, <1>4, <1>5, <1>6, <1>7, <1>8, <1>9 DEF P!Progress

LEMMA PassiveInvariant == Spec => []PassiveInv
<1>1. Init => PassiveInv
  BY PassiveInitially DEF Init, PassiveInv
<1>2. PassiveInv /\ [Next]_vars => PassiveInv'
  <2> SUFFICES ASSUME program = "passive", PassiveOK(radio, tm, idx), [Next]_vars
               PROVE  PassiveOK(radio, tm, idx)'
    BY DEF PassiveInv, Next, Progress, PacketIn, vars
  <2>1. CASE UNCHANGED vars
    BY <2>1 DEF vars, PassiveOK
  <2>2. CASE Next
    BY <2>2, PassiveNext DEF Next, Progress, PacketIn
  <2> QED BY <2>1, <2>2
<1> QED BY <1>1, <1>2, PTL DEF Spec

\* An observer's radio is on the channel of its window, however packets end at the end of
\* the window or while the handler that retunes it runs.
THEOREM ObserversListenOnChannel ==
    ASSUME ~ObserverLateEnd
    PROVE  Spec => []ListensOnChannel
<1>1. ActiveInv /\ PassiveInv => ListensOnChannel
  <2> SUFFICES ASSUME ActiveInv, PassiveInv PROVE ListensOnChannel
    OBVIOUS
  <2>1. ASSUME program = "active" PROVE A!OnChannel
    BY <2>1 DEF ActiveInv, ActiveOK, A!OnChannel
  <2>2. ASSUME program = "passive" PROVE P!ListensOnChannel
    <3>1. PICK k \in 0 .. Interval : Times(tm, k) /\ Radioed(radio, tm, idx, k)
      BY <2>2 DEF PassiveInv, PassiveOK
    <3> QED BY <3>1 DEF Radioed, Is, P!ListensOnChannel
  <2> QED BY <2>1, <2>2 DEF ListensOnChannel
<1> QED BY <1>1, ActiveInvariant, PassiveInvariant, PTL

-----------------------------------------------------------------------------
(* The broadcasters.  Timer 1 begins an event every s.event ticks; timer 0,  *)
(* armed as the PDU of a channel is begun and while a channel is left, leads *)
(* to the next after s.interval.  Timer 2, where there is one, has no part.  *)

Schedule(s) ==
    /\ 0 \in s.ids /\ 1 \in s.ids /\ s.ids \subseteq Three
    /\ s.turn \in Nat \ {0} /\ s.interval \in Nat \ {0} /\ s.event \in Nat
    /\ 3 * s.interval < s.event /\ s.event < s.turn

\* Ticks from the beginning of the event to the i-th PDU, and from there to k ticks
\* before the end of the event.
Begun(s, i) == IF i = 1 THEN 0 ELSE IF i = 2 THEN s.interval ELSE 2 * s.interval
Past(s, i, k) == s.event - k - Begun(s, i)

Others(t) == IF 2 \in t.armed THEN 1 ELSE 0

\* The i-th PDU has been begun, and the event ends in k ticks.
Beats(s, t, i, k) ==
    /\ t \in Timers(s.ids, s.turn) /\ i \in 1 .. 3 /\ k \in 0 .. s.event
    /\ Past(s, i, k) >= 0
    /\ 1 \in t.armed /\ 0 \in t.inten /\ 1 \in t.inten /\ t.running
    /\ t.cc[1] = Turned(t.counter, k, s.turn)
    /\ 0 \in t.armed <=> i < 3
    /\ i < 3 => /\ Past(s, i, k) <= s.interval
                /\ t.cc[0] = Turned(t.counter, s.interval - Past(s, i, k), s.turn)
    /\ i = 3 => t.cc[0] = Turned(t.counter, s.turn - Past(s, i, k), s.turn)
    /\ t.active = (IF i < 3 THEN 2 ELSE 1) + Others(t)
    /\ t.events = {} \/ t.due = {}
    /\ t.due \subseteq t.armed
    /\ 1 \in t.events \union t.due <=> k = 0
    /\ 0 \in t.events \union t.due <=> i < 3 /\ Past(s, i, k) = s.interval
    /\ t.events \intersect t.inten # {} => t.irq

\* The i-th PDU is begun and timer 0 not yet armed again.
Ready(s, t, i, k) ==
    /\ t \in Timers(s.ids, s.turn) /\ i \in 1 .. 3 /\ k \in 1 .. s.event
    /\ Past(s, i, k) = 0
    /\ 1 \in t.armed /\ 1 \in t.inten /\ t.running /\ 0 \notin t.armed
    /\ t.cc[1] = Turned(t.counter, k, s.turn)
    /\ i = 3 => 0 \in t.inten /\ t.cc[0] = t.counter
    /\ t.active = 1 + Others(t)
    /\ t.events = {} /\ t.due = {}

\* Timer 2 and the counter are left alone.
Aside(q, t) ==
    /\ q.counter = t.counter /\ q.cc[2] = t.cc[2] /\ q.events = t.events
    /\ 2 \in q.armed <=> 2 \in t.armed
    /\ 2 \in q.inten <=> 2 \in t.inten
    /\ 2 \in q.due <=> 2 \in t.due

Continue(s, t, i) == IF i < 3 THEN Start(t, 0, s.interval, s.turn) ELSE t

LEMMA Continues ==
    ASSUME NEW s, Schedule(s), NEW t, NEW i, NEW k, Ready(s, t, i, k)
    PROVE  Beats(s, Continue(s, t, i), i, k) /\ Aside(Continue(s, t, i), t)
<1>1. /\ t \in Timers(s.ids, s.turn) /\ s.turn \in Nat \ {0} /\ s.interval \in Nat
      /\ t.counter \in 0 .. s.turn - 1 /\ i \in 1 .. 3 /\ k \in 1 .. s.event
  BY DEF Ready, Schedule, Timers
<1>2. CASE i < 3
  <2> DEFINE first == 0
             ids == s.ids
             turn == s.turn
             w == s.interval
             q == Start(t, first, w, turn)
  <2>1. first = 0 /\ first \in ids /\ first \notin t.armed /\ Continue(s, t, i) = q
    BY <1>2 DEF Ready, Schedule, Continue
  <2>2. t \in Timers(ids, turn) /\ turn \in Nat \ {0} /\ w \in Nat
    BY <1>1
  <2> HIDE DEF first, ids, turn, w
  <2>3. /\ q \in Timers(ids, turn) /\ q.armed = t.armed \union {first} /\ q.due = t.due
        /\ q.events = t.events /\ q.counter = t.counter
        /\ Started(q, t, first, w, turn)
    BY <2>1, <2>2, StartIs
  <2> HIDE DEF q
  <2>4. q.active = (t.active + 1) % 256 /\ q.running
    BY <2>3 DEF Started, Ready
  <2>5. q.cc = [t.cc EXCEPT ![first] = (t.counter + w) % turn] /\ q.inten = t.inten \union {first}
    BY <2>3 DEF Started, Compared
  <2>6. t.cc \in [ids -> 0 .. turn - 1]
    BY <2>2 DEF Timers
  <2>7. (t.counter + w) % turn = Turned(t.counter, w, turn)
    <3>1. w \in 0 .. turn /\ t.counter \in 0 .. turn - 1
      BY <1>1, <2>2 DEF Schedule, w, turn
    <3> QED BY <2>2, <3>1, Turns
  <2>8. q.cc[0] = Turned(q.counter, w, turn) /\ q.cc[1] = t.cc[1] /\ q.cc[2] = t.cc[2]
    <3>1. q.cc[0] = (t.counter + w) % turn /\ \A j : j # first => q.cc[j] = t.cc[j]
      BY <2>1, <2>5, <2>6
    <3> QED BY <2>1, <2>3, <2>7, <3>1
  <2>9. t.events = {} /\ t.due = {} /\ t.active = 1 + Others(t) /\ Past(s, i, k) = 0
    BY DEF Ready
  <2>10. (2 \in q.armed <=> 2 \in t.armed) /\ (2 \in q.inten <=> 2 \in t.inten)
    BY <2>1, <2>3, <2>5
  <2>11. q.active = 2 + Others(q)
    BY <2>4, <2>9, <2>10 DEF Others
  <2>12. Aside(q, t)
    BY <2>3, <2>8, <2>10 DEF Aside
  <2>13. k # 0 /\ Past(s, i, k) # s.interval /\ 0 <= s.interval /\ s.interval - 0 = w
    BY <1>1, <2>9 DEF Schedule, w
  <2>14. 1 \in q.armed /\ 0 \in q.inten /\ 1 \in q.inten /\ 0 \in q.armed
    BY <2>1, <2>3, <2>5 DEF Ready
  <2>15. Beats(s, q, i, k)
    BY <1>1, <1>2, <2>3, <2>4, <2>8, <2>9, <2>11, <2>13, <2>14
    DEF Beats, Ready, w, turn, ids
  <2> QED BY <2>1, <2>12, <2>15
<1>3. CASE i = 3
  <2>1. Continue(s, t, i) = t
    BY <1>3 DEF Continue
  <2>2. Turned(t.counter, s.turn - 0, s.turn) = t.counter /\ s.interval # 0
    BY <1>1 DEF Turned, Schedule
  <2>3. Beats(s, t, i, k)
    BY <1>1, <1>3, <2>2 DEF Beats, Ready
  <2> QED BY <2>1, <2>3 DEF Aside
<1> QED BY <1>1, <1>2, <1>3

\* The timer of the channels expires: the next PDU is due.
LEMMA ChannelServed ==
    ASSUME NEW s, Schedule(s), NEW t, NEW i, NEW k, Beats(s, t, i, k), 0 \in t.due,
           2 \notin t.due
    PROVE  LET q == Drop(Taken(t, 0), 0)
           IN  /\ i < 3 /\ Past(s, i, k) = s.interval
               /\ Ready(s, q, i + 1, k) /\ Aside(q, t)
<1> DEFINE first == 0
           ids == s.ids
           turn == s.turn
           u == Taken(t, first)
           q == Drop(u, first)
<1>1. /\ first = 0 /\ first \in ids /\ turn \in Nat \ {0} /\ t \in Timers(ids, turn)
  BY DEF Schedule, Beats
<1>2. /\ i \in 1 .. 3 /\ k \in 0 .. s.event /\ s.event \in Nat /\ s.interval \in Nat \ {0}
      /\ 3 * s.interval < s.event
  BY DEF Schedule, Beats
<1>3. i < 3 /\ Past(s, i, k) = s.interval
  BY DEF Beats
<1>4. k # 0 /\ Past(s, i + 1, k) = 0 /\ i + 1 \in 1 .. 3 /\ k \in 1 .. s.event
  BY <1>2, <1>3 DEF Past, Begun
<1>5. ids \subseteq Three
  BY DEF Schedule
<1> HIDE DEF first, ids, turn
<1>6. /\ u \in Timers(ids, turn) /\ u.armed = t.armed /\ u.due = t.due \ {first}
      /\ u.events = t.events /\ u.counter = t.counter
      /\ Kept(u, t) /\ Unset(u, t)
  BY <1>1, TakenIs
<1> HIDE DEF u
<1>7. /\ q \in Timers(ids, turn) /\ q.armed = u.armed \ {first} /\ q.due = u.due
      /\ q.events = u.events /\ Dropped(q, u) /\ Unset(q, u)
  BY <1>1, <1>6, DropIs
<1> HIDE DEF q
<1>8. q.cc = t.cc /\ q.inten = t.inten
  BY <1>6, <1>7 DEF Unset
<1>9. t.active = 2 + Others(t) /\ Others(t) \in 0 .. 1
  BY <1>3 DEF Beats, Others
<1>10. u.active = t.active /\ (u.running <=> t.running) /\ t.running
  BY <1>6 DEF Kept, Beats
<1>11. q.active = 1 + Others(t) /\ q.running /\ q.counter = t.counter
  BY <1>6, <1>7, <1>9, <1>10 DEF Dropped
<1>12. t.due = {first}
  <2>1. 1 \notin t.due
    BY <1>4 DEF Beats
  <2>2. t.due \subseteq Three
    BY <1>1, <1>5 DEF Timers
  <2> QED BY <1>1, <2>1, <2>2 DEF Three
<1>13. q.armed = t.armed \ {first} /\ q.due = {} /\ q.events = t.events /\ t.events = {}
  BY <1>6, <1>7, <1>12 DEF Beats
<1>14. Others(q) = Others(t)
  BY <1>1, <1>13 DEF Others
<1>15. t.cc[0] = t.counter
  <2>1. t.cc[0] = Turned(t.counter, 0, s.turn)
    BY <1>2, <1>3 DEF Beats
  <2> QED BY <1>1, <2>1 DEF Turned, Timers, turn
<1>16. Ready(s, q, i + 1, k)
  BY <1>1, <1>4, <1>7, <1>8, <1>11, <1>13, <1>14, <1>15 DEF Ready, Beats, ids, turn
<1>17. Aside(q, t)
  BY <1>1, <1>8, <1>11, <1>12, <1>13 DEF Aside
<1> QED BY <1>3, <1>16, <1>17 DEF q, u, first

\* The timer of the event expires when the third PDU is long begun.
LEMMA EventServed ==
    ASSUME NEW s, Schedule(s), NEW t, NEW i, NEW k, Beats(s, t, i, k), 1 \in t.due,
           2 \notin t.due
    PROVE  LET q == Compare(Taken(t, 1), 1, s.event, s.turn)
           IN  /\ i = 3 /\ k = 0
               /\ Ready(s, q, 1, s.event) /\ Aside(q, t)
<1> DEFINE second == 1
           ids == s.ids
           turn == s.turn
           w == s.event
           u == Taken(t, second)
           q == Compare(u, second, w, turn)
<1>1. /\ second = 1 /\ second \in ids /\ turn \in Nat \ {0} /\ t \in Timers(ids, turn)
      /\ w \in Nat
  BY DEF Schedule, Beats
<1>2. /\ i \in 1 .. 3 /\ k \in 0 .. s.event /\ s.event \in Nat /\ s.interval \in Nat \ {0}
      /\ 3 * s.interval < s.event /\ s.event < s.turn
  BY DEF Schedule, Beats
<1>3. k = 0
  BY DEF Beats
<1>4. i = 3
  <2>1. i < 3 => Past(s, i, k) <= s.interval
    BY DEF Beats
  <2> QED BY <1>2, <1>3, <2>1 DEF Past, Begun
<1>5. Past(s, 1, s.event) = 0 /\ s.event \in 1 .. s.event
  BY <1>2 DEF Past, Begun
<1>6. ids \subseteq Three /\ w = s.event
  BY DEF Schedule
<1> HIDE DEF second, ids, turn, w
<1>7. /\ u \in Timers(ids, turn) /\ u.armed = t.armed /\ u.due = t.due \ {second}
      /\ u.events = t.events /\ u.counter = t.counter
      /\ Kept(u, t) /\ Unset(u, t)
  BY <1>1, TakenIs
<1> HIDE DEF u
<1>8. /\ q \in Timers(ids, turn) /\ q.armed = u.armed /\ q.due = u.due
      /\ q.events = u.events /\ q.counter = u.counter
      /\ Compared(q, u, second, w, turn) /\ Kept(q, u)
  BY <1>1, <1>7, CompareIs
<1> HIDE DEF q
<1>9. q.active = t.active /\ (q.running <=> t.running)
  BY <1>7, <1>8 DEF Kept
<1>10. q.cc = [u.cc EXCEPT ![second] = (u.counter + w) % turn]
       /\ q.inten = u.inten \union {second} /\ u.cc = t.cc /\ u.inten = t.inten
  BY <1>7, <1>8 DEF Compared, Unset
<1>11. (t.counter + w) % turn = Turned(t.counter, w, turn)
  <2>1. t.counter \in 0 .. turn - 1 /\ w \in 0 .. turn
    BY <1>1, <1>2, <1>6 DEF Timers, turn
  <2> QED BY <1>1, <2>1, Turns
<1>12. t.cc \in [ids -> 0 .. turn - 1]
  BY <1>1 DEF Timers
<1>13. /\ q.cc[1] = Turned(q.counter, w, turn) /\ q.cc[2] = t.cc[2]
       /\ 1 \in q.inten /\ (2 \in q.inten <=> 2 \in t.inten)
  <2>1. q.cc[second] = (u.counter + w) % turn /\ \A j : j # second => q.cc[j] = t.cc[j]
    BY <1>1, <1>10, <1>12
  <2> QED BY <1>1, <1>7, <1>8, <1>10, <1>11, <2>1
<1>14. t.due = {second}
  <2>1. 0 \notin t.due
    BY <1>4 DEF Beats
  <2>2. t.due \subseteq Three
    BY <1>1, <1>6 DEF Timers
  <2> QED BY <1>1, <2>1, <2>2 DEF Three
<1>15. q.armed = t.armed /\ q.due = {} /\ q.events = {} /\ t.events = {} /\ 0 \notin t.armed
       /\ q.counter = t.counter
  BY <1>4, <1>7, <1>8, <1>14 DEF Beats
<1>16. q.active = 1 + Others(q) /\ q.running /\ 1 \in q.armed
  BY <1>4, <1>9, <1>15 DEF Others, Beats
<1>17. Ready(s, q, 1, s.event)
  BY <1>1, <1>5, <1>6, <1>8, <1>13, <1>15, <1>16 DEF Ready, ids, turn
<1>18. Aside(q, t)
  BY <1>1, <1>13, <1>14, <1>15 DEF Aside
<1> QED BY <1>3, <1>4, <1>17, <1>18 DEF q, u, second, w, turn

\* The beginning: none is armed yet but the timer of the event.
LEMMA ScheduleBegins ==
    ASSUME NEW s, Schedule(s), NEW t, t \in Timers(s.ids, s.turn), t.armed = {}, t.active = 0,
           t.counter = 0, t.events = {}, t.due = {}
    PROVE  LET q == Start(t, 1, s.event, s.turn)
           IN  /\ Ready(s, q, 1, s.event) /\ Aside(q, t)
<1> DEFINE second == 1
           ids == s.ids
           turn == s.turn
           w == s.event
           q == Start(t, second, w, turn)
<1>1. /\ second = 1 /\ second \in ids /\ turn \in Nat \ {0} /\ t \in Timers(ids, turn)
      /\ w \in Nat
  BY DEF Schedule
<1>2. /\ s.event \in Nat /\ s.interval \in Nat \ {0}
      /\ 3 * s.interval < s.event /\ s.event < s.turn
  BY DEF Schedule
<1>3. Past(s, 1, s.event) = 0 /\ s.event \in 1 .. s.event
  BY <1>2 DEF Past, Begun
<1>4. w \in 0 .. turn /\ w = s.event
  BY <1>1, <1>2
<1> HIDE DEF second, ids, turn, w
<1>5. /\ q \in Timers(ids, turn) /\ q.armed = t.armed \union {second} /\ q.due = t.due
      /\ q.events = t.events /\ q.counter = t.counter
      /\ second \notin t.armed => Started(q, t, second, w, turn)
  BY <1>1, StartIs
<1> HIDE DEF q
<1>6. q.active = 1 /\ q.running
  BY <1>5 DEF Started
<1>7. q.cc = [t.cc EXCEPT ![second] = (t.counter + w) % turn] /\ q.inten = t.inten \union {second}
  BY <1>5 DEF Started, Compared
<1>8. (t.counter + w) % turn = Turned(t.counter, w, turn)
  <2>1. t.counter \in 0 .. turn - 1
    BY <1>1 DEF Timers
  <2> QED BY <1>1, <1>4, <2>1, Turns
<1>9. t.cc \in [ids -> 0 .. turn - 1]
  BY <1>1 DEF Timers
<1>10. q.cc[1] = Turned(q.counter, w, turn) /\ q.cc[2] = t.cc[2]
       /\ 1 \in q.inten /\ (2 \in q.inten <=> 2 \in t.inten)
  <2>1. q.cc[second] = (t.counter + w) % turn /\ \A j : j # second => q.cc[j] = t.cc[j]
    BY <1>1, <1>7, <1>9
  <2> QED BY <1>1, <1>5, <1>7, <1>8, <2>1
<1>11. Ready(s, q, 1, s.event)
  BY <1>1, <1>3, <1>4, <1>5, <1>6, <1>10 DEF Ready, Others, ids, turn
<1>12. Aside(q, t)
  BY <1>1, <1>5, <1>10 DEF Aside
<1> QED BY <1>11, <1>12 DEF q, second, w, turn

LEMMA BeatsGathered ==
    ASSUME NEW s, Schedule(s), NEW t, NEW i, NEW k, Beats(s, t, i, k), t.due = {}
    PROVE  LET q == Gather(t)
           IN  /\ Beats(s, q, i, k) /\ q.armed = t.armed /\ q.inten = t.inten
               /\ q.counter = t.counter /\ q.cc = t.cc
               /\ q.events = {} /\ q.due = t.events \intersect t.armed
<1> DEFINE q == Gather(t)
<1>1. t \in Timers(s.ids, s.turn)
  BY DEF Beats
<1>2. /\ q \in Timers(s.ids, s.turn)
      /\ q.armed = t.armed /\ q.due = t.events \intersect t.armed /\ q.events = {}
      /\ q.counter = t.counter /\ q.cc = t.cc /\ q.inten = t.inten /\ ~q.irq
      /\ Kept(q, t)
  BY <1>1, GatherIs
<1> HIDE DEF q
<1>3. q.active = t.active /\ (q.running <=> t.running)
  BY <1>2 DEF Kept
<1>4. /\ 0 \in q.events \union q.due <=> 0 \in t.events \union t.due
      /\ 1 \in q.events \union q.due <=> 1 \in t.events \union t.due
  BY <1>2 DEF Beats
<1>5. Others(q) = Others(t)
  BY <1>2 DEF Others
<1>6. Beats(s, q, i, k)
  BY <1>2, <1>3, <1>4, <1>5 DEF Beats
<1> QED BY <1>2, <1>6 DEF q

LEMMA BeatsElapse ==
    ASSUME NEW s, Schedule(s), NEW t, NEW i, NEW k, Beats(s, t, i, k), t.due = {}, ~t.irq
    PROVE  LET q == Elapse(t, s.ids, s.turn)
               now == (t.counter + 1) % s.turn
           IN  /\ Beats(s, q, i, k - 1) /\ q.armed = t.armed /\ q.due = {}
               /\ q.inten = t.inten /\ q.cc = t.cc /\ q.counter = now
               /\ 2 \in s.ids => (2 \in q.events <=> 2 \in t.events \/ t.cc[2] = now)
               /\ t.events \intersect t.inten = {}
               /\ k # 0 /\ Past(s, i, k - 1) = Past(s, i, k) + 1
<1> DEFINE ids == s.ids
           turn == s.turn
           p == Past(s, i, k)
           q == Elapse(t, ids, turn)
           now == (t.counter + 1) % turn
           hits == {j \in ids : t.cc[j] = now}
<1>1. t \in Timers(ids, turn) /\ turn \in Nat \ {0} /\ ids \subseteq Three
      /\ 0 \in ids /\ 1 \in ids
  BY DEF Beats, Schedule
<1>2. /\ i \in 1 .. 3 /\ k \in 0 .. s.event /\ s.event \in Nat /\ s.interval \in Nat \ {0}
      /\ 3 * s.interval < s.event /\ s.event < turn /\ p \in Nat
  BY DEF Schedule, Beats, Past, Begun
<1>3. t.events \intersect t.inten = {} /\ 0 \notin t.events /\ 1 \notin t.events
  BY DEF Beats
<1>4. k # 0 /\ ~(i < 3 /\ p = s.interval)
  BY <1>3 DEF Beats
<1>5. Past(s, i, k - 1) = p + 1 /\ k - 1 \in 0 .. s.event
  BY <1>2, <1>4 DEF Past, Begun
<1> HIDE DEF ids, turn
<1>6. /\ q \in Timers(ids, turn)
      /\ q.armed = t.armed /\ q.due = t.due
      /\ q.cc = t.cc /\ q.inten = t.inten /\ Kept(q, t)
      /\ Ticked(q, t, ids, turn)
  BY <1>1, ElapseIs
<1> HIDE DEF q
<1>7. q.active = t.active /\ q.running
  BY <1>6 DEF Kept, Beats
<1>8. q.counter = now /\ q.events = t.events \union hits
      /\ (q.irq <=> t.irq \/ hits \intersect t.inten # {})
  BY <1>6 DEF Ticked, Beats
<1>9. t.counter \in 0 .. turn - 1
  BY <1>1 DEF Timers
<1>10. /\ t.cc[1] = Turned(now, k - 1, turn)
       /\ t.cc[1] = now <=> k - 1 = 0
  <2>1. k \in 1 .. turn /\ t.cc[1] = Turned(t.counter, k, turn)
    BY <1>1, <1>2, <1>4 DEF Beats, turn
  <2> QED BY <1>1, <1>9, <2>1, TurnsOn
<1>11. ASSUME i < 3
       PROVE  /\ p + 1 <= s.interval
              /\ t.cc[0] = Turned(now, s.interval - (p + 1), turn)
              /\ t.cc[0] = now <=> p + 1 = s.interval
  <2> DEFINE m == s.interval - p
  <2>1. m \in 1 .. turn /\ t.cc[0] = Turned(t.counter, m, turn)
    BY <1>1, <1>2, <1>4, <1>11 DEF Beats, turn
  <2>2. m - 1 = s.interval - (p + 1) /\ p + 1 <= s.interval /\ (m = 1 <=> p + 1 = s.interval)
    BY <1>2, <2>1
  <2> HIDE DEF m
  <2>3. t.cc[0] = Turned(now, m - 1, turn) /\ (t.cc[0] = now <=> m = 1)
    BY <1>1, <1>9, <2>1, TurnsOn
  <2> QED BY <2>2, <2>3
<1>12. ASSUME i = 3
       PROVE  t.cc[0] = Turned(now, turn - (p + 1), turn) /\ t.cc[0] # now
  <2> DEFINE m == turn - p
  <2>1. t.cc[0] = Turned(t.counter, m, turn)
    BY <1>12 DEF Beats, turn
  <2>2. m \in 1 .. turn /\ m # 1 /\ m - 1 = turn - (p + 1)
    BY <1>1, <1>2, <1>12 DEF Past, Begun
  <2> HIDE DEF m
  <2>3. t.cc[0] = Turned(now, m - 1, turn) /\ (t.cc[0] = now <=> m = 1)
    BY <1>1, <1>9, <2>1, <2>2, TurnsOn
  <2> QED BY <2>2, <2>3
<1> HIDE DEF now, p
<1>13. /\ 1 \in hits <=> k - 1 = 0
       /\ 0 \in hits <=> i < 3 /\ p + 1 = s.interval
       /\ 2 \in ids => (2 \in hits <=> t.cc[2] = now)
  BY <1>1, <1>2, <1>10, <1>11, <1>12
<1> HIDE DEF hits
<1>14. /\ 1 \in q.events \union q.due <=> k - 1 = 0
       /\ 0 \in q.events \union q.due <=> i < 3 /\ p + 1 = s.interval
       /\ q.due = {}
       /\ q.events \intersect q.inten # {} => q.irq
  BY <1>3, <1>6, <1>8, <1>13
<1>15. Others(q) = Others(t)
  BY <1>6 DEF Others
<1>16. /\ i < 3 => /\ p + 1 <= s.interval
                   /\ q.cc[0] = Turned(q.counter, s.interval - (p + 1), turn)
       /\ i = 3 => q.cc[0] = Turned(q.counter, turn - (p + 1), turn)
       /\ q.cc[1] = Turned(q.counter, k - 1, turn)
  BY <1>6, <1>8, <1>10, <1>11, <1>12
<1>17. /\ 1 \in q.armed /\ 0 \in q.inten /\ 1 \in q.inten /\ (0 \in q.armed <=> i < 3)
       /\ q.active = (IF i < 3 THEN 2 ELSE 1) + Others(q)
  BY <1>6, <1>7, <1>15 DEF Beats
<1>18. p + 1 >= 0
  BY <1>2 DEF p
<1>19. Beats(s, q, i, k - 1)
  BY <1>2, <1>5, <1>6, <1>7, <1>14, <1>16, <1>17, <1>18 DEF Beats, ids, turn, p
<1> QED BY <1>3, <1>4, <1>5, <1>6, <1>8, <1>13, <1>14, <1>19 DEF q, now, ids, turn, p

\* What is done to timer 2 does not touch the schedule.
LEMMA OtherStarted ==
    ASSUME NEW s, Schedule(s), 2 \in s.ids, NEW t, NEW i, NEW k, Beats(s, t, i, k),
           2 \notin t.armed, NEW w \in 0 .. s.turn
    PROVE  LET q == Start(t, 2, w, s.turn)
           IN  /\ Beats(s, q, i, k) /\ q.armed = t.armed \union {2} /\ 2 \in q.inten
               /\ q.events = t.events /\ q.due = t.due
               /\ q.cc[2] = Turned(q.counter, w, s.turn)
<1> DEFINE third == 2
           ids == s.ids
           turn == s.turn
           q == Start(t, third, w, turn)
<1>1. /\ third = 2 /\ third \in ids /\ third \notin t.armed /\ turn \in Nat \ {0}
      /\ t \in Timers(ids, turn) /\ w \in 0 .. turn
  BY DEF Schedule, Beats
<1>2. w \in Nat
  BY <1>1
<1> HIDE DEF third, ids, turn
<1>3. /\ q \in Timers(ids, turn) /\ q.armed = t.armed \union {third} /\ q.due = t.due
      /\ q.events = t.events /\ q.counter = t.counter
      /\ third \notin t.armed => Started(q, t, third, w, turn)
  BY <1>1, <1>2, StartIs
<1> HIDE DEF q
<1>4. Started(q, t, third, w, turn)
  BY <1>1, <1>3
<1>5. /\ q.cc = [t.cc EXCEPT ![third] = (t.counter + w) % turn]
      /\ q.inten = t.inten \union {third} /\ (q.irq <=> t.irq \/ third \in t.events)
  BY <1>4 DEF Started, Compared
<1>6. t.active = (IF i < 3 THEN 2 ELSE 1) /\ t.running
  BY <1>1 DEF Beats, Others
<1>7. q.active = (IF i < 3 THEN 2 ELSE 1) + Others(q) /\ q.running
  <2>1. q.active = (t.active + 1) % 256 /\ (q.running <=> t.running \/ t.active = 0)
    BY <1>4 DEF Started
  <2>2. Others(q) = 1
    BY <1>1, <1>3 DEF Others
  <2> QED BY <1>6, <2>1, <2>2
<1>8. (t.counter + w) % turn = Turned(t.counter, w, turn)
  <2>1. t.counter \in 0 .. turn - 1
    BY <1>1 DEF Timers
  <2> QED BY <1>1, <2>1, Turns
<1>9. q.cc[0] = t.cc[0] /\ q.cc[1] = t.cc[1] /\ q.cc[third] = Turned(q.counter, w, turn)
  <2>1. t.cc \in [ids -> 0 .. turn - 1]
    BY <1>1 DEF Timers
  <2>2. q.cc[third] = (t.counter + w) % turn /\ \A j : j # third => q.cc[j] = t.cc[j]
    BY <1>1, <1>5, <2>1
  <2> QED BY <1>1, <1>3, <1>8, <2>2
<1>10. q.events \intersect q.inten # {} => q.irq
  BY <1>3, <1>5 DEF Beats
<1>11. (0 \in q.armed <=> 0 \in t.armed) /\ 1 \in q.armed /\ 0 \in q.inten /\ 1 \in q.inten
  BY <1>1, <1>3, <1>5 DEF Beats
<1>12. Beats(s, q, i, k)
  BY <1>3, <1>7, <1>9, <1>10, <1>11 DEF Beats, ids, turn
<1> QED BY <1>1, <1>3, <1>5, <1>9, <1>12 DEF q, third, turn

LEMMA OtherHalted ==
    ASSUME NEW s, Schedule(s), 2 \in s.ids, NEW t, NEW i, NEW k, Beats(s, t, i, k),
           2 \in t.armed, 2 \notin t.due
    PROVE  LET q == Halt(t, 2)
           IN  /\ Beats(s, q, i, k) /\ q.armed = t.armed \ {2}
               /\ q.due = t.due /\ q.cc = t.cc /\ q.counter = t.counter
<1> DEFINE third == 2
           ids == s.ids
           turn == s.turn
           u == [t EXCEPT !.inten = @ \ {third}]
           q == Drop(u, third)
<1>1. /\ third = 2 /\ third \in ids /\ third \in t.armed /\ turn \in Nat \ {0}
      /\ t \in Timers(ids, turn)
  BY DEF Schedule, Beats
<1>2. Halt(t, 2) = q
  BY <1>1 DEF Halt
<1> HIDE DEF third, ids, turn
<1>3. /\ u \in Timers(ids, turn) /\ u.armed = t.armed /\ u.due = t.due /\ u.cc = t.cc
      /\ u.counter = t.counter /\ u.events = t.events /\ (u.irq <=> t.irq)
      /\ u.inten = t.inten \ {third} /\ u.active = t.active /\ (u.running <=> t.running)
  BY <1>1 DEF Timers
<1> HIDE DEF u
<1>4. /\ q \in Timers(ids, turn) /\ q.armed = u.armed \ {third} /\ q.due = u.due
      /\ q.events = u.events /\ Dropped(q, u) /\ Unset(q, u)
  BY <1>1, <1>3, DropIs
<1> HIDE DEF q
<1>5. t.active = (IF i < 3 THEN 2 ELSE 1) + 1 /\ t.running
  BY <1>1 DEF Beats, Others, third
<1>6. q.active = (IF i < 3 THEN 2 ELSE 1) /\ q.running /\ q.counter = t.counter
  BY <1>3, <1>4, <1>5 DEF Dropped, Beats
<1>7. Others(q) = 0
  BY <1>1, <1>3, <1>4 DEF Others
<1>8. q.cc = t.cc /\ q.inten = t.inten \ {third} /\ (q.irq <=> t.irq)
  BY <1>3, <1>4 DEF Unset
<1>9. (0 \in q.armed <=> 0 \in t.armed) /\ 1 \in q.armed /\ 0 \in q.inten /\ 1 \in q.inten
  BY <1>1, <1>3, <1>4, <1>8 DEF Beats
<1>10. q.due \subseteq q.armed /\ q.due = t.due /\ q.events = t.events
  BY <1>1, <1>3, <1>4 DEF Beats
<1>11. q.events \intersect q.inten # {} => q.irq
  BY <1>8, <1>10 DEF Beats
<1>12. Beats(s, q, i, k)
  BY <1>4, <1>6, <1>7, <1>8, <1>9, <1>10, <1>11 DEF Beats, ids, turn
<1> QED BY <1>1, <1>2, <1>3, <1>4, <1>6, <1>8, <1>10, <1>12

LEMMA OtherServed ==
    ASSUME NEW s, Schedule(s), 2 \in s.ids, NEW t, NEW i, NEW k, Beats(s, t, i, k),
           2 \in t.due, 0 \notin t.due, 1 \notin t.due
    PROVE  LET q == Drop(Taken(t, 2), 2)
           IN  /\ Beats(s, q, i, k) /\ q.armed = t.armed \ {2}
               /\ q.due = {} /\ q.cc = t.cc /\ q.counter = t.counter
<1> DEFINE third == 2
           ids == s.ids
           turn == s.turn
           u == Taken(t, third)
           q == Drop(u, third)
<1>1. /\ third = 2 /\ third \in ids /\ third \in t.armed /\ turn \in Nat \ {0}
      /\ t \in Timers(ids, turn) /\ ids \subseteq Three
  BY DEF Schedule, Beats
<1> HIDE DEF third, ids, turn
<1>2. /\ u \in Timers(ids, turn) /\ u.armed = t.armed /\ u.due = t.due \ {third}
      /\ u.events = t.events /\ u.counter = t.counter
      /\ Kept(u, t) /\ Unset(u, t)
  BY <1>1, TakenIs
<1> HIDE DEF u
<1>3. /\ q \in Timers(ids, turn) /\ q.armed = u.armed \ {third} /\ q.due = u.due
      /\ q.events = u.events /\ Dropped(q, u) /\ Unset(q, u)
  BY <1>1, <1>2, DropIs
<1> HIDE DEF q
<1>4. t.active = (IF i < 3 THEN 2 ELSE 1) + 1 /\ t.running
  BY <1>1 DEF Beats, Others, third
<1>5. q.active = (IF i < 3 THEN 2 ELSE 1) /\ q.running /\ q.counter = t.counter
  <2>1. u.active = t.active /\ (u.running <=> t.running)
    BY <1>2 DEF Kept
  <2> QED BY <1>2, <1>3, <1>4, <2>1 DEF Dropped, Beats
<1>6. Others(q) = 0
  BY <1>1, <1>2, <1>3 DEF Others
<1>7. q.cc = t.cc /\ q.inten = t.inten /\ (q.irq <=> t.irq)
  BY <1>2, <1>3 DEF Unset
<1>8. (0 \in q.armed <=> 0 \in t.armed) /\ 1 \in q.armed
  BY <1>1, <1>2, <1>3 DEF Beats
<1>9. q.due = {} /\ q.events = t.events
  <2>1. t.due \subseteq Three
    BY <1>1 DEF Timers
  <2>2. t.due = {third}
    BY <1>1, <2>1 DEF Three, third
  <2> QED BY <1>2, <1>3, <2>2
<1>10. Beats(s, q, i, k)
  BY <1>1, <1>3, <1>5, <1>6, <1>7, <1>8, <1>9 DEF Beats, ids, turn
<1> QED BY <1>1, <1>2, <1>3, <1>5, <1>7, <1>9, <1>10 DEF q, u, third

-----------------------------------------------------------------------------
(* The broadcaster without a receiver.                                       *)

BTimes == [ids |-> Two, turn |-> Broadcasting.Turn, event |-> Broadcasting.ADV_EVENT,
           interval |-> Broadcasting.ADV_INTERVAL]
BRadios == Radios({B!Reset.inbuf})

\* The PDU is on air, has just been sent, or the radio is off until the next.
OnAir(r, p, a) == Is(r, {"tx"}, {}, {}, "adv", "tx", FALSE) /\ r.age = p /\ p <= a
OffAir(r, p, a) == Is(r, {"tx"}, {}, {}, "adv", "off", TRUE) /\ p <= a
Resting(r) == Is(r, {}, {}, {}, r.ptr, "off", FALSE)

BroadcasterIs(r, t, i, v, k) ==
    /\ Beats(BTimes, t, i, k) /\ r \in BRadios /\ r.ch = 36 + i
    /\ \/ OnAir(r, Past(BTimes, i, k), Broadcasting.AirTime) /\ v = 37 .. 35 + i
       \/ OffAir(r, Past(BTimes, i, k), Broadcasting.AirTime) /\ v = 37 .. 36 + i
       \/ Resting(r) /\ v = 37 .. 36 + i
BroadcasterOK(r, t, i, v) ==
    \E k \in 0 .. Broadcasting.ADV_EVENT : BroadcasterIs(r, t, i, v, k)
BroadcasterInv == program = "broadcaster" => BroadcasterOK(radio, tm, idx, visited)

LEMMA BroadcasterConstants ==
    /\ Schedule(BTimes) /\ BTimes.ids = Two /\ BTimes.turn = Broadcasting.Turn
    /\ BTimes.event = Broadcasting.ADV_EVENT /\ BTimes.interval = Broadcasting.ADV_INTERVAL
    /\ Broadcasting.AirTime \in Nat
    /\ \A k \in Nat : k < Broadcasting.AirTime => k # Broadcasting.MaxAge
    /\ Broadcasting.AirTime + 1 < BTimes.interval
<1>1. /\ BTimes.ids = Two /\ BTimes.turn = Broadcasting.Turn
      /\ BTimes.event = Broadcasting.ADV_EVENT /\ BTimes.interval = Broadcasting.ADV_INTERVAL
  BY DEF BTimes
<1>2. 0 \in Two /\ 1 \in Two /\ Two \subseteq Three
  BY DEF Two, Three
<1>3. /\ Broadcasting.Turn \in Nat \ {0} /\ Broadcasting.ADV_EVENT \in Nat
      /\ Broadcasting.ADV_INTERVAL \in Nat \ {0}
      /\ 3 * Broadcasting.ADV_INTERVAL < Broadcasting.ADV_EVENT
      /\ Broadcasting.ADV_EVENT < Broadcasting.Turn
      /\ Broadcasting.AirTime \in 1 .. Broadcasting.MaxAge
      /\ Broadcasting.AirTime + 1 < Broadcasting.ADV_INTERVAL
  BY ExamplesAssumption DEF B!DeviceAssumption, B!BroadcasterAssumption
<1>4. \A k \in Nat : k < Broadcasting.AirTime => k # Broadcasting.MaxAge
  BY <1>3
<1> QED BY <1>1, <1>2, <1>3, <1>4 DEF Schedule

LEMMA BroadcasterTimerDriver ==
    ASSUME NEW t, NEW i \in Two, NEW k
    PROVE  /\ B!timer_start(t, i, k) = Start(t, i, k, Broadcasting.Turn)
           /\ B!Served(t, 0, k) = Drop(Taken(t, 0), 0)
           /\ B!Served(t, 1, k) = Compare(Taken(t, 1), 1, k, Broadcasting.Turn)
           /\ B!Collect(t) = Gather(t)
           /\ B!Elapsed(t) = Elapse(t, Two, Broadcasting.Turn)
<1>1. B!timer_start(t, i, k) = Start(t, i, k, Broadcasting.Turn)
  BY DEF B!timer_start, B!update_cc, Start, Compare
<1>2. B!Served(t, 0, k) = Drop(Taken(t, 0), 0)
  BY DEF B!Served, B!Release, Drop, Taken
<1>3. B!Served(t, 1, k) = Compare(Taken(t, 1), 1, k, Broadcasting.Turn)
  BY DEF B!Served, B!update_cc, Compare, Taken
<1>4. B!Collect(t) = Gather(t)
  BY DEF B!Collect, Gather
<1>5. B!Elapsed(t) = Elapse(t, Two, Broadcasting.Turn)
  BY DEF B!Elapsed, Elapse, Two
<1> QED BY <1>1, <1>2, <1>3, <1>4, <1>5

LEMMA BroadcasterContinues ==
    ASSUME NEW t, NEW i
    PROVE  B!Continued(t, i) = Continue(BTimes, t, i)
BY BroadcasterTimerDriver, BroadcasterConstants DEF B!Continued, B!adv_interval, Continue, Two

LEMMA BroadcasterRadioDriver ==
    ASSUME NEW r, NEW f, NEW ch, NEW pdu
    PROVE  /\ B!Send(r, pdu, f) = R!Send(r, pdu, f)
           /\ B!Prepare(r, ch) = R!Prepare(r, ch) /\ B!HandleEnd(r) = R!HandleEnd(r)
           /\ B!PacketSent(r) = R!AfterEnd(r)
<1>1. B!Send(r, pdu, f) = R!Send(r, pdu, f)
  BY DEF B!Send, R!Send, B!Enable, R!Enable
<1>2. B!Prepare(r, ch) = R!Prepare(r, ch)
  BY DEF B!Prepare, R!Prepare, B!ch2freq, R!ch2freq
<1>3. B!HandleEnd(r) = R!HandleEnd(r)
  BY DEF B!HandleEnd, R!HandleEnd, B!Received, R!Received, B!Sent, R!Sent
<1>4. B!PacketSent(r) = R!AfterEnd(r)
  BY DEF B!AfterEnd, R!AfterEnd, B!PacketSent
<1> QED BY <1>1, <1>2, <1>3, <1>4

\* A radio that is off sends the next PDU on the channel asked for.
LEMMA BroadcasterSends ==
    ASSUME NEW r \in BRadios, Resting(r), NEW i \in 1 .. 3
    PROVE  LET q == B!SendPdu(r, i - 1)
           IN  q \in BRadios /\ q.ch = 36 + i /\ OnAir(q, 0, Broadcasting.AirTime)
<1> USE DEF BRadios
<1> DEFINE ch == 36 + i
           p == R!Prepare(r, ch)
           q == R!Send(p, "adv", {})
<1>1. ch \in 37 .. 39 /\ B!ChannelAt(i - 1) = ch
  BY DEF B!ChannelAt, B!channels
<1>2. B!SendPdu(r, i - 1) = q
  BY <1>1, BroadcasterRadioDriver DEF B!SendPdu
<1> HIDE DEF ch
<1>3. /\ p \in BRadios /\ p.age = r.age
      /\ Is(p, r.status, r.flags, r.shorts, r.ptr, r.phase, r.end)
      /\ p.ch = IF r.status = {} THEN ch ELSE r.ch
  BY <1>1, PrepareIs
<1> HIDE DEF p
<1>4. Is(p, {}, {}, {}, r.ptr, "off", FALSE) /\ p.ch = ch
  BY <1>3 DEF Is, Resting
<1>5. /\ q \in BRadios /\ Same(q, p)
      /\ Is(q, p.status \union {"tx"}, p.flags \union {}, p.shorts, "adv",
            IF p.phase = "off" THEN "tx" ELSE p.phase, p.end)
      /\ q.age = IF p.phase = "off" THEN 0 ELSE p.age
  BY <1>3, SendIs
<1> HIDE DEF q
<1>6. OnAir(q, 0, Broadcasting.AirTime) /\ q.ch = ch
  BY <1>4, <1>5, BroadcasterConstants DEF OnAir, Is, Same
<1> QED BY <1>2, <1>5, <1>6 DEF ch

\* The state after a PDU has been begun.
LEMMA BroadcasterBegins ==
    ASSUME NEW r \in BRadios, Resting(r), NEW t, NEW i, NEW k, Ready(BTimes, t, i, k)
    PROVE  BroadcasterOK(B!SendPdu(r, i - 1), B!Continued(t, i), i, 37 .. 35 + i)
<1> DEFINE q == B!SendPdu(r, i - 1)
           u == B!Continued(t, i)
<1>1. i \in 1 .. 3 /\ k \in 0 .. Broadcasting.ADV_EVENT /\ Past(BTimes, i, k) = 0
  BY BroadcasterConstants DEF Ready
<1>2. q \in BRadios /\ q.ch = 36 + i /\ OnAir(q, 0, Broadcasting.AirTime)
  BY <1>1, BroadcasterSends
<1>3. Beats(BTimes, u, i, k)
  BY BroadcasterConstants, BroadcasterContinues, Continues
<1> HIDE DEF q, u
<1>4. BroadcasterIs(q, u, i, 37 .. 35 + i, k)
  BY <1>1, <1>2, <1>3 DEF BroadcasterIs
<1> QED BY <1>1, <1>4 DEF BroadcasterOK, q, u

\* A timer of the schedule expires when the radio is off again.
LEMMA BroadcasterIsFree ==
    ASSUME NEW r, NEW t, NEW i, NEW v, NEW k, BroadcasterIs(r, t, i, v, k),
           0 \in t.due \/ 1 \in t.due
    PROVE  Resting(r) /\ v = 37 .. 36 + i
<1>1. /\ Beats(BTimes, t, i, k) /\ Schedule(BTimes)
      /\ i \in 1 .. 3 /\ k \in 0 .. BTimes.event
  BY BroadcasterConstants DEF BroadcasterIs, Beats
<1>2. Past(BTimes, i, k) = BTimes.interval \/ k = 0
  BY <1>1 DEF Beats
<1>3. k = 0 => Past(BTimes, i, k) > BTimes.interval
  BY <1>1 DEF Past, Begun, Schedule
<1>4. Past(BTimes, i, k) \in Nat
  BY <1>1 DEF Past, Begun, Schedule, Beats
<1> DEFINE p == Past(BTimes, i, k)
           air == Broadcasting.AirTime
<1>5. ~(p <= air)
  BY <1>1, <1>2, <1>3, <1>4, BroadcasterConstants DEF Schedule
<1>6. \/ OnAir(r, p, air) /\ v = 37 .. 35 + i
      \/ OffAir(r, p, air) /\ v = 37 .. 36 + i
      \/ Resting(r) /\ v = 37 .. 36 + i
  BY DEF BroadcasterIs
<1> HIDE DEF p, air
<1> QED BY <1>5, <1>6 DEF OnAir, OffAir

LEMMA BroadcasterInitially == ASSUME B!Init PROVE BroadcasterOK(radio, tm, idx, visited)
<1> DEFINE reset == B!TimersReset
           t == Start(reset, 1, BTimes.event, BTimes.turn)
           r == B!Reset
           i == 1
<1>1. /\ reset \in Timers(BTimes.ids, BTimes.turn) /\ reset.armed = {} /\ reset.active = 0
      /\ reset.counter = 0 /\ reset.events = {} /\ reset.due = {}
  BY BroadcasterConstants DEF B!TimersReset, Timers, Schedule, Two
<1>2. i = 1 /\ tm = B!Continued(t, i) /\ radio = B!SendPdu(r, i - 1) /\ idx = i
      /\ visited = 37 .. 35 + i
  <2>1. B!timer_start(reset, 1, Broadcasting.ADV_EVENT) = t
    BY BroadcasterTimerDriver, BroadcasterConstants DEF Two
  <2>2. 37 .. 35 + 1 = {}
    OBVIOUS
  <2> QED BY <2>1, <2>2 DEF B!Init, B!adv_event
<1>3. r \in BRadios /\ Resting(r)
  BY DEF B!Reset, BRadios, Radios, Is, Resting
<1> HIDE DEF reset, r, i
<1>4. Ready(BTimes, t, 1, BTimes.event)
  BY <1>1, BroadcasterConstants, ScheduleBegins
<1> HIDE DEF t
<1>5. BroadcasterOK(B!SendPdu(r, i - 1), B!Continued(t, i), i, 37 .. 35 + i)
  BY <1>2, <1>3, <1>4, BroadcasterBegins
<1> QED BY <1>2, <1>5

LEMMA AgeIs ==
    ASSUME NEW pdus, NEW r \in Radios(pdus), NEW m, NEW q,
           q = IF r.phase = "off" \/ r.age = m THEN r ELSE [r EXCEPT !.age = @ + 1]
    PROVE  /\ q \in Radios(pdus) /\ Same(q, r)
           /\ Is(q, r.status, r.flags, r.shorts, r.ptr, r.phase, r.end)
           /\ q.age = IF r.phase = "off" \/ r.age = m THEN r.age ELSE r.age + 1
BY DEF Radios, Same, Is

LEMMA BroadcasterNext ==
    ASSUME BroadcasterOK(radio, tm, idx, visited), B!Next
    PROVE  BroadcasterOK(radio, tm, idx, visited)'
<1>1. PICK k \in 0 .. Broadcasting.ADV_EVENT : BroadcasterIs(radio, tm, idx, visited, k)
  BY DEF BroadcasterOK
<1> DEFINE p == Past(BTimes, idx, k)
           air == Broadcasting.AirTime
<1>2. /\ radio \in BRadios /\ idx \in 1 .. 3 /\ radio.ch = 36 + idx
      /\ Beats(BTimes, tm, idx, k)
      /\ tm \in Timers(BTimes.ids, BTimes.turn)
  BY <1>1 DEF BroadcasterIs, Beats
<1>3. 2 \notin tm.due
  BY <1>2, BroadcasterConstants DEF Timers, Two
<1>4. CASE B!adv_interval_timeout
  <2> DEFINE t == Drop(Taken(tm, 0), 0)
             i == idx + 1
  <2>1. /\ radio' = B!SendPdu(radio, idx) /\ tm' = B!Continued(t, i) /\ idx' = i
        /\ visited' = visited /\ 0 \in tm.due
    BY <1>4, BroadcasterTimerDriver
    DEF B!adv_interval_timeout, B!Serving, B!adv_interval, Two
  <2>2. Resting(radio) /\ visited = 37 .. 36 + idx
    BY <1>1, <2>1, BroadcasterIsFree
  <2>3. Ready(BTimes, t, i, k)
    BY <1>2, <1>3, <2>1, BroadcasterConstants, ChannelServed
  <2>4. i - 1 = idx /\ 35 + i = 36 + idx
    BY <1>2
  <2> HIDE DEF t, i
  <2>5. BroadcasterOK(B!SendPdu(radio, i - 1), B!Continued(t, i), i, 37 .. 35 + i)
    BY <1>2, <2>2, <2>3, BroadcasterBegins
  <2> QED BY <2>1, <2>2, <2>4, <2>5
<1>5. CASE B!adv_event_timeout
  <2> DEFINE t == Compare(Taken(tm, 1), 1, BTimes.event, BTimes.turn)
             i == 1
  <2>1. /\ radio' = B!SendPdu(radio, 0) /\ tm' = B!Continued(t, i) /\ idx' = i
        /\ visited' = {} /\ 1 \in tm.due
    BY <1>5, BroadcasterTimerDriver, BroadcasterConstants
    DEF B!adv_event_timeout, B!Serving, B!adv_event, Two
  <2>2. Resting(radio)
    BY <1>1, <2>1, BroadcasterIsFree
  <2>3. Ready(BTimes, t, i, BTimes.event)
    BY <1>2, <1>3, <2>1, BroadcasterConstants, EventServed
  <2>4. i - 1 = 0 /\ 37 .. 35 + i = {}
    OBVIOUS
  <2> HIDE DEF t, i
  <2>5. BroadcasterOK(B!SendPdu(radio, i - 1), B!Continued(t, i), i, 37 .. 35 + i)
    BY <1>2, <2>2, <2>3, BroadcasterBegins
  <2> QED BY <2>1, <2>4, <2>5
<1>6. CASE B!Handled
  <2> DEFINE q == R!HandleEnd(radio)
  <2>1. radio' = q /\ UNCHANGED <<tm, idx, visited>> /\ radio.end
    BY <1>6, BroadcasterRadioDriver DEF B!Handled, B!Ended
  <2>2. OffAir(radio, p, air) /\ visited = 37 .. 36 + idx
    BY <1>1, <2>1 DEF BroadcasterIs, OnAir, OffAir, Resting, Is
  <2>3. /\ q \in BRadios /\ Same(q, radio)
        /\ IF R!Received(radio) /\ "tx_next" \in radio.flags
           THEN Is(q, {"tx"}, radio.flags \ {"tx_next"}, radio.shorts \ {"txen"}, radio.out,
                   radio.phase, FALSE)
           ELSE IF R!Sent(radio) /\ "rx_next" \in radio.flags
           THEN Is(q, {"rx"}, radio.flags \ {"rx_next"}, radio.shorts \ {"rxen"}, "inbuf",
                   radio.phase, FALSE)
           ELSE Is(q, {}, radio.flags, radio.shorts, radio.ptr, radio.phase, FALSE)
    BY <1>2, HandleEndIs DEF BRadios
  <2> HIDE DEF q
  <2>4. Resting(q) /\ q.ch = radio.ch
    BY <2>2, <2>3 DEF Resting, OffAir, Is, Same
  <2>5. BroadcasterIs(radio', tm', idx', visited', k)
    BY <1>2, <2>1, <2>2, <2>3, <2>4 DEF BroadcasterIs
  <2> QED BY <2>5 DEF BroadcasterOK
<1>7. CASE B!OnAirEnds
  <2> DEFINE q == R!AfterEnd(radio)
  <2>1. /\ radio' = q /\ UNCHANGED <<tm, idx>> /\ radio.phase = "tx"
        /\ visited' = visited \union {radio.ch}
    BY <1>7, BroadcasterRadioDriver DEF B!OnAirEnds, B!PacketOut, B!MayEnd
  <2>2. OnAir(radio, p, air) /\ visited = 37 .. 35 + idx
    BY <1>1, <2>1 DEF BroadcasterIs, OnAir, OffAir, Resting, Is
  <2>3. /\ q \in BRadios /\ Same(q, radio)
        /\ Is(q, radio.status, radio.flags, radio.shorts, radio.ptr,
              IF "rxen" \in radio.shorts THEN "rx"
              ELSE IF "txen" \in radio.shorts THEN "tx" ELSE "off", TRUE)
    BY <1>2, AfterEndIs DEF BRadios
  <2> HIDE DEF q
  <2>4. OffAir(q, p, air) /\ q.ch = radio.ch
    BY <2>2, <2>3 DEF OnAir, OffAir, Is, Same
  <2>5. (37 .. 35 + idx) \union {36 + idx} = 37 .. 36 + idx
    BY <1>2
  <2>6. BroadcasterIs(radio', tm', idx', visited', k)
    BY <1>2, <2>1, <2>2, <2>3, <2>4, <2>5 DEF BroadcasterIs
  <2> QED BY <2>6 DEF BroadcasterOK
<1>8. CASE B!TimerIrq /\ UNCHANGED <<idx, visited>>
  <2>1. tm' = Gather(tm) /\ UNCHANGED <<radio, idx, visited>> /\ tm.due = {}
    BY <1>8, BroadcasterTimerDriver DEF B!TimerIrq, Two
  <2>2. Beats(BTimes, tm', idx, k)
    BY <1>2, <2>1, BroadcasterConstants, BeatsGathered
  <2>3. BroadcasterIs(radio', tm', idx', visited', k)
    BY <1>1, <2>1, <2>2 DEF BroadcasterIs
  <2> QED BY <2>3 DEF BroadcasterOK
<1>9. CASE B!Tick /\ UNCHANGED <<idx, visited>>
  <2> DEFINE q == B!Aged(radio)
  <2>1. /\ tm' = Elapse(tm, BTimes.ids, BTimes.turn) /\ radio' = q /\ UNCHANGED <<idx, visited>>
        /\ tm.due = {} /\ ~tm.irq /\ ~radio.end
        /\ radio.phase = "tx" => radio.age < air
    BY <1>9, BroadcasterTimerDriver, BroadcasterConstants DEF B!Tick, B!Quiet, Two
  <2>2. Beats(BTimes, tm', idx, k - 1) /\ k # 0 /\ Past(BTimes, idx, k - 1) = p + 1
    BY <1>2, <2>1, BroadcasterConstants, BeatsElapse
  <2>3. /\ q \in BRadios /\ Same(q, radio)
        /\ Is(q, radio.status, radio.flags, radio.shorts, radio.ptr, radio.phase, radio.end)
        /\ q.age = IF radio.phase = "off" \/ radio.age = Broadcasting.MaxAge THEN radio.age
                   ELSE radio.age + 1
    BY <1>2, AgeIs DEF B!Aged, BRadios
  <2>4. k - 1 \in 0 .. Broadcasting.ADV_EVENT
    BY <2>2, BroadcasterConstants DEF Schedule
  <2> HIDE DEF q
  <2>5. q.ch = 36 + idx
    BY <1>2, <2>3 DEF Same
  <2>6. CASE Resting(radio) /\ visited = 37 .. 36 + idx
    <3>1. Resting(q)
      BY <2>3, <2>6 DEF Resting, Is
    <3> QED BY <2>1, <2>2, <2>3, <2>4, <2>5, <2>6, <3>1 DEF BroadcasterIs, BroadcasterOK
  <2>7. CASE OnAir(radio, p, air) /\ visited = 37 .. 35 + idx
    <3>1. radio.age \in Nat /\ radio.phase = "tx" /\ radio.age = p
      BY <1>2, <2>7 DEF BRadios, Radios, OnAir, Is
    <3>2. q.age = p + 1 /\ p + 1 <= air
      BY <2>1, <2>3, <3>1, BroadcasterConstants
    <3> HIDE DEF p, air
    <3>3. OnAir(q, p + 1, air)
      BY <2>3, <2>7, <3>2 DEF OnAir, Is
    <3>4. BroadcasterIs(radio', tm', idx', visited', k - 1)
      BY <2>1, <2>2, <2>3, <2>5, <2>7, <3>3 DEF BroadcasterIs, air
    <3> QED BY <2>4, <3>4 DEF BroadcasterOK
  <2>8. ~OffAir(radio, p, air)
    BY <2>1 DEF OffAir, Is
  <2> QED BY <1>1, <2>6, <2>7, <2>8 DEF BroadcasterIs
<1> QED BY <1>4, <1>5, <1>6, <1>7, <1>8, <1>9 DEF B!Next

LEMMA BroadcasterInvariant == Spec => []BroadcasterInv
<1>1. Init => BroadcasterInv
  BY BroadcasterInitially DEF Init, BroadcasterInv
<1>2. BroadcasterInv /\ [Next]_vars => BroadcasterInv'
  <2> SUFFICES ASSUME program = "broadcaster", BroadcasterOK(radio, tm, idx, visited),
                      [Next]_vars
               PROVE  BroadcasterOK(radio, tm, idx, visited)'
    BY DEF BroadcasterInv, Next, Progress, PacketIn, vars
  <2>1. CASE UNCHANGED vars
    BY <2>1 DEF vars, BroadcasterOK
  <2>2. CASE Next
    BY <2>2, BroadcasterNext DEF Next, Progress, PacketIn
  <2> QED BY <2>1, <2>2
<1> QED BY <1>1, <1>2, PTL DEF Spec

LEMMA BroadcasterCovers ==
    ASSUME BroadcasterInv, program = "broadcaster"
    PROVE  B!EventCoversChannels /\ B!RadioIsFree
<1>1. PICK k \in 0 .. Broadcasting.ADV_EVENT : BroadcasterIs(radio, tm, idx, visited, k)
  BY DEF BroadcasterInv, BroadcasterOK
<1>2. /\ radio \in BRadios /\ idx \in 1 .. 3 /\ Beats(BTimes, tm, idx, k)
      /\ tm \in Timers(BTimes.ids, BTimes.turn)
  BY <1>1 DEF BroadcasterIs, Beats
<1>3. 2 \notin tm.due
  BY <1>2, BroadcasterConstants DEF Timers, Two
<1>4. ASSUME B!adv_event_timeout
      PROVE  visited = 37 .. 39 /\ radio.status = {} /\ radio'.ch \in 37 .. 39
  <2>1. 1 \in tm.due /\ radio' = B!SendPdu(radio, 1 - 1)
    BY <1>4 DEF B!adv_event_timeout, B!Serving, B!adv_event
  <2>2. Resting(radio) /\ visited = 37 .. 36 + idx
    BY <1>1, <2>1, BroadcasterIsFree
  <2>3. idx = 3
    BY <1>2, <1>3, <2>1, BroadcasterConstants, EventServed
  <2>4. B!SendPdu(radio, 1 - 1).ch = 36 + 1
    BY <1>2, <2>2, BroadcasterSends
  <2> QED BY <2>1, <2>2, <2>3, <2>4 DEF Resting, Is
<1>5. ASSUME B!adv_interval_timeout
      PROVE  radio.status = {} /\ radio'.ch \in 37 .. 39
  <2> DEFINE i == idx + 1
  <2>1. 0 \in tm.due /\ radio' = B!SendPdu(radio, idx)
    BY <1>5 DEF B!adv_interval_timeout, B!Serving, B!adv_interval
  <2>2. Resting(radio)
    BY <1>1, <2>1, BroadcasterIsFree
  <2>3. idx < 3
    BY <1>2, <1>3, <2>1, BroadcasterConstants, ChannelServed
  <2>4. i \in 1 .. 3 /\ i - 1 = idx
    BY <1>2, <2>3
  <2> HIDE DEF i
  <2>5. B!SendPdu(radio, i - 1).ch = 36 + i
    BY <1>2, <2>2, <2>4, BroadcasterSends
  <2> QED BY <2>1, <2>2, <2>4, <2>5 DEF Resting, Is
<1> QED BY <1>4, <1>5 DEF B!EventCoversChannels, B!RadioIsFree

-----------------------------------------------------------------------------
(* The times of the scannable broadcaster: p ticks after a PDU was begun the *)
(* exchange is in one of these states, and when the next is due the radio is *)
(* off.  Timer 2 is served when T_IFS is over: what its compare register     *)
(* held before comes round too late to be taken for that.                    *)

STimes == [ids |-> Three, turn |-> Scannable.Turn, event |-> Scannable.ADV_EVENT,
           interval |-> Scannable.ADV_INTERVAL]
SRadios == Radios(SPdus)
Air == Scannable.AirTime
Ifs == Scannable.T_IFS

\* The compare value of timer 2 is h ticks ahead.
Ahead(t, h) ==
    /\ h \in 0 .. STimes.turn /\ t.cc[2] = Turned(t.counter, h, STimes.turn)
    /\ 2 \in t.armed => 2 \in t.inten /\ (h = 0 => 2 \in t.events \union t.due)

\* And is that of a timer stopped or served in this exchange or in one before.
Gone(p, h) == p + h <= 2 * Air + 2 * Ifs \/ p + h >= STimes.turn

\* The states of an exchange, p ticks after its beginning.
Advertising(r, t, p, h) ==
    /\ Is(r, {"tx"}, {"rx_next"}, {"rxen"}, "adv_scan_ind", "tx", FALSE)
    /\ r.age = p /\ p <= Air /\ p + h >= 2 * STimes.interval
    /\ 2 \notin t.armed \union t.events \union t.due
Advertised(r, t, p) ==
    /\ Is(r, {"tx"}, {"rx_next"}, {"rxen"}, "adv_scan_ind", "rx", TRUE)
    /\ r.age = 0 /\ p <= Air
    /\ 2 \notin t.armed \union t.events \union t.due
Awaiting(r, t, p, h) ==
    /\ Is(r, {"rx"}, {}, {}, "inbuf", "rx", FALSE)
    /\ r.age + h = Ifs /\ p + h <= Air + Ifs
    /\ 2 \in t.armed /\ (2 \in t.events \union t.due <=> h = 0)
Requested(r, t, p, h) ==
    /\ Is(r, {"rx"}, {}, {}, "inbuf", "off", TRUE)
    /\ h <= Ifs /\ p + h <= Air + Ifs
    /\ 2 \in t.armed
Responding(r, t, p, h) ==
    /\ Is(r, {"tx"}, {}, {}, "scan_rsp", "tx", FALSE)
    /\ p <= Air + Ifs + r.age /\ r.age <= Air /\ Gone(p, h)
    /\ 2 \notin t.armed \union t.due
Responded(r, t, p) ==
    /\ Is(r, {"tx"}, {}, {}, "scan_rsp", "off", TRUE)
    /\ p <= 2 * Air + Ifs
    /\ 2 \notin t.armed \union t.due
Silent(r, t, p, h) ==
    /\ Is(r, {}, {}, {}, r.ptr, "off", r.end) /\ (r.end => p <= Air + Ifs)
    /\ 2 \in t.armed => h <= Ifs /\ p + h <= 2 * Air + 2 * Ifs
    /\ 2 \notin t.armed => Gone(p, h)
Exchange(r, t, p, h) ==
    \/ Advertised(r, t, p) \/ Awaiting(r, t, p, h) \/ Requested(r, t, p, h)
    \/ Responding(r, t, p, h) \/ Responded(r, t, p) \/ Silent(r, t, p, h)

ScannableIs(r, t, i, v, k, h) ==
    /\ Beats(STimes, t, i, k) /\ Ahead(t, h) /\ r \in SRadios /\ r.ch = 36 + i
    /\ \/ Advertising(r, t, Past(STimes, i, k), h) /\ v = 37 .. 35 + i
       \/ Exchange(r, t, Past(STimes, i, k), h) /\ v = 37 .. 36 + i
ScheduleOK(r, t, i, v) ==
    \E k \in 0 .. STimes.event, h \in 0 .. STimes.turn : ScannableIs(r, t, i, v, k, h)
ScheduleInv == program = "scannable" => ScheduleOK(radio, tm, idx, visited)

LEMMA ScheduleConstants ==
    /\ Schedule(STimes) /\ STimes.ids = Three /\ 2 \in STimes.ids
    /\ STimes.turn = Scannable.Turn /\ STimes.event = Scannable.ADV_EVENT
    /\ STimes.interval = Scannable.ADV_INTERVAL
    /\ Air \in Nat \ {0} /\ Ifs \in Nat \ {0} /\ 2 * Air + 2 * Ifs < STimes.interval
    /\ \A k \in Nat : k < Air \/ k < Ifs => k # Scannable.MaxAge
    /\ STimes.turn \in Nat /\ STimes.interval \in Nat /\ STimes.event \in Nat
    /\ 3 * STimes.interval < STimes.event /\ STimes.event < STimes.turn
<1>1. /\ STimes.ids = Three /\ STimes.turn = Scannable.Turn
      /\ STimes.event = Scannable.ADV_EVENT /\ STimes.interval = Scannable.ADV_INTERVAL
  BY DEF STimes
<1>2. 0 \in Three /\ 1 \in Three /\ 2 \in Three /\ Three \subseteq Three
  BY DEF Three
<1>3. /\ Scannable.Turn \in Nat \ {0} /\ Scannable.ADV_EVENT \in Nat
      /\ Scannable.ADV_INTERVAL \in Nat
      /\ 3 * Scannable.ADV_INTERVAL < Scannable.ADV_EVENT
      /\ Scannable.ADV_EVENT < Scannable.Turn
      /\ Air \in 1 .. Scannable.MaxAge /\ Ifs \in 1 .. Scannable.MaxAge
      /\ Scannable.ADV_INTERVAL > 2 * Air + 2 * Ifs
  BY ExamplesAssumption DEF S!DeviceAssumption, S!ScannableBroadcasterAssumption, Air, Ifs
<1>4. \A k \in Nat : k < Air \/ k < Ifs => k # Scannable.MaxAge
  BY <1>3
<1>5. Scannable.ADV_INTERVAL # 0
  BY <1>3
<1> QED BY <1>1, <1>2, <1>3, <1>4, <1>5 DEF Schedule

LEMMA ScannableFacts ==
    ASSUME NEW r, NEW t, NEW i, NEW v, NEW k, NEW h, ScannableIs(r, t, i, v, k, h)
    PROVE  /\ t \in STimers /\ r \in SRadios /\ r.age \in Nat /\ i \in 1 .. 3
           /\ k \in 0 .. STimes.event
           /\ h \in 0 .. STimes.turn /\ Past(STimes, i, k) \in Nat
           /\ Beats(STimes, t, i, k) /\ Ahead(t, h) /\ r.ch = 36 + i
<1>1. /\ Beats(STimes, t, i, k) /\ Ahead(t, h) /\ r \in SRadios /\ r.ch = 36 + i
  BY DEF ScannableIs
<1>2. /\ t \in Timers(Three, Scannable.Turn) /\ i \in 1 .. 3 /\ k \in 0 .. STimes.event
      /\ Past(STimes, i, k) >= 0
  BY <1>1, ScheduleConstants DEF Beats
<1>3. Past(STimes, i, k) \in Nat
  BY <1>2, ScheduleConstants DEF Past, Begun
<1>4. h \in 0 .. STimes.turn
  BY <1>1 DEF Ahead
<1>5. r.age \in Nat
  BY <1>1 DEF SRadios, Radios
<1> QED BY <1>1, <1>2, <1>3, <1>4, <1>5 DEF STimers

\* What is to be shown of a step that stays in the exchange.
LEMMA InExchange ==
    ASSUME NEW r, NEW t, NEW i, NEW v, NEW k, NEW h, NEW p,
           Beats(STimes, t, i, k), Ahead(t, h), r \in SRadios, r.ch = 36 + i,
           p = Past(STimes, i, k), Exchange(r, t, p, h), v = 37 .. 36 + i
    PROVE  ScheduleOK(r, t, i, v)
<1>1. ScannableIs(r, t, i, v, k, h)
  BY DEF ScannableIs
<1>2. k \in 0 .. STimes.event /\ h \in 0 .. STimes.turn
  BY DEF Beats, Ahead
<1> QED BY <1>1, <1>2 DEF ScheduleOK

\* A timer of the schedule expires when the exchange is over.
LEMMA ScannableIsFree ==
    ASSUME NEW r, NEW t, NEW i, NEW v, NEW k, NEW h, ScannableIs(r, t, i, v, k, h),
           0 \in t.due \/ 1 \in t.due
    PROVE  /\ Resting(r) /\ v = 37 .. 36 + i /\ 2 \notin t.armed /\ 2 \notin t.due
           /\ h >= 2 * STimes.interval
<1> DEFINE p == Past(STimes, i, k)
<1>1. /\ Beats(STimes, t, i, k) /\ i \in 1 .. 3 /\ k \in 0 .. STimes.event /\ p \in Nat
      /\ h \in 0 .. STimes.turn /\ r.age \in Nat
  BY ScannableFacts
<1>2. p = STimes.interval \/ k = 0
  BY <1>1 DEF Beats
<1>3. k = 0 => i = 3 /\ p = STimes.event - 2 * STimes.interval
  <2>1. i < 3 => p <= STimes.interval
    BY <1>1 DEF Beats
  <2> QED BY <1>1, <2>1, ScheduleConstants DEF Past, Begun
<1>4. p >= STimes.interval /\ p + 2 * STimes.interval < STimes.turn
  BY <1>1, <1>2, <1>3, ScheduleConstants
<1>5. Advertising(r, t, p, h) \/ (Exchange(r, t, p, h) /\ v = 37 .. 36 + i)
  BY DEF ScannableIs
<1>6. t.due \subseteq t.armed
  BY <1>1 DEF Beats
<1> HIDE DEF p
<1>7. ~(p <= 2 * Air + 2 * Ifs)
  BY <1>1, <1>4, ScheduleConstants
<1>8. ~(p <= Air) /\ ~(p <= Air + Ifs) /\ ~(p <= 2 * Air + Ifs)
      /\ ~(p + h <= Air + Ifs) /\ ~(p + h <= 2 * Air + 2 * Ifs)
      /\ ~(p <= Air + Ifs + r.age /\ r.age <= Air)
  BY <1>1, <1>7, ScheduleConstants
<1>9. Silent(r, t, p, h) /\ v = 37 .. 36 + i
  BY <1>5, <1>8
  DEF Exchange, Advertising, Advertised, Awaiting, Requested, Responding, Responded
<1>10. Resting(r) /\ 2 \notin t.armed /\ p + h >= STimes.turn
  BY <1>8, <1>9 DEF Silent, Gone, Resting, Is, SRadios, Radios
<1> QED BY <1>1, <1>4, <1>6, <1>9, <1>10, ScheduleConstants

LEMMA ScannableContinues ==
    ASSUME NEW t \in STimers, NEW i
    PROVE  S!Continued(t, i) = Continue(STimes, t, i)
BY ScannableTimerDriver, ScheduleConstants DEF S!Continued, S!adv_interval, Continue, Three

\* A radio that is off sends the next PDU on the channel asked for.
LEMMA ScannableAdvertises ==
    ASSUME NEW r \in SRadios, Resting(r), NEW i \in 1 .. 3
    PROVE  LET q == S!SendPdu(r, i - 1)
           IN  /\ q \in SRadios /\ q.ch = 36 + i /\ q.age = 0
               /\ Is(q, {"tx"}, {"rx_next"}, {"rxen"}, "adv_scan_ind", "tx", FALSE)
<1> USE DEF SRadios
<1> DEFINE ch == 36 + i
           s == R!Stop(r)
           p == R!Prepare(s, ch)
           q == R!Send(p, "adv_scan_ind", {"rx_next"})
<1>1. ch \in 37 .. 39 /\ S!channels[(i - 1) + 1] = ch
  BY DEF S!channels
<1>2. S!SendPdu(r, i - 1) = q
  BY <1>1, ScannableRadioDriver DEF S!SendPdu
<1> HIDE DEF ch
<1>3. s = r
  BY StopIs DEF Resting, Is
<1>4. /\ p \in SRadios /\ p.age = r.age
      /\ Is(p, r.status, r.flags, r.shorts, r.ptr, r.phase, r.end)
      /\ p.ch = IF r.status = {} THEN ch ELSE r.ch
  BY <1>1, <1>3, PrepareIs
<1> HIDE DEF p
<1>5. Is(p, {}, {}, {}, r.ptr, "off", FALSE) /\ p.ch = ch
  BY <1>4 DEF Is, Resting
<1>6. /\ q \in SRadios /\ Same(q, p)
      /\ Is(q, p.status \union {"tx"}, p.flags \union {"rx_next"}, p.shorts \union {"rxen"},
            "adv_scan_ind", IF p.phase = "off" THEN "tx" ELSE p.phase, p.end)
      /\ q.age = IF p.phase = "off" THEN 0 ELSE p.age
  BY <1>4, SendIs
<1> HIDE DEF q
<1>7. q.ch = ch /\ q.age = 0
      /\ Is(q, {"tx"}, {"rx_next"}, {"rxen"}, "adv_scan_ind", "tx", FALSE)
  BY <1>5, <1>6 DEF Is, Same
<1> QED BY <1>2, <1>6, <1>7 DEF ch

\* The state after a PDU has been begun.
LEMMA ScannableBegins ==
    ASSUME NEW r \in SRadios, Resting(r), NEW t, NEW i, NEW k, Ready(STimes, t, i, k), NEW h,
           Ahead(t, h), 2 \notin t.armed, h >= 2 * STimes.interval
    PROVE  ScheduleOK(S!SendPdu(r, i - 1), S!Continued(t, i), i, 37 .. 35 + i)
<1> DEFINE q == S!SendPdu(r, i - 1)
           u == S!Continued(t, i)
<1>1. /\ i \in 1 .. 3 /\ k \in 0 .. STimes.event /\ Past(STimes, i, k) = 0
      /\ t \in STimers /\ t.events = {} /\ t.due = {} /\ h \in 0 .. STimes.turn
  BY ScheduleConstants DEF Ready, STimers, Ahead
<1>2. /\ q \in SRadios /\ q.ch = 36 + i /\ q.age = 0
      /\ Is(q, {"tx"}, {"rx_next"}, {"rxen"}, "adv_scan_ind", "tx", FALSE)
  BY <1>1, ScannableAdvertises
<1>3. Beats(STimes, u, i, k) /\ Aside(u, t)
  BY <1>1, ScheduleConstants, ScannableContinues, Continues
<1> HIDE DEF q, u
<1>4. Ahead(u, h) /\ 2 \notin u.armed \union u.events \union u.due
  BY <1>1, <1>3 DEF Ahead, Aside
<1>5. 0 + h >= 2 * STimes.interval /\ 0 <= Air
  BY <1>1, ScheduleConstants
<1>6. Advertising(q, u, 0, h)
  BY <1>2, <1>4, <1>5 DEF Advertising
<1>7. ScannableIs(q, u, i, 37 .. 35 + i, k, h)
  BY <1>1, <1>2, <1>3, <1>4, <1>6 DEF ScannableIs
<1> QED BY <1>1, <1>7 DEF ScheduleOK, q, u

LEMMA ScheduleInitially == ASSUME S!Init PROVE ScheduleOK(radio, tm, idx, visited)
<1> DEFINE reset == S!TimersReset
           t == Start(reset, 1, STimes.event, STimes.turn)
           r == [S!Reset EXCEPT !.inbuf = [type |-> "zero", me |-> FALSE, rxadd |-> FALSE]]
           i == 1
           h == STimes.turn
<1>1. /\ reset \in Timers(STimes.ids, STimes.turn) /\ reset.armed = {} /\ reset.active = 0
      /\ reset.counter = 0 /\ reset.events = {} /\ reset.due = {} /\ reset.cc[2] = 0
  BY ScheduleConstants DEF S!TimersReset, Timers, Schedule, Three
<1>2. i = 1 /\ tm = S!Continued(t, i) /\ radio = S!SendPdu(r, i - 1) /\ idx = i
      /\ visited = 37 .. 35 + i
  <2>1. S!timer_start(reset, 1, Scannable.ADV_EVENT) = t
    BY <1>1, ScannableTimerDriver, ScheduleConstants DEF STimers, Three
  <2>2. 37 .. 35 + 1 = {}
    OBVIOUS
  <2> QED BY <2>1, <2>2 DEF S!Init, S!adv_event
<1>3. r \in SRadios /\ Resting(r)
  BY DEF S!Reset, SRadios, SPdus, Radios, Is, Resting
<1> HIDE DEF reset, r, i
<1>4. Ready(STimes, t, 1, STimes.event) /\ Aside(t, reset)
  BY <1>1, ScheduleConstants, ScheduleBegins
<1> HIDE DEF t
<1>5. Ahead(t, h) /\ 2 \notin t.armed /\ h >= 2 * STimes.interval
  <2>1. Turned(0, h, STimes.turn) = 0 /\ h \in 0 .. STimes.turn /\ h >= 2 * STimes.interval
    BY ScheduleConstants DEF Turned
  <2> QED BY <1>1, <1>4, <2>1 DEF Ahead, Aside
<1>6. ScheduleOK(S!SendPdu(r, i - 1), S!Continued(t, i), i, 37 .. 35 + i)
  BY <1>2, <1>3, <1>4, <1>5, ScannableBegins
<1> QED BY <1>2, <1>6

\* The steps.
LEMMA ChannelTimeout ==
    ASSUME ScheduleOK(radio, tm, idx, visited), S!adv_interval_timeout
    PROVE  ScheduleOK(radio, tm, idx, visited)' /\ radio.phase = "off"
<1>1. PICK k \in 0 .. STimes.event, h \in 0 .. STimes.turn :
               ScannableIs(radio, tm, idx, visited, k, h)
  BY DEF ScheduleOK
<1>2. /\ tm \in STimers /\ radio \in SRadios /\ idx \in 1 .. 3
      /\ Beats(STimes, tm, idx, k) /\ Ahead(tm, h)
  BY <1>1, ScannableFacts
<1> DEFINE t == Drop(Taken(tm, 0), 0)
           i == idx + 1
<1>3. /\ radio' = S!SendPdu(radio, idx) /\ idx' = i /\ visited' = visited /\ 0 \in tm.due
      /\ tm' = S!Continued(t, i)
  BY <1>2, ScannableTimerDriver DEF S!adv_interval_timeout, S!Serving, S!adv_interval, Three
<1>4. /\ Resting(radio) /\ visited = 37 .. 36 + idx /\ 2 \notin tm.armed /\ 2 \notin tm.due
      /\ h >= 2 * STimes.interval
  BY <1>1, <1>3, ScannableIsFree
<1>5. idx < 3 /\ Ready(STimes, t, i, k) /\ Aside(t, tm)
  BY <1>2, <1>3, <1>4, ScheduleConstants, ChannelServed
<1>6. i - 1 = idx /\ 35 + i = 36 + idx
  BY <1>2
<1> HIDE DEF t, i
<1>7. Ahead(t, h) /\ 2 \notin t.armed
  BY <1>2, <1>4, <1>5 DEF Ahead, Aside
<1>8. ScheduleOK(S!SendPdu(radio, i - 1), S!Continued(t, i), i, 37 .. 35 + i)
  BY <1>2, <1>4, <1>5, <1>7, ScannableBegins
<1> QED BY <1>3, <1>4, <1>5, <1>6, <1>8 DEF Resting, Is

LEMMA EventTimeout ==
    ASSUME ScheduleOK(radio, tm, idx, visited), S!adv_event_timeout
    PROVE  /\ ScheduleOK(radio, tm, idx, visited)'
           /\ radio.phase = "off" /\ visited = 37 .. 39
<1>1. PICK k \in 0 .. STimes.event, h \in 0 .. STimes.turn :
               ScannableIs(radio, tm, idx, visited, k, h)
  BY DEF ScheduleOK
<1>2. /\ tm \in STimers /\ radio \in SRadios /\ idx \in 1 .. 3
      /\ Beats(STimes, tm, idx, k) /\ Ahead(tm, h)
  BY <1>1, ScannableFacts
<1> DEFINE t == Compare(Taken(tm, 1), 1, STimes.event, STimes.turn)
           i == 1
<1>3. /\ radio' = S!SendPdu(radio, 0) /\ idx' = i /\ visited' = {} /\ 1 \in tm.due
      /\ tm' = S!Continued(t, i)
  BY <1>2, ScannableTimerDriver, ScheduleConstants
  DEF S!adv_event_timeout, S!Serving, S!adv_event, Three
<1>4. /\ Resting(radio) /\ visited = 37 .. 36 + idx /\ 2 \notin tm.armed /\ 2 \notin tm.due
      /\ h >= 2 * STimes.interval
  BY <1>1, <1>3, ScannableIsFree
<1>5. idx = 3 /\ Ready(STimes, t, i, STimes.event) /\ Aside(t, tm)
  BY <1>2, <1>3, <1>4, ScheduleConstants, EventServed
<1>6. i - 1 = 0 /\ 37 .. 35 + i = {}
  OBVIOUS
<1> HIDE DEF t, i
<1>7. Ahead(t, h) /\ 2 \notin t.armed
  BY <1>2, <1>4, <1>5 DEF Ahead, Aside
<1>8. ScheduleOK(S!SendPdu(radio, i - 1), S!Continued(t, i), i, 37 .. 35 + i)
  BY <1>2, <1>4, <1>5, <1>7, ScannableBegins
<1> QED BY <1>3, <1>4, <1>5, <1>6, <1>8 DEF Resting, Is

LEMMA IfsTimeout ==
    ASSUME ScheduleOK(radio, tm, idx, visited), S!t_ifs_timeout
    PROVE  /\ ScheduleOK(radio, tm, idx, visited)'
           /\ radio.phase # "tx" /\ (radio.phase = "rx" => radio.age = Ifs)
<1>1. PICK k \in 0 .. STimes.event, h \in 0 .. STimes.turn :
               ScannableIs(radio, tm, idx, visited, k, h)
  BY DEF ScheduleOK
<1> DEFINE p == Past(STimes, idx, k)
           q == R!Stop(radio)
<1>2. /\ tm \in STimers /\ radio \in SRadios /\ radio.age \in Nat /\ radio.ch = 36 + idx
      /\ Beats(STimes, tm, idx, k) /\ Ahead(tm, h) /\ p \in Nat /\ h \in 0 .. STimes.turn
  BY <1>1, ScannableFacts
<1>3. /\ radio' = q /\ idx' = idx /\ visited' = visited
      /\ 2 \in tm.due /\ 0 \notin tm.due /\ 1 \notin tm.due
      /\ tm' = Drop(Taken(tm, 2), 2)
  BY <1>2, ScannableTimerDriver, ScannableRadioDriver
  DEF S!t_ifs_timeout, S!Serving, S!t_ifs, S!data, Three
<1>4. /\ Beats(STimes, tm', idx, k) /\ tm'.armed = tm.armed \ {2}
      /\ tm'.due = {} /\ tm'.cc = tm.cc /\ tm'.counter = tm.counter
  BY <1>2, <1>3, ScheduleConstants, OtherServed
<1>5. Ahead(tm', h) /\ 2 \notin tm'.armed
  BY <1>2, <1>4 DEF Ahead
<1>6. 2 \in tm.armed /\ tm.events = {}
  BY <1>2, <1>3 DEF Beats
<1>7. /\ q \in SRadios /\ Same(q, radio)
      /\ radio.status # {} => Is(q, {}, {}, {}, radio.ptr, "off", radio.end)
      /\ radio.status = {} => q = radio
  BY <1>2, StopIs DEF SRadios
<1>8. \/ Advertising(radio, tm, p, h)
      \/ Exchange(radio, tm, p, h) /\ visited = 37 .. 36 + idx
  BY <1>1 DEF ScannableIs
<1> HIDE DEF p, q
<1>9. ~Advertising(radio, tm, p, h)
  BY <1>3 DEF Advertising
<1>10. \/ Awaiting(radio, tm, p, h) \/ Requested(radio, tm, p, h)
       \/ Silent(radio, tm, p, h)
  BY <1>3, <1>6, <1>8, <1>9 DEF Exchange, Advertised, Responding, Responded
<1>11. Silent(q, tm', p, h) /\ radio.phase # "tx" /\ (radio.phase = "rx" => radio.age = Ifs)
  <2>1. CASE Awaiting(radio, tm, p, h)
    <3>1. Is(q, {}, {}, {}, "inbuf", "off", FALSE) /\ h = 0 /\ radio.phase = "rx"
          /\ radio.age = Ifs
      BY <1>2, <1>3, <1>7, <2>1, ScheduleConstants DEF Awaiting, Is
    <3>2. Gone(p, h)
      BY <1>2, <2>1, ScheduleConstants DEF Awaiting, Gone
    <3> QED BY <1>5, <3>1, <3>2 DEF Silent, Is
  <2>2. CASE Requested(radio, tm, p, h)
    <3>1. Is(q, {}, {}, {}, "inbuf", "off", TRUE) /\ radio.phase = "off"
      BY <1>7, <2>2 DEF Requested, Is
    <3>2. Gone(p, h) /\ p <= Air + Ifs
      BY <1>2, <2>2, ScheduleConstants DEF Requested, Gone
    <3> QED BY <1>5, <3>1, <3>2 DEF Silent, Is
  <2>3. CASE Silent(radio, tm, p, h)
    <3>1. q = radio /\ radio.phase = "off"
      BY <1>7, <2>3 DEF Silent, Is
    <3>2. Gone(p, h)
      BY <1>6, <2>3 DEF Silent, Gone
    <3> QED BY <1>5, <2>3, <3>1, <3>2 DEF Silent
  <2> QED BY <1>10, <2>1, <2>2, <2>3
<1>12. Exchange(radio', tm', p, h) /\ radio' \in SRadios /\ radio'.ch = 36 + idx
       /\ visited' = 37 .. 36 + idx
  BY <1>2, <1>3, <1>7, <1>8, <1>9, <1>11 DEF Exchange, Same
<1>13. ScheduleOK(radio', tm', idx, visited')
  BY <1>4, <1>5, <1>12, InExchange DEF p
<1> QED BY <1>3, <1>11, <1>13

LEMMA RequestReceived ==
    ASSUME ScheduleOK(radio, tm, idx, visited), S!radio_recv_cb
    PROVE  ScheduleOK(radio, tm, idx, visited)' /\ radio.phase = "off"
<1>1. PICK k \in 0 .. STimes.event, h \in 0 .. STimes.turn :
               ScannableIs(radio, tm, idx, visited, k, h)
  BY DEF ScheduleOK
<1> DEFINE p == Past(STimes, idx, k)
           e == R!HandleEnd(radio)
           q == R!Send(e, "scan_rsp", {})
           s == R!Stop(q)
<1>2. /\ tm \in STimers /\ radio \in SRadios /\ radio.age \in Nat /\ radio.ch = 36 + idx
      /\ Beats(STimes, tm, idx, k) /\ Ahead(tm, h) /\ p \in Nat /\ h \in 0 .. STimes.turn
  BY <1>1, ScannableFacts
<1>3. /\ radio' = q \/ radio' = s
      /\ idx' = idx /\ visited' = visited
      /\ radio.end /\ tm.due = {} /\ "rx" \in radio.status /\ tm' = Halt(tm, 2)
  <2>1. tm' = S!timer_stop(tm, 2) /\ 2 \in Three /\ 0 \in Nat
    BY DEF S!radio_recv_cb, S!t_ifs, Three
  <2>2. tm' = Halt(tm, 2)
    BY <1>2, <2>1, ScannableTimerDriver
  <2>3. radio' = q \/ radio' = s
    BY ScannableRadioDriver DEF S!radio_recv_cb
  <2> QED BY <2>2, <2>3 DEF S!radio_recv_cb, S!Ended, S!Received, S!data
<1>4. \/ Advertising(radio, tm, p, h)
      \/ Exchange(radio, tm, p, h) /\ visited = 37 .. 36 + idx
  BY <1>1 DEF ScannableIs
<1> HIDE DEF p
<1>5. Requested(radio, tm, p, h) /\ visited = 37 .. 36 + idx
  BY <1>3, <1>4
  DEF Exchange, Advertising, Advertised, Awaiting, Responding, Responded, Silent, Is
<1>6. /\ Beats(STimes, tm', idx, k) /\ tm'.armed = tm.armed \ {2}
      /\ tm'.due = tm.due /\ tm'.cc = tm.cc /\ tm'.counter = tm.counter
  <2>1. 2 \in tm.armed /\ 2 \notin tm.due
    BY <1>3, <1>5 DEF Requested
  <2> QED BY <1>2, <1>3, <2>1, ScheduleConstants, OtherHalted
<1>7. Ahead(tm', h) /\ 2 \notin tm'.armed \union tm'.due
  BY <1>2, <1>3, <1>6 DEF Ahead
<1>8. /\ e \in SRadios /\ Same(e, radio)
      /\ Is(e, {}, {}, {}, "inbuf", "off", FALSE)
  <2>1. /\ e \in SRadios /\ Same(e, radio)
        /\ IF R!Received(radio) /\ "tx_next" \in radio.flags
           THEN Is(e, {"tx"}, radio.flags \ {"tx_next"}, radio.shorts \ {"txen"}, radio.out,
                   radio.phase, FALSE)
           ELSE IF R!Sent(radio) /\ "rx_next" \in radio.flags
           THEN Is(e, {"rx"}, radio.flags \ {"rx_next"}, radio.shorts \ {"rxen"}, "inbuf",
                   radio.phase, FALSE)
           ELSE Is(e, {}, radio.flags, radio.shorts, radio.ptr, radio.phase, FALSE)
    BY <1>2, HandleEndIs DEF SRadios
  <2> HIDE DEF e
  <2> QED BY <1>5, <2>1 DEF Requested, Is
<1> HIDE DEF e
<1>9. /\ q \in SRadios /\ Same(q, e) /\ q.age = 0
      /\ Is(q, {"tx"}, {}, {}, "scan_rsp", "tx", FALSE)
  <2>1. /\ q \in SRadios /\ Same(q, e)
        /\ Is(q, e.status \union {"tx"}, e.flags \union {}, e.shorts, "scan_rsp",
              IF e.phase = "off" THEN "tx" ELSE e.phase, e.end)
        /\ q.age = IF e.phase = "off" THEN 0 ELSE e.age
    BY <1>8, SendIs DEF SRadios
  <2> HIDE DEF q
  <2> QED BY <1>8, <2>1 DEF Is
<1> HIDE DEF q
<1>10. /\ s \in SRadios /\ Same(s, q) /\ Is(s, {}, {}, {}, "scan_rsp", "off", FALSE)
  <2>1. /\ s \in SRadios /\ Same(s, q)
        /\ q.status # {} => Is(s, {}, {}, {}, q.ptr, "off", q.end)
    BY <1>9, StopIs DEF SRadios
  <2> HIDE DEF s
  <2> QED BY <1>9, <2>1 DEF Is
<1> HIDE DEF s
<1>11. Gone(p, h) /\ p <= Air + Ifs + 0 /\ 0 <= Air
  BY <1>2, <1>5, ScheduleConstants DEF Gone, Requested
<1>12. Responding(q, tm', p, h)
  BY <1>7, <1>9, <1>11 DEF Responding
<1>13. Silent(s, tm', p, h)
  BY <1>7, <1>10, <1>11 DEF Silent, Is
<1>14. Exchange(radio', tm', p, h) /\ radio' \in SRadios /\ radio'.ch = 36 + idx
       /\ visited' = 37 .. 36 + idx
  BY <1>2, <1>3, <1>5, <1>8, <1>9, <1>10, <1>12, <1>13 DEF Exchange, Same
<1>15. ScheduleOK(radio', tm', idx, visited')
  BY <1>6, <1>7, <1>14, InExchange DEF p
<1> QED BY <1>3, <1>5, <1>15 DEF Requested, Is

LEMMA PduSent ==
    ASSUME ScheduleOK(radio, tm, idx, visited), S!radio_send_cb
    PROVE  ScheduleOK(radio, tm, idx, visited)'
<1>1. PICK k \in 0 .. STimes.event, h \in 0 .. STimes.turn :
               ScannableIs(radio, tm, idx, visited, k, h)
  BY DEF ScheduleOK
<1> DEFINE p == Past(STimes, idx, k)
           q == R!HandleEnd(radio)
<1>2. /\ tm \in STimers /\ radio \in SRadios /\ radio.age \in Nat /\ radio.ch = 36 + idx
      /\ Beats(STimes, tm, idx, k) /\ Ahead(tm, h) /\ p \in Nat /\ h \in 0 .. STimes.turn
  BY <1>1, ScannableFacts
<1>3. /\ radio' = q /\ idx' = idx /\ visited' = visited
      /\ radio.end /\ tm.due = {} /\ radio.status = {"tx"}
      /\ tm' = Start(tm, 2, Ifs, STimes.turn)
  <2>1. tm' = S!timer_start(tm, 2, Ifs) /\ 2 \in Three /\ Ifs \in Nat
    BY ScheduleConstants DEF S!radio_send_cb, S!t_ifs, Three, Ifs
  <2>2. tm' = Start(tm, 2, Ifs, STimes.turn)
    BY <1>2, <2>1, ScannableTimerDriver, ScheduleConstants
  <2>3. radio' = q
    BY ScannableRadioDriver DEF S!radio_send_cb
  <2> QED BY <2>2, <2>3 DEF S!radio_send_cb, S!Ended, S!Sent, S!data
<1>4. \/ Advertising(radio, tm, p, h)
      \/ Exchange(radio, tm, p, h) /\ visited = 37 .. 36 + idx
  BY <1>1 DEF ScannableIs
<1>5. /\ q \in SRadios /\ Same(q, radio) /\ q.age = radio.age
      /\ IF R!Received(radio) /\ "tx_next" \in radio.flags
         THEN Is(q, {"tx"}, radio.flags \ {"tx_next"}, radio.shorts \ {"txen"}, radio.out,
                 radio.phase, FALSE)
         ELSE IF R!Sent(radio) /\ "rx_next" \in radio.flags
         THEN Is(q, {"rx"}, radio.flags \ {"rx_next"}, radio.shorts \ {"rxen"}, "inbuf",
                 radio.phase, FALSE)
         ELSE Is(q, {}, radio.flags, radio.shorts, radio.ptr, radio.phase, FALSE)
  BY <1>2, HandleEndIs DEF SRadios
<1> HIDE DEF p, q
<1>6. (Advertised(radio, tm, p) \/ Responded(radio, tm, p)) /\ visited = 37 .. 36 + idx
  BY <1>3, <1>4
  DEF Exchange, Advertising, Awaiting, Requested, Responding, Silent, Is
<1>7. 2 \notin tm.armed /\ Ifs \in 0 .. STimes.turn /\ Ifs # 0
  <2>1. 2 \notin tm.armed
    BY <1>6 DEF Advertised, Responded
  <2> QED BY <2>1, ScheduleConstants
<1>8. /\ Beats(STimes, tm', idx, k) /\ tm'.armed = tm.armed \union {2} /\ 2 \in tm'.inten
      /\ tm'.events = tm.events /\ tm'.due = tm.due
      /\ tm'.cc[2] = Turned(tm'.counter, Ifs, STimes.turn)
  BY <1>2, <1>3, <1>7, ScheduleConstants, OtherStarted
<1>9. Ahead(tm', Ifs)
  BY <1>7, <1>8 DEF Ahead
<1>10. CASE Advertised(radio, tm, p)
  <2>1. Is(q, {"rx"}, {}, {}, "inbuf", "rx", FALSE) /\ q.age = 0
    BY <1>3, <1>5, <1>10 DEF Advertised, Is, R!Received, R!Sent
  <2>2. q.age + Ifs = Ifs /\ p + Ifs <= Air + Ifs
    BY <1>2, <1>10, <2>1, ScheduleConstants DEF Advertised
  <2>3. Awaiting(q, tm', p, Ifs)
    BY <1>7, <1>8, <1>10, <2>1, <2>2 DEF Awaiting, Advertised
  <2> QED BY <1>2, <1>3, <1>5, <1>6, <1>8, <1>9, <2>3, InExchange DEF Exchange, Same, p
<1>11. CASE Responded(radio, tm, p)
  <2>1. Is(q, {}, {}, {}, "scan_rsp", "off", FALSE)
    BY <1>5, <1>11 DEF Responded, Is, R!Received, R!Sent
  <2>2. Ifs <= Ifs /\ p + Ifs <= 2 * Air + 2 * Ifs
    BY <1>2, <1>11, ScheduleConstants DEF Responded
  <2>3. Silent(q, tm', p, Ifs)
    BY <1>8, <2>1, <2>2 DEF Silent, Is
  <2> QED BY <1>2, <1>3, <1>5, <1>6, <1>8, <1>9, <2>3, InExchange DEF Exchange, Same, p
<1> QED BY <1>6, <1>10, <1>11

LEMMA PduEnds ==
    ASSUME ScheduleOK(radio, tm, idx, visited), S!OnAirEnds
    PROVE  ScheduleOK(radio, tm, idx, visited)' /\ radio'.end
<1>1. PICK k \in 0 .. STimes.event, h \in 0 .. STimes.turn :
               ScannableIs(radio, tm, idx, visited, k, h)
  BY DEF ScheduleOK
<1> DEFINE p == Past(STimes, idx, k)
           q == R!AfterEnd(radio)
<1>2. /\ radio \in SRadios /\ radio.age \in Nat /\ radio.ch = 36 + idx /\ idx \in 1 .. 3
      /\ Beats(STimes, tm, idx, k) /\ Ahead(tm, h) /\ p \in Nat
  BY <1>1, ScannableFacts
<1>3. /\ radio' = q /\ idx' = idx /\ tm' = tm /\ radio.phase = "tx" /\ ~radio.end
      /\ visited' = IF radio.ptr = "adv_scan_ind" THEN visited \union {radio.ch} ELSE visited
  BY ScannableRadioDriver DEF S!OnAirEnds, S!PacketOut, S!MayEnd
<1>4. /\ q \in SRadios /\ Same(q, radio) /\ q.age = 0
      /\ Is(q, radio.status, radio.flags, radio.shorts, radio.ptr,
            IF "rxen" \in radio.shorts THEN "rx"
            ELSE IF "txen" \in radio.shorts THEN "tx" ELSE "off", TRUE)
  BY <1>2, AfterEndIs DEF SRadios
<1>5. \/ Advertising(radio, tm, p, h) /\ visited = 37 .. 35 + idx
      \/ Exchange(radio, tm, p, h) /\ visited = 37 .. 36 + idx
  BY <1>1 DEF ScannableIs
<1> HIDE DEF p, q
<1>6. \/ Advertising(radio, tm, p, h) /\ visited = 37 .. 35 + idx
      \/ Responding(radio, tm, p, h) /\ visited = 37 .. 36 + idx
  BY <1>3, <1>5 DEF Exchange, Advertised, Awaiting, Requested, Responded, Silent, Is
<1>7. q.ch = 36 + idx /\ q.end
  BY <1>2, <1>4 DEF Same, Is
<1>8. CASE Advertising(radio, tm, p, h) /\ visited = 37 .. 35 + idx
  <2>1. Advertised(q, tm, p)
    BY <1>4, <1>8 DEF Advertising, Advertised, Is
  <2>2. visited' = visited \union {36 + idx}
    BY <1>2, <1>3, <1>8 DEF Advertising, Is
  <2>3. (37 .. 35 + idx) \union {36 + idx} = 37 .. 36 + idx
    BY <1>2
  <2> QED BY <1>2, <1>3, <1>4, <1>7, <1>8, <2>1, <2>2, <2>3, InExchange DEF Exchange, p
<1>9. CASE Responding(radio, tm, p, h) /\ visited = 37 .. 36 + idx
  <2>1. p <= 2 * Air + Ifs
    BY <1>2, <1>9, ScheduleConstants DEF Responding
  <2>2. Responded(q, tm, p)
    BY <1>4, <1>9, <2>1 DEF Responding, Responded, Is
  <2>3. visited' = visited
    BY <1>3, <1>9 DEF Responding, Is
  <2> QED BY <1>2, <1>3, <1>4, <1>7, <1>9, <2>2, <2>3, InExchange DEF Exchange, p
<1> QED BY <1>6, <1>8, <1>9

LEMMA PacketEnds ==
    ASSUME ScheduleOK(radio, tm, idx, visited), S!PacketIn
    PROVE  ScheduleOK(radio, tm, idx, visited)' /\ radio.phase = "rx"
<1>1. PICK k \in 0 .. STimes.event, h \in 0 .. STimes.turn :
               ScannableIs(radio, tm, idx, visited, k, h)
  BY DEF ScheduleOK
<1>2. PICK pdu \in Scanners : radio' = R!PacketReceived(radio, pdu)
  BY ScannableRadioDriver DEF S!PacketIn
<1> DEFINE p == Past(STimes, idx, k)
           q == R!PacketReceived(radio, pdu)
<1>3. /\ radio \in SRadios /\ radio.age \in Nat /\ radio.ch = 36 + idx
      /\ Beats(STimes, tm, idx, k) /\ Ahead(tm, h) /\ p \in Nat /\ h \in 0 .. STimes.turn
  BY <1>1, ScannableFacts
<1>4. /\ radio' = q /\ idx' = idx /\ tm' = tm /\ visited' = visited
      /\ radio.phase = "rx" /\ ~radio.end
  BY <1>2 DEF S!PacketIn, S!MayEnd, S!data
<1>5. /\ q \in SRadios /\ q.ch = radio.ch
      /\ Is(q, radio.status, radio.flags, radio.shorts, radio.ptr,
            IF "rxen" \in radio.shorts THEN "rx"
            ELSE IF "txen" \in radio.shorts THEN "tx" ELSE "off", TRUE)
  <2>1. pdu \in SPdus
    BY DEF SPdus
  <2>2. radio \in Radios(SPdus) /\ SRadios = Radios(SPdus)
    BY <1>3 DEF SRadios
  <2>3. /\ q \in Radios(SPdus) /\ q.ch = radio.ch /\ q.out = radio.out /\ q.inbuf = pdu
        /\ q.age = 0
        /\ Is(q, radio.status, radio.flags, radio.shorts, radio.ptr,
              IF "rxen" \in radio.shorts THEN "rx"
              ELSE IF "txen" \in radio.shorts THEN "tx" ELSE "off", TRUE)
    BY <2>1, <2>2, ReceivedIs
  <2> QED BY <2>2, <2>3
<1>6. \/ Advertising(radio, tm, p, h)
      \/ Exchange(radio, tm, p, h) /\ visited = 37 .. 36 + idx
  BY <1>1 DEF ScannableIs
<1> HIDE DEF p, q
<1>7. Awaiting(radio, tm, p, h) /\ visited = 37 .. 36 + idx
  BY <1>4, <1>6
  DEF Exchange, Advertising, Advertised, Requested, Responding, Responded, Silent, Is
<1>8. h <= Ifs
  <2>1. radio.age + h = Ifs
    BY <1>7 DEF Awaiting
  <2>2. h \in Nat /\ radio.age \in Nat /\ Ifs \in Nat
    BY <1>3, ScheduleConstants
  <2> HIDE DEF Ifs
  <2> QED BY <2>1, <2>2
<1>9. Requested(q, tm, p, h)
  BY <1>5, <1>7, <1>8 DEF Awaiting, Requested, Is
<1> QED BY <1>3, <1>4, <1>5, <1>7, <1>9, InExchange DEF Exchange, p

LEMMA StaleEndHandled ==
    ASSUME ScheduleOK(radio, tm, idx, visited), S!StaleEnd, UNCHANGED <<idx, visited>>
    PROVE  ScheduleOK(radio, tm, idx, visited)'
<1>1. PICK k \in 0 .. STimes.event, h \in 0 .. STimes.turn :
               ScannableIs(radio, tm, idx, visited, k, h)
  BY DEF ScheduleOK
<1> DEFINE p == Past(STimes, idx, k)
           q == R!HandleEnd(radio)
<1>2. /\ radio \in SRadios /\ radio.ch = 36 + idx
      /\ Beats(STimes, tm, idx, k) /\ Ahead(tm, h)
  BY <1>1, ScannableFacts
<1>3. radio' = q /\ idx' = idx /\ tm' = tm /\ visited' = visited /\ radio.status = {}
  BY ScannableRadioDriver DEF S!StaleEnd
<1>4. /\ q \in SRadios /\ Same(q, radio)
      /\ IF R!Received(radio) /\ "tx_next" \in radio.flags
         THEN Is(q, {"tx"}, radio.flags \ {"tx_next"}, radio.shorts \ {"txen"}, radio.out,
                 radio.phase, FALSE)
         ELSE IF R!Sent(radio) /\ "rx_next" \in radio.flags
         THEN Is(q, {"rx"}, radio.flags \ {"rx_next"}, radio.shorts \ {"rxen"}, "inbuf",
                 radio.phase, FALSE)
         ELSE Is(q, {}, radio.flags, radio.shorts, radio.ptr, radio.phase, FALSE)
  BY <1>2, HandleEndIs DEF SRadios
<1>5. \/ Advertising(radio, tm, p, h)
      \/ Exchange(radio, tm, p, h) /\ visited = 37 .. 36 + idx
  BY <1>1 DEF ScannableIs
<1> HIDE DEF p, q
<1>6. Silent(radio, tm, p, h) /\ visited = 37 .. 36 + idx
  BY <1>3, <1>5
  DEF Exchange, Advertising, Advertised, Awaiting, Requested, Responding, Responded, Is
<1>7. Is(q, {}, {}, {}, radio.ptr, "off", FALSE)
  BY <1>4, <1>6 DEF Silent, Is
<1>8. Silent(q, tm, p, h)
  BY <1>6, <1>7 DEF Silent, Is
<1> QED BY <1>2, <1>3, <1>4, <1>6, <1>8, InExchange DEF Exchange, Same, p

LEMMA TimersCollected ==
    ASSUME ScheduleOK(radio, tm, idx, visited), S!TimerIrq, UNCHANGED <<idx, visited>>
    PROVE  ScheduleOK(radio, tm, idx, visited)'
<1>1. PICK k \in 0 .. STimes.event, h \in 0 .. STimes.turn :
               ScannableIs(radio, tm, idx, visited, k, h)
  BY DEF ScheduleOK
<1> DEFINE p == Past(STimes, idx, k)
<1>2. /\ tm \in STimers /\ radio \in SRadios /\ radio.ch = 36 + idx
      /\ Beats(STimes, tm, idx, k) /\ Ahead(tm, h) /\ k \in 0 .. STimes.event
      /\ h \in 0 .. STimes.turn
  BY <1>1, ScannableFacts
<1>3. /\ tm' = Gather(tm) /\ radio' = radio /\ idx' = idx /\ visited' = visited
      /\ tm.due = {} /\ ~radio.end
  <2>1. S!Collect(tm) = Gather(tm)
    BY <1>2, ScannableTimerDriver DEF Three
  <2> QED BY <2>1 DEF S!TimerIrq
<1>4. /\ Beats(STimes, tm', idx, k) /\ tm'.armed = tm.armed /\ tm'.inten = tm.inten
      /\ tm'.counter = tm.counter /\ tm'.cc = tm.cc
      /\ tm'.events = {} /\ tm'.due = tm.events \intersect tm.armed
  BY <1>2, <1>3, ScheduleConstants, BeatsGathered
<1>5. Ahead(tm', h)
  BY <1>2, <1>3, <1>4 DEF Ahead
<1>6. \/ Advertising(radio, tm, p, h) /\ visited = 37 .. 35 + idx
      \/ Exchange(radio, tm, p, h) /\ visited = 37 .. 36 + idx
  BY <1>1 DEF ScannableIs
<1> HIDE DEF p
<1>7. Advertising(radio, tm, p, h) => Advertising(radio, tm', p, h)
  BY <1>4 DEF Advertising
<1>8. Exchange(radio, tm, p, h) => Exchange(radio, tm', p, h)
  BY <1>3, <1>4
  DEF Exchange, Advertised, Awaiting, Requested, Responding, Responded, Silent, Is
<1>9. ScannableIs(radio, tm', idx, visited, k, h)
  BY <1>2, <1>4, <1>5, <1>6, <1>7, <1>8 DEF ScannableIs, p
<1> QED BY <1>2, <1>3, <1>9 DEF ScheduleOK

\* One tick, for the compare register of timer 2.
LEMMA AheadElapses ==
    ASSUME NEW t, NEW q, NEW h, Ahead(t, h), t.counter \in 0 .. STimes.turn - 1,
           t.due = {}, t.events \intersect t.inten = {},
           q.armed = t.armed, q.due = {}, q.inten = t.inten, q.cc = t.cc,
           q.counter = (t.counter + 1) % STimes.turn,
           2 \in q.events <=> 2 \in t.events \/ t.cc[2] = q.counter
    PROVE  LET g == IF h = 0 THEN STimes.turn - 1 ELSE h - 1
           IN  /\ Ahead(q, g)
               /\ 2 \in t.armed => h # 0 /\ 2 \notin t.events
               /\ 2 \in q.events <=> 2 \in t.events \/ h = 1
<1> DEFINE turn == STimes.turn
           m == IF h = 0 THEN turn ELSE h
<1>1. turn \in Nat \ {0} /\ turn > 3 /\ h \in 0 .. turn
  BY ScheduleConstants DEF Ahead
<1>2. t.cc[2] = Turned(t.counter, h, turn)
  BY DEF Ahead
<1>3. t.cc[2] = Turned(t.counter, m, turn) /\ m \in 1 .. turn /\ (m = 1 <=> h = 1)
  BY <1>1, <1>2 DEF Turned
<1>4. m - 1 = (IF h = 0 THEN turn - 1 ELSE h - 1) /\ m - 1 \in 0 .. turn
  BY <1>1
<1>a. t.counter \in 0 .. turn - 1 /\ q.counter = (t.counter + 1) % turn
  OBVIOUS
<1> HIDE DEF m, turn
<1>b. /\ (t.counter + 1) % turn \in 0 .. turn - 1
      /\ Turned((t.counter + 1) % turn, m - 1, turn) = Turned(t.counter, m, turn)
      /\ Turned(t.counter, m, turn) = (t.counter + 1) % turn <=> m = 1
  BY <1>1, <1>3, <1>a, TurnsOn
<1>5. t.cc[2] = Turned(q.counter, m - 1, turn) /\ (t.cc[2] = q.counter <=> m = 1)
  BY <1>3, <1>a, <1>b
<1>6. 2 \in t.armed => 2 \in t.inten /\ h # 0 /\ 2 \notin t.events
  BY DEF Ahead
<1>7. Ahead(q, m - 1)
  BY <1>3, <1>4, <1>5, <1>6 DEF Ahead, turn
<1> QED BY <1>3, <1>4, <1>5, <1>6, <1>7 DEF turn

LEMMA ScheduleTicks ==
    ASSUME ScheduleOK(radio, tm, idx, visited), S!Tick, UNCHANGED <<idx, visited>>
    PROVE  ScheduleOK(radio, tm, idx, visited)' /\ radio'.phase = radio.phase
<1>1. PICK k \in 0 .. STimes.event, h \in 0 .. STimes.turn :
               ScannableIs(radio, tm, idx, visited, k, h)
  BY DEF ScheduleOK
<1> DEFINE p == Past(STimes, idx, k)
           q == S!Aged(radio)
           g == IF h = 0 THEN STimes.turn - 1 ELSE h - 1
<1>2. /\ tm \in STimers /\ radio \in SRadios /\ radio.age \in Nat /\ radio.ch = 36 + idx
      /\ Beats(STimes, tm, idx, k) /\ Ahead(tm, h) /\ p \in Nat /\ h \in 0 .. STimes.turn
  BY <1>1, ScannableFacts
<1>3. /\ tm' = Elapse(tm, STimes.ids, STimes.turn) /\ radio' = q /\ idx' = idx
      /\ visited' = visited /\ tm.due = {} /\ ~tm.irq /\ ~radio.end
      /\ radio.phase = "tx" => radio.age < Air
  <2>1. S!Elapsed(tm) = Elapse(tm, STimes.ids, STimes.turn)
    BY <1>2, ScannableTimerDriver, ScheduleConstants DEF Three
  <2> QED BY <2>1 DEF S!Tick, S!Quiet, Air
<1>4. /\ Beats(STimes, tm', idx, k - 1) /\ tm'.armed = tm.armed /\ tm'.due = {}
      /\ tm'.inten = tm.inten /\ tm'.cc = tm.cc
      /\ tm'.counter = (tm.counter + 1) % STimes.turn
      /\ 2 \in tm'.events <=> 2 \in tm.events \/ tm.cc[2] = tm'.counter
      /\ tm.events \intersect tm.inten = {}
      /\ Past(STimes, idx, k - 1) = p + 1
  BY <1>2, <1>3, ScheduleConstants, BeatsElapse
<1>5. tm.counter \in 0 .. STimes.turn - 1
  BY <1>2, ScheduleConstants DEF STimers, Timers
<1>6. /\ Ahead(tm', g)
      /\ 2 \in tm.armed => h # 0 /\ 2 \notin tm.events
      /\ 2 \in tm'.events <=> 2 \in tm.events \/ h = 1
  BY <1>2, <1>3, <1>4, <1>5, AheadElapses
<1>7. /\ q \in SRadios /\ Same(q, radio)
      /\ Is(q, radio.status, radio.flags, radio.shorts, radio.ptr, radio.phase, radio.end)
      /\ q.age = IF radio.phase = "off" \/ radio.age = Scannable.MaxAge THEN radio.age
                 ELSE radio.age + 1
  BY <1>2, AgeIs DEF S!Aged, SRadios
<1>8. \/ Advertising(radio, tm, p, h) /\ visited = 37 .. 35 + idx
      \/ Exchange(radio, tm, p, h) /\ visited = 37 .. 36 + idx
  BY <1>1 DEF ScannableIs
<1>9. /\ h = 0 => g = STimes.turn - 1
      /\ h # 0 => g = h - 1
  OBVIOUS
<1> HIDE DEF p, q, g
<1>10. q.ch = 36 + idx /\ q.phase = radio.phase
  BY <1>2, <1>7 DEF Same, Is
<1>11. Gone(p, h) => Gone(p + 1, g)
  BY <1>2, <1>9, ScheduleConstants DEF Gone
<1>12. CASE Advertising(radio, tm, p, h) /\ visited = 37 .. 35 + idx
  <2>1. p < Air /\ q.age = p + 1 /\ p + 1 <= Air
    BY <1>2, <1>3, <1>7, <1>12, ScheduleConstants DEF Advertising, Is
  <2>2. h # 0 /\ h # 1 /\ (p + 1) + g >= 2 * STimes.interval
    BY <1>2, <1>9, <1>12, <2>1, ScheduleConstants DEF Advertising
  <2>3. Advertising(q, tm', p + 1, g)
    BY <1>4, <1>6, <1>7, <1>12, <2>1, <2>2 DEF Advertising, Is
  <2>4. ScannableIs(radio', tm', idx, visited, k - 1, g)
    BY <1>3, <1>4, <1>6, <1>7, <1>10, <1>12, <2>3 DEF ScannableIs
  <2>5. k - 1 \in 0 .. STimes.event /\ g \in 0 .. STimes.turn
    BY <1>4, <1>6 DEF Beats, Ahead
  <2> QED BY <1>3, <1>10, <2>4, <2>5 DEF ScheduleOK
<1>13. CASE Exchange(radio, tm, p, h) /\ visited = 37 .. 36 + idx
  <2>1. \/ Awaiting(radio, tm, p, h) \/ Responding(radio, tm, p, h)
        \/ Silent(radio, tm, p, h)
    BY <1>3, <1>13 DEF Exchange, Advertised, Requested, Responded, Is
  <2>2. ASSUME Awaiting(radio, tm, p, h)
       PROVE  Awaiting(q, tm', p + 1, g)
    <3>1. h # 0 /\ g = h - 1 /\ radio.phase = "rx"
      BY <1>6, <1>9, <2>2 DEF Awaiting, Is
    <3>2. radio.age < Ifs
      BY <1>2, <2>2, <3>1, ScheduleConstants DEF Awaiting
    <3>3. q.age = radio.age + 1
      BY <1>2, <1>7, <3>1, <3>2, ScheduleConstants
    <3>4. q.age + g = Ifs /\ (p + 1) + g <= Air + Ifs /\ (g = 0 <=> h = 1)
      BY <1>2, <2>2, <3>1, <3>3, ScheduleConstants DEF Awaiting
    <3> QED BY <1>4, <1>6, <1>7, <2>2, <3>4 DEF Awaiting, Is
  <2>3. ASSUME Responding(radio, tm, p, h)
       PROVE  Responding(q, tm', p + 1, g)
    <3>1. radio.age < Air /\ radio.phase = "tx"
      BY <1>3, <2>3 DEF Responding, Is
    <3>2. q.age = radio.age + 1
      BY <1>2, <1>7, <3>1, ScheduleConstants
    <3>3. p + 1 <= Air + Ifs + q.age /\ q.age <= Air
      BY <1>2, <2>3, <3>1, <3>2, ScheduleConstants DEF Responding
    <3> QED BY <1>3, <1>4, <1>7, <1>11, <2>3, <3>3 DEF Responding, Is
  <2>4. ASSUME Silent(radio, tm, p, h)
       PROVE  Silent(q, tm', p + 1, g)
    <3>1. Is(q, {}, {}, {}, radio.ptr, "off", FALSE)
      BY <1>3, <1>7, <2>4 DEF Silent, Is
    <3>2. 2 \in tm'.armed => g <= Ifs /\ (p + 1) + g <= 2 * Air + 2 * Ifs
      BY <1>2, <1>4, <1>6, <1>9, <2>4, ScheduleConstants DEF Silent
    <3> QED BY <1>4, <1>11, <2>4, <3>1, <3>2 DEF Silent, Is
  <2>5. Exchange(radio', tm', p + 1, g)
    BY <1>3, <2>1, <2>2, <2>3, <2>4 DEF Exchange
  <2>6. radio' \in SRadios /\ radio'.ch = 36 + idx /\ p + 1 = Past(STimes, idx, k - 1)
    BY <1>3, <1>4, <1>7, <1>10
  <2> QED BY <1>3, <1>4, <1>6, <1>10, <1>13, <2>5, <2>6, InExchange
<1> QED BY <1>8, <1>12, <1>13

LEMMA ScannableNext ==
    ASSUME ScheduleOK(radio, tm, idx, visited), S!Next
    PROVE  ScheduleOK(radio, tm, idx, visited)'
<1>1. ASSUME S!TimerIrq \/ S!StaleEnd \/ S!Tick, UNCHANGED <<idx, visited>>
      PROVE  ScheduleOK(radio, tm, idx, visited)'
  BY <1>1, TimersCollected, StaleEndHandled, ScheduleTicks
<1> QED
  BY <1>1, ChannelTimeout, EventTimeout, IfsTimeout, RequestReceived, PduSent, PduEnds,
     PacketEnds
  DEF S!Next, S!Progress, S!data

LEMMA ScheduleInvariant == Spec => []ScheduleInv
<1>1. Init => ScheduleInv
  BY ScheduleInitially DEF Init, ScheduleInv
<1>2. ScheduleInv /\ [Next]_vars => ScheduleInv'
  <2> SUFFICES ASSUME program = "scannable", ScheduleOK(radio, tm, idx, visited), [Next]_vars
               PROVE  ScheduleOK(radio, tm, idx, visited)'
    BY DEF ScheduleInv, Next, Progress, PacketIn, vars
  <2>1. CASE UNCHANGED vars
    BY <2>1 DEF vars, ScheduleOK
  <2>2. CASE Next
    <3>1. S!Next
      BY <2>2 DEF Next, Progress, PacketIn, S!Next
    <3> QED BY <3>1, ScannableNext
  <2> QED BY <2>1, <2>2
<1> QED BY <1>1, <1>2, PTL DEF Spec

\* When a broadcaster begins an advertising event, the one before it has sent on all
\* three channels, each in its own turn: no transmission found the radio busy.
THEOREM ExamplesCoverChannels == Spec => EventCoversChannels
<1>1. BroadcasterInv /\ ScheduleInv =>
          /\ program = "broadcaster" => B!EventCoversChannels /\ B!RadioIsFree
          /\ program = "scannable" => S!EventCoversChannels
  <2>1. ASSUME ScheduleInv, program = "scannable" PROVE S!EventCoversChannels
    BY <2>1, EventTimeout DEF ScheduleInv, S!EventCoversChannels
  <2> QED BY <2>1, BroadcasterCovers
<1> QED BY <1>1, BroadcasterInvariant, ScheduleInvariant, PTL DEF EventCoversChannels

\* The scannable broadcaster cuts off no transmission of its own: not one of its three
\* timers expires, and no packet is received, while a PDU is on air.
THEOREM ExamplesComplete == Spec => TransmissionCompletes
<1>1. ScheduleInv /\ [Next]_vars => (program = "scannable" => S!TransmissionCompletes)
  <2> SUFFICES ASSUME program = "scannable", ScheduleOK(radio, tm, idx, visited), [Next]_vars,
                      radio.phase = "tx", ~radio.end
               PROVE  radio'.phase = "tx" \/ radio'.end
    BY DEF ScheduleInv, S!TransmissionCompletes
  <2>1. CASE UNCHANGED vars
    BY <2>1 DEF vars
  <2>2. CASE Next
    <3>1. S!Next
      BY <2>2 DEF Next, Progress, PacketIn, S!Next
    <3>2. ~S!t_ifs_timeout /\ ~S!adv_interval_timeout /\ ~S!adv_event_timeout /\ ~S!PacketIn
      BY IfsTimeout, ChannelTimeout, EventTimeout, PacketEnds
    <3>3. ~S!radio_recv_cb /\ ~S!radio_send_cb /\ ~S!StaleEnd
      BY DEF S!radio_recv_cb, S!radio_send_cb, S!StaleEnd, S!Ended
    <3>4. S!OnAirEnds => radio'.end
      BY PduEnds
    <3>5. S!TimerIrq => radio' = radio
      BY DEF S!TimerIrq
    <3>6. S!Tick /\ UNCHANGED <<idx, visited>> => radio'.phase = radio.phase
      BY ScheduleTicks
    <3> QED BY <3>1, <3>2, <3>3, <3>4, <3>5, <3>6 DEF S!Next, S!Progress, S!data
  <2> QED BY <2>1, <2>2
<1> QED BY <1>1, ScheduleInvariant, PTL DEF Spec, TransmissionCompletes

\* It listens for the whole of T_IFS: the compare value that stopping the timer leaves
\* behind comes round too late to expire as the next one.
THEOREM ExamplesListenInFull == Spec => FullListenWindow
<1>1. ScheduleInv => (program = "scannable" => S!FullListenWindow)
  <2> SUFFICES ASSUME ScheduleOK(radio, tm, idx, visited), S!t_ifs_timeout, radio.phase = "rx"
               PROVE  radio.age >= Scannable.T_IFS
    BY DEF ScheduleInv, S!FullListenWindow
  <2>1. radio.age = Scannable.T_IFS
    BY IfsTimeout DEF Ifs
  <2> QED BY <2>1, ScheduleConstants DEF Ifs
<1> QED BY <1>1, ScheduleInvariant, PTL DEF FullListenWindow

\* No program listens without a timer that ends it.
THEOREM ExamplesListeningIsTimed ==
    ASSUME ~ObserverLateEnd
    PROVE  Spec => []ListeningIsTimed
<1>1. ActiveInv /\ PassiveInv /\ ScheduleInv => ListeningIsTimed
  <2> SUFFICES ASSUME ActiveInv, PassiveInv, ScheduleInv PROVE ListeningIsTimed
    OBVIOUS
  <2>1. ASSUME program = "active" PROVE A!SilentListeningIsTimed
    <3> SUFFICES ASSUME ~radio.end, radio.phase = "rx", "txen" \notin radio.shorts
                 PROVE  1 \in tm.armed
      BY DEF A!SilentListeningIsTimed, A!Quiet, A!t_ifs
    <3>1. \/ Listening(radio) \/ Asking(radio, scan_req) \/ Waiting(radio, tm) \/ Deaf(radio)
          \/ Heard(radio) \/ Asked(radio) \/ Told(radio)
      BY <2>1 DEF ActiveInv, ActiveOK
    <3>2. Waiting(radio, tm)
      BY <3>1 DEF Listening, Asking, Deaf, Heard, Asked, Told, Is
    <3> QED BY <3>2 DEF Waiting
  <2>2. ASSUME program = "passive" PROVE P!ListensInWindow
    <3>1. PICK k \in 0 .. Interval : Times(tm, k) /\ Radioed(radio, tm, idx, k)
      BY <2>2 DEF PassiveInv, PassiveOK
    <3> QED BY <3>1 DEF Radioed, Is, P!ListensInWindow, P!Quiet, P!scan_window
  <2>3. ASSUME program = "scannable", S!Quiet, radio.phase = "rx" PROVE S!t_ifs \in tm.armed
    <3>1. PICK k \in 0 .. STimes.event, h \in 0 .. STimes.turn :
                   ScannableIs(radio, tm, idx, visited, k, h)
      BY <2>3 DEF ScheduleInv, ScheduleOK
    <3>2. ~radio.end
      BY <2>3 DEF S!Quiet
    <3> DEFINE p == Past(STimes, idx, k)
    <3>3. Advertising(radio, tm, p, h) \/ Exchange(radio, tm, p, h)
      BY <3>1 DEF ScannableIs
    <3> HIDE DEF p
    <3>4. Awaiting(radio, tm, p, h)
      BY <2>3, <3>2, <3>3
      DEF Exchange, Advertising, Advertised, Requested, Responding, Responded, Silent, Is
    <3> QED BY <3>4, ScannableTimerDriver DEF Awaiting, S!t_ifs
  <2> QED BY <2>1, <2>2, <2>3 DEF ListeningIsTimed, S!ListeningIsTimed
<1> QED BY <1>1, ActiveInvariant, PassiveInvariant, ScheduleInvariant, PTL
=============================================================================
