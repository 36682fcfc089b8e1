------------------------------ MODULE LogProofs ------------------------------
(***************************************************************************)
(* Theorems about the log, for every buffer, every set of strings and      *)
(* characters and every counter size that LogAssumption allows.            *)
(***************************************************************************)
EXTENDS Log, FiniteSetTheorems, SequenceTheorems, TLAPS

\* The log is used from one context, which is not held for a byte's time between
\* app_uart_put and rp++.  Without the first, log_high finds bytes that stay.
MainOnly == Callers \subseteq {"main"} /\ ~LateCaller

-----------------------------------------------------------------------------
(* The invariant. *)

Positions == {"idle", "check", "copy", "advance", "test", "kick", "used", "ready", "put", "inc"}
Texts == Messages \cup {<<>>}
Demand(c) == Len(call[c].str) + Len(call[c].rest)

\* The calls: only main has something to copy, and what it copies is a message.
FramesOK ==
    /\ call \in [Contexts -> [pc : Positions, str : Texts, rest : Texts, kicks : BOOLEAN]]
    /\ At("high", "idle")
    /\ call["uart"].pc \in {"idle", "used", "ready", "put", "inc"}
    /\ \A c \in Contexts : call[c].kicks => call[c].rest = <<>>

\* The space that was free when it was tested is still free when it is filled.
RoomOK ==
    /\ Used <= BufferLen
    /\ call["main"].pc \in {"copy", "advance"} => Used + Demand("main") <= BufferLen
    /\ \A c \in Contexts : /\ At(c, "check") \/ Demand(c) <= BufferLen
                           /\ At(c, "put") \/ At(c, "inc") => Used > 0
    /\ owed \in 0 .. Used

\* What has been copied stays where wp will find it.
CopiedOK ==
    At("main", "advance") =>
        \A k \in 0 .. Len(call["main"].str) - 1 :
            buffer[(wp + k) % BufferLen] = call["main"].str[k + 1]

Working(c) == call[c].pc \in {"used", "ready", "put", "inc"}

\* The transmission is in one hand: main's, the UART's or its handler's.
HandoverOK ==
    /\ ~(sending /\ txEmpty)
    /\ state = "BUSY" <=> (sending \/ txEmpty \/ Working("main") \/ Working("uart"))
    /\ Sending("main") => /\ At("uart", "idle") /\ ~txEmpty
                          /\ sending <=> At("main", "inc")
    /\ Sending("uart") => (sending \/ txEmpty <=> At("uart", "inc"))

DataOK == /\ wp \in Counters /\ rp \in Counters
          /\ buffer \in [Slots -> Bytes] /\ out \in Bytes

FlagsOK == state \in {"READY", "BUSY"} /\ sending \in BOOLEAN /\ txEmpty \in BOOLEAN

LogInv == DataOK /\ FlagsOK /\ FramesOK /\ RoomOK /\ CopiedOK /\ HandoverOK

-----------------------------------------------------------------------------
(* Division.  The counters wrap at CounterSize, the slots at BufferLen.     *)

LEMMA SizeFacts ==
    /\ BufferLen \in Nat /\ BufferLen > 1 /\ BufferLen \in Nat \ {0}
    /\ CounterSize \in Nat /\ CounterSize > BufferLen /\ CounterSize \in Nat \ {0}
    /\ CounterSize % BufferLen = 0
BY LogAssumption DEF LogAssumption

LEMMA Division ==
    ASSUME NEW n \in Int, NEW m \in Nat \ {0}
    PROVE  n % m \in 0 .. m - 1 /\ \E q \in Int : n = q * m + (n % m)
<1>1. n \div m \in Int /\ n % m \in 0 .. m - 1 /\ n = (n \div m) * m + (n % m)
  OBVIOUS
<1> QED BY <1>1

LEMMA Remainder ==
    ASSUME NEW m \in Nat \ {0}, NEW q \in Int, NEW r \in 0 .. m - 1
    PROVE  (q * m + r) % m = r
OBVIOUS

LEMMA MultipleVanishes ==
    ASSUME NEW n \in Int, NEW m \in Nat \ {0}, NEW q \in Int
    PROVE  (n + q * m) % m = n % m
<1> DEFINE r == n % m
<1>1. PICK d \in Int : n = d * m + (n % m)
  BY Division
<1>2. r \in 0 .. m - 1
  BY Division
<1> HIDE DEF r
<1>3. n = d * m + r
  BY <1>1 DEF r
<1>4. n + q * m = (d + q) * m + r
  BY <1>2, <1>3
<1>5. d + q \in Int
  OBVIOUS
<1>6. ((d + q) * m + r) % m = r
  BY <1>2, <1>5, Remainder
<1> QED BY <1>4, <1>6 DEF r

LEMMA WholeTurns == \E q \in Int : CounterSize = q * BufferLen
<1>1. CounterSize \in Int /\ BufferLen \in Nat \ {0}
  BY SizeFacts
<1>2. PICK q \in Int : CounterSize = q * BufferLen + (CounterSize % BufferLen)
  BY <1>1, Division
<1> QED BY <1>1, <1>2, SizeFacts

\* A counter's slot does not change when the counter wraps.
LEMMA SlotOfWrapped ==
    ASSUME NEW n \in Int
    PROVE  (n % CounterSize) % BufferLen = n % BufferLen
<1> DEFINE r == n % CounterSize
<1>1. PICK q \in Int : CounterSize = q * BufferLen
  BY WholeTurns
<1>2. PICK p \in Int : n = p * CounterSize + (n % CounterSize)
  BY Division, SizeFacts
<1>3. r \in Int
  BY Division, SizeFacts
<1> HIDE DEF r
<1>4. n = p * CounterSize + r
  BY <1>2 DEF r
<1>5. n = r + (p * q) * BufferLen
  BY <1>1, <1>3, <1>4, SizeFacts
<1>6. p * q \in Int
  OBVIOUS
<1>7. (r + (p * q) * BufferLen) % BufferLen = r % BufferLen
  BY <1>3, <1>6, MultipleVanishes, SizeFacts
<1> QED BY <1>5, <1>7 DEF r

LEMMA SlotOfSum ==
    ASSUME NEW n \in Int, NEW k \in Int
    PROVE  ((n % CounterSize) + k) % BufferLen = (n + k) % BufferLen
<1> DEFINE r == n % CounterSize
<1>1. r \in Int
  BY Division, SizeFacts
<1>2. PICK p \in Int : n = p * CounterSize + r
  BY Division, SizeFacts
<1>3. PICK q \in Int : CounterSize = q * BufferLen
  BY WholeTurns
<1> HIDE DEF r
<1>4. n + k = (r + k) + (p * q) * BufferLen
  BY <1>1, <1>2, <1>3, SizeFacts
<1>5. p * q \in Int /\ r + k \in Int
  BY <1>1
<1>6. ((r + k) + (p * q) * BufferLen) % BufferLen = (r + k) % BufferLen
  BY <1>5, MultipleVanishes, SizeFacts
<1> QED BY <1>4, <1>6 DEF r

-----------------------------------------------------------------------------
(* The counters. *)

LEMMA Distance ==
    ASSUME NEW w \in Counters, NEW r \in Counters
    PROVE  /\ (w - r) % CounterSize \in Counters
           /\ (w - r) % CounterSize = IF w >= r THEN w - r ELSE w - r + CounterSize
BY SizeFacts DEF Counters

LEMMA UsedFacts ==
    ASSUME wp \in Counters, rp \in Counters
    PROVE  /\ Used \in Counters
           /\ Used = IF wp >= rp THEN wp - rp ELSE wp - rp + CounterSize
BY Distance DEF Used

LEMMA EmptySpaceIs ==
    ASSUME wp \in Counters, rp \in Counters, Used <= BufferLen
    PROVE  EmptySpace = BufferLen - Used
<1>1. BufferLen + rp - wp \in - CounterSize .. 2 * CounterSize - 1 /\ BufferLen + rp - wp \in Int
  BY SizeFacts DEF Counters
<1> QED BY <1>1, UsedFacts, SizeFacts DEF EmptySpace, Counters

LEMMA Sum ==
    ASSUME NEW w \in Counters, NEW n \in 0 .. CounterSize
    PROVE  /\ (w + n) % CounterSize \in Counters
           /\ (w + n) % CounterSize = IF w + n < CounterSize THEN w + n ELSE w + n - CounterSize
BY SizeFacts DEF Counters

LEMMA WriteAdvances ==
    ASSUME wp \in Counters, rp \in Counters, NEW n \in Nat, Used + n <= BufferLen,
           wp' = (wp + n) % CounterSize, rp' = rp
    PROVE  wp' \in Counters /\ rp' \in Counters /\ Used' = Used + n
<1>1. n \in 0 .. CounterSize /\ n \in Nat
  BY UsedFacts, SizeFacts DEF Counters
<1>2. wp' \in Counters /\ wp' = IF wp + n < CounterSize THEN wp + n ELSE wp + n - CounterSize
  BY <1>1, Sum
<1>3. Used' = IF wp' >= rp THEN wp' - rp ELSE wp' - rp + CounterSize
  BY <1>2, Distance DEF Used
<1> QED BY <1>1, <1>2, <1>3, UsedFacts, SizeFacts DEF Counters

LEMMA ReadAdvances ==
    ASSUME wp \in Counters, rp \in Counters, Used > 0,
           wp' = wp, rp' = (rp + 1) % CounterSize
    PROVE  wp' \in Counters /\ rp' \in Counters /\ Used' = Used - 1
<1>1. 1 \in 0 .. CounterSize
  BY SizeFacts
<1>2. rp' \in Counters /\ rp' = IF rp + 1 < CounterSize THEN rp + 1 ELSE rp + 1 - CounterSize
  BY <1>1, Sum
<1>3. Used' = IF wp >= rp' THEN wp - rp' ELSE wp - rp' + CounterSize
  BY <1>2, Distance DEF Used
<1> QED BY <1>2, <1>3, UsedFacts, SizeFacts DEF Counters

-----------------------------------------------------------------------------
(* Texts and calls. *)

LEMMA TextFacts ==
    /\ <<>> \in Texts /\ <<CR>> \in Texts /\ <<LF>> \in Texts
    /\ \A b \in Chars : <<b>> \in Texts
    /\ \A s \in Strings : s \in Texts
    /\ \A s \in Strings, n \in Nat : n <= Len(s) => SubSeq(s, 1, n) \in Texts
    /\ \A t \in Texts : t \in Seq(Bytes) /\ Len(t) \in Nat
    /\ Len(<<>>) = 0
<1>1. \A s \in Strings : s \in Seq(Bytes)
  <2> SUFFICES ASSUME NEW s \in Strings PROVE s \in Seq(Bytes)
    OBVIOUS
  <2>1. s \in Seq(Range(s)) /\ Range(s) \subseteq Bytes
    BY LogAssumption DEF LogAssumption, Bytes
  <2> QED BY <2>1, SeqMonotonic
<1>2. \A s \in Strings, n \in Nat : n <= Len(s) => SubSeq(s, 1, n) \in Seq(Bytes)
  <2> SUFFICES ASSUME NEW s \in Strings, NEW n \in Nat, n <= Len(s)
               PROVE  SubSeq(s, 1, n) \in Seq(Bytes)
    OBVIOUS
  <2>1. \A i \in 1 .. n : s[i] \in Bytes
    BY <1>1, ElementOfSeq
  <2> QED BY <2>1, SubSeqProperties
<1>3. \A b \in Chars \cup {CR, LF} : <<b>> \in Seq(Bytes)
  BY DEF Bytes
<1>4. \A s \in Strings, n \in Nat : n <= Len(s) => SubSeq(s, 1, n) \in Texts
  <2> SUFFICES ASSUME NEW s \in Strings, NEW n \in Nat, n <= Len(s)
               PROVE  SubSeq(s, 1, n) \in Texts
    OBVIOUS
  <2>1. CASE n = 0
    <3>1. SubSeq(s, 1, n) = <<>>
      BY <2>1, SubSeqEmpty
    <3> QED BY <3>1 DEF Texts
  <2>2. CASE n \in 1 .. Len(s)
    BY <2>2 DEF Texts, Messages
  <2>3. Len(s) \in Nat
    BY <1>1, LenProperties
  <2> QED BY <2>1, <2>2, <2>3
<1>5. \A s \in Strings : s \in Texts
  <2> SUFFICES ASSUME NEW s \in Strings PROVE s \in Texts
    OBVIOUS
  <2>1. Len(s) \in Nat /\ SubSeq(s, 1, Len(s)) = s
    BY <1>1, LenProperties, SubSeqFull
  <2>2. SubSeq(s, 1, Len(s)) \in Texts
    BY <1>4, <2>1
  <2> QED BY <2>1, <2>2
<1>6. \A t \in Texts : t \in Seq(Bytes)
  <2>1. \A m \in Messages : m \in Seq(Bytes)
    <3> SUFFICES ASSUME NEW m \in Messages PROVE m \in Seq(Bytes)
      OBVIOUS
    <3>1. CASE \E b \in Chars \cup {CR, LF} : m = <<b>>
      BY <1>3, <3>1
    <3>2. CASE \E s \in Strings : \E n \in 1 .. Len(s) : m = SubSeq(s, 1, n)
      <4>1. PICK s \in Strings : \E n \in 1 .. Len(s) : m = SubSeq(s, 1, n)
        BY <3>2
      <4>2. Len(s) \in Nat
        BY <1>1, LenProperties
      <4> QED BY <1>2, <4>1, <4>2
    <3> QED BY <3>1, <3>2 DEF Messages
  <2> QED BY <2>1, EmptySeq DEF Texts
<1>7. \A t \in Texts : Len(t) \in Nat
  BY <1>6, LenProperties
<1>8. <<>> \in Texts /\ <<CR>> \in Texts /\ <<LF>> \in Texts /\ \A b \in Chars : <<b>> \in Texts
  BY DEF Texts, Messages
<1> QED BY <1>4, <1>5, <1>6, <1>7, <1>8
LEMMA DemandFacts ==
    ASSUME FramesOK, NEW c \in Contexts
    PROVE  /\ call[c].str \in Seq(Bytes) /\ Len(call[c].str) \in Nat
           /\ call[c].rest \in Seq(Bytes) /\ Len(call[c].rest) \in Nat
           /\ Demand(c) = Len(call[c].str) + Len(call[c].rest) /\ Demand(c) \in Nat
<1>1. call[c].str \in Texts /\ call[c].rest \in Texts
  BY DEF FramesOK
<1>2. Len(call[c].str) \in Nat /\ Len(call[c].rest) \in Nat
  BY <1>1, TextFacts
<1>3. Demand(c) \in Nat
  <2> DEFINE a == Len(call[c].str)
  <2> DEFINE b == Len(call[c].rest)
  <2>1. a \in Nat /\ b \in Nat
    BY <1>2
  <2> HIDE DEF a, b
  <2>2. a + b \in Nat
    BY <2>1
  <2> QED BY <2>2 DEF a, b, Demand
<1> QED BY <1>1, <1>2, <1>3, TextFacts DEF Demand

\* A step of a call moves one frame and leaves the others.
LEMMA GotoFacts ==
    ASSUME FramesOK, NEW c \in {"main", "uart"}, NEW pc \in Positions, Goto(c, pc),
           c = "uart" => pc \in {"idle", "used", "ready", "put", "inc"}
    PROVE  /\ FramesOK' /\ At(c, pc)' /\ Demand(c)' = Demand(c)
           /\ call'[c].str = call[c].str /\ call'[c].rest = call[c].rest
           /\ \A d \in Contexts \ {c} : call'[d] = call[d]
<1>1. [call[c] EXCEPT !.pc = pc] \in
        [pc : Positions, str : Texts, rest : Texts, kicks : BOOLEAN]
  BY DEF FramesOK, Contexts
<1>2. /\ call'[c] = [call[c] EXCEPT !.pc = pc] /\ \A d \in Contexts \ {c} : call'[d] = call[d]
      /\ call' \in [Contexts -> [pc : Positions, str : Texts, rest : Texts, kicks : BOOLEAN]]
  BY <1>1 DEF Goto, FramesOK, Contexts
<1>3. /\ call'[c].pc = pc /\ call'[c].str = call[c].str /\ call'[c].rest = call[c].rest
      /\ call'[c].kicks = call[c].kicks
  BY <1>2 DEF FramesOK, Contexts
<1>4. FramesOK'
  BY <1>2, <1>3 DEF FramesOK, At, Contexts
<1> QED BY <1>2, <1>3, <1>4 DEF At, Demand

LEMMA ReturnFacts ==
    ASSUME FramesOK, NEW c \in {"main", "uart"}, Return(c)
    PROVE  /\ FramesOK' /\ At(c, "idle")' /\ Demand(c)' = 0
           /\ \A d \in Contexts \ {c} : call'[d] = call[d]
<1>1. Idle \in [pc : Positions, str : Texts, rest : Texts, kicks : BOOLEAN] /\ Idle.pc = "idle"
  BY TextFacts DEF Idle, Positions
<1>2. /\ call'[c] = Idle /\ \A d \in Contexts \ {c} : call'[d] = call[d]
      /\ call' \in [Contexts -> [pc : Positions, str : Texts, rest : Texts, kicks : BOOLEAN]]
  BY <1>1 DEF Return, FramesOK, Contexts
<1>3. FramesOK'
  BY <1>1, <1>2 DEF FramesOK, At, Contexts, Idle
<1> QED BY <1>1, <1>2, <1>3, TextFacts DEF At, Demand, Idle
-----------------------------------------------------------------------------
(* The invariant holds initially and is preserved by every action. *)

LEMMA InitLogInv == Init => LogInv
<1> SUFFICES ASSUME Init PROVE LogInv
  OBVIOUS
<1>1. wp \in Counters /\ rp \in Counters /\ Used = 2
  <2>1. wp \in Counters /\ rp \in Counters
    BY SizeFacts DEF Init, Counters
  <2> QED BY <2>1, UsedFacts DEF Init
<1>2. DataOK
  BY <1>1 DEF Init, DataOK, Bytes
<1>3. FlagsOK
  BY Zenon DEF Init, FlagsOK
<1>4. call = [c \in Contexts |-> Idle] /\ owed = 0 /\ state = "READY"
  BY DEF Init
<1>5. FramesOK
  BY <1>4, TextFacts DEF FramesOK, Idle, Contexts, At, Positions
<1>6. RoomOK
  BY <1>1, <1>4, SizeFacts, TextFacts DEF RoomOK, Idle, Contexts, At, Demand
<1>7. CopiedOK
  BY <1>4 DEF CopiedOK, Idle, Contexts, At
<1>8. ~sending /\ ~txEmpty
  BY Zenon DEF Init
<1>9. HandoverOK
  BY <1>4, <1>8 DEF HandoverOK, Idle, Contexts, At, Working, Sending
<1> QED BY <1>2, <1>3, <1>5, <1>6, <1>7, <1>9 DEF LogInv

\* Calls that touch neither the transmission nor the buffer: what is left to show.
LEMMA QuietStep ==
    ASSUME LogInv, UNCHANGED <<state, uart>>, call'["uart"] = call["uart"], FramesOK',
           ~Sending("main"), ~Sending("main")'
    PROVE  FlagsOK' /\ HandoverOK' /\ out' = out
<1>1. UNCHANGED <<state, sending, txEmpty, out>>
  BY DEF uart
<1>2. FlagsOK'
  BY <1>1, Zenon DEF LogInv, FlagsOK
<1>3. HandoverOK'
  BY <1>1 DEF LogInv, HandoverOK, Sending, Working, At
<1> QED BY <1>1, <1>2, <1>3

LEMMA BeginStep ==
    ASSUME LogInv, NEW s \in Texts, NEW r \in Texts, NEW k \in BOOLEAN, k => r = <<>>,
           Begin("main", Call("check", s, r, k))
    PROVE  LogInv'
<1> DEFINE f == Call("check", s, r, k)
<1>1. /\ f \in [pc : Positions, str : Texts, rest : Texts, kicks : BOOLEAN]
      /\ f.pc = "check" /\ f.kicks = k /\ f.rest = r
  BY DEF Call, Positions
<1>2. call' = [call EXCEPT !["main"] = f] /\ UNCHANGED <<wp, rp, buffer, state, uart, owed>>
  BY DEF Begin
<1>3. At("main", "idle")
  BY DEF Begin
<1> HIDE DEF f
<1>4. call'["main"] = f /\ call'["uart"] = call["uart"] /\ call'["high"] = call["high"]
  BY <1>2 DEF LogInv, FramesOK, Contexts
<1>5. FramesOK'
  BY <1>1, <1>2, <1>4 DEF LogInv, FramesOK, Contexts, At
<1>6. FlagsOK' /\ HandoverOK' /\ out' = out
  BY <1>1, <1>2, <1>3, <1>4, <1>5, QuietStep DEF Sending, At
<1>7. DataOK' /\ CopiedOK'
  BY <1>1, <1>2, <1>4, <1>6 DEF LogInv, DataOK, CopiedOK, At
<1>8. RoomOK'
  BY <1>1, <1>2, <1>4 DEF LogInv, RoomOK, At, Contexts, Used, Demand
<1> QED BY <1>5, <1>6, <1>7, <1>8 DEF LogInv
\* A step of main before it has a hand in the transmission, but for the buffer.
LEMMA MainPlace ==
    ASSUME LogInv, NEW c \in Contexts, Step(c)
    PROVE  /\ c \in {"main", "uart"}
           /\ call[c].pc \in {"check", "copy", "advance", "test", "kick"} => c = "main"
           /\ c = "main" => At("uart", "idle") /\ ~txEmpty
BY DEF LogInv, FramesOK, Contexts, Step, CanRun, At

LEMMA CheckStep ==
    ASSUME LogInv, At("main", "check"), Check("main")
    PROVE  LogInv'
<1>1. UNCHANGED <<wp, rp, buffer, state, uart, owed>>
  BY DEF Check
<1>2. EmptySpace = BufferLen - Used /\ Used \in Nat
  BY EmptySpaceIs, UsedFacts DEF LogInv, DataOK, RoomOK, Counters
<1>4. Demand("main") \in Nat
  BY DemandFacts DEF LogInv, Contexts
<1>5. CASE EmptySpace < Demand("main")
  <2>1. Return("main")
    BY <1>5 DEF Check, Demand
  <2>2. /\ FramesOK' /\ At("main", "idle")' /\ Demand("main")' = 0
        /\ call'["uart"] = call["uart"] /\ call'["high"] = call["high"]
    BY <2>1, ReturnFacts DEF LogInv, Contexts
  <2>3. FlagsOK' /\ HandoverOK' /\ out' = out
    BY <1>1, <2>2, QuietStep DEF Sending, At
  <2>4. DataOK' /\ CopiedOK'
    BY <1>1, <2>2, <2>3 DEF LogInv, DataOK, CopiedOK, At
  <2>5. RoomOK'
    <3>1. Demand("uart")' = Demand("uart") /\ Demand("high")' = Demand("high") /\ Used' = Used
      BY <1>1, <2>2 DEF Demand, Used
    <3> QED BY <1>1, <2>2, <3>1, SizeFacts DEF LogInv, RoomOK, At, Contexts
  <2> QED BY <2>2, <2>3, <2>4, <2>5 DEF LogInv
<1>6. CASE ~(EmptySpace < Demand("main"))
  <2>1. Goto("main", "copy")
    BY <1>6 DEF Check, Demand
  <2>2. /\ FramesOK' /\ At("main", "copy")' /\ Demand("main")' = Demand("main")
        /\ call'["uart"] = call["uart"] /\ call'["high"] = call["high"]
    BY <2>1, GotoFacts DEF LogInv, Contexts, Positions
  <2>3. FlagsOK' /\ HandoverOK' /\ out' = out
    BY <1>1, <2>2, QuietStep DEF Sending, At
  <2>4. DataOK' /\ CopiedOK'
    BY <1>1, <2>2, <2>3 DEF LogInv, DataOK, CopiedOK, At
  <2>5. Used + Demand("main") <= BufferLen
    BY <1>2, <1>4, <1>6, SizeFacts
  <2>6. Demand("uart")' = Demand("uart") /\ Demand("high")' = Demand("high") /\ Used' = Used
    BY <1>1, <2>2 DEF Demand, Used
  <2>7. Demand("main") <= BufferLen
    BY <1>2, <1>4, <2>5, SizeFacts
  <2>8. RoomOK'
    BY <1>1, <2>2, <2>5, <2>6, <2>7 DEF LogInv, RoomOK, At, Contexts
  <2> QED BY <2>2, <2>3, <2>4, <2>8 DEF LogInv
<1> QED BY <1>5, <1>6

\* The slot of the k-th byte copied is the k-th after wp.
LEMMA CopiedSlot ==
    ASSUME wp \in Counters, NEW k \in 0 .. BufferLen - 1
    PROVE  /\ (wp + k) % BufferLen \in Slots
           /\ (((wp + k) % BufferLen) - WP) % BufferLen = k
<1> DEFINE i == (wp + k) % BufferLen
<1>1. wp + k \in Int /\ wp \in Int /\ k \in Int
  BY SizeFacts DEF Counters
<1>2. PICK p \in Int : wp + k = p * BufferLen + i
  BY <1>1, Division, SizeFacts
<1>3. PICK q \in Int : wp = q * BufferLen + WP
  BY <1>1, Division, SizeFacts DEF WP
<1>4. i \in 0 .. BufferLen - 1 /\ WP \in 0 .. BufferLen - 1
  BY <1>1, Division, SizeFacts DEF WP
<1> HIDE DEF i
<1>5. i - WP = k + (q - p) * BufferLen
  BY <1>1, <1>2, <1>3, <1>4, SizeFacts
<1>6. q - p \in Int
  OBVIOUS
<1>7. (k + (q - p) * BufferLen) % BufferLen = k % BufferLen
  BY <1>1, <1>6, MultipleVanishes, SizeFacts
<1>8. k % BufferLen = k
  BY SizeFacts
<1> QED BY <1>4, <1>5, <1>7, <1>8 DEF i, Slots

LEMMA CopyStep ==
    ASSUME LogInv, At("main", "copy"), Copy("main")
    PROVE  LogInv'
<1> DEFINE str == call["main"].str
<1>1. UNCHANGED <<wp, rp, state, uart, owed>> /\ Goto("main", "advance")
  BY DEF Copy
<1>2. /\ FramesOK' /\ At("main", "advance")' /\ Demand("main")' = Demand("main")
      /\ call'["main"].str = str
      /\ call'["uart"] = call["uart"] /\ call'["high"] = call["high"]
  BY <1>1, GotoFacts DEF LogInv, Contexts, Positions
<1>3. FlagsOK' /\ HandoverOK' /\ out' = out
  BY <1>1, <1>2, QuietStep DEF Sending, At
<1>4. /\ str \in Seq(Bytes) /\ Len(str) \in Nat /\ Len(call["main"].rest) \in Nat
      /\ Demand("main") = Len(str) + Len(call["main"].rest)
  BY DemandFacts DEF LogInv, Contexts
<1>5. RoomOK'
  <2>1. Demand("uart")' = Demand("uart") /\ Demand("high")' = Demand("high") /\ Used' = Used
    BY <1>1, <1>2 DEF Demand, Used
  <2> QED BY <1>1, <1>2, <2>1 DEF LogInv, RoomOK, At, Contexts
<1>6. Len(str) <= BufferLen
  <2>1. Demand("main") <= BufferLen
    BY DEF LogInv, RoomOK, At, Contexts
  <2> HIDE DEF str
  <2> QED BY <1>4, <2>1, SizeFacts
<1>7. wp \in Int /\ \A i \in Slots : (i - WP) % BufferLen \in 0 .. BufferLen - 1
  <2>1. wp \in Int
    BY SizeFacts DEF LogInv, DataOK, Counters
  <2>2. WP \in Int
    BY <2>1, Division, SizeFacts DEF WP
  <2> QED BY <2>1, <2>2, Division, SizeFacts DEF Slots
<1>8. buffer' \in [Slots -> Bytes]
  <2>1. \A i \in Slots : buffer[i] \in Bytes
    BY DEF LogInv, DataOK
  <2>2. \A k \in 0 .. BufferLen - 1 : k < Len(str) => str[k + 1] \in Bytes
    BY <1>4, ElementOfSeq, SizeFacts
  <2> QED BY <1>7, <2>1, <2>2 DEF Copy
<1>9. DataOK'
  BY <1>1, <1>3, <1>8 DEF LogInv, DataOK
<1>10. CopiedOK'
  <2> SUFFICES ASSUME NEW k \in 0 .. Len(str) - 1
               PROVE  buffer'[(wp + k) % BufferLen] = str[k + 1]
    BY <1>1, <1>2 DEF CopiedOK
  <2>1. k \in 0 .. BufferLen - 1 /\ k < Len(str)
    BY <1>4, <1>6, SizeFacts
  <2> DEFINE i == (wp + k) % BufferLen
  <2>2. i \in Slots /\ (i - WP) % BufferLen = k
    BY <2>1, CopiedSlot DEF LogInv, DataOK
  <2> HIDE DEF i
  <2>3. buffer'[i] = str[k + 1]
    BY <2>1, <2>2 DEF Copy
  <2> QED BY <2>3 DEF i
<1> QED BY <1>2, <1>3, <1>5, <1>9, <1>10 DEF LogInv
LEMMA AdvanceStep ==
    ASSUME LogInv, At("main", "advance"), Advance("main")
    PROVE  LogInv'
<1> DEFINE n == Len(call["main"].str)
<1>1. UNCHANGED <<rp, buffer, state, uart>> /\ wp' = (wp + n) % CounterSize
  BY DEF Advance
<1>2. /\ n \in Nat /\ Len(call["main"].rest) \in Nat
      /\ Demand("main") = n + Len(call["main"].rest)
  BY DemandFacts DEF LogInv, Contexts
<1>3. Used + Demand("main") <= BufferLen /\ Used \in Nat
  BY UsedFacts DEF LogInv, DataOK, RoomOK, At, Counters
<1>4. owed' = IF call["main"].kicks THEN Used + n ELSE owed
  BY DEF Advance
<1> HIDE DEF n
<1>5. Used + n <= BufferLen
  BY <1>2, <1>3, SizeFacts
<1>6. wp' \in Counters /\ rp' \in Counters /\ Used' = Used + n
  BY <1>1, <1>2, <1>5, WriteAdvances DEF LogInv, DataOK
<1>7. owed' \in 0 .. Used'
  BY <1>2, <1>3, <1>4, <1>6 DEF LogInv, RoomOK
<1>8. \/ Goto("main", "test") \/ Return("main")
      \/ /\ call' = [call EXCEPT !["main"] = Call("copy", call["main"].rest, <<>>, FALSE)]
         /\ call["main"].rest # <<>>
  BY DEF Advance
<1>9. /\ FramesOK' /\ call'["uart"] = call["uart"] /\ call'["high"] = call["high"]
      /\ call'["main"].pc \in {"test", "idle", "copy"}
      /\ Demand("main")' <= BufferLen
      /\ At("main", "copy")' => Used' + Demand("main")' <= BufferLen
  <2>1. Demand("main") <= BufferLen
    BY <1>2, <1>3, SizeFacts
  <2>2. CASE Goto("main", "test")
    BY <2>1, <2>2, GotoFacts DEF LogInv, Contexts, Positions, At
  <2>3. CASE Return("main")
    BY <2>3, ReturnFacts, SizeFacts DEF LogInv, Contexts, At
  <2>4. CASE call' = [call EXCEPT !["main"] = Call("copy", call["main"].rest, <<>>, FALSE)]
    <3> DEFINE f == Call("copy", call["main"].rest, <<>>, FALSE)
    <3>1. /\ f \in [pc : Positions, str : Texts, rest : Texts, kicks : BOOLEAN]
          /\ f.pc = "copy" /\ ~f.kicks /\ f.str = call["main"].rest /\ f.rest = <<>>
      BY TextFacts DEF Call, Positions, LogInv, FramesOK, Contexts
    <3> HIDE DEF f
    <3>2. call'["main"] = f /\ call'["uart"] = call["uart"] /\ call'["high"] = call["high"]
      BY <2>4 DEF LogInv, FramesOK, Contexts, f
    <3>3. FramesOK'
      BY <2>4, <3>1, <3>2 DEF LogInv, FramesOK, Contexts, At, f
    <3>4. Demand("main")' = Len(call["main"].rest) + 0
      BY <3>1, <3>2, TextFacts DEF Demand
    <3>5. Used' + Demand("main")' <= BufferLen
      BY <1>2, <1>3, <1>6, <3>4, SizeFacts
    <3>6. Demand("main")' <= BufferLen
      BY <1>2, <2>1, <3>4, SizeFacts
    <3> QED BY <3>1, <3>2, <3>3, <3>5, <3>6
  <2> QED BY <1>8, <2>2, <2>3, <2>4
<1>10. RoomOK'
  <2>1. Demand("uart")' = Demand("uart") /\ Demand("high")' = Demand("high")
    BY <1>9 DEF Demand
  <2>2. Used' <= BufferLen
    BY <1>5, <1>6
  <2>3. \A c \in Contexts : (At(c, "put") \/ At(c, "inc"))' => Used' > 0
    <3>1. \A c \in {"uart", "high"} : (At(c, "put") \/ At(c, "inc"))' => At(c, "put") \/ At(c, "inc")
      BY <1>9 DEF At
    <3>2. ~(At("main", "put") \/ At("main", "inc"))'
      BY <1>9 DEF At
    <3> QED BY <1>2, <1>3, <1>6, <3>1, <3>2 DEF LogInv, RoomOK, Contexts
  <2> QED BY <1>7, <1>9, <2>1, <2>2, <2>3 DEF LogInv, RoomOK, At, Contexts
<1>11. FlagsOK' /\ HandoverOK' /\ out' = out
  BY <1>1, <1>9, QuietStep DEF Sending, At
<1>12. DataOK' /\ CopiedOK'
  BY <1>1, <1>6, <1>9, <1>11 DEF LogInv, DataOK, CopiedOK, At
<1> QED BY <1>9, <1>10, <1>11, <1>12 DEF LogInv
\* The steps of the transmission leave what is queued alone.
LEMMA SendingGoto ==
    ASSUME LogInv, NEW c \in {"main", "uart"}, ~At(c, "check"),
           NEW pc \in {"kick", "used", "ready", "put", "inc"}, Goto(c, pc),
           c = "uart" => pc # "kick", pc \in {"put", "inc"} => Used > 0,
           UNCHANGED <<wp, rp, buffer, owed>>, out' \in Bytes
    PROVE  /\ DataOK' /\ FramesOK' /\ RoomOK' /\ CopiedOK' /\ call'[c].pc = pc
           /\ \A d \in Contexts \ {c} : call'[d] = call[d]
<1>1. /\ FramesOK' /\ call'[c].pc = pc /\ Demand(c)' = Demand(c)
      /\ \A d \in Contexts \ {c} : call'[d] = call[d]
  BY GotoFacts DEF LogInv, Positions, At
<1>2. Used' = Used /\ \A d \in Contexts \ {c} : Demand(d)' = Demand(d)
  BY <1>1 DEF Used, Demand
<1>3. RoomOK'
  BY <1>1, <1>2 DEF LogInv, RoomOK, At, Contexts
<1>4. DataOK' /\ CopiedOK'
  BY <1>1 DEF LogInv, DataOK, CopiedOK, At, Contexts
<1> QED BY <1>1, <1>3, <1>4

LEMMA SendingReturn ==
    ASSUME LogInv, NEW c \in {"main", "uart"}, Return(c),
           UNCHANGED <<wp, rp, buffer, owed, out>>
    PROVE  /\ DataOK' /\ FramesOK' /\ RoomOK' /\ CopiedOK' /\ call'[c].pc = "idle"
           /\ \A d \in Contexts \ {c} : call'[d] = call[d]
<1>1. /\ FramesOK' /\ call'[c].pc = "idle" /\ Demand(c)' = 0
      /\ \A d \in Contexts \ {c} : call'[d] = call[d]
  BY ReturnFacts DEF LogInv, At
<1>2. Used' = Used /\ \A d \in Contexts \ {c} : Demand(d)' = Demand(d)
  BY <1>1 DEF Used, Demand
<1>3. RoomOK'
  BY <1>1, <1>2, SizeFacts DEF LogInv, RoomOK, At, Contexts
<1>4. DataOK' /\ CopiedOK'
  BY <1>1 DEF LogInv, DataOK, CopiedOK, At, Contexts
<1> QED BY <1>1, <1>3, <1>4

\* main finds READY, and so nobody else at it.
LEMMA TestStep ==
    ASSUME LogInv, At("main", "test"), At("uart", "idle"), ~txEmpty, Test("main")
    PROVE  LogInv'
<1>1. UNCHANGED <<wp, rp, buffer, state, uart, owed>>
  BY DEF Test
<1>2. CASE state = "READY"
  <2>1. Goto("main", "kick")
    BY <1>2 DEF Test
  <2>2. out' \in Bytes
    BY <1>1 DEF LogInv, DataOK, uart
  <2>3. /\ DataOK' /\ FramesOK' /\ RoomOK' /\ CopiedOK' /\ call'["main"].pc = "kick"
        /\ call'["uart"] = call["uart"]
    BY <1>1, <2>1, <2>2, SendingGoto DEF At, Contexts
  <2>4. FlagsOK'
    BY <1>1, Zenon DEF LogInv, FlagsOK, uart
  <2>5. HandoverOK'
    BY <1>1, <1>2, <2>3 DEF LogInv, HandoverOK, Sending, Working, At, uart
  <2> QED BY <2>3, <2>4, <2>5 DEF LogInv
<1>3. CASE state # "READY"
  <2>1. Return("main")
    BY <1>3 DEF Test
  <2>2. /\ DataOK' /\ FramesOK' /\ RoomOK' /\ CopiedOK' /\ call'["main"].pc = "idle"
        /\ call'["uart"] = call["uart"]
    BY <1>1, <2>1, SendingReturn DEF Contexts, uart
  <2>3. FlagsOK' /\ HandoverOK'
    BY <1>1, <2>2, QuietStep DEF Sending, At
  <2> QED BY <2>2, <2>3 DEF LogInv
<1> QED BY <1>2, <1>3

LEMMA KickStep ==
    ASSUME LogInv, At("main", "kick"), Kick("main")
    PROVE  LogInv'
<1>1. UNCHANGED <<wp, rp, buffer, uart, owed>> /\ state' = "BUSY" /\ Goto("main", "used")
  BY DEF Kick
<1>2. out' \in Bytes
  BY <1>1 DEF LogInv, DataOK, uart
<1>3. /\ DataOK' /\ FramesOK' /\ RoomOK' /\ CopiedOK' /\ call'["main"].pc = "used"
      /\ call'["uart"] = call["uart"]
  BY <1>1, <1>2, SendingGoto DEF At, Contexts
<1>4. FlagsOK'
  BY <1>1, Zenon DEF LogInv, FlagsOK, uart
<1>5. HandoverOK'
  BY <1>1, <1>3 DEF LogInv, HandoverOK, Sending, Working, At, uart
<1> QED BY <1>3, <1>4, <1>5 DEF LogInv

LEMMA TestUsedStep ==
    ASSUME LogInv, NEW c \in {"main", "uart"}, At(c, "used"), TestUsed(c)
    PROVE  LogInv'
<1> DEFINE pc == IF Used = 0 THEN "ready" ELSE "put"
<1>1. UNCHANGED <<wp, rp, buffer, state, uart, owed>> /\ Goto(c, pc)
  BY DEF TestUsed
<1>2. pc \in {"ready", "put"} /\ (pc = "put" => Used > 0)
  BY UsedFacts DEF LogInv, DataOK, Counters
<1> HIDE DEF pc
<1>3. out' \in Bytes
  BY <1>1 DEF LogInv, DataOK, uart
<1>4. /\ DataOK' /\ FramesOK' /\ RoomOK' /\ CopiedOK' /\ call'[c].pc = pc
      /\ \A d \in Contexts \ {c} : call'[d] = call[d]
  BY <1>1, <1>2, <1>3, SendingGoto DEF At
<1>5. FlagsOK'
  BY <1>1, Zenon DEF LogInv, FlagsOK, uart
<1>6. HandoverOK'
  BY <1>1, <1>2, <1>4 DEF LogInv, HandoverOK, Sending, Working, At, uart, Contexts
<1> QED BY <1>4, <1>5, <1>6 DEF LogInv

LEMMA SetReadyStep ==
    ASSUME LogInv, NEW c \in {"main", "uart"}, At(c, "ready"), SetReady(c)
    PROVE  LogInv'
<1>1. UNCHANGED <<wp, rp, buffer, uart, owed>> /\ Return(c) /\ state' = "READY"
  BY DEF SetReady
<1>2. /\ DataOK' /\ FramesOK' /\ RoomOK' /\ CopiedOK' /\ call'[c].pc = "idle"
      /\ \A d \in Contexts \ {c} : call'[d] = call[d]
  BY <1>1, SendingReturn DEF uart
<1>3. FlagsOK'
  BY <1>1, Zenon DEF LogInv, FlagsOK, uart
<1>4. HandoverOK'
  BY <1>1, <1>2 DEF LogInv, FramesOK, HandoverOK, Sending, Working, At, uart, Contexts
<1> QED BY <1>2, <1>3, <1>4 DEF LogInv
LEMMA PutByteStep ==
    ASSUME LogInv, NEW c \in {"main", "uart"}, At(c, "put"), PutByte(c)
    PROVE  LogInv'
<1>1. UNCHANGED <<wp, rp, buffer, state, txEmpty, owed>> /\ Goto(c, "inc") /\ out' = buffer[RP]
  BY DEF PutByte
<1>2. RP \in Slots
  <2>1. rp \in Int
    BY SizeFacts DEF LogInv, DataOK, Counters
  <2> QED BY <2>1, Division, SizeFacts DEF RP, Slots
<1>3. out' \in Bytes /\ Used > 0
  BY <1>1, <1>2 DEF LogInv, DataOK, RoomOK, Contexts
<1>4. /\ DataOK' /\ FramesOK' /\ RoomOK' /\ CopiedOK' /\ call'[c].pc = "inc"
      /\ \A d \in Contexts \ {c} : call'[d] = call[d]
  BY <1>1, <1>3, SendingGoto DEF At
<1>5. sending'
  BY Zenon DEF PutByte
<1>6. FlagsOK'
  BY <1>1, Zenon DEF LogInv, FlagsOK, PutByte
<1>7. ~txEmpty
  BY DEF LogInv, HandoverOK, Sending, At
<1>8. HandoverOK'
  BY <1>1, <1>4, <1>5, <1>7 DEF LogInv, FramesOK, HandoverOK, Sending, Working, At, Contexts
<1> QED BY <1>4, <1>6, <1>8 DEF LogInv

LEMMA IncStep ==
    ASSUME LogInv, NEW c \in {"main", "uart"}, At(c, "inc"), Inc(c)
    PROVE  LogInv'
<1>1. UNCHANGED <<wp, buffer, state, uart>> /\ rp' = (rp + 1) % CounterSize /\ Return(c)
  BY DEF Inc
<1>2. Used > 0 /\ Used \in Nat
  BY UsedFacts DEF LogInv, DataOK, RoomOK, Contexts, Counters
<1>3. wp' \in Counters /\ rp' \in Counters /\ Used' = Used - 1
  BY <1>1, <1>2, ReadAdvances DEF LogInv, DataOK
<1>4. /\ FramesOK' /\ call'[c].pc = "idle" /\ Demand(c)' = 0
      /\ \A d \in Contexts \ {c} : call'[d] = call[d]
  BY <1>1, ReturnFacts DEF LogInv, At
<1>5. \A d \in Contexts \ {c} : ~(At(d, "put") \/ At(d, "inc"))
  BY DEF LogInv, FramesOK, HandoverOK, Sending, Working, At, Contexts
<1>6. RoomOK'
  <2>1. \A d \in Contexts \ {c} : Demand(d)' = Demand(d)
    BY <1>4 DEF Demand
  <2>2. owed' \in 0 .. Used'
    BY <1>2, <1>3 DEF LogInv, RoomOK, Inc
  <2>3. Used' <= BufferLen
    BY <1>2, <1>3, SizeFacts DEF LogInv, RoomOK
  <2>4. call'["main"].pc \in {"copy", "advance"} => Used' + Demand("main")' <= BufferLen
    <3>1. Demand("main") \in Nat
      BY DemandFacts DEF LogInv, Contexts
    <3> QED BY <1>2, <1>3, <1>4, <2>1, <3>1, SizeFacts DEF LogInv, RoomOK, Contexts
  <2>5. \A d \in Contexts : (At(d, "check") \/ Demand(d) <= BufferLen)'
    BY <1>4, <2>1, SizeFacts DEF LogInv, RoomOK, At
  <2>6. \A d \in Contexts : ~(At(d, "put") \/ At(d, "inc"))'
    BY <1>4, <1>5 DEF At
  <2> QED BY <2>2, <2>3, <2>4, <2>5, <2>6 DEF RoomOK
<1>7. DataOK' /\ CopiedOK'
  BY <1>1, <1>3, <1>4 DEF LogInv, DataOK, CopiedOK, At, Contexts, uart
<1>8. FlagsOK'
  BY <1>1, Zenon DEF LogInv, FlagsOK, uart
<1>9. HandoverOK'
  BY <1>1, <1>4 DEF LogInv, FramesOK, HandoverOK, Sending, Working, At, Contexts, uart
<1> QED BY <1>4, <1>6, <1>7, <1>8, <1>9 DEF LogInv

LEMMA UartIrqStep ==
    ASSUME LogInv, UartIrq
    PROVE  LogInv'
<1>1. UNCHANGED <<wp, rp, buffer, state, sending, out, owed>> /\ Goto("uart", "used")
  BY DEF UartIrq
<1>2. At("uart", "idle") /\ txEmpty
  BY DEF UartIrq
<1>3. ~txEmpty'
  BY Zenon DEF UartIrq
<1>4. out' \in Bytes
  BY <1>1 DEF LogInv, DataOK
<1>5. /\ DataOK' /\ FramesOK' /\ RoomOK' /\ CopiedOK' /\ call'["uart"].pc = "used"
      /\ call'["main"] = call["main"]
  BY <1>1, <1>2, <1>4, SendingGoto DEF At, Contexts
<1>6. FlagsOK'
  BY <1>1, Zenon DEF LogInv, FlagsOK, UartIrq
<1>7. HandoverOK'
  BY <1>1, <1>2, <1>3, <1>5 DEF LogInv, FramesOK, HandoverOK, Sending, Working, At, Contexts
<1> QED BY <1>5, <1>6, <1>7 DEF LogInv

\* A byte ends while nobody of main's waits for it: main is not held at rp++.
LEMMA ByteSentStep ==
    ASSUME MainOnly, LogInv, ByteSent
    PROVE  LogInv'
<1>1. UNCHANGED <<wp, rp, buffer, state, call, out, owed>>
  BY DEF ByteSent
<1>2. sending /\ ~At("main", "inc")
  BY DEF ByteSent, MainOnly
<1>3. ~sending' /\ txEmpty'
  BY Zenon DEF ByteSent
<1>4. DataOK' /\ FramesOK' /\ RoomOK' /\ CopiedOK'
  BY <1>1 DEF LogInv, DataOK, FramesOK, RoomOK, CopiedOK, At, Used, Demand
<1>5. FlagsOK'
  BY <1>1, Zenon DEF LogInv, FlagsOK, ByteSent
<1>6. HandoverOK'
  BY <1>1, <1>2, <1>3 DEF LogInv, FramesOK, HandoverOK, Sending, Working, At, Contexts
<1> QED BY <1>4, <1>5, <1>6 DEF LogInv
LEMMA CallStep ==
    ASSUME MainOnly, LogInv, NEW c \in Contexts,
           log_string(c) \/ log_printf(c) \/ log_char(c) \/ log_newline(c)
    PROVE  \E s \in Texts, r \in Texts, k \in BOOLEAN :
               (k => r = <<>>) /\ c = "main" /\ Begin("main", Call("check", s, r, k))
<1>1. c = "main"
  BY DEF MainOnly, log_string, log_printf, log_char, log_newline, Begin
<1>2. CASE log_string(c)
  BY <1>1, <1>2, TextFacts DEF log_string
<1>3. CASE log_printf(c)
  <2>1. PICK s \in Strings :
            IF EmptySpace = 0
            THEN Begin(c, Call("check", s, <<>>, TRUE))
            ELSE LET cut == IF Len(s) < EmptySpace THEN Len(s) ELSE EmptySpace - 1
                 IN  Begin(c, Call("check", SubSeq(s, 1, cut), <<>>, TRUE))
    BY <1>3 DEF log_printf
  <2>2. EmptySpace \in Nat /\ Len(s) \in Nat /\ s \in Texts
    <3>1. EmptySpace = BufferLen - Used /\ Used \in Nat /\ Used <= BufferLen
      BY EmptySpaceIs, UsedFacts DEF LogInv, DataOK, RoomOK, Counters
    <3>2. Len(s) \in Nat /\ s \in Texts
      BY TextFacts
    <3> QED BY <3>1, <3>2, SizeFacts
  <2>3. CASE EmptySpace = 0
    BY <1>1, <2>1, <2>2, <2>3, TextFacts
  <2>4. CASE EmptySpace # 0
    <3> DEFINE cut == IF Len(s) < EmptySpace THEN Len(s) ELSE EmptySpace - 1
    <3>1. cut \in Nat /\ cut <= Len(s)
      BY <2>2, <2>4
    <3>2. Begin(c, Call("check", SubSeq(s, 1, cut), <<>>, TRUE))
      BY <2>1, <2>4
    <3> HIDE DEF cut
    <3>3. SubSeq(s, 1, cut) \in Texts
      BY <3>1, TextFacts
    <3> QED BY <1>1, <3>2, <3>3, TextFacts
  <2> QED BY <2>3, <2>4
<1>4. CASE log_char(c)
  BY <1>1, <1>4, TextFacts DEF log_char
<1>5. CASE log_newline(c)
  BY <1>1, <1>5, TextFacts DEF log_newline
<1> QED BY <1>2, <1>3, <1>4, <1>5

LEMMA NextLogInv == ASSUME MainOnly, LogInv, [Next]_vars PROVE LogInv'
<1>1. ASSUME NEW c \in Contexts,
             log_string(c) \/ log_printf(c) \/ log_char(c) \/ log_newline(c)
      PROVE  LogInv'
  <2>1. PICK s \in Texts, r \in Texts, k \in BOOLEAN :
            (k => r = <<>>) /\ Begin("main", Call("check", s, r, k))
    BY <1>1, CallStep
  <2> QED BY <2>1, BeginStep
<1>2. ASSUME NEW c \in Contexts, Step(c)
      PROVE  LogInv'
  <2>1. /\ c \in {"main", "uart"}
        /\ call[c].pc \in {"check", "copy", "advance", "test", "kick"} => c = "main"
        /\ c = "main" => At("uart", "idle") /\ ~txEmpty
    BY <1>2, MainPlace
  <2>2. CASE At(c, "check") /\ Check(c)
    BY <2>1, <2>2, CheckStep DEF At
  <2>3. CASE At(c, "copy") /\ Copy(c)
    BY <2>1, <2>3, CopyStep DEF At
  <2>4. CASE At(c, "advance") /\ Advance(c)
    BY <2>1, <2>4, AdvanceStep DEF At
  <2>5. CASE At(c, "test") /\ Test(c)
    BY <2>1, <2>5, TestStep DEF At
  <2>6. CASE At(c, "kick") /\ Kick(c)
    BY <2>1, <2>6, KickStep DEF At
  <2>7. CASE At(c, "used") /\ TestUsed(c)
    BY <2>1, <2>7, TestUsedStep
  <2>8. CASE At(c, "ready") /\ SetReady(c)
    BY <2>1, <2>8, SetReadyStep
  <2>9. CASE At(c, "put") /\ PutByte(c)
    BY <2>1, <2>9, PutByteStep
  <2>10. CASE At(c, "inc") /\ Inc(c)
    BY <2>1, <2>10, IncStep
  <2> QED BY <1>2, <2>2, <2>3, <2>4, <2>5, <2>6, <2>7, <2>8, <2>9, <2>10 DEF Step
<1>3. CASE UNCHANGED vars
  <2>1. FlagsOK'
    BY <1>3, Zenon DEF vars, LogInv, FlagsOK
  <2> QED BY <1>3, <2>1 DEF vars, LogInv, DataOK, FramesOK, RoomOK, CopiedOK, HandoverOK,
                            At, Used, Demand, Sending, Working
<1> QED BY <1>1, <1>2, <1>3, UartIrqStep, ByteSentStep DEF Next

-----------------------------------------------------------------------------
(* The invariants of the runs. *)

\* With one context logging, the ring buffer and its counters keep their types,
\* what log_string() is owed is in the buffer, and a call that has passed the
\* test of the free space holds no more than the buffer does.
THEOREM LogTypeCorrect == ASSUME MainOnly PROVE Spec => []TypeOK
<1>1. LogInv /\ [Next]_vars => LogInv'
  BY NextLogInv
<1>2. LogInv => TypeOK
  <2> SUFFICES ASSUME LogInv PROVE TypeOK
    OBVIOUS
  <2>1. sending \in BOOLEAN /\ txEmpty \in BOOLEAN
    BY Zenon DEF LogInv, FlagsOK
  <2>2. state \in {"READY", "BUSY"}
    BY DEF LogInv, FlagsOK
  <2> QED BY <2>1, <2>2 DEF LogInv, DataOK, RoomOK, TypeOK, Demand
<1> QED BY InitLogInv, <1>1, <1>2, PTL DEF Spec

\* With one context logging, no message overwrites bytes that wait to be sent,
\* although the free space is tested, the bytes copied and wp moved in three
\* steps between which the UART's handler moves rp, and both counters wrap.
THEOREM BufferHoldsAll == ASSUME MainOnly PROVE Spec => []NeverOverfull
<1>1. LogInv /\ [Next]_vars => LogInv'
  BY NextLogInv
<1>2. LogInv => NeverOverfull
  BY DEF LogInv, RoomOK, NeverOverfull
<1> QED BY InitLogInv, <1>1, <1>2, PTL DEF Spec

\* With one context logging, log_string() and the UART's handler are never both
\* in tx_next_byte(), and no byte is given to a UART that is sending one.
THEOREM SendersExclude == ASSUME MainOnly PROVE Spec => []OneSender
<1>1. LogInv /\ [Next]_vars => LogInv'
  BY NextLogInv
<1>2. LogInv => OneSender
  <2> SUFFICES ASSUME LogInv PROVE OneSender
    OBVIOUS
  <2> DEFINE S == {c \in Contexts : Sending(c)}
  <2>1. S = {} \/ S = {"main"} \/ S = {"uart"}
    BY DEF LogInv, FramesOK, HandoverOK, Sending, At, Contexts
  <2>2. Cardinality(S) <= 1
    <3>1. Cardinality({}) = 0 /\ Cardinality({"main"}) = 1 /\ Cardinality({"uart"}) = 1
      BY FS_EmptySet, FS_Singleton
    <3> HIDE DEF S
    <3> QED BY <2>1, <3>1
  <2>3. \A c \in Contexts : At(c, "put") => ~sending /\ ~txEmpty
    BY DEF LogInv, FramesOK, HandoverOK, Sending, At, Contexts
  <2> QED BY <2>2, <2>3 DEF OneSender
<1> QED BY InitLogInv, <1>1, <1>2, PTL DEF Spec

\* With one context logging, `state` says BUSY exactly while somebody has the next
\* byte to send, so that a log_string() that finds BUSY may rely on him.
THEOREM StateTellsTruth == ASSUME MainOnly PROVE Spec => []StateIsTrue
<1>1. LogInv /\ [Next]_vars => LogInv'
  BY NextLogInv
<1>2. LogInv => StateIsTrue
  BY DEF LogInv, FramesOK, HandoverOK, StateIsTrue, Sending, Working, At, Contexts
<1> QED BY InitLogInv, <1>1, <1>2, PTL DEF Spec
-----------------------------------------------------------------------------
(* The ring buffer implements a queue of messages. *)

Skip == IF At("main", "inc") \/ At("uart", "inc") THEN 1 ELSE 0

QueueShape ==
    /\ Skip \in {0, 1} /\ Used - Skip \in Nat /\ Used \in Nat /\ rp \in Int /\ rp \in Nat
    /\ queue = [i \in 1 .. Used - Skip |-> buffer[(rp + Skip + i - 1) % BufferLen]]
    /\ queue \in Seq(Bytes) /\ Len(queue) = Used - Skip /\ Len(queue) <= BufferLen

LEMMA QueueFacts == LogInv => QueueShape
<1> SUFFICES ASSUME LogInv PROVE QueueShape
  OBVIOUS
<1>1. Used \in Nat /\ rp \in Int /\ rp \in Nat
  BY UsedFacts, SizeFacts DEF LogInv, DataOK, Counters
<1>2. Skip = IF \E c \in Contexts : At(c, "inc") THEN 1 ELSE 0
  BY DEF LogInv, FramesOK, At, Contexts, Skip
<1>3. Skip \in {0, 1} /\ Used - Skip \in Nat
  BY <1>1 DEF LogInv, RoomOK, Contexts, Skip
<1>4. queue = [i \in 1 .. Used - Skip |-> buffer[(rp + Skip + i - 1) % BufferLen]]
  BY <1>2 DEF queue
<1> DEFINE n == Used - Skip
<1>5. \A i \in 1 .. n : buffer[(rp + Skip + i - 1) % BufferLen] \in Bytes
  <2> SUFFICES ASSUME NEW i \in 1 .. n
               PROVE  buffer[(rp + Skip + i - 1) % BufferLen] \in Bytes
    OBVIOUS
  <2> DEFINE k == rp + Skip + i - 1
  <2>1. k \in Int
    BY <1>1, <1>3
  <2> HIDE DEF k
  <2>2. k % BufferLen \in Slots
    BY <2>1, Division, SizeFacts DEF Slots
  <2>3. buffer[k % BufferLen] \in Bytes
    BY <2>2 DEF LogInv, DataOK
  <2> QED BY <2>3 DEF k
<1>6. queue \in [1 .. n -> Bytes]
  BY <1>4, <1>5
<1>7. n \in Nat
  BY <1>3
<1> HIDE DEF n
<1>8. queue \in Seq(Bytes) /\ Len(queue) = n
  <2>1. queue \in Seq(Bytes)
    BY <1>6, <1>7, SeqDef
  <2>2. DOMAIN queue = 1 .. Len(queue) /\ Len(queue) \in Nat /\ DOMAIN queue = 1 .. n
    BY <1>6, <2>1, LenProperties
  <2>3. Len(queue) = n
    <3> DEFINE m == Len(queue)
    <3>1. m \in Nat /\ 1 .. m = 1 .. n
      BY <2>2
    <3> HIDE DEF m
    <3>2. m = n
      <4>1. CASE m < n
        <5>1. n \in 1 .. n /\ n \notin 1 .. m
          BY <1>7, <3>1, <4>1
        <5> QED BY <3>1, <5>1
      <4>2. CASE m > n
        <5>1. m \in 1 .. m /\ m \notin 1 .. n
          BY <1>7, <3>1, <4>2
        <5> QED BY <3>1, <5>1
      <4> QED BY <1>7, <3>1, <4>1, <4>2
    <3> QED BY <3>2 DEF m
  <2> QED BY <2>1, <2>3
<1>9. n <= BufferLen
  BY <1>1, <1>3, SizeFacts DEF n, LogInv, RoomOK
<1> QED BY <1>1, <1>3, <1>4, <1>8, <1>9 DEF n, QueueShape

LEMMA QueueFactsNext == LogInv' => QueueShape'
BY QueueFacts, PTL

\* What neither moves the counters nor touches what waits leaves the queue.
LEMMA QueueKept ==
    ASSUME LogInv, LogInv', UNCHANGED <<wp, rp>>, Skip' = Skip,
           \A j \in 0 .. Used - 1 :
               buffer'[(rp + j) % BufferLen] = buffer[(rp + j) % BufferLen]
    PROVE  queue' = queue
<1>1. /\ Skip \in {0, 1} /\ Used \in Nat /\ rp \in Int
      /\ queue = [i \in 1 .. Used - Skip |-> buffer[(rp + Skip + i - 1) % BufferLen]]
  BY QueueFacts DEF QueueShape
<1>2. Skip' \in {0, 1} /\ queue' = [i \in 1 .. Used' - Skip' |->
                                       buffer'[(rp' + Skip' + i - 1) % BufferLen]]
  BY QueueFactsNext DEF QueueShape
<1>3. Used' = Used
  BY DEF Used
<1>4. ASSUME NEW i \in 1 .. Used - Skip
      PROVE  buffer'[(rp + Skip + i - 1) % BufferLen] = buffer[(rp + Skip + i - 1) % BufferLen]
  <2> DEFINE j == Skip + i - 1
  <2>1. j \in 0 .. Used - 1 /\ rp + Skip + i - 1 = rp + j
    BY <1>1
  <2> HIDE DEF j
  <2> QED BY <2>1
<1> QED BY <1>1, <1>2, <1>3, <1>4
\* What is copied goes to slots that none of the waiting bytes has.
LEMMA WaitingSlot ==
    ASSUME LogInv, NEW j \in 0 .. Used - 1
    PROVE  (((rp + j) % BufferLen) - WP) % BufferLen = BufferLen - Used + j
<1> DEFINE i == (rp + j) % BufferLen
<1> DEFINE u == Used
<1>1. u \in Nat /\ wp \in Int /\ rp \in Int /\ rp + j \in Int /\ j \in Int /\ u <= BufferLen
  BY UsedFacts, SizeFacts DEF LogInv, DataOK, RoomOK, Counters
<1>2. wp = rp + u \/ wp = rp + u - CounterSize
  BY UsedFacts, SizeFacts DEF LogInv, DataOK, Counters
<1>3. PICK p \in Int : rp + j = p * BufferLen + i
  BY <1>1, Division, SizeFacts
<1>4. PICK q \in Int : wp = q * BufferLen + WP
  BY <1>1, Division, SizeFacts DEF WP
<1>5. PICK t \in Int : CounterSize = t * BufferLen
  BY WholeTurns
<1>6. i \in 0 .. BufferLen - 1 /\ WP \in 0 .. BufferLen - 1
  BY <1>1, Division, SizeFacts DEF WP
<1>7. j < u
  BY <1>1
<1> HIDE DEF i, u
<1> DEFINE r == BufferLen - u + j
<1>8. r \in 0 .. BufferLen - 1
  BY <1>1, <1>7, SizeFacts
<1>9. PICK d \in Int : i - WP = d * BufferLen + r
  <2>1. CASE wp = rp + u
    <3>1. i - WP = (q - p - 1) * BufferLen + r
      BY <1>1, <1>3, <1>4, <1>6, <2>1, SizeFacts
    <3>2. q - p - 1 \in Int
      OBVIOUS
    <3> QED BY <3>1, <3>2
  <2>2. CASE wp = rp + u - CounterSize
    <3>1. i - WP = (q - p - 1 + t) * BufferLen + r
      BY <1>1, <1>3, <1>4, <1>5, <1>6, <2>2, SizeFacts
    <3>2. q - p - 1 + t \in Int
      OBVIOUS
    <3> QED BY <3>1, <3>2
  <2> QED BY <1>2, <2>1, <2>2
<1> HIDE DEF r
<1>10. (d * BufferLen + r) % BufferLen = r
  BY <1>8, Remainder, SizeFacts
<1> QED BY <1>9, <1>10 DEF i, r, u

LEMMA CopyKeepsQueue ==
    ASSUME LogInv, LogInv', At("main", "copy"), At("uart", "idle"), Copy("main")
    PROVE  queue' = queue /\ out' = out
<1> DEFINE str == call["main"].str
<1>1. UNCHANGED <<wp, rp, state, uart, owed>> /\ Goto("main", "advance")
  BY DEF Copy
<1>2. /\ At("main", "advance")' /\ call'["uart"] = call["uart"]
  BY <1>1, GotoFacts DEF LogInv, Contexts, Positions
<1>3. Skip' = Skip
  BY <1>2 DEF Skip, At
<1>4. Len(str) \in Nat /\ Used + Len(str) <= BufferLen /\ Used \in Nat
  <2>1. /\ Len(str) \in Nat /\ Len(call["main"].rest) \in Nat
        /\ Demand("main") = Len(str) + Len(call["main"].rest)
    BY DemandFacts DEF LogInv, Contexts
  <2>2. Used + Demand("main") <= BufferLen /\ Used \in Nat
    BY UsedFacts DEF LogInv, DataOK, RoomOK, At, Counters
  <2> HIDE DEF str
  <2> QED BY <2>1, <2>2, SizeFacts
<1>5. ASSUME NEW j \in 0 .. Used - 1
      PROVE  buffer'[(rp + j) % BufferLen] = buffer[(rp + j) % BufferLen]
  <2> DEFINE i == (rp + j) % BufferLen
  <2>1. i \in Slots
    <3>1. rp + j \in Int
      BY <1>4, SizeFacts DEF LogInv, DataOK, Counters
    <3> QED BY <3>1, Division, SizeFacts DEF Slots
  <2>2. (i - WP) % BufferLen = BufferLen - Used + j
    BY WaitingSlot
  <2> HIDE DEF i, str
  <2>3. ~((i - WP) % BufferLen < Len(str))
    BY <1>4, <2>2, SizeFacts
  <2>4. buffer'[i] = buffer[i]
    BY <2>1, <2>3 DEF Copy, str
  <2> QED BY <2>4 DEF i
<1> QED BY <1>1, <1>3, <1>5, QueueKept DEF uart

LEMMA AdvancePuts ==
    ASSUME LogInv, LogInv', At("main", "advance"), At("uart", "idle"), Advance("main")
    PROVE  queue' = queue \o call["main"].str /\ out' = out
<1> DEFINE str == call["main"].str
<1> DEFINE n == Len(str)
<1> DEFINE u == Used
<1>1. UNCHANGED <<rp, buffer, state, uart>> /\ wp' = (wp + n) % CounterSize
  BY DEF Advance
<1>2. str \in Seq(Bytes) /\ n \in Nat /\ u \in Nat /\ u + n <= BufferLen
  <2>1. /\ str \in Seq(Bytes) /\ n \in Nat /\ Len(call["main"].rest) \in Nat
        /\ Demand("main") = n + Len(call["main"].rest)
    BY DemandFacts DEF LogInv, Contexts
  <2>2. u + Demand("main") <= BufferLen /\ u \in Nat
    BY UsedFacts DEF LogInv, DataOK, RoomOK, At, Counters
  <2> HIDE DEF n, u
  <2> QED BY <2>1, <2>2, SizeFacts
<1>3. Used' = u + n
  BY <1>1, <1>2, WriteAdvances DEF LogInv, DataOK
<1>4. Skip = 0 /\ Skip' = 0
  <2>1. call'["uart"] = call["uart"] /\ call'["main"].pc # "inc"
    BY DEF Advance, Goto, Return, Idle, Call, LogInv, FramesOK, Contexts
  <2> QED BY <2>1 DEF Skip, At
<1>5. /\ queue = [i \in 1 .. u |-> buffer[(rp + i - 1) % BufferLen]]
      /\ queue \in Seq(Bytes) /\ Len(queue) = u /\ rp \in Int
  BY <1>2, <1>4, QueueFacts DEF QueueShape
<1>6. /\ queue' = [i \in 1 .. u + n |-> buffer[(rp + i - 1) % BufferLen]]
      /\ queue' \in Seq(Bytes) /\ Len(queue') = u + n
  BY <1>1, <1>2, <1>3, <1>4, <1>5, QueueFactsNext DEF QueueShape
<1>7. ASSUME NEW k \in 0 .. n - 1
      PROVE  buffer[(rp + (u + k)) % BufferLen] = str[k + 1]
  <2>1. buffer[(wp + k) % BufferLen] = str[k + 1]
    BY DEF LogInv, CopiedOK
  <2>2. wp \in Int /\ wp + k \in Int /\ (rp + u = wp \/ rp + u = wp + CounterSize)
    BY <1>2, UsedFacts, SizeFacts DEF LogInv, DataOK, Counters
  <2>3. PICK t \in Int : CounterSize = t * BufferLen
    BY WholeTurns
  <2> HIDE DEF u, n, str
  <2>4. rp + (u + k) = wp + k \/ rp + (u + k) = (wp + k) + t * BufferLen
    BY <1>2, <1>5, <2>2, <2>3, SizeFacts
  <2>5. ((wp + k) + t * BufferLen) % BufferLen = (wp + k) % BufferLen
    BY <2>2, MultipleVanishes, SizeFacts
  <2> QED BY <2>1, <2>4, <2>5
<1> HIDE DEF u, n
<1>8. n = Len(str)
  BY DEF n
<1> HIDE DEF str
<1>9. /\ queue \o str \in Seq(Bytes) /\ Len(queue \o str) = u + n
      /\ \A i \in 1 .. u + n : (queue \o str)[i] = IF i <= u THEN queue[i] ELSE str[i - u]
  BY <1>2, <1>5, <1>8, ConcatProperties
<1>10. ASSUME NEW i \in 1 .. u + n
       PROVE  queue'[i] = (queue \o str)[i]
  <2>1. CASE i <= u
    BY <1>2, <1>5, <1>6, <1>9, <2>1
  <2>2. CASE ~(i <= u)
    <3> DEFINE k == i - u - 1
    <3>1. k \in 0 .. n - 1 /\ rp + i - 1 = rp + (u + k) /\ i - u = k + 1 /\ ~(i <= u)
      BY <1>2, <1>5, <2>2
    <3> HIDE DEF k
    <3>2. (queue \o str)[i] = str[k + 1]
      BY <1>9, <3>1
    <3>3. queue'[i] = buffer[(rp + (u + k)) % BufferLen]
      BY <1>6, <3>1
    <3> QED BY <1>7, <3>1, <3>2, <3>3
  <2> QED BY <2>1, <2>2
<1>11. queue' = queue \o str
  BY <1>6, <1>9, <1>10, SeqEqual
<1> QED BY <1>1, <1>11 DEF str, uart
LEMMA PutByteGets ==
    ASSUME LogInv, LogInv', NEW c \in {"main", "uart"}, At(c, "put"), PutByte(c)
    PROVE  queue # <<>> /\ out' = Head(queue) /\ queue' = Tail(queue)
<1> DEFINE u == Used
<1>1. UNCHANGED <<wp, rp, buffer>> /\ Goto(c, "inc") /\ out' = buffer[RP]
  BY DEF PutByte
<1>2. Skip = 0 /\ Skip' = 1
  <2>1. Skip = 0
    BY DEF LogInv, FramesOK, HandoverOK, Sending, At, Skip
  <2>2. call'[c].pc = "inc"
    BY <1>1, GotoFacts DEF LogInv, Positions, At
  <2> QED BY <2>1, <2>2 DEF Skip, At
<1>3. u \in Nat /\ u > 0 /\ Used' = u
  BY <1>1, UsedFacts DEF LogInv, DataOK, RoomOK, Contexts, Counters, Used
<1>4. /\ queue = [i \in 1 .. u |-> buffer[(rp + i - 1) % BufferLen]]
      /\ queue \in Seq(Bytes) /\ Len(queue) = u /\ rp \in Int
  BY <1>2, QueueFacts DEF QueueShape
<1>5. /\ queue' = [i \in 1 .. u - 1 |-> buffer[(rp + 1 + i - 1) % BufferLen]]
      /\ queue' \in Seq(Bytes) /\ Len(queue') = u - 1
  BY <1>1, <1>2, <1>3, QueueFactsNext DEF QueueShape
<1> HIDE DEF u
<1>6. queue # <<>>
  BY <1>3, <1>4, EmptySeq
<1>7. out' = Head(queue)
  <2>1. 1 \in 1 .. u /\ rp + 1 - 1 = rp
    BY <1>3, <1>4
  <2>2. queue[1] = buffer[rp % BufferLen]
    BY <1>4, <2>1
  <2>3. Head(queue) = queue[1]
    BY <1>4, <1>6
  <2> QED BY <1>1, <2>2, <2>3 DEF RP
<1>8. /\ Tail(queue) \in Seq(Bytes) /\ Len(Tail(queue)) = u - 1
      /\ \A i \in 1 .. u - 1 : Tail(queue)[i] = queue[i + 1]
  BY <1>4, <1>6, HeadTailProperties
<1>9. ASSUME NEW i \in 1 .. u - 1
      PROVE  queue'[i] = Tail(queue)[i]
  <2>1. i + 1 \in 1 .. u /\ rp + (i + 1) - 1 = rp + 1 + i - 1
    BY <1>3, <1>4
  <2>2. queue[i + 1] = buffer[(rp + (i + 1) - 1) % BufferLen]
    BY <1>4, <2>1
  <2>3. queue'[i] = buffer[(rp + 1 + i - 1) % BufferLen]
    BY <1>5
  <2> QED BY <1>8, <2>1, <2>2, <2>3
<1>10. queue' = Tail(queue)
  BY <1>5, <1>8, <1>9, SeqEqual
<1> QED BY <1>6, <1>7, <1>10

LEMMA IncKeepsQueue ==
    ASSUME LogInv, LogInv', NEW c \in {"main", "uart"}, At(c, "inc"), Inc(c)
    PROVE  queue' = queue /\ out' = out
<1> DEFINE u == Used
<1>1. UNCHANGED <<wp, buffer, state, uart>> /\ rp' = (rp + 1) % CounterSize /\ Return(c)
  BY DEF Inc
<1>2. Skip = 1 /\ Skip' = 0
  <2>1. \A d \in {"main", "uart"} \ {c} : ~At(d, "inc")
    BY DEF LogInv, FramesOK, HandoverOK, Sending, At
  <2>2. call'[c].pc = "idle" /\ \A d \in {"main", "uart"} \ {c} : call'[d] = call[d]
    BY <1>1, ReturnFacts DEF LogInv, Contexts, At
  <2> QED BY <2>1, <2>2 DEF Skip, At
<1>3. u \in Nat /\ u > 0
  BY UsedFacts DEF LogInv, DataOK, RoomOK, Contexts, Counters
<1>4. Used' = u - 1
  BY <1>1, <1>3, ReadAdvances DEF LogInv, DataOK
<1>5. queue = [i \in 1 .. u - 1 |-> buffer[(rp + 1 + i - 1) % BufferLen]] /\ rp \in Int
  BY <1>2, QueueFacts DEF QueueShape
<1>6. queue' = [i \in 1 .. u - 1 |-> buffer[(rp' + 0 + i - 1) % BufferLen]] /\ rp' \in Int
  BY <1>1, <1>2, <1>4, QueueFactsNext DEF QueueShape
<1> HIDE DEF u
<1>7. ASSUME NEW i \in 1 .. u - 1
      PROVE  (rp' + 0 + i - 1) % BufferLen = (rp + 1 + i - 1) % BufferLen
  <2> DEFINE a == rp + 1
  <2> DEFINE b == i - 1
  <2>1. a \in Int /\ b \in Int
    BY <1>3, <1>5
  <2>2. rp + 1 + i - 1 = a + b /\ rp' + 0 + i - 1 = rp' + b
    BY <1>3, <1>5, <1>6
  <2>3. rp' = a % CounterSize
    BY <1>1
  <2> HIDE DEF a, b
  <2>4. ((a % CounterSize) + b) % BufferLen = (a + b) % BufferLen
    BY <2>1, SlotOfSum
  <2> QED BY <2>2, <2>3, <2>4
<1>8. queue' = queue
  BY <1>5, <1>6, <1>7
<1> QED BY <1>1, <1>8 DEF uart
\* The abstract queue takes a message when wp moves and gives a byte when the UART
\* is given it; every other step leaves it as it is.
LEMMA StepMapsToFifo ==
    ASSUME LogInv, LogInv', [Next]_vars
    PROVE  [Fifo!Next]_<<queue, out>>
<1> DEFINE Stutter == queue' = queue /\ out' = out
<1>1. ASSUME NEW c \in Contexts,
             log_string(c) \/ log_printf(c) \/ log_char(c) \/ log_newline(c)
      PROVE  Stutter
  <2>1. PICK f : /\ call[c].pc = "idle" /\ f.pc = "check"
                 /\ call' = [call EXCEPT ![c] = f]
                 /\ UNCHANGED <<wp, rp, buffer, uart>>
    BY <1>1 DEF log_string, log_printf, log_char, log_newline, Begin, Call, At
  <2>2. Skip' = Skip
    BY <2>1 DEF LogInv, FramesOK, Contexts, Skip, At
  <2> QED BY <2>1, <2>2, QueueKept DEF uart
<1>2. ASSUME NEW c \in Contexts, Step(c)
      PROVE  Stutter \/ Fifo!Next
  <2>1. /\ c \in {"main", "uart"}
        /\ call[c].pc \in {"check", "copy", "advance", "test", "kick"} => c = "main"
        /\ c = "main" => At("uart", "idle") /\ ~txEmpty
    BY <1>2, MainPlace
  <2>2. CASE At(c, "copy") /\ Copy(c)
    BY <2>1, <2>2, CopyKeepsQueue DEF At
  <2>3. CASE At(c, "advance") /\ Advance(c)
    <3> DEFINE m == call["main"].str
    <3>1. queue' = queue \o m /\ out' = out
      BY <2>1, <2>3, AdvancePuts DEF At
    <3>2. m \in Texts /\ m \in Seq(Bytes) /\ Len(m) \in Nat
      BY DemandFacts DEF LogInv, FramesOK, Contexts
    <3>3. queue \in Seq(Bytes) /\ Len(queue') <= BufferLen
      BY QueueFacts, QueueFactsNext DEF QueueShape
    <3> HIDE DEF m
    <3>4. CASE m = <<>>
      BY <3>1, <3>3, <3>4, ConcatEmptySeq
    <3>5. CASE m \in Messages
      <4>1. Len(queue) + Len(m) <= BufferLen
        BY <3>1, <3>2, <3>3, ConcatProperties
      <4>2. Fifo!Put(m)
        BY <3>1, <4>1 DEF Fifo!Put
      <4> QED BY <3>5, <4>2 DEF Fifo!Next
    <3> QED BY <3>2, <3>4, <3>5 DEF Texts
  <2>4. CASE At(c, "put") /\ PutByte(c)
    <3>1. Fifo!Get
      BY <2>1, <2>4, PutByteGets DEF Fifo!Get
    <3> QED BY <3>1 DEF Fifo!Next
  <2>5. CASE At(c, "inc") /\ Inc(c)
    BY <2>1, <2>5, IncKeepsQueue
  <2>6. CASE \/ At(c, "check") /\ Check(c)
             \/ At(c, "test") /\ Test(c)
             \/ At(c, "kick") /\ Kick(c)
             \/ At(c, "used") /\ TestUsed(c)
             \/ At(c, "ready") /\ SetReady(c)
    <3>1. UNCHANGED <<wp, rp, buffer, uart>> /\ call[c].pc # "inc"
      BY <2>6 DEF Check, Test, Kick, TestUsed, SetReady, At
    <3>2. call'[c].pc # "inc" /\ \A d \in {"main", "uart"} \ {c} : call'[d] = call[d]
      <4>1. \/ Return(c)
            \/ \E pc \in {"copy", "kick", "used", "ready", "put"} : Goto(c, pc)
        BY <2>6 DEF Check, Test, Kick, TestUsed, SetReady
      <4> QED BY <2>1, <4>1 DEF Goto, Return, Idle, LogInv, FramesOK, Contexts
    <3>3. Skip' = Skip
      BY <2>1, <3>1, <3>2 DEF Skip, At
    <3> QED BY <3>1, <3>3, QueueKept DEF uart
  <2> HIDE DEF Stutter
  <2> QED BY <1>2, <2>2, <2>3, <2>4, <2>5, <2>6, Zenon DEF Step
<1>3. CASE UartIrq \/ ByteSent \/ UNCHANGED vars
  <2>1. UNCHANGED <<wp, rp, buffer, out>>
    BY <1>3 DEF UartIrq, ByteSent, vars
  <2>2. Skip' = Skip
    BY <1>3 DEF UartIrq, ByteSent, vars, Goto, LogInv, FramesOK, Contexts, Skip, At
  <2> QED BY <2>1, <2>2, QueueKept
<1> QED BY <1>1, <1>2, <1>3 DEF Next

\* With one context logging, the log is a first-in first-out queue of whole
\* messages between the log functions and the UART: each accepted message enters
\* at once, and bytes leave one at a time, in order, none of them twice.
THEOREM LogImplementsFifo == ASSUME MainOnly PROVE Spec => ImplementsFifo
<1>1. LogInv /\ [Next]_vars => LogInv'
  BY NextLogInv
<1>2. Init => Fifo!Init
  <2> SUFFICES ASSUME Init PROVE Fifo!Init
    OBVIOUS
  <2>1. queue \in Seq(Bytes) /\ Len(queue) <= BufferLen /\ out \in Bytes
    BY InitLogInv, QueueFacts DEF QueueShape, LogInv, DataOK
  <2> QED BY <2>1 DEF Fifo!Init
<1>3. LogInv /\ LogInv' /\ [Next]_vars => [Fifo!Next]_<<queue, out>>
  BY StepMapsToFifo
<1> QED BY InitLogInv, <1>1, <1>2, <1>3, PTL DEF Spec, ImplementsFifo, Fifo!Spec
=============================================================================
