---------------------------- MODULE TimerProofs ----------------------------
(***************************************************************************)
(* Theorems about the timer driver, for every number of timers, counter    *)
(* size, latency and set of durations that TimerAssumption allows: its     *)
(* bookkeeping, then its times.                                            *)
(***************************************************************************)
EXTENDS Timer, FiniteSetTheorems, TLAPS

-----------------------------------------------------------------------------
(* Arithmetic of the counter and of the 8-bit `active`.                     *)

LEMMA CounterFacts ==
    /\ CounterSize \in Nat \ {0} /\ DriftFix \in Nat /\ MaxLatency \in Nat
    /\ \A d \in Durations : d \in 0 .. CounterSize - 1 /\ d > MaxLatency + DriftFix
BY TimerAssumption

LEMMA WrapType ==
    ASSUME NEW n \in Int, 0 <= n, n <= 2 * CounterSize - 1
    PROVE  Wrap(n) \in 0 .. CounterSize - 1
BY CounterFacts DEF Wrap

LEMMA U8Type ==
    ASSUME NEW n \in Nat
    PROVE  U8(n) \in 0 .. 255
BY DEF U8

LEMMA U8Inc ==
    ASSUME NEW n \in 0 .. 254
    PROVE  U8(n + 1) = n + 1
BY DEF U8

LEMMA U8Dec ==
    ASSUME NEW n \in 1 .. 255
    PROVE  U8(n + 255) = n - 1
BY DEF U8

-----------------------------------------------------------------------------
(* Type correctness.  The durations in play are needed to bound the compare *)
(* values that timer_start() and the handler write.                         *)

DurationsKnown ==
    /\ \A i \in active \union isr.mask : ticks[i] \in Durations
    /\ \A c \in Contexts : call[c].pc \in {"arm", "mark"} => call[c].ticks \in Durations

TypeInv == TypeOK /\ DurationsKnown

LEMMA NoCallType == NoCall \in Frames
BY TimerAssumption, CounterFacts DEF NoCall, Frames, Ids

LEMMA InitTypeInv == Init => TypeInv
<1> SUFFICES ASSUME Init PROVE TypeInv
  OBVIOUS
<1>1. 0 \in 0 .. CounterSize - 1 /\ 0 \in 0 .. MaxLatency
  BY CounterFacts
<1>2. SoftwareOK
  BY <1>1 DEF Init, SoftwareOK, Types
<1>3. HardwareOK
  BY <1>1 DEF Init, HardwareOK
<1>4. FlagsOK
  BY Zenon DEF Init, FlagsOK
<1>5. IsrOK
  BY <1>1 DEF Init, IsrOK, NoIsr
<1>6. CallOK
  BY NoCallType DEF Init, CallOK
<1>7. GhostsOK
  BY <1>1 DEF Init, GhostsOK
<1>8. DurationsKnown
  BY DEF Init, DurationsKnown, NoIsr, NoCall, Contexts
<1> QED BY <1>2, <1>3, <1>4, <1>5, <1>6, <1>7, <1>8 DEF TypeInv, TypeOK

LEMMA ElapsedType ==
    ASSUME counter \in 0 .. CounterSize - 1, NEW n \in 0 .. CounterSize - 1
    PROVE  Elapsed(n) \in Int
BY CounterFacts DEF Elapsed

\* What one step of a driver call does to the frame of its context.
LEMMA GotoType ==
    ASSUME CallOK, NEW c \in Contexts,
           NEW pc \in {"mark", "launch", "unmark", "load"}, Goto(c, pc)
    PROVE  CallOK'
<1>1. call[c] \in Frames
  BY DEF CallOK
<1>2. [call[c] EXCEPT !.pc = pc] \in Frames
  BY <1>1 DEF Frames
<1> QED BY <1>2 DEF CallOK, Goto

LEMMA ReturnType ==
    ASSUME CallOK, NEW c \in Contexts, Return(c)
    PROVE  CallOK'
BY NoCallType DEF CallOK, Return

LEMMA SeenType ==
    ASSUME CallOK, NEW c \in Contexts, NEW pc \in {"inc", "dec"}, NEW n \in 0 .. 255,
           call' = [call EXCEPT ![c].pc = pc, ![c].seen = n]
    PROVE  CallOK' /\ call'[c].pc = pc /\ \A d \in Contexts : d # c => call'[d] = call[d]
<1>1. call[c] \in Frames
  BY DEF CallOK
<1>2. [call[c] EXCEPT !.pc = pc, !.seen = n] \in Frames
  BY <1>1 DEF Frames
<1>3. [call[c] EXCEPT !.pc = pc, !.seen = n].pc = pc
  BY <1>1 DEF Frames
<1> QED BY <1>2, <1>3 DEF CallOK

LEMMA FlagsStep == FlagsOK /\ [Next]_vars => FlagsOK'
<1> SUFFICES ASSUME FlagsOK, [Next]_vars PROVE FlagsOK'
  OBVIOUS
<1> USE DEF FlagsOK
<1>1. ASSUME NEW t \in Types, Create(t) PROVE FlagsOK'
  BY <1>1, Zenon DEF Create, hardware
<1>2. ASSUME NEW c, NEW i, NEW us, Start(c, i, us) PROVE FlagsOK'
  BY <1>2, Zenon DEF Start, hardware
<1>3. ASSUME NEW c, NEW i, Stop(c, i) PROVE FlagsOK'
  BY <1>3, Zenon DEF Stop, hardware
<1>4. ASSUME NEW c, DriverStep(c) PROVE FlagsOK'
  BY <1>4, Zenon DEF DriverStep, Arm, Mark, Launch, Inc, MaskInterrupt, Unmark, Load,
                     Dec, Halt, hardware
<1>5. CASE TimerIrq \/ TimerIrqReturn \/ RadioIrq \/ RadioIrqReturn
  BY <1>5, Zenon DEF TimerIrq, TimerIrqReturn, RadioIrq, RadioIrqReturn, hardware
<1>6. ASSUME NEW i, Expire(i) PROVE FlagsOK'
  BY <1>6, Zenon DEF Expire, ExpireRepeated, ExpireSingleShot, Halt
<1>7. CASE Tick
  BY <1>7, Zenon DEF Tick
<1>8. CASE UNCHANGED vars
  BY <1>8, Zenon DEF vars
<1> QED BY <1>1, <1>2, <1>3, <1>4, <1>5, <1>6, <1>7, <1>8, Zenon DEF Next

\* Facts every action step below starts from.
LEMMA FrameFacts ==
    ASSUME TypeInv, NEW c \in Contexts
    PROVE  /\ call[c].id \in Ids /\ call[c].seen \in 0 .. 255
           /\ call[c].ticks \in 0 .. CounterSize - 1
           /\ call[c].curr \in 0 .. CounterSize - 1
           /\ call[c].pc \in {"arm", "mark"} => call[c].ticks \in Durations
BY DEF TypeInv, TypeOK, CallOK, Frames, DurationsKnown

LEMMA CreateTypeInv ==
    ASSUME TypeInv, NEW t \in Types, Create(t)
    PROVE  SoftwareOK' /\ HardwareOK' /\ IsrOK' /\ CallOK' /\ GhostsOK' /\ DurationsKnown'
<1> USE DEF Create, TypeInv, TypeOK
<1>1. SoftwareOK'
  BY DEF SoftwareOK
<1>2. HardwareOK' /\ IsrOK' /\ CallOK' /\ GhostsOK'
  BY DEF HardwareOK, IsrOK, CallOK, GhostsOK, hardware, ghosts
<1>3. DurationsKnown'
  BY DEF DurationsKnown
<1> QED BY <1>1, <1>2, <1>3

\* Entering a driver call changes no more than the frame and the handler's phase.
LEMMA EnterTypeInv ==
    ASSUME TypeInv, NEW c \in Callers, NEW f \in Frames, Enter(c, f),
           f.pc \in {"arm", "mark"} => f.ticks \in Durations,
           UNCHANGED <<software, hardware, ghosts>>
    PROVE  SoftwareOK' /\ HardwareOK' /\ IsrOK' /\ CallOK' /\ GhostsOK' /\ DurationsKnown'
<1> USE DEF Enter, TypeInv, TypeOK
<1>0. c \in Contexts
  BY TimerAssumption DEF Contexts
<1>1. SoftwareOK' /\ HardwareOK' /\ GhostsOK'
  BY DEF SoftwareOK, HardwareOK, GhostsOK, software, hardware, ghosts
<1>2. IsrOK' /\ isr'.mask = isr.mask
  BY DEF IsrOK
<1>3. CallOK'
  BY <1>0 DEF CallOK
<1>4. DurationsKnown'
  BY <1>0, <1>2 DEF DurationsKnown, CallOK, software
<1> QED BY <1>1, <1>2, <1>3, <1>4

LEMMA DriverStepTypeInv ==
    ASSUME TypeInv, NEW c \in Contexts, DriverStep(c)
    PROVE  SoftwareOK' /\ HardwareOK' /\ IsrOK' /\ CallOK' /\ GhostsOK' /\ DurationsKnown'
<1> USE DEF TypeInv, TypeOK
<1>0. SoftwareOK /\ HardwareOK /\ IsrOK /\ CallOK /\ GhostsOK /\ DurationsKnown
  OBVIOUS
<1>1. CASE Arm(c)
  <2>1. Wrap(call[c].curr + call[c].ticks) \in 0 .. CounterSize - 1
    BY FrameFacts, WrapType, CounterFacts
  <2>2. HardwareOK'
    BY <1>0, <1>1, <2>1, FrameFacts DEF Arm, HardwareOK
  <2>3. SoftwareOK' /\ IsrOK'
    BY <1>0, <1>1 DEF Arm, SoftwareOK, IsrOK, software
  <2>4. GhostsOK'
    BY <1>0, <1>1, FrameFacts DEF Arm, GhostsOK
  <2>5. CallOK'
    BY <1>0, <1>1, GotoType DEF Arm
  <2>6. DurationsKnown'
    BY <1>0, <1>1 DEF Arm, At, Goto, DurationsKnown, CallOK, software
  <2> QED BY <2>2, <2>3, <2>4, <2>5, <2>6
<1>2. CASE Mark(c)
  <2>1. call[c].ticks - Elapsed(call[c].curr) \in Int
    BY <1>0, FrameFacts, ElapsedType, CounterFacts DEF HardwareOK
  <2>2. GhostsOK'
    BY <1>0, <1>2, <2>1 DEF Mark, GhostsOK
  <2>3. SoftwareOK'
    BY <1>0, <1>2, FrameFacts DEF Mark, SoftwareOK
  <2>4. HardwareOK' /\ IsrOK'
    BY <1>0, <1>2 DEF Mark, HardwareOK, IsrOK, hardware
  <2>5. CallOK'
    BY <1>0, <1>2, GotoType DEF Mark
  <2>6. DurationsKnown'
    BY <1>0, <1>2, FrameFacts DEF Mark, At, Goto, DurationsKnown, CallOK, IsrOK, SoftwareOK
  <2> QED BY <2>2, <2>3, <2>4, <2>5, <2>6
<1>3. CASE Launch(c) \/ Load(c)
  <2>1. SoftwareOK' /\ HardwareOK' /\ IsrOK' /\ GhostsOK'
    BY <1>0, <1>3 DEF Launch, Load, SoftwareOK, HardwareOK, IsrOK, GhostsOK,
                      software, hardware, ghosts
  <2>2. /\ CallOK' /\ call'[c].pc \in {"inc", "dec"}
        /\ \A d \in Contexts : d # c => call'[d] = call[d]
    BY <1>0, <1>3, SeenType DEF Launch, Load, SoftwareOK
  <2>3. DurationsKnown'
    BY <1>0, <1>3, <2>2 DEF Launch, Load, DurationsKnown, software
  <2> QED BY <2>1, <2>2, <2>3
<1>4. CASE Inc(c) \/ Dec(c)
  <2>1. U8(call[c].seen + 1) \in 0 .. 255 /\ U8(call[c].seen + 255) \in 0 .. 255
    <3>1. call[c].seen \in Nat
      BY FrameFacts
    <3> QED BY <3>1, U8Type
  <2>2. SoftwareOK' /\ IsrOK' /\ GhostsOK'
    BY <1>0, <1>4, <2>1 DEF Inc, Dec, SoftwareOK, IsrOK, GhostsOK, ghosts
  <2>3. HardwareOK'
    BY <1>0, <1>4, CounterFacts DEF Inc, Dec, Halt, HardwareOK, hardware
  <2>4. CallOK'
    BY <1>0, <1>4, ReturnType DEF Inc, Dec
  <2>5. DurationsKnown'
    BY <1>0, <1>4 DEF Inc, Dec, Return, NoCall, DurationsKnown, CallOK
  <2> QED BY <2>2, <2>3, <2>4, <2>5
<1>5. CASE MaskInterrupt(c)
  <2>1. SoftwareOK' /\ HardwareOK' /\ IsrOK' /\ GhostsOK'
    BY <1>0, <1>5 DEF MaskInterrupt, SoftwareOK, HardwareOK, IsrOK, GhostsOK, software, ghosts
  <2>2. CallOK'
    BY <1>0, <1>5, GotoType DEF MaskInterrupt
  <2>3. DurationsKnown'
    BY <1>0, <1>5 DEF MaskInterrupt, At, Goto, DurationsKnown, CallOK, software
  <2> QED BY <2>1, <2>2, <2>3
<1>6. CASE Unmark(c)
  <2>1. SoftwareOK' /\ HardwareOK' /\ IsrOK' /\ GhostsOK'
    <3>1. SoftwareOK' /\ HardwareOK' /\ IsrOK'
      BY <1>0, <1>6 DEF Unmark, SoftwareOK, HardwareOK, IsrOK, hardware
    <3>2. GhostsOK'
      BY <1>0, <1>6, FrameFacts DEF Unmark, GhostsOK
    <3> QED BY <3>1, <3>2
  <2>2. CallOK'
    BY <1>0, <1>6, GotoType DEF Unmark
  <2>3. DurationsKnown'
    BY <1>0, <1>6 DEF Unmark, At, Goto, DurationsKnown, CallOK
  <2> QED BY <2>1, <2>2, <2>3
<1> QED BY <1>1, <1>2, <1>3, <1>4, <1>5, <1>6 DEF DriverStep

LEMMA InterruptTypeInv ==
    ASSUME TypeInv,
           \/ TimerIrq \/ TimerIrqReturn \/ RadioIrq \/ RadioIrqReturn
           \/ (\E i \in Ids : Expire(i)) \/ Tick
    PROVE  SoftwareOK' /\ HardwareOK' /\ IsrOK' /\ CallOK' /\ GhostsOK' /\ DurationsKnown'
<1> USE DEF TypeInv, TypeOK
<1>0. SoftwareOK /\ HardwareOK /\ IsrOK /\ CallOK /\ GhostsOK /\ DurationsKnown
  OBVIOUS
<1>1. CASE TimerIrq \/ TimerIrqReturn \/ RadioIrq \/ RadioIrqReturn
  <2>1. SoftwareOK' /\ HardwareOK' /\ CallOK' /\ GhostsOK'
    BY <1>0, <1>1 DEF TimerIrq, TimerIrqReturn, RadioIrq, RadioIrqReturn,
                      SoftwareOK, HardwareOK, CallOK, GhostsOK, software, hardware, ghosts
  <2>2. IsrOK'
    BY <1>0, <1>1, CounterFacts DEF TimerIrq, TimerIrqReturn, RadioIrq, RadioIrqReturn,
                                    IsrOK, NoIsr, SoftwareOK, HardwareOK
  <2>3. DurationsKnown'
    BY <1>0, <1>1 DEF TimerIrq, TimerIrqReturn, RadioIrq, RadioIrqReturn,
                      DurationsKnown, NoIsr, software
  <2> QED BY <2>1, <2>2, <2>3
<1>2. ASSUME NEW i \in Ids, ExpireRepeated(i)
      PROVE  SoftwareOK' /\ HardwareOK' /\ IsrOK' /\ CallOK' /\ GhostsOK' /\ DurationsKnown'
  <2>1. ticks[i] \in Durations /\ isr.curr \in 0 .. CounterSize - 1
    BY <1>0, <1>2 DEF ExpireRepeated, NextToServe, DurationsKnown, IsrOK
  <2>2. Wrap(isr.curr + ticks[i] - DriftFix) \in 0 .. CounterSize - 1
    BY <2>1, WrapType, CounterFacts
  <2>3. ticks[i] - DriftFix - Elapsed(isr.curr) \in Int
    BY <1>0, <2>1, ElapsedType, CounterFacts DEF HardwareOK
  <2>4. SoftwareOK' /\ CallOK'
    BY <1>0, <1>2 DEF ExpireRepeated, SoftwareOK, CallOK, software
  <2>5. HardwareOK'
    BY <1>0, <1>2, <2>2 DEF ExpireRepeated, HardwareOK
  <2>6. IsrOK' /\ isr'.mask \subseteq isr.mask
    BY <1>0, <1>2 DEF ExpireRepeated, NextToServe, IsrOK
  <2>7. GhostsOK'
    BY <1>0, <1>2, <2>3 DEF ExpireRepeated, NextToServe, GhostsOK
  <2>8. DurationsKnown'
    BY <1>0, <1>2, <2>6 DEF ExpireRepeated, DurationsKnown, software
  <2> QED BY <2>4, <2>5, <2>6, <2>7, <2>8
<1>3. ASSUME NEW i \in Ids, ExpireSingleShot(i)
      PROVE  SoftwareOK' /\ HardwareOK' /\ IsrOK' /\ CallOK' /\ GhostsOK' /\ DurationsKnown'
  <2>1. U8(count + 255) \in 0 .. 255
    BY <1>0, U8Type DEF SoftwareOK
  <2>2. SoftwareOK' /\ CallOK'
    BY <1>0, <1>3, <2>1 DEF ExpireSingleShot, SoftwareOK, CallOK
  <2>3. HardwareOK'
    BY <1>0, <1>3, CounterFacts DEF ExpireSingleShot, Halt, HardwareOK
  <2>4. IsrOK' /\ isr'.mask \subseteq isr.mask
    BY <1>0, <1>3 DEF ExpireSingleShot, NextToServe, IsrOK
  <2>5. GhostsOK'
    BY <1>0, <1>3 DEF ExpireSingleShot, NextToServe, GhostsOK
  <2>6. DurationsKnown'
    BY <1>0, <1>3, <2>4 DEF ExpireSingleShot, DurationsKnown
  <2> QED BY <2>2, <2>3, <2>4, <2>5, <2>6
<1>4. CASE Tick
  <2>1. Wrap(counter + 1) \in 0 .. CounterSize - 1
    BY <1>0, WrapType, CounterFacts DEF HardwareOK
  <2>2. SoftwareOK' /\ IsrOK' /\ CallOK' /\ DurationsKnown'
    BY <1>0, <1>4 DEF Tick, SoftwareOK, IsrOK, CallOK, DurationsKnown, software
  <2>3. HardwareOK'
    BY <1>0, <1>4, <2>1 DEF Tick, HardwareOK
  <2>4. GhostsOK'
    BY <1>0, <1>4, CounterFacts DEF Tick, GhostsOK
  <2> QED BY <2>2, <2>3, <2>4
<1> QED BY <1>1, <1>2, <1>3, <1>4 DEF Expire

LEMMA NextTypeInv == TypeInv /\ [Next]_vars => TypeInv'
<1> SUFFICES ASSUME TypeInv, [Next]_vars PROVE TypeInv'
  OBVIOUS
<1>0. FlagsOK'
  BY FlagsStep DEF TypeInv, TypeOK
<1>1. ASSUME NEW c \in Callers, NEW i \in Ids, NEW us \in Durations, Start(c, i, us)
      PROVE  SoftwareOK' /\ HardwareOK' /\ IsrOK' /\ CallOK' /\ GhostsOK' /\ DurationsKnown'
  <2> DEFINE f == [pc |-> "arm", id |-> i, ticks |-> us, curr |-> counter, seen |-> 0]
  <2>1. f \in Frames
    BY CounterFacts DEF Frames, TypeInv, TypeOK, HardwareOK
  <2>2. f.ticks \in Durations
    OBVIOUS
  <2>3. Enter(c, f) /\ UNCHANGED <<software, hardware, ghosts>>
    BY <1>1 DEF Start
  <2> QED BY <2>1, <2>2, <2>3, EnterTypeInv
<1>2. ASSUME NEW c \in Callers, NEW i \in Ids, Stop(c, i)
      PROVE  SoftwareOK' /\ HardwareOK' /\ IsrOK' /\ CallOK' /\ GhostsOK' /\ DurationsKnown'
  <2> DEFINE f == [pc |-> "mask", id |-> i, ticks |-> 0, curr |-> 0, seen |-> 0]
  <2>1. f \in Frames
    BY CounterFacts DEF Frames
  <2>2. Enter(c, f) /\ UNCHANGED <<software, hardware, ghosts>>
    BY <1>2 DEF Stop
  <2> QED BY <2>1, <2>2, EnterTypeInv
<1>3. CASE UNCHANGED vars
  BY <1>3 DEF vars, TypeInv, TypeOK, SoftwareOK, HardwareOK, FlagsOK, IsrOK, CallOK,
              GhostsOK, DurationsKnown
<1> QED
  BY <1>0, <1>1, <1>2, <1>3, CreateTypeInv, DriverStepTypeInv, InterruptTypeInv
     DEF Next, TypeInv, TypeOK

\* The driver's variables keep the types they are declared with: `active` its
\* eight bits, each compare register a value the 24-bit counter can reach.
THEOREM TypeCorrect == Spec => []TypeOK
<1>1. TypeInv => TypeOK
  BY DEF TypeInv
<1> QED BY InitTypeInv, NextTypeInv, <1>1, PTL DEF Spec

-----------------------------------------------------------------------------
(* Bookkeeping.  The driver keeps three things in step with the set of      *)
(* armed timers, none of them updated together with it: the count, the      *)
(* running counter, and the handler's list of timers to serve.  The         *)
(* strengthening says by how much each is off inside a call.                *)

\* The driver as the link layer uses it from its interrupt handlers.
HandlersOnly == Callers = {"handler"} /\ ~CallbackStopsPeers

Handler == call["handler"]

InFlight == IF Handler.pc \in {"launch", "inc"} THEN 1
            ELSE IF Handler.pc \in {"load", "dec"} THEN -1 ELSE 0

OneCaller ==
    /\ call["thread"] = NoCall
    /\ Handler = NoCall \/ isr.on \in {"loop", "leaving"}

FrameMeaning ==
    /\ Handler.pc \in {"arm", "mark"} => Handler.id \in enabled \ active
    /\ Handler.pc \in {"mask", "unmark"} => Handler.id \in active \ isr.mask
    /\ Handler.pc \in {"inc", "dec"} => Handler.seen = count

CountMatches == Cardinality(active) = count + InFlight

CounterRuns == IF Handler.pc = "launch" THEN count # 0 => running
                                        ELSE active # {} => running

Bookkeeping ==
    /\ TypeInv /\ OneCaller
    /\ isr.mask \subseteq active /\ active \subseteq enabled
    /\ FrameMeaning /\ CountMatches /\ CounterRuns

LEMMA ActiveCard ==
    ASSUME NEW S \in SUBSET Ids
    PROVE  /\ Cardinality(S) \in 0 .. 255
           /\ S = {} <=> Cardinality(S) = 0
           /\ \A i \in Ids \ S : Cardinality(S \union {i}) = Cardinality(S) + 1
           /\ \A i \in S : Cardinality(S \ {i}) = Cardinality(S) - 1
<1>1. IsFiniteSet(Ids) /\ Cardinality(Ids) = MaxTimers
  BY FS_Interval, TimerAssumption DEF Ids
<1>2. IsFiniteSet(S) /\ Cardinality(S) <= MaxTimers
  BY <1>1, FS_Subset
<1>3. Cardinality(S) \in Nat
  BY <1>2, FS_CardinalityType
<1>4. Cardinality(S) \in 0 .. 255
  BY <1>2, <1>3, TimerAssumption
<1>5. S = {} <=> Cardinality(S) = 0
  BY <1>2, FS_EmptySet
<1>6. \A i \in Ids \ S : Cardinality(S \union {i}) = Cardinality(S) + 1
  BY <1>2, FS_AddElement
<1>7. \A i \in S : Cardinality(S \ {i}) = Cardinality(S) - 1
  BY <1>2, FS_RemoveElement
<1> QED BY <1>4, <1>5, <1>6, <1>7

LEMMA InitBookkeeping == Init => Bookkeeping
<1> SUFFICES ASSUME Init PROVE Bookkeeping
  OBVIOUS
<1>1. TypeInv
  BY InitTypeInv
<1>2. Handler = NoCall /\ call["thread"] = NoCall
  BY DEF Init, Handler, Contexts
<1>3. Cardinality(active) = 0
  BY FS_EmptySet DEF Init
<1> QED BY <1>1, <1>2, <1>3
  DEF Init, Bookkeeping, OneCaller, FrameMeaning, CountMatches, CounterRuns, InFlight,
      NoCall, NoIsr

LEMMA HandlerType ==
    ASSUME TypeInv
    PROVE  /\ Handler \in Frames /\ Handler.id \in Ids
           /\ count \in 0 .. 255 /\ active \in SUBSET Ids
           /\ isr.mask \in SUBSET Ids
BY DEF TypeInv, TypeOK, SoftwareOK, IsrOK, CallOK, Handler, Contexts, Frames

\* What a step of the handler's call leaves of the other context.
LEMMA OneCallerStep ==
    ASSUME CallOK, call["thread"] = NoCall,
           NEW f \in Frames, call' = [call EXCEPT !["handler"] = f]
    PROVE  call'["thread"] = NoCall /\ Handler' = f
BY DEF CallOK, Handler, Contexts

LEMMA EnterBookkeeping ==
    ASSUME Bookkeeping, HandlersOnly, TypeInv', NEW c \in Callers, NEW f \in Frames,
           Enter(c, f), UNCHANGED <<software, hardware, ghosts>>,
           \/ f.pc = "arm" /\ f.id \in enabled \ active
           \/ f.pc = "mask" /\ f.id \in active \ isr.mask
    PROVE  Bookkeeping'
<1> USE DEF Bookkeeping
<1>1. c = "handler" /\ CallOK /\ IsrOK
  BY DEF HandlersOnly, TypeInv, TypeOK
<1>2. call'["thread"] = NoCall /\ Handler' = f
  BY <1>1, OneCallerStep DEF Enter, OneCaller
<1>3. /\ isr'.mask = isr.mask /\ isr'.on \in {"loop", "leaving"}
      /\ Handler = NoCall
  BY <1>1 DEF Enter, IsrOK, Handler
<1>4. OneCaller' /\ FrameMeaning' /\ InFlight' = 0 /\ f.pc # "launch" /\ InFlight = 0
  BY <1>2, <1>3 DEF OneCaller, FrameMeaning, InFlight, software, NoCall
<1>5. CountMatches'
  BY <1>4 DEF CountMatches, software
<1>6. CounterRuns'
  BY <1>2, <1>3, <1>4 DEF CounterRuns, NoCall, software, hardware
<1>7. isr'.mask \subseteq active' /\ active' \subseteq enabled'
  BY <1>3 DEF software
<1> QED BY <1>4, <1>5, <1>6, <1>7

\* A step from one pc of the handler's call to the next.
LEMMA GotoHandler ==
    ASSUME CallOK, OneCaller, NEW pc \in {"mark", "launch", "unmark", "load"},
           Goto("handler", pc), Handler # NoCall, UNCHANGED isr
    PROVE  /\ OneCaller' /\ Handler'.pc = pc /\ Handler'.id = Handler.id
           /\ Handler'.seen = Handler.seen
<1>1. Handler \in Frames
  BY DEF CallOK, Handler, Contexts
<1>2. Handler' = [Handler EXCEPT !.pc = pc] /\ call'["thread"] = NoCall
  BY DEF Goto, Handler, CallOK, Contexts, OneCaller
<1> QED BY <1>1, <1>2 DEF OneCaller, Frames

LEMMA SeenHandler ==
    ASSUME CallOK, OneCaller, NEW pc \in {"inc", "dec"}, NEW n \in 0 .. 255,
           call' = [call EXCEPT !["handler"].pc = pc, !["handler"].seen = n],
           Handler # NoCall, UNCHANGED isr
    PROVE  OneCaller' /\ Handler'.pc = pc /\ Handler'.id = Handler.id /\ Handler'.seen = n
<1>1. Handler \in Frames
  BY DEF CallOK, Handler, Contexts
<1>2. Handler' = [Handler EXCEPT !.pc = pc, !.seen = n] /\ call'["thread"] = NoCall
  BY DEF Handler, CallOK, Contexts, OneCaller
<1> QED BY <1>1, <1>2 DEF OneCaller, Frames

LEMMA ReturnHandler ==
    ASSUME CallOK, OneCaller, Return("handler"), UNCHANGED isr
    PROVE  OneCaller' /\ Handler' = NoCall
BY DEF CallOK, OneCaller, Return, Handler, Contexts

LEMMA DriverStepBookkeeping ==
    ASSUME Bookkeeping, TypeInv', NEW c \in Contexts, DriverStep(c)
    PROVE  Bookkeeping'
<1> USE DEF Bookkeeping
<1>1. c = "handler" /\ CallOK /\ Handler.pc # "idle" /\ Handler # NoCall
  BY DEF DriverStep, Arm, Mark, Launch, Inc, MaskInterrupt, Unmark, Load, Dec, At,
         OneCaller, NoCall, Contexts, TypeInv, TypeOK, Handler
<1>2. /\ Handler.id \in Ids /\ count \in 0 .. 255 /\ active \in SUBSET Ids
      /\ Cardinality(active) \in 0 .. 255
  BY HandlerType, ActiveCard
<1>3. CASE Arm(c)
  <2>1. OneCaller' /\ Handler'.pc = "mark" /\ Handler'.id = Handler.id
    BY <1>1, <1>3, GotoHandler DEF Arm
  <2>2. Handler.pc = "arm"
    BY <1>1, <1>3 DEF Arm, At, Handler
  <2>3. FrameMeaning' /\ CountMatches'
    BY <1>3, <2>1, <2>2 DEF Arm, FrameMeaning, CountMatches, InFlight, software
  <2>4. CounterRuns'
    BY <1>3, <2>1, <2>2 DEF Arm, CounterRuns, software
  <2>5. isr'.mask \subseteq active' /\ active' \subseteq enabled'
    BY <1>3 DEF Arm, software
  <2> QED BY <2>1, <2>3, <2>4, <2>5
<1>4. CASE Mark(c)
  <2>1. OneCaller' /\ Handler'.pc = "launch" /\ Handler'.id = Handler.id
    BY <1>1, <1>4, GotoHandler DEF Mark
  <2>2. Handler.pc = "mark" /\ active' = active \union {Handler.id} /\ UNCHANGED hardware
    BY <1>1, <1>4 DEF Mark, At, Handler
  <2>3. Handler.id \in enabled \ active
    BY <2>2 DEF FrameMeaning
  <2>4. Cardinality(active') = Cardinality(active) + 1
    BY <1>2, <2>2, <2>3, ActiveCard
  <2>5. CountMatches'
    BY <1>2, <1>4, <2>1, <2>2, <2>4 DEF Mark, CountMatches, InFlight
  <2>6. count # 0 => active # {}
    BY <1>2, <2>2, ActiveCard DEF CountMatches, InFlight
  <2>7. CounterRuns'
    BY <1>4, <2>1, <2>2, <2>6 DEF Mark, CounterRuns, hardware
  <2>8. FrameMeaning' /\ isr'.mask \subseteq active' /\ active' \subseteq enabled'
    BY <1>4, <2>1, <2>2, <2>3 DEF Mark, FrameMeaning
  <2> QED BY <2>1, <2>5, <2>7, <2>8
<1>5. CASE Launch(c)
  <2>1. OneCaller' /\ Handler'.pc = "inc" /\ Handler'.id = Handler.id /\ Handler'.seen = count
    BY <1>1, <1>2, <1>5, SeenHandler DEF Launch
  <2>2. Handler.pc = "launch"
    BY <1>1, <1>5 DEF Launch, At, Handler
  <2>3. CountMatches' /\ FrameMeaning'
    BY <1>5, <2>1, <2>2 DEF Launch, CountMatches, FrameMeaning, InFlight, software
  <2>4. CounterRuns'
    <3>1. running'
      BY <1>5, <2>2, Zenon DEF Launch, CounterRuns
    <3> QED BY <2>1, <3>1 DEF CounterRuns
  <2>5. isr'.mask \subseteq active' /\ active' \subseteq enabled'
    BY <1>5 DEF Launch, software
  <2> QED BY <2>1, <2>3, <2>4, <2>5
<1>6. CASE Inc(c)
  <2>1. OneCaller' /\ Handler' = NoCall /\ Handler.pc = "inc"
    BY <1>1, <1>6, ReturnHandler DEF Inc, At, Handler
  <2>2. Handler.seen = count /\ count \in 0 .. 254 /\ Cardinality(active) = count + 1
    BY <1>2, <2>1 DEF FrameMeaning, CountMatches, InFlight
  <2>3. count' = count + 1 /\ UNCHANGED <<enabled, active, hardware, isr>>
    BY <1>1, <1>6, <2>2, U8Inc DEF Inc, Handler
  <2>4. CountMatches' /\ FrameMeaning'
    BY <2>1, <2>2, <2>3 DEF CountMatches, FrameMeaning, InFlight, NoCall
  <2>5. CounterRuns'
    BY <2>1, <2>3 DEF CounterRuns, NoCall, hardware
  <2> QED BY <2>1, <2>3, <2>4, <2>5
<1>7. CASE MaskInterrupt(c)
  <2>1. OneCaller' /\ Handler'.pc = "unmark" /\ Handler'.id = Handler.id
    BY <1>1, <1>7, GotoHandler DEF MaskInterrupt
  <2>2. Handler.pc = "mask"
    BY <1>1, <1>7 DEF MaskInterrupt, At, Handler
  <2>3. FrameMeaning' /\ CountMatches' /\ isr'.mask \subseteq active' /\ active' \subseteq enabled'
    BY <1>7, <2>1, <2>2 DEF MaskInterrupt, FrameMeaning, CountMatches, InFlight, software
  <2>4. CounterRuns'
    BY <1>7, <2>1, <2>2 DEF MaskInterrupt, CounterRuns, software
  <2> QED BY <2>1, <2>3, <2>4
<1>8. CASE Unmark(c)
  <2>1. OneCaller' /\ Handler'.pc = "load"
    BY <1>1, <1>8, GotoHandler DEF Unmark
  <2>2. Handler.pc = "unmark" /\ active' = active \ {Handler.id} /\ UNCHANGED hardware
    BY <1>1, <1>8 DEF Unmark, At, Handler
  <2>3. Handler.id \in active \ isr.mask
    BY <2>2 DEF FrameMeaning
  <2>4. Cardinality(active') = Cardinality(active) - 1
    BY <1>2, <2>2, <2>3, ActiveCard
  <2>5. CountMatches'
    BY <1>2, <1>8, <2>1, <2>2, <2>4 DEF Unmark, CountMatches, InFlight
  <2>6. CounterRuns'
    BY <2>1, <2>2 DEF CounterRuns, hardware
  <2>7. FrameMeaning' /\ isr'.mask \subseteq active' /\ active' \subseteq enabled'
    BY <1>8, <2>1, <2>2, <2>3 DEF Unmark, FrameMeaning
  <2> QED BY <2>1, <2>5, <2>6, <2>7
<1>9. CASE Load(c)
  <2>1. OneCaller' /\ Handler'.pc = "dec" /\ Handler'.seen = count
    BY <1>1, <1>2, <1>9, SeenHandler DEF Load
  <2>2. Handler.pc = "load"
    BY <1>1, <1>9 DEF Load, At, Handler
  <2>3. CountMatches' /\ FrameMeaning' /\ isr'.mask \subseteq active' /\ active' \subseteq enabled'
    BY <1>9, <2>1, <2>2 DEF Load, CountMatches, FrameMeaning, InFlight, software
  <2>4. CounterRuns'
    BY <1>9, <2>1, <2>2 DEF Load, CounterRuns, software, hardware
  <2> QED BY <2>1, <2>3, <2>4
<1>10. CASE Dec(c)
  <2>1. OneCaller' /\ Handler' = NoCall /\ Handler.pc = "dec"
    BY <1>1, <1>10, ReturnHandler DEF Dec, At, Handler
  <2>2. Handler.seen = count /\ count \in 1 .. 255 /\ Cardinality(active) = count - 1
    BY <1>2, <2>1 DEF FrameMeaning, CountMatches, InFlight
  <2>3. /\ count' = count - 1 /\ Halt(count - 1)
        /\ UNCHANGED <<enabled, active, isr>>
    BY <1>1, <1>10, <2>2, U8Dec DEF Dec, Handler
  <2>4. CountMatches' /\ FrameMeaning'
    BY <2>1, <2>2, <2>3 DEF CountMatches, FrameMeaning, InFlight, NoCall
  <2>5. active # {} => running /\ count - 1 # 0
    BY <1>2, <2>1, <2>2, ActiveCard DEF CounterRuns
  <2>6. active' # {} => running'
    BY <2>3, <2>5, Zenon DEF Halt
  <2>7. CounterRuns'
    BY <2>1, <2>6 DEF CounterRuns, NoCall
  <2> QED BY <2>1, <2>3, <2>4, <2>7
<1> QED BY <1>3, <1>4, <1>5, <1>6, <1>7, <1>8, <1>9, <1>10 DEF DriverStep

\* A handler that is entered or left makes no driver call meanwhile.
LEMMA HandlerIdle ==
    ASSUME Bookkeeping, Handler = NoCall
    PROVE  /\ InFlight = 0 /\ Cardinality(active) = count
           /\ active # {} => running
BY DEF Bookkeeping, CountMatches, CounterRuns, InFlight, NoCall,
   TypeInv, TypeOK, SoftwareOK

LEMMA InterruptBookkeeping ==
    ASSUME Bookkeeping, TypeInv',
           TimerIrq \/ TimerIrqReturn \/ RadioIrq \/ RadioIrqReturn
    PROVE  Bookkeeping'
<1> USE DEF Bookkeeping
<1>1. UNCHANGED <<software, running, call>>
  BY DEF TimerIrq, TimerIrqReturn, RadioIrq, RadioIrqReturn, hardware
<1>2. Handler = NoCall
  BY DEF TimerIrq, TimerIrqReturn, RadioIrq, RadioIrqReturn, OneCaller, Handler
<1>3. isr'.mask \subseteq active
  BY DEF TimerIrq, TimerIrqReturn, RadioIrq, RadioIrqReturn, NoIsr
<1>4. OneCaller'
  BY <1>1, <1>2 DEF OneCaller, Handler
<1>5. FrameMeaning' /\ CountMatches' /\ CounterRuns'
  BY <1>1, <1>2 DEF FrameMeaning, CountMatches, CounterRuns, InFlight, Handler, NoCall, software
<1> QED BY <1>1, <1>3, <1>4, <1>5 DEF software

LEMMA ExpireBookkeeping ==
    ASSUME Bookkeeping, TypeInv', NEW i \in Ids, Expire(i)
    PROVE  Bookkeeping'
<1> USE DEF Bookkeeping
<1>1. /\ Handler = NoCall /\ UNCHANGED <<call, enabled>>
      /\ i \in isr.mask /\ i \in active /\ isr'.mask = isr.mask \ {i}
  BY DEF Expire, ExpireRepeated, ExpireSingleShot, NextToServe, Handler, software,
         TypeInv, TypeOK, IsrOK
<1>2. OneCaller' /\ FrameMeaning' /\ InFlight' = 0 /\ Handler'.pc = "idle"
  BY <1>1 DEF OneCaller, FrameMeaning, InFlight, Handler, NoCall
<1>3. /\ count \in 0 .. 255 /\ active \in SUBSET Ids
      /\ Cardinality(active) = count /\ count # 0 /\ (active # {} => running)
  BY <1>1, HandlerType, HandlerIdle, ActiveCard
<1>4. CASE ExpireRepeated(i)
  BY <1>1, <1>2, <1>3, <1>4 DEF ExpireRepeated, CountMatches, CounterRuns, software
<1>5. CASE ExpireSingleShot(i)
  <2>1. U8(count + 255) = count - 1
    BY <1>3, U8Dec
  <2>2. active' = active \ {i} /\ count' = count - 1 /\ Halt(count - 1)
    BY <1>5, <2>1 DEF ExpireSingleShot
  <2>3. Cardinality(active') = count - 1
    BY <1>1, <1>3, <2>2, ActiveCard
  <2>4. CountMatches'
    BY <1>2, <1>3, <2>2, <2>3 DEF CountMatches
  <2>5. active' # {} => count - 1 # 0
    BY <1>3, <2>2, <2>3, ActiveCard
  <2>6. active' # {} => running'
    BY <1>3, <2>2, <2>5, Zenon DEF Halt
  <2>7. CounterRuns'
    BY <1>2, <2>6 DEF CounterRuns
  <2>8. isr'.mask \subseteq active' /\ active' \subseteq enabled'
    BY <1>1, <2>2
  <2> QED BY <1>2, <2>4, <2>7, <2>8
<1> QED BY <1>4, <1>5 DEF Expire

LEMMA NextBookkeeping ==
    ASSUME HandlersOnly, Bookkeeping, [Next]_vars
    PROVE  Bookkeeping'
<1>0. TypeInv'
  BY NextTypeInv DEF Bookkeeping
<1> USE DEF Bookkeeping
<1>1. ASSUME NEW t \in Types, Create(t)
      PROVE  Bookkeeping'
  <2>1. Handler = NoCall /\ UNCHANGED <<call, isr, count, running>>
    BY <1>1 DEF Create, CanRun, OneCaller, hardware
  <2>2. active' = active /\ enabled \subseteq enabled'
    BY <1>1 DEF Create
  <2>3. OneCaller' /\ FrameMeaning' /\ CountMatches' /\ CounterRuns'
    BY <2>1, <2>2 DEF OneCaller, FrameMeaning, CountMatches, CounterRuns, InFlight,
                      Handler, NoCall
  <2> QED BY <1>0, <2>1, <2>2, <2>3
<1>2. ASSUME NEW c \in Callers, NEW i \in Ids, NEW us \in Durations, Start(c, i, us)
      PROVE  Bookkeeping'
  <2> DEFINE f == [pc |-> "arm", id |-> i, ticks |-> us, curr |-> counter, seen |-> 0]
  <2>1. f \in Frames /\ f.pc = "arm" /\ f.id = i
    BY CounterFacts DEF Frames, TypeInv, TypeOK, HardwareOK
  <2>2. Enter(c, f) /\ UNCHANGED <<software, hardware, ghosts>> /\ i \in enabled \ active
    BY <1>2 DEF Start
  <2> HIDE DEF f
  <2> QED BY <1>0, <2>1, <2>2, EnterBookkeeping
<1>3. ASSUME NEW c \in Callers, NEW i \in Ids, Stop(c, i)
      PROVE  Bookkeeping'
  <2> DEFINE f == [pc |-> "mask", id |-> i, ticks |-> 0, curr |-> 0, seen |-> 0]
  <2>1. f \in Frames /\ f.pc = "mask" /\ f.id = i
    BY CounterFacts DEF Frames
  <2>2. Enter(c, f) /\ UNCHANGED <<software, hardware, ghosts>> /\ i \in active \ isr.mask
    BY <1>3 DEF Stop, HandlersOnly
  <2> HIDE DEF f
  <2> QED BY <1>0, <2>1, <2>2, EnterBookkeeping
<1>4. CASE Tick
  BY <1>0, <1>4 DEF Tick, OneCaller, FrameMeaning, CountMatches, CounterRuns, InFlight,
                    Handler, software
<1>5. CASE UNCHANGED vars
  BY <1>0, <1>5 DEF vars, OneCaller, FrameMeaning, CountMatches, CounterRuns, InFlight,
                    Handler
<1> QED
  BY <1>0, <1>1, <1>2, <1>3, <1>4, <1>5, DriverStepBookkeeping, InterruptBookkeeping,
     ExpireBookkeeping DEF Next

\* With the driver used from its handlers only, `active` is the number of armed
\* timers whenever no driver code runs: no start, stop or expiry is counted
\* twice or missed.
THEOREM CountCorrect == ASSUME HandlersOnly PROVE Spec => []CountExact
<1>1. Bookkeeping /\ [Next]_vars => Bookkeeping'
  BY NextBookkeeping
<1>2. Bookkeeping => CountExact
  <2> SUFFICES ASSUME Bookkeeping, Quiescent PROVE count = Cardinality(active)
    BY DEF CountExact
  <2>1. Handler = NoCall
    BY DEF Quiescent, Handler, Contexts
  <2> QED BY <2>1, HandlerIdle
<1> QED BY InitBookkeeping, <1>1, <1>2, PTL DEF Spec

\* With the driver used from its handlers only, TIMER0 runs as long as a timer
\* is armed: the end of one timer never freezes the others.
THEOREM RunningCorrect == ASSUME HandlersOnly PROVE Spec => []RunningWhileActive
<1>1. Bookkeeping /\ [Next]_vars => Bookkeeping'
  BY NextBookkeeping
<1>2. Bookkeeping => RunningWhileActive
  <2> SUFFICES ASSUME Bookkeeping, active # {}, \A c \in Contexts : call[c] = NoCall
               PROVE  running
    BY DEF RunningWhileActive
  <2>1. Handler = NoCall
    BY DEF Handler, Contexts
  <2> QED BY <2>1, HandlerIdle
<1> QED BY InitBookkeeping, <1>1, <1>2, PTL DEF Spec

\* A timer that is served is still armed: one that timer_stop() took out of
\* service before its turn in the handler's loop does not fire.
THEOREM StopIsFinal == ASSUME HandlersOnly PROVE Spec => StoppedIsNotServed
<1>1. Bookkeeping /\ [Next]_vars => Bookkeeping'
  BY NextBookkeeping
<1>2. Bookkeeping => \A i \in isr.mask \ isr'.mask : i \in active
  BY DEF Bookkeeping
<1> QED BY InitBookkeeping, <1>1, <1>2, PTL DEF Spec, StoppedIsNotServed

-----------------------------------------------------------------------------
(* When timers are served, for the driver used from interrupt handlers       *)
(* (HandlersOnly): no timeout is lost, none comes early but for a compare    *)
(* event left over, and Timer implements TimerService.                       *)
(*                                                                           *)
(* The inductive invariant.  A compare register holds no more than the       *)
(* counter value at which its timer is due, a turn of the counter more or    *)
(* less: DueOK ties it to the ticks that remain, and bounds these so that    *)
(* a match means "due now" and nothing else.  What has matched is then on    *)
(* its way to the handler (NoticedOK, EventOK).  The two captures of the     *)
(* counter from which new compare values are computed, the one of            *)
(* timer_start() and the one of the handler, are not older than the code     *)
(* has been busy (ArmingOK, ServingOK).                                      *)

Stopping(i) == Handler.pc = "unmark" /\ Handler.id = i
Raised(i) == i \in event /\ pending

DueOK(i) ==
    /\ - busy <= left[i] /\ left[i] <= ticks[i]
    /\ counter + left[i] - cc[i] \in {- CounterSize, 0, CounterSize}

NoticedOK(i) ==
    /\ i \in inten \/ Stopping(i)
    /\ left[i] <= 0 => i \in isr.mask \/ Raised(i) \/ Stopping(i)

EventOK(i) ==
    /\ i \in event => i \notin isr.mask /\ (left[i] <= 0 \/ i \in leftover)
    /\ i \in isr.mask => left[i] <= 0 \/ left[i] >= ticks[i] - busy
    /\ i \in leftover => left[i] >= ticks[i] - busy /\ (i \in isr.mask \/ Raised(i))

TimerOK(i) == DueOK(i) /\ NoticedOK(i) /\ EventOK(i)

ArmingOK ==
    /\ Handler.pc \in {"arm", "mark"} => Elapsed(Handler.curr) <= busy
    /\ Handler.pc = "mark" =>
        /\ cc[Handler.id] = Wrap(Handler.curr + Handler.ticks)
        /\ Handler.id \in inten
        /\ Handler.id \in event <=> Handler.id \in leftover
        /\ Handler.id \in leftover => pending

ServingOK == isr.mask # {} => isr.on \in {"loop", "callback"} /\ Elapsed(isr.curr) <= busy

Timing == ArmingOK /\ ServingOK /\ \A i \in active : TimerOK(i)

TimingInv == Bookkeeping /\ Timing

-----------------------------------------------------------------------------
(* Arithmetic modulo the size of the counter.                               *)

\* Less than one turn before or after it is due, a timer matches exactly when
\* it falls due.
LEMMA MatchIsDue ==
    ASSUME NEW now \in 0 .. CounterSize - 1, NEW v \in 0 .. CounterSize - 1,
           NEW l \in Int, - CounterSize < l - 1, l < CounterSize,
           now + l - v \in {- CounterSize, 0, CounterSize}
    PROVE  /\ Wrap(now + 1) + (l - 1) - v \in {- CounterSize, 0, CounterSize}
           /\ v = Wrap(now + 1) <=> l - 1 = 0
BY CounterFacts DEF Wrap

\* A compare value computed from an earlier capture of the counter.
LEMMA CompareIsDue ==
    ASSUME counter \in 0 .. CounterSize - 1, NEW from \in 0 .. CounterSize - 1,
           NEW d \in 0 .. CounterSize - 1
    PROVE  /\ counter + (d - Elapsed(from)) - Wrap(from + d)
                \in {- CounterSize, 0, CounterSize}
           /\ Elapsed(from) \in 0 .. CounterSize - 1
BY CounterFacts DEF Wrap, Elapsed

LEMMA ElapsedTick ==
    ASSUME counter \in 0 .. CounterSize - 1, NEW from \in 0 .. CounterSize - 1,
           counter' = Wrap(counter + 1), Elapsed(from) < CounterSize - 1
    PROVE  (IF counter' >= from THEN counter' - from ELSE counter' + CounterSize - from)
             = Elapsed(from) + 1
BY CounterFacts DEF Wrap, Elapsed

\* The types and ranges of what the proofs compute with.
LEMMA TimingTypes ==
    ASSUME TypeInv
    PROVE  /\ counter \in 0 .. CounterSize - 1 /\ CounterSize \in Nat \ {0}
           /\ MaxLatency \in Nat /\ DriftFix \in Nat /\ busy \in 0 .. MaxLatency
           /\ Handler.curr \in 0 .. CounterSize - 1 /\ isr.curr \in 0 .. CounterSize - 1
           /\ Handler.ticks \in 0 .. CounterSize - 1 /\ Handler.id \in Ids
           /\ Handler.pc \in {"arm", "mark"} =>
                 MaxLatency + DriftFix < Handler.ticks /\ Handler.ticks < CounterSize - 1
           /\ active \in SUBSET Ids /\ isr.mask \in SUBSET Ids
BY TimerAssumption, CounterFacts
   DEF TypeInv, TypeOK, SoftwareOK, HardwareOK, IsrOK, CallOK, GhostsOK, Handler, Contexts,
       Frames, DurationsKnown

LEMMA TimerTypes ==
    ASSUME TypeInv, NEW i \in active
    PROVE  /\ i \in Ids /\ left[i] \in Int /\ cc[i] \in 0 .. CounterSize - 1
           /\ ticks[i] \in Durations /\ ticks[i] \in 0 .. CounterSize - 1
           /\ MaxLatency + DriftFix < ticks[i] /\ ticks[i] < CounterSize - 1
BY TimerAssumption, CounterFacts
   DEF TypeInv, TypeOK, SoftwareOK, HardwareOK, GhostsOK, DurationsKnown

\* A step that leaves what concerns timer i alone.
LEMMA Undisturbed ==
    ASSUME NEW i, TimerOK(i),
           counter' = counter, busy' = busy,
           cc'[i] = cc[i], left'[i] = left[i], ticks'[i] = ticks[i],
           i \in event' <=> i \in event,
           i \in isr'.mask <=> i \in isr.mask,
           i \in leftover' <=> i \in leftover,
           i \in inten => i \in inten',
           pending => pending',
           Stopping(i) => Stopping(i)'
    PROVE  TimerOK(i)'
<1>1. DueOK(i)'
  BY DEF TimerOK, DueOK
<1>2. NoticedOK(i)'
  BY DEF TimerOK, NoticedOK, Raised
<1>3. EventOK(i)'
  BY DEF TimerOK, EventOK, Raised
<1> QED BY <1>1, <1>2, <1>3 DEF TimerOK

-----------------------------------------------------------------------------
(* The steps of a driver call.                                              *)

LEMMA ActingHandler ==
    ASSUME Bookkeeping, NEW c \in Contexts, DriverStep(c)
    PROVE  c = "handler" /\ CallOK /\ Handler \in Frames /\ Handler.pc # "idle"
BY DEF DriverStep, Arm, Mark, Launch, Inc, MaskInterrupt, Unmark, Load, Dec, At, Bookkeeping,
       OneCaller, NoCall, Contexts, TypeInv, TypeOK, CallOK, Handler

LEMMA GotoFrame ==
    ASSUME CallOK, NEW pc \in {"mark", "launch", "unmark", "load"}, Goto("handler", pc)
    PROVE  /\ Handler'.pc = pc /\ Handler'.id = Handler.id
           /\ Handler'.curr = Handler.curr /\ Handler'.ticks = Handler.ticks
<1>1. Handler \in Frames
  BY DEF CallOK, Handler, Contexts
<1>2. Handler' = [Handler EXCEPT !.pc = pc]
  BY DEF Goto, Handler, CallOK, Contexts
<1> QED BY <1>1, <1>2 DEF Frames

\* Neither capture of the counter ages while the counter stands still.
LEMMA ServingStands ==
    ASSUME ServingOK, UNCHANGED <<counter, busy>>, isr'.curr = isr.curr,
           isr'.mask \subseteq isr.mask, isr'.mask # {} => isr'.on \in {"loop", "callback"}
    PROVE  ServingOK'
BY DEF ServingOK, Elapsed

LEMMA ArmTiming ==
    ASSUME TimingInv, NEW c \in Contexts, Arm(c)
    PROVE  Timing'
<1> USE DEF TimingInv
<1>1. /\ Handler.pc = "arm" /\ CallOK /\ cc \in [Ids -> 0 .. CounterSize - 1]
      /\ Handler.id \in Ids /\ Handler.id \notin active
      /\ cc' = [cc EXCEPT ![Handler.id] = Wrap(Handler.curr + Handler.ticks)]
      /\ inten' = inten \union {Handler.id}
      /\ leftover' = IF Handler.id \in event THEN leftover \union {Handler.id}
                                             ELSE leftover \ {Handler.id}
      /\ UNCHANGED <<software, counter, running, event, isr, left, busy>>
      /\ Goto("handler", "mark")
  BY ActingHandler, TimingTypes
     DEF DriverStep, Arm, At, Handler, Bookkeeping, TypeInv, TypeOK, HardwareOK, FrameMeaning
<1>2. pending' = (pending \/ Handler.id \in event)
  BY ActingHandler, Zenon DEF DriverStep, Arm, Handler, TimingInv
<1>3. /\ Handler'.pc = "mark" /\ Handler'.id = Handler.id
      /\ Handler'.curr = Handler.curr /\ Handler'.ticks = Handler.ticks
  BY <1>1, GotoFrame
<1>4. ArmingOK'
  <2>1. Elapsed(Handler.curr) <= busy
    BY <1>1 DEF Timing, ArmingOK
  <2>2. Elapsed(Handler.curr)' <= busy'
    BY <1>1, <1>3, <2>1 DEF Elapsed
  <2>3. cc'[Handler.id] = Wrap(Handler.curr + Handler.ticks) /\ Handler.id \in inten'
    BY <1>1
  <2>4. Handler.id \in event' <=> Handler.id \in leftover'
    BY <1>1
  <2>5. Handler.id \in leftover' => pending'
    BY <1>1, <1>2, <2>4, Zenon
  <2>6. Wrap(Handler.curr + Handler.ticks)' = Wrap(Handler.curr + Handler.ticks)
    BY <1>3 DEF Wrap
  <2> QED BY <1>3, <2>2, <2>3, <2>4, <2>5, <2>6 DEF ArmingOK
<1>5. ServingOK'
  BY <1>1, ServingStands DEF Timing, ServingOK
<1>6. ASSUME NEW i \in active'
      PROVE  TimerOK(i)'
  <2>1. i \in active /\ i # Handler.id
    BY <1>1, <1>6 DEF software
  <2>2. ~Stopping(i) /\ (pending => pending') /\ TimerOK(i)
    BY <1>1, <1>2, <2>1, Zenon DEF Stopping, Timing
  <2> QED BY <1>1, <2>1, <2>2, Undisturbed DEF software
<1> QED BY <1>4, <1>5, <1>6 DEF Timing

LEMMA MarkTiming ==
    ASSUME TimingInv, NEW c \in Contexts, Mark(c)
    PROVE  Timing'
<1> USE DEF TimingInv
<1>0. PICK k \in Ids, late \in 0 .. CounterSize - 1 :
         k = Handler.id /\ late = Elapsed(Handler.curr)
  BY TimingTypes, CompareIsDue DEF Bookkeeping
<1>1. /\ Handler.pc = "mark" /\ CallOK /\ k \notin active
      /\ ticks \in [Ids -> 0 .. CounterSize - 1] /\ left \in [Ids -> Int]
      /\ active' = active \union {k}
      /\ ticks' = [ticks EXCEPT ![k] = Handler.ticks]
      /\ left' = [left EXCEPT ![k] = Handler.ticks - late]
      /\ UNCHANGED <<counter, cc, event, inten, pending, isr, leftover, busy>>
      /\ Goto("handler", "launch")
  BY <1>0, ActingHandler
     DEF DriverStep, Mark, At, Handler, Bookkeeping, TypeInv, TypeOK, SoftwareOK, GhostsOK,
         FrameMeaning, hardware
<1>2. Handler'.pc = "launch"
  BY <1>1, GotoFrame
<1>3. ArmingOK'
  BY <1>2 DEF ArmingOK
<1>4. ServingOK'
  BY <1>1, ServingStands DEF Timing, ServingOK
<1>5. /\ late <= busy /\ cc[k] = Wrap(Handler.curr + Handler.ticks) /\ k \in inten
      /\ k \in event <=> k \in leftover
      /\ k \in leftover => pending
  BY <1>0, <1>1 DEF Timing, ArmingOK
<1>6. counter + (Handler.ticks - late) - cc[k] \in {- CounterSize, 0, CounterSize}
  BY <1>0, <1>5, TimingTypes, CompareIsDue DEF Bookkeeping
<1>7. TimerOK(k)'
  <2>1. left'[k] = Handler.ticks - late /\ ticks'[k] = Handler.ticks
    BY <1>1
  <2>2. /\ MaxLatency < Handler.ticks /\ Handler.ticks \in Nat /\ busy \in 0 .. MaxLatency
        /\ MaxLatency \in Nat
    BY <1>1, TimingTypes DEF Bookkeeping
  <2>3. 0 < left'[k] /\ left'[k] <= ticks'[k] /\ left'[k] >= ticks'[k] - busy
    BY <1>5, <1>6, <2>1, <2>2
  <2>4. k \notin isr.mask
    BY <1>1 DEF Bookkeeping
  <2>5. DueOK(k)'
    BY <1>1, <1>6, <2>1, <2>2, <2>3 DEF DueOK
  <2>6. NoticedOK(k)'
    BY <1>1, <1>5, <2>1, <2>2, <2>3 DEF NoticedOK
  <2>7. EventOK(k)'
    BY <1>1, <1>5, <2>3, <2>4 DEF EventOK, Raised
  <2> QED BY <2>5, <2>6, <2>7 DEF TimerOK
<1>8. ASSUME NEW i \in active', i # k
      PROVE  TimerOK(i)'
  <2>1. i \in active /\ i \in Ids /\ ~Stopping(i) /\ TimerOK(i)
    BY <1>0, <1>1, <1>8, TimingTypes DEF Stopping, Timing, Bookkeeping
  <2> QED BY <1>1, <1>8, <2>1, Undisturbed
<1> QED BY <1>3, <1>4, <1>7, <1>8 DEF Timing

LEMMA MaskTiming ==
    ASSUME TimingInv, NEW c \in Contexts, MaskInterrupt(c)
    PROVE  Timing'
<1> USE DEF TimingInv
<1>1. /\ Handler.pc = "mask" /\ CallOK
      /\ inten' = inten \ {Handler.id}
      /\ UNCHANGED <<software, counter, running, cc, event, pending, isr, ghosts>>
      /\ Goto("handler", "unmark")
  BY ActingHandler DEF DriverStep, MaskInterrupt, At, Handler
<1>2. Handler'.pc = "unmark" /\ Handler'.id = Handler.id
  BY <1>1, GotoFrame
<1>3. ArmingOK'
  BY <1>2 DEF ArmingOK
<1>4. ServingOK'
  BY <1>1, ServingStands DEF Timing, ServingOK, ghosts
<1>5. ASSUME NEW i \in active'
      PROVE  TimerOK(i)'
  <2>1. i \in active /\ TimerOK(i) /\ ~Stopping(i)
    BY <1>1, <1>5 DEF Timing, software, Stopping
  <2>2. CASE i = Handler.id
    <3>1. Stopping(i)'
      BY <1>2, <2>2 DEF Stopping
    <3>2. DueOK(i)' /\ EventOK(i)'
      BY <1>1, <2>1 DEF TimerOK, DueOK, EventOK, Raised, software, ghosts
    <3> QED BY <3>1, <3>2 DEF TimerOK, NoticedOK
  <2>3. CASE i # Handler.id
    BY <1>1, <2>1, <2>3, Undisturbed DEF software, ghosts
  <2> QED BY <2>2, <2>3
<1> QED BY <1>3, <1>4, <1>5 DEF Timing

LEMMA UnmarkTiming ==
    ASSUME TimingInv, NEW c \in Contexts, Unmark(c)
    PROVE  Timing'
<1> USE DEF TimingInv
<1>1. /\ Handler.pc = "unmark" /\ CallOK
      /\ active' = active \ {Handler.id}
      /\ left' = [left EXCEPT ![Handler.id] = 0] /\ left \in [Ids -> Int]
      /\ leftover' = leftover \ {Handler.id}
      /\ UNCHANGED <<ticks, hardware, isr, busy>>
      /\ Goto("handler", "load")
  BY ActingHandler
     DEF DriverStep, Unmark, At, Handler, Bookkeeping, TypeInv, TypeOK, GhostsOK
<1>2. Handler'.pc = "load"
  BY <1>1, GotoFrame
<1>3. ArmingOK'
  BY <1>2 DEF ArmingOK
<1>4. ServingOK'
  BY <1>1, ServingStands DEF Timing, ServingOK, hardware
<1>5. ASSUME NEW i \in active'
      PROVE  TimerOK(i)'
  <2>1. i \in active /\ i \in Ids /\ i # Handler.id /\ TimerOK(i) /\ ~Stopping(i)
    BY <1>1, <1>5, TimingTypes DEF Timing, Stopping, Bookkeeping
  <2> QED BY <1>1, <2>1, Undisturbed DEF hardware
<1> QED BY <1>3, <1>4, <1>5 DEF Timing

\* TASKS_CLEAR happens only once no timer is armed.
LEMMA DecHaltsLast ==
    ASSUME Bookkeeping, NEW c \in Contexts, Dec(c), active # {}
    PROVE  counter' = counter
<1> USE DEF Bookkeeping
<1>1. /\ Handler.pc = "dec" /\ Handler.seen = count
      /\ Halt(U8(count + 255))
  BY ActingHandler DEF DriverStep, Dec, At, Handler, FrameMeaning
<1>2. /\ count \in 0 .. 255 /\ Cardinality(active) = count - 1
      /\ Cardinality(active) \in 0 .. 255 /\ Cardinality(active) # 0
  BY <1>1, HandlerType, ActiveCard DEF CountMatches, InFlight
<1>3. U8(count + 255) = count - 1
  BY <1>2, U8Dec
<1> QED BY <1>1, <1>2, <1>3 DEF Halt

\* The load and the store of `active` touch no timer.
LEMMA CountTiming ==
    ASSUME TimingInv, NEW c \in Contexts, Launch(c) \/ Inc(c) \/ Load(c) \/ Dec(c)
    PROVE  Timing'
<1> USE DEF TimingInv
<1>1. /\ c = "handler" /\ CallOK /\ Handler.pc \in {"launch", "inc", "load", "dec"}
      /\ count \in 0 .. 255
      /\ UNCHANGED <<active, ticks, cc, event, inten, pending, isr, ghosts>>
  BY ActingHandler
     DEF DriverStep, Launch, Inc, Load, Dec, At, Handler, software, hardware,
         Bookkeeping, TypeInv, TypeOK, SoftwareOK
<1>2. Handler'.pc \in {"inc", "dec", "idle"}
  <2>1. CASE Launch(c) \/ Load(c)
    BY <1>1, <2>1, SeenType DEF Launch, Load, Handler
  <2>2. CASE Inc(c) \/ Dec(c)
    BY <1>1, <2>2 DEF Inc, Dec, Return, Handler, NoCall, CallOK
  <2> QED BY <2>1, <2>2
<1>3. active # {} => counter' = counter
  BY DecHaltsLast DEF Launch, Inc, Load, hardware
<1>4. ArmingOK'
  BY <1>2 DEF ArmingOK
<1>5. ServingOK'
  <2>1. CASE active = {}
    BY <1>1, <2>1 DEF ServingOK, Bookkeeping
  <2>2. CASE active # {}
    BY <1>1, <1>3, <2>2, ServingStands DEF Timing, ServingOK, ghosts
  <2> QED BY <2>1, <2>2
<1>6. ASSUME NEW i \in active'
      PROVE  TimerOK(i)'
  <2>1. i \in active /\ TimerOK(i) /\ ~Stopping(i) /\ counter' = counter
    BY <1>1, <1>3, <1>6 DEF Timing, Stopping
  <2> QED BY <1>1, <2>1, Undisturbed DEF ghosts
<1> QED BY <1>4, <1>5, <1>6 DEF Timing

LEMMA DriverStepTiming ==
    ASSUME TimingInv, NEW c \in Contexts, DriverStep(c)
    PROVE  Timing'
BY ArmTiming, MarkTiming, MaskTiming, UnmarkTiming, CountTiming DEF DriverStep

\* Entering a call captures the counter, or stops a timer.
LEMMA EnterTiming ==
    ASSUME TimingInv, HandlersOnly, NEW c \in Callers, NEW f \in Frames, Enter(c, f),
           UNCHANGED <<software, hardware, ghosts>>,
           \/ f.pc = "arm" /\ f.curr = counter
           \/ f.pc = "mask"
    PROVE  Timing'
<1> USE DEF TimingInv
<1>1. c = "handler" /\ CallOK /\ IsrOK /\ Handler = NoCall
  BY DEF HandlersOnly, Bookkeeping, TypeInv, TypeOK, Enter, Handler
<1>2. /\ Handler' = f /\ isr'.mask = isr.mask /\ isr'.curr = isr.curr
      /\ isr.on \in {"callback", "radio"} /\ (isr.on = "callback" => isr'.on = "loop")
  BY <1>1 DEF Enter, CanRun, CallOK, IsrOK, Handler, Contexts
<1>3. ArmingOK'
  <2>1. Elapsed(counter) = 0 /\ busy \in 0 .. MaxLatency /\ MaxLatency \in Nat
    BY TimingTypes DEF Elapsed, Bookkeeping
  <2>2. CASE f.pc = "arm" /\ f.curr = counter
    BY <1>2, <2>1, <2>2 DEF ArmingOK, Elapsed, hardware, ghosts
  <2>3. CASE f.pc = "mask"
    BY <1>2, <2>3 DEF ArmingOK
  <2> QED BY <2>2, <2>3
<1>4. ServingOK'
  BY <1>2, ServingStands DEF Timing, ServingOK, hardware, ghosts
<1>5. ASSUME NEW i \in active'
      PROVE  TimerOK(i)'
  <2>1. i \in active /\ TimerOK(i) /\ ~Stopping(i)
    BY <1>1, <1>5 DEF Timing, Stopping, NoCall, software
  <2> QED BY <1>2, <2>1, Undisturbed DEF software, hardware, ghosts
<1> QED BY <1>3, <1>4, <1>5 DEF Timing

-----------------------------------------------------------------------------
(* The handlers and the passing of time.                                    *)

\* A handler is entered with no call in progress and nothing left to serve.
LEMMA HandlerFree ==
    ASSUME TimingInv, isr.on = "idle"
    PROVE  Handler = NoCall /\ isr.mask = {} /\ \A i \in Ids : ~Stopping(i)
BY DEF TimingInv, Bookkeeping, OneCaller, Timing, ServingOK, Stopping, NoCall

\* Every timer that is due when the handler is entered is collected by it: the
\* pending interrupt and the compare events tell it of all of them.
LEMMA TimerIrqTiming ==
    ASSUME TimingInv, TimerIrq
    PROVE  Timing'
<1> USE DEF TimingInv
<1>1. /\ Handler = NoCall /\ isr.mask = {} /\ \A i \in Ids : ~Stopping(i)
      /\ isr' = [on |-> "loop", curr |-> counter, mask |-> event \intersect active]
      /\ event' = {}
      /\ UNCHANGED <<software, counter, running, cc, inten, call, ghosts>>
  BY HandlerFree DEF TimerIrq
<1>2. Elapsed(counter) = 0 /\ busy \in 0 .. MaxLatency /\ MaxLatency \in Nat
  BY TimingTypes DEF Elapsed, Bookkeeping
<1>3. ArmingOK'
  BY <1>1 DEF ArmingOK, Handler, NoCall
<1>4. ServingOK'
  BY <1>1, <1>2 DEF ServingOK, Elapsed, ghosts
<1>5. ASSUME NEW i \in active'
      PROVE  TimerOK(i)'
  <2>1. i \in active /\ i \in Ids /\ TimerOK(i) /\ ~Stopping(i)
    BY <1>1, <1>5, TimingTypes DEF Timing, software, Bookkeeping
  <2>2. i \in isr'.mask <=> i \in event
    BY <1>1, <2>1
  <2>3. DueOK(i)'
    BY <1>1, <2>1 DEF TimerOK, DueOK, software, ghosts
  <2>4. NoticedOK(i)'
    BY <1>1, <2>1, <2>2 DEF TimerOK, NoticedOK, Raised, ghosts
  <2>5. EventOK(i)'
    BY <1>1, <2>1, <2>2 DEF TimerOK, EventOK, Raised, software, ghosts
  <2> QED BY <2>3, <2>4, <2>5 DEF TimerOK
<1> QED BY <1>3, <1>4, <1>5 DEF Timing

LEMMA OtherIrqTiming ==
    ASSUME TimingInv, TimerIrqReturn \/ RadioIrq \/ RadioIrqReturn
    PROVE  Timing'
<1> USE DEF TimingInv
<1>1. isr.mask = {} /\ isr'.mask = {} /\ UNCHANGED <<software, hardware, call, ghosts>>
  BY DEF TimerIrqReturn, RadioIrq, RadioIrqReturn, NoIsr, Timing, ServingOK
<1>2. ArmingOK'
  BY <1>1 DEF Timing, ArmingOK, Handler, Elapsed, Wrap, hardware, ghosts
<1>3. ServingOK'
  BY <1>1 DEF ServingOK
<1>4. ASSUME NEW i \in active'
      PROVE  TimerOK(i)'
  <2>1. i \in active /\ TimerOK(i) /\ (Stopping(i) => Stopping(i)')
    BY <1>1, <1>4 DEF Timing, software, Stopping, Handler
  <2> QED BY <1>1, <2>1, Undisturbed DEF software, hardware, ghosts
<1> QED BY <1>2, <1>3, <1>4 DEF Timing

\* What serving timer i leaves of the handler and of the other timers.
LEMMA ServeStep ==
    ASSUME TimingInv, NEW i \in Ids, NextToServe(i)
    PROVE  /\ Handler = NoCall /\ i \in active /\ i \in isr.mask
           /\ isr'.mask = isr.mask \ {i} /\ isr'.curr = isr.curr /\ isr'.on = "callback"
           /\ leftover' = leftover \ {i}
           /\ Elapsed(isr.curr) <= busy
           /\ TimerOK(i) /\ \A j \in Ids : ~Stopping(j)
BY DEF TimingInv, Bookkeeping, TypeInv, TypeOK, IsrOK, NextToServe, Handler, Timing,
       ServingOK, Stopping, NoCall

LEMMA ExpireRepeatedTiming ==
    ASSUME TimingInv, NEW i \in Ids, ExpireRepeated(i)
    PROVE  Timing'
<1> USE DEF TimingInv
<1>0. PICK late \in 0 .. CounterSize - 1 : late = Elapsed(isr.curr)
  BY TimingTypes, CompareIsDue DEF Bookkeeping
<1>1. /\ NextToServe(i)
      /\ cc' = [cc EXCEPT ![i] = Wrap(isr.curr + ticks[i] - DriftFix)]
      /\ inten' = inten \union {i}
      /\ left' = [left EXCEPT ![i] = ticks[i] - DriftFix - late]
      /\ UNCHANGED <<software, counter, running, event, call, busy>>
      /\ cc \in [Ids -> 0 .. CounterSize - 1] /\ left \in [Ids -> Int]
  BY <1>0 DEF ExpireRepeated, Bookkeeping, TypeInv, TypeOK, HardwareOK, GhostsOK
<1>2. pending => pending'
  BY Zenon DEF ExpireRepeated
<1>3. /\ Handler = NoCall /\ i \in active /\ i \in isr.mask
      /\ isr'.mask = isr.mask \ {i} /\ isr'.curr = isr.curr /\ isr'.on = "callback"
      /\ leftover' = leftover \ {i} /\ late <= busy
      /\ TimerOK(i) /\ \A j \in Ids : ~Stopping(j)
  BY <1>0, <1>1, ServeStep
<1>4. ArmingOK'
  BY <1>1, <1>3 DEF ArmingOK, Handler, NoCall
<1>5. ServingOK'
  BY <1>1, <1>3, ServingStands DEF Timing
<1>6. TimerOK(i)'
  <2>1. /\ ticks[i] \in 0 .. CounterSize - 1 /\ MaxLatency + DriftFix < ticks[i]
        /\ MaxLatency \in Nat /\ DriftFix \in Nat /\ busy \in 0 .. MaxLatency
        /\ CounterSize \in Nat \ {0} /\ counter \in 0 .. CounterSize - 1
        /\ isr.curr \in 0 .. CounterSize - 1
    BY <1>3, TimerTypes, TimingTypes DEF Bookkeeping
  <2>2. PICK d \in 0 .. CounterSize - 1 : d = ticks[i] - DriftFix
    BY <2>1
  <2>3. isr.curr + ticks[i] - DriftFix = isr.curr + d
    BY <2>1, <2>2
  <2>4. cc'[i] = Wrap(isr.curr + d) /\ left'[i] = d - late
    BY <1>1, <2>2, <2>3
  <2>5. counter + (d - late) - Wrap(isr.curr + d) \in {- CounterSize, 0, CounterSize}
    BY <1>0, <2>1, CompareIsDue
  <2>6. 0 < left'[i] /\ left'[i] <= ticks'[i] /\ - busy <= left'[i]
    BY <1>1, <1>3, <2>1, <2>2, <2>4 DEF software
  <2>7. DueOK(i)'
    BY <1>1, <2>4, <2>5, <2>6 DEF DueOK
  <2>8. NoticedOK(i)'
    BY <1>1, <2>1, <2>4, <2>6 DEF NoticedOK
  <2>9. EventOK(i)'
    BY <1>1, <1>3 DEF TimerOK, EventOK
  <2> QED BY <2>7, <2>8, <2>9 DEF TimerOK
<1>7. ASSUME NEW j \in active', j # i
      PROVE  TimerOK(j)'
  <2>1. j \in active /\ j \in Ids /\ TimerOK(j) /\ ~Stopping(j)
    BY <1>1, <1>3, <1>7, TimingTypes DEF Timing, software, Bookkeeping
  <2> QED BY <1>1, <1>2, <1>3, <1>7, <2>1, Undisturbed DEF software
<1> QED BY <1>4, <1>5, <1>6, <1>7 DEF Timing

LEMMA ExpireSingleShotTiming ==
    ASSUME TimingInv, NEW i \in Ids, ExpireSingleShot(i)
    PROVE  Timing'
<1> USE DEF TimingInv
<1>1. /\ NextToServe(i)
      /\ active' = active \ {i}
      /\ Halt(U8(count + 255))
      /\ left' = [left EXCEPT ![i] = 0] /\ left \in [Ids -> Int]
      /\ UNCHANGED <<enabled, type, ticks, cc, event, inten, pending, call, busy>>
  BY DEF ExpireSingleShot, Bookkeeping, TypeInv, TypeOK, GhostsOK
<1>2. /\ Handler = NoCall /\ i \in active /\ i \in isr.mask
      /\ isr'.mask = isr.mask \ {i} /\ isr'.curr = isr.curr /\ isr'.on = "callback"
      /\ leftover' = leftover \ {i}
      /\ TimerOK(i) /\ \A j \in Ids : ~Stopping(j)
  BY <1>1, ServeStep
<1>3. active' # {} => counter' = counter
  <2>1. /\ count \in 0 .. 255 /\ active \in SUBSET Ids
        /\ Cardinality(active) = count /\ count # 0
    BY <1>2, HandlerType, HandlerIdle, ActiveCard DEF Bookkeeping
  <2>2. U8(count + 255) = count - 1 /\ Cardinality(active') = count - 1
    BY <1>1, <1>2, <2>1, U8Dec, ActiveCard
  <2>3. active' # {} => count - 1 # 0
    BY <1>1, <2>1, <2>2, ActiveCard
  <2> QED BY <1>1, <2>2, <2>3 DEF Halt
<1>4. ArmingOK'
  BY <1>1, <1>2 DEF ArmingOK, Handler, NoCall
<1>5. ServingOK'
  <2>1. isr'.mask \subseteq active'
    BY <1>1, <1>2 DEF Bookkeeping
  <2>2. CASE active' = {}
    BY <2>1, <2>2 DEF ServingOK
  <2>3. CASE active' # {}
    BY <1>1, <1>2, <1>3, <2>3, ServingStands DEF Timing
  <2> QED BY <2>2, <2>3
<1>6. ASSUME NEW j \in active'
      PROVE  TimerOK(j)'
  <2>1. j \in active /\ j \in Ids /\ j # i /\ TimerOK(j) /\ ~Stopping(j) /\ counter' = counter
    BY <1>1, <1>2, <1>3, <1>6, TimingTypes DEF Timing, Bookkeeping
  <2> QED BY <1>1, <1>2, <2>1, Undisturbed
<1> QED BY <1>4, <1>5, <1>6 DEF Timing

\* A timer is never later than the code has been busy: when nothing runs or is
\* about to run, every armed timer is still to come due.
LEMMA NotYetDue ==
    ASSUME TimingInv, NEW i \in active
    PROVE  /\ Quiescent => left[i] > 0
           /\ busy < MaxLatency => left[i] > - MaxLatency
<1> USE DEF TimingInv
<1>1. TimerOK(i) /\ left[i] \in Int /\ busy \in 0 .. MaxLatency /\ MaxLatency \in Nat
  BY TimerTypes, TimingTypes DEF Timing, Bookkeeping
<1>2. ASSUME Quiescent
      PROVE  left[i] > 0
  <2>1. isr.mask = {} /\ ~Stopping(i) /\ ~pending
    BY <1>2 DEF Quiescent, Timing, ServingOK, Stopping, Handler, NoCall, Contexts
  <2>2. ~(left[i] <= 0)
    BY <1>1, <2>1 DEF TimerOK, NoticedOK, Raised
  <2> QED BY <1>1, <2>2
<1>3. busy < MaxLatency => left[i] > - MaxLatency
  BY <1>1 DEF TimerOK, DueOK
<1> QED BY <1>2, <1>3

\* A compare event of an armed timer is raised by the tick on which it falls
\* due and by no other; a timer being armed or served is too far from due for
\* the counter to pass it meanwhile.
LEMMA TickTiming ==
    ASSUME TimingInv, Tick
    PROVE  Timing'
<1> USE DEF TimingInv
<1> DEFINE now == Wrap(counter + 1)
           hit == {i \in Ids : cc[i] = now}
<1>1. /\ counter' = now /\ event' = event \union hit
      /\ left' = [i \in Ids |-> IF i \in active THEN left[i] - 1 ELSE left[i]]
      /\ busy' = IF Quiescent THEN 0 ELSE busy + 1
      /\ Quiescent \/ busy < MaxLatency
      /\ UNCHANGED <<software, running, cc, inten, isr, call, leftover>>
  BY DEF Tick
<1>2. pending' = (pending \/ hit \intersect inten # {})
  BY Zenon DEF Tick
<1>3. /\ counter \in 0 .. CounterSize - 1 /\ CounterSize \in Nat \ {0}
      /\ MaxLatency \in Nat /\ DriftFix \in Nat /\ busy \in 0 .. MaxLatency
      /\ isr.curr \in 0 .. CounterSize - 1
  BY TimingTypes DEF Bookkeeping
<1>4. pending => pending'
  BY <1>2, Zenon
<1>5. \A i \in Ids : i \in event' <=> (i \in event \/ cc[i] = now)
  BY <1>1
<1> HIDE DEF hit
<1>6. ArmingOK'
  <2>1. Handler' = Handler
    BY <1>1 DEF Handler
  <2>2. CASE Handler.pc \notin {"arm", "mark"}
    BY <2>1, <2>2 DEF ArmingOK
  <2>3. CASE Handler.pc \in {"arm", "mark"}
    <3>1. ~Quiescent /\ Elapsed(Handler.curr) <= busy
      BY <2>3 DEF Quiescent, Handler, NoCall, Contexts, Timing, ArmingOK
    <3>2. PICK k \in Ids, from \in 0 .. CounterSize - 1, d \in 0 .. CounterSize - 1 :
            k = Handler.id /\ from = Handler.curr /\ d = Handler.ticks
      BY TimingTypes DEF Bookkeeping
    <3>3. MaxLatency + DriftFix < d /\ d < CounterSize - 1
      BY <2>3, <3>2, TimingTypes DEF Bookkeeping
    <3>4. PICK e \in 0 .. CounterSize - 1 : e = Elapsed(from)
      BY <1>3, CompareIsDue
    <3>5. e <= busy /\ busy' = busy + 1 /\ busy < MaxLatency
      BY <1>1, <3>1, <3>2, <3>4
    <3>6. e < CounterSize - 1
      BY <1>3, <3>3, <3>5
    <3>7. (IF counter' >= from THEN counter' - from ELSE counter' + CounterSize - from) = e + 1
      BY <1>1, <1>3, <3>4, <3>6, ElapsedTick
    <3>8. Elapsed(Handler.curr)' = e + 1
      BY <2>1, <3>2, <3>7 DEF Elapsed
    <3>9. Elapsed(Handler.curr)' <= busy'
      BY <3>5, <3>8, <1>3
    <3>10. ASSUME Handler.pc = "mark"
           PROVE  /\ cc'[k] = Wrap(from + d) /\ k \in inten'
                  /\ k \in event' <=> k \in leftover'
                  /\ k \in leftover' => pending'
      <4>1. /\ cc[k] = Wrap(from + d) /\ k \in inten
            /\ k \in event <=> k \in leftover
            /\ k \in leftover => pending
        BY <3>2, <3>10 DEF Timing, ArmingOK
      <4>2. counter + (d - e) - cc[k] \in {- CounterSize, 0, CounterSize}
        <5>1. counter + (d - Elapsed(from)) - Wrap(from + d) \in {- CounterSize, 0, CounterSize}
          BY <1>3, CompareIsDue
        <5> QED BY <3>4, <4>1, <5>1
      <4>3. PICK l \in Int : l = d - e
        OBVIOUS
      <4>4. 1 < l /\ l < CounterSize
        BY <1>3, <3>3, <3>5, <4>3
      <4>5. cc[k] \in 0 .. CounterSize - 1
        BY <3>2 DEF Bookkeeping, TypeInv, TypeOK, HardwareOK
      <4>6. - CounterSize < l - 1
        BY <1>3, <4>4
      <4>7. cc[k] = now <=> l - 1 = 0
        BY <1>3, <4>2, <4>3, <4>4, <4>5, <4>6, MatchIsDue
      <4>8. k \notin hit /\ (k \in event' <=> k \in event)
        BY <1>5, <4>4, <4>7 DEF hit
      <4>9. k \in leftover' => pending'
        BY <1>1, <1>4, <4>1, Zenon
      <4> QED BY <1>1, <4>1, <4>8, <4>9
    <3>11. Wrap(Handler.curr + Handler.ticks)' = Wrap(from + d)
      BY <2>1, <3>2 DEF Wrap
    <3> QED BY <2>1, <3>2, <3>9, <3>10, <3>11 DEF ArmingOK
  <2> QED BY <2>2, <2>3
<1>7. ServingOK'
  <2>1. SUFFICES ASSUME isr.mask # {}
                 PROVE  isr.on \in {"loop", "callback"} /\ Elapsed(isr.curr)' <= busy'
    BY <1>1 DEF ServingOK
  <2>2. isr.on \in {"loop", "callback"} /\ Elapsed(isr.curr) <= busy
    BY <2>1 DEF Timing, ServingOK
  <2>3. busy' = busy + 1 /\ busy < MaxLatency
    BY <1>1, <2>2 DEF Quiescent
  <2>4. PICK i \in active : i \in isr.mask
    BY <2>1 DEF Bookkeeping
  <2>5. MaxLatency < CounterSize - 1
    BY <1>3, <2>4, TimerTypes DEF Bookkeeping
  <2>6. Elapsed(isr.curr) \in 0 .. CounterSize - 1 /\ Elapsed(isr.curr) < CounterSize - 1
    BY <1>3, <2>2, <2>3, <2>5, CompareIsDue
  <2>7. Elapsed(isr.curr)' = Elapsed(isr.curr) + 1
    <3>1. PICK from \in 0 .. CounterSize - 1 : from = isr.curr
      BY <1>3
    <3>2. (IF counter' >= from THEN counter' - from ELSE counter' + CounterSize - from)
            = Elapsed(from) + 1
      BY <1>1, <1>3, <2>6, <3>1, ElapsedTick
    <3> QED BY <1>1, <3>1, <3>2 DEF Elapsed
  <2> QED BY <1>3, <2>2, <2>3, <2>6, <2>7
<1>8. ASSUME NEW i \in active'
      PROVE  TimerOK(i)'
  <2>1. /\ i \in active /\ i \in Ids /\ TimerOK(i) /\ ticks' = ticks /\ left'[i] = left[i] - 1
        /\ isr' = isr /\ leftover' = leftover /\ (Stopping(i)' <=> Stopping(i))
    BY <1>1, <1>8, TimingTypes DEF Timing, software, Bookkeeping, Stopping, Handler
  <2>2. /\ left[i] \in Int /\ cc[i] \in 0 .. CounterSize - 1 /\ cc'[i] = cc[i]
        /\ ticks[i] \in 0 .. CounterSize - 1
        /\ MaxLatency + DriftFix < ticks[i] /\ ticks[i] < CounterSize - 1
    BY <1>1, <2>1, TimerTypes DEF Bookkeeping
  <2>3. - busy' <= left'[i] /\ left'[i] <= ticks[i] /\ - MaxLatency <= left'[i]
    <3>1. - busy <= left[i] /\ left[i] <= ticks[i]
      BY <2>1 DEF TimerOK, DueOK
    <3>2. Quiescent => left[i] > 0
      BY <2>1, NotYetDue
    <3>3. CASE Quiescent
      BY <1>1, <1>3, <2>1, <2>2, <3>1, <3>2, <3>3
    <3>4. CASE ~Quiescent
      BY <1>1, <1>3, <2>1, <2>2, <3>1, <3>4
    <3> QED BY <3>3, <3>4
  <2>4. - CounterSize < left[i] - 1 /\ left[i] < CounterSize
    BY <1>3, <2>1, <2>2, <2>3
  <2>5. /\ now + (left[i] - 1) - cc[i] \in {- CounterSize, 0, CounterSize}
        /\ cc[i] = now <=> left[i] - 1 = 0
    <3>1. PICK n \in 0 .. CounterSize - 1, l \in Int, v \in 0 .. CounterSize - 1 :
            n = counter /\ l = left[i] /\ v = cc[i]
      BY <1>3, <2>2
    <3>2. n + l - v \in {- CounterSize, 0, CounterSize}
      BY <2>1, <3>1 DEF TimerOK, DueOK
    <3>3. - CounterSize < l - 1 /\ l < CounterSize
      BY <2>4, <3>1
    <3> HIDE DEF now
    <3>4. /\ Wrap(n + 1) + (l - 1) - v \in {- CounterSize, 0, CounterSize}
          /\ v = Wrap(n + 1) <=> l - 1 = 0
      BY <3>2, <3>3, MatchIsDue
    <3> QED BY <3>1, <3>4 DEF now
  <2>6. DueOK(i)'
    BY <1>1, <2>1, <2>2, <2>3, <2>5 DEF DueOK
  <2>7. i \in inten \/ Stopping(i)
    BY <2>1 DEF TimerOK, NoticedOK
  <2>8. left'[i] = 0 => i \in event' /\ (i \in inten => pending')
    BY <1>2, <1>5, <2>1, <2>2, <2>5, Zenon DEF hit
  <2>9. NoticedOK(i)'
    <3>1. i \in inten' \/ Stopping(i)'
      BY <1>1, <2>1, <2>7
    <3>2. CASE left[i] <= 0
      BY <1>4, <1>5, <2>1, <3>1, <3>2 DEF TimerOK, NoticedOK, Raised
    <3>3. CASE left'[i] = 0
      BY <2>1, <2>7, <2>8, <3>1, <3>3 DEF NoticedOK, Raised
    <3>4. CASE left'[i] > 0
      BY <2>1, <2>2, <3>1, <3>4 DEF NoticedOK
    <3> QED BY <2>1, <2>2, <3>2, <3>3, <3>4
  <2>10. ASSUME i \in isr.mask \/ i \in leftover
         PROVE  ~Quiescent /\ (left[i] >= ticks[i] - busy => left'[i] >= ticks[i] - busy')
    <3>1. ~Quiescent
      BY <2>1, <2>10 DEF TimerOK, EventOK, Raised, Quiescent, Timing, ServingOK
    <3> QED BY <1>1, <1>3, <2>1, <2>2, <3>1
  <2>11. ASSUME i \in isr.mask
         PROVE  left'[i] # 0
    <3>1. busy < MaxLatency /\ (left[i] <= 0 \/ left[i] >= ticks[i] - busy)
      BY <1>1, <2>1, <2>10, <2>11 DEF TimerOK, EventOK
    <3> QED BY <1>3, <2>1, <2>2, <3>1
  <2>12. i \in event' /\ i \notin event => left'[i] = 0
    BY <1>5, <2>1, <2>5
  <2>13. EventOK(i)'
    <3>1. ASSUME i \in event'
          PROVE  i \notin isr.mask /\ (left'[i] <= 0 \/ i \in leftover)
      BY <2>1, <2>2, <2>11, <2>12, <3>1 DEF TimerOK, EventOK
    <3>2. ASSUME i \in isr.mask
          PROVE  left'[i] <= 0 \/ left'[i] >= ticks[i] - busy'
      BY <2>1, <2>2, <2>10, <3>2 DEF TimerOK, EventOK
    <3>3. ASSUME i \in leftover
          PROVE  left'[i] >= ticks[i] - busy' /\ (i \in isr.mask \/ Raised(i)')
      BY <1>4, <1>5, <2>1, <2>10, <3>3 DEF TimerOK, EventOK, Raised
    <3> QED BY <2>1, <3>1, <3>2, <3>3 DEF EventOK
  <2> QED BY <2>6, <2>9, <2>13 DEF TimerOK
<1> QED BY <1>6, <1>7, <1>8 DEF Timing

-----------------------------------------------------------------------------
(* The invariant, and what follows from it.                                 *)

LEMMA CreateTiming ==
    ASSUME TimingInv, NEW t \in Types, Create(t)
    PROVE  Timing' /\ active' = active /\ UNCHANGED <<ticks, hardware, isr, call, ghosts>>
<1> USE DEF TimingInv
<1>1. active' = active /\ UNCHANGED <<ticks, hardware, isr, call, ghosts>>
  BY DEF Create, Bookkeeping
<1>2. ArmingOK'
  BY <1>1 DEF Timing, ArmingOK, Handler, Elapsed, Wrap, hardware, ghosts
<1>3. ServingOK'
  BY <1>1 DEF Timing, ServingOK, Elapsed, hardware, ghosts
<1>4. ASSUME NEW i \in active'
      PROVE  TimerOK(i)'
  <2>1. i \in active /\ TimerOK(i) /\ (Stopping(i) => Stopping(i)')
    BY <1>1, <1>4 DEF Timing, Stopping, Handler
  <2> QED BY <1>1, <2>1, Undisturbed DEF hardware, ghosts
<1> QED BY <1>1, <1>2, <1>3, <1>4 DEF Timing

LEMMA InitTiming == Init => TimingInv
<1> SUFFICES ASSUME Init PROVE TimingInv
  OBVIOUS
<1>1. Handler.pc = "idle" /\ isr.mask = {} /\ active = {}
  BY DEF Init, Handler, NoCall, NoIsr, Contexts
<1> QED BY <1>1, InitBookkeeping DEF TimingInv, Timing, ArmingOK, ServingOK

LEMMA NextTiming ==
    ASSUME HandlersOnly, TimingInv, [Next]_vars
    PROVE  TimingInv'
<1>1. SUFFICES Timing'
  BY NextBookkeeping DEF TimingInv
<1>2. ASSUME NEW c \in Callers, NEW i \in Ids, NEW us \in Durations, Start(c, i, us)
      PROVE  Timing'
  <2> DEFINE f == [pc |-> "arm", id |-> i, ticks |-> us, curr |-> counter, seen |-> 0]
  <2>1. f \in Frames /\ f.pc = "arm" /\ f.curr = counter
    BY CounterFacts DEF Frames, TimingInv, Bookkeeping, TypeInv, TypeOK, HardwareOK
  <2>2. Enter(c, f) /\ UNCHANGED <<software, hardware, ghosts>>
    BY <1>2 DEF Start
  <2> HIDE DEF f
  <2> QED BY <2>1, <2>2, EnterTiming
<1>3. ASSUME NEW c \in Callers, NEW i \in Ids, Stop(c, i)
      PROVE  Timing'
  <2> DEFINE f == [pc |-> "mask", id |-> i, ticks |-> 0, curr |-> 0, seen |-> 0]
  <2>1. f \in Frames /\ f.pc = "mask"
    BY CounterFacts DEF Frames
  <2>2. Enter(c, f) /\ UNCHANGED <<software, hardware, ghosts>>
    BY <1>3 DEF Stop
  <2> HIDE DEF f
  <2> QED BY <2>1, <2>2, EnterTiming
<1>4. CASE UNCHANGED vars
  <2>1. Timing
    BY DEF TimingInv
  <2>2. ArmingOK'
    BY <1>4, <2>1 DEF vars, Timing, ArmingOK, Handler, Elapsed, Wrap
  <2>3. ServingOK'
    BY <1>4, <2>1 DEF vars, Timing, ServingOK, Elapsed
  <2>4. ASSUME NEW i \in active'
        PROVE  TimerOK(i)'
    <3>1. i \in active /\ TimerOK(i) /\ (Stopping(i) => Stopping(i)')
      BY <1>4, <2>1, <2>4 DEF vars, Timing, Stopping, Handler
    <3> QED BY <1>4, <3>1, Undisturbed DEF vars
  <2> QED BY <2>2, <2>3, <2>4 DEF Timing
<1>5. ASSUME NEW i \in Ids, Expire(i)
      PROVE  Timing'
  BY <1>5, ExpireRepeatedTiming, ExpireSingleShotTiming DEF Expire
<1>6. ASSUME NEW t \in Types, Create(t)
      PROVE  Timing'
  BY <1>6, CreateTiming DEF TimingInv
<1>7. ASSUME NEW c \in Contexts, DriverStep(c)
      PROVE  Timing'
  BY <1>7, DriverStepTiming
<1>8. CASE TimerIrq \/ TimerIrqReturn \/ RadioIrq \/ RadioIrqReturn \/ Tick
  BY <1>8, TimerIrqTiming, OtherIrqTiming, TickTiming
<1> QED
  BY <1>2, <1>3, <1>4, <1>5, <1>6, <1>7, <1>8 DEF Next

\* A due timer of the driver's has its compare interrupt raised or is being
\* served: no compare value is written after the counter has passed it.
THEOREM NothingIsLost == ASSUME HandlersOnly PROVE Spec => []NoLostTimeout
<1>1. TimingInv /\ [Next]_vars => TimingInv'
  BY NextTiming
<1>2. TimingInv => NoLostTimeout
  <2> SUFFICES ASSUME TimingInv, NEW i \in active, left[i] <= 0
               PROVE  \/ i \in isr.mask
                      \/ i \in event /\ pending
                      \/ \E c \in Contexts : call[c].id = i /\ call[c].pc = "unmark"
    BY DEF NoLostTimeout
  <2>1. i \in isr.mask \/ Raised(i) \/ Stopping(i)
    BY DEF TimingInv, Timing, TimerOK, NoticedOK
  <2> QED BY <2>1 DEF Raised, Stopping, Handler, Contexts
<1> QED BY InitTiming, <1>1, <1>2, PTL DEF Spec

\* Serving a timer takes it out of the handler's list; only the entry of the
\* handler puts timers there.
LEMMA OnlyIrqCollects ==
    ASSUME TimingInv, [Next]_vars
    PROVE  isr'.mask \subseteq isr.mask \/ TimerIrq
<1> USE DEF TimingInv, Bookkeeping
<1>1. ASSUME NEW c, NEW f, Enter(c, f)
      PROVE  isr'.mask = isr.mask
  BY <1>1 DEF Enter, TypeInv, TypeOK, IsrOK
<1>2. ASSUME NEW c, DriverStep(c)
      PROVE  isr' = isr
  BY <1>2 DEF DriverStep, Arm, Mark, Launch, Inc, MaskInterrupt, Unmark, Load, Dec
<1>3. ASSUME NEW i \in Ids, Expire(i)
      PROVE  isr'.mask \subseteq isr.mask
  BY <1>3 DEF Expire, ExpireRepeated, ExpireSingleShot, NextToServe, TypeInv, TypeOK, IsrOK
<1>4. CASE TimerIrqReturn \/ RadioIrq \/ RadioIrqReturn
  BY <1>4 DEF TimerIrqReturn, RadioIrq, RadioIrqReturn, NoIsr
<1>5. CASE Tick \/ (\E t \in Types : Create(t)) \/ UNCHANGED vars
  BY <1>5 DEF Tick, Create, vars
<1> QED BY <1>1, <1>2, <1>3, <1>4, <1>5 DEF Next, Start, Stop

\* What the handler collects has come due, or had a compare event left over
\* when it was armed.
LEMMA CollectedIsDue ==
    ASSUME TimingInv, TimerIrq, NEW i \in isr'.mask
    PROVE  i \in active /\ (left[i] <= 0 \/ i \in leftover)
<1>1. i \in event /\ i \in active
  BY DEF TimerIrq
<1> QED BY <1>1 DEF TimingInv, Timing, TimerOK, EventOK

\* The handler does not serve a timer before its time, but for one whose compare
\* event was left set by an earlier use.
THEOREM NothingIsEarly == ASSUME HandlersOnly PROVE Spec => EarlyOnlyIfLeftover
<1>1. TimingInv /\ [Next]_vars => TimingInv'
  BY NextTiming
<1>2. TimingInv /\ [Next]_vars =>
        \A i \in isr'.mask \ isr.mask : left[i] <= 0 \/ i \in leftover
  BY OnlyIrqCollects, CollectedIsDue
<1> QED BY InitTiming, <1>1, <1>2, PTL DEF Spec, EarlyOnlyIfLeftover

-----------------------------------------------------------------------------
(* Timer implements TimerService.  timer_start() takes effect where it marks *)
(* the timer active, timer_stop() where it unmarks it, and the handler where *)
(* it collects the compare events and where it serves each timer; every      *)
(* other step is invisible.                                                  *)

\* A step that leaves alone what TimerService sees is a stutter.
LEMMA Invisible ==
    ASSUME type' = type, active' = active, ticks' = ticks, left' = left,
           (leftover \intersect active)' = leftover \intersect active,
           isr'.mask = isr.mask
    PROVE  UNCHANGED Service!vars
BY DEF Service!vars

LEMMA CreateConfigures ==
    ASSUME TimingInv, NEW t \in Types, Create(t)
    PROVE  [Service!Next]_(Service!vars)
<1>1. PICK i \in Ids : i \notin enabled /\ type' = [type EXCEPT ![i] = t]
  BY DEF Create
<1>2. /\ active' = active /\ UNCHANGED <<ticks, isr, ghosts>> /\ i \notin active
      /\ type \in [Ids -> Types]
  BY <1>1, CreateTiming DEF TimingInv, Bookkeeping, TypeInv, TypeOK, SoftwareOK
<1> DEFINE repeats == {j \in Ids : type[j] = "repeated"}
<1>3. {j \in Ids : type'[j] = "repeated"} \in {repeats \union {i}, repeats \ {i}}
  <2>1. CASE t = "repeated"
    BY <1>1, <1>2, <2>1
  <2>2. CASE t # "repeated"
    BY <1>1, <1>2, <2>2
  <2> QED BY <2>1, <2>2
<1>4. Service!Configure(i)
  BY <1>2, <1>3 DEF Service!Configure, ghosts
<1> QED BY <1>4 DEF Service!Next

LEMMA MarkArms ==
    ASSUME TimingInv, NEW c \in Contexts, Mark(c)
    PROVE  [Service!Next]_(Service!vars)
<1> USE DEF TimingInv
<1>0. PICK k \in Ids, late \in 0 .. CounterSize - 1 :
         k = Handler.id /\ late = Elapsed(Handler.curr)
  BY TimingTypes, CompareIsDue DEF Bookkeeping
<1>1. /\ Handler.pc = "mark" /\ k \notin active
      /\ active' = active \union {k}
      /\ ticks' = [ticks EXCEPT ![k] = Handler.ticks]
      /\ left' = [left EXCEPT ![k] = Handler.ticks - late]
      /\ UNCHANGED <<type, isr, leftover>>
  BY <1>0, ActingHandler DEF DriverStep, Mark, At, Handler, Bookkeeping, FrameMeaning
<1>2. Handler.ticks \in Durations
  BY <1>1, FrameFacts DEF Handler, Bookkeeping, Contexts
<1>3. late \in 0 .. MaxLatency
  <2>1. late <= busy
    BY <1>0, <1>1 DEF Timing, ArmingOK
  <2> QED BY <1>0, <2>1, TimingTypes DEF Bookkeeping
<1>4. (leftover \intersect active)' \in
        {leftover \intersect active, (leftover \intersect active) \union {k}}
  BY <1>1
<1>5. Service!Arm(k)
  BY <1>1, <1>2, <1>3, <1>4 DEF Service!Arm
<1> QED BY <1>5 DEF Service!Next

LEMMA UnmarkDisarms ==
    ASSUME TimingInv, NEW c \in Contexts, Unmark(c)
    PROVE  [Service!Next]_(Service!vars)
<1>0. PICK k \in Ids : k = Handler.id
  BY TimingTypes DEF TimingInv, Bookkeeping
<1>1. /\ k \in active \ isr.mask
      /\ active' = active \ {k}
      /\ left' = [left EXCEPT ![k] = 0]
      /\ leftover' = leftover \ {k}
      /\ UNCHANGED <<type, ticks, isr>>
  BY <1>0, ActingHandler
     DEF DriverStep, Unmark, At, Handler, TimingInv, Bookkeeping, FrameMeaning
<1>2. (leftover \intersect active)' = (leftover \intersect active) \ {k}
  BY <1>1
<1>3. Service!Disarm(k)
  BY <1>1, <1>2 DEF Service!Disarm, Service!Drop
<1> QED BY <1>3 DEF Service!Next

LEMMA DriverStepRefines ==
    ASSUME TimingInv, NEW c \in Contexts, DriverStep(c)
    PROVE  [Service!Next]_(Service!vars)
<1>1. CASE Arm(c)
  <2>1. Handler.id \notin active /\ c = "handler" /\ Handler.pc = "arm"
    BY <1>1, ActingHandler DEF Arm, At, Handler, TimingInv, Bookkeeping, FrameMeaning
  <2>2. (leftover \intersect active)' = leftover \intersect active
    BY <1>1, <2>1 DEF Arm, Handler, software
  <2> QED BY <1>1, <2>2, Invisible DEF Arm, software
<1>2. CASE Launch(c) \/ Inc(c) \/ MaskInterrupt(c) \/ Load(c) \/ Dec(c)
  BY <1>2, Invisible DEF Launch, Inc, MaskInterrupt, Load, Dec, software, ghosts
<1> QED BY <1>1, <1>2, MarkArms, UnmarkDisarms DEF DriverStep

LEMMA TimerIrqCollects ==
    ASSUME TimingInv, TimerIrq
    PROVE  [Service!Next]_(Service!vars)
<1>1. /\ isr.mask = {} /\ isr'.mask = event \intersect active
      /\ UNCHANGED <<type, active, ticks, left, leftover>>
  BY HandlerFree DEF TimerIrq, software, ghosts
<1>2. isr'.mask \in SUBSET {i \in active : left[i] <= 0 \/ i \in leftover \intersect active}
  BY <1>1, CollectedIsDue
<1>3. Service!Collect
  BY <1>1, <1>2 DEF Service!Collect
<1> QED BY <1>3 DEF Service!Next

LEMMA ExpireServes ==
    ASSUME TimingInv, NEW i \in Ids, Expire(i)
    PROVE  [Service!Next]_(Service!vars)
<1>1. NextToServe(i) /\ UNCHANGED <<type, ticks>>
  BY DEF Expire, ExpireRepeated, ExpireSingleShot, software
<1>2. /\ i \in active /\ i \in isr.mask /\ isr'.mask = isr.mask \ {i}
      /\ leftover' = leftover \ {i} /\ Elapsed(isr.curr) <= busy
  BY <1>1, ServeStep
<1>3. CASE ExpireRepeated(i)
  <2>1. PICK late \in 0 .. MaxLatency : late = Elapsed(isr.curr)
    BY <1>2, TimingTypes, CompareIsDue DEF TimingInv, Bookkeeping
  <2>2. left' = [left EXCEPT ![i] = ticks[i] - DriftFix - late] /\ active' = active
    BY <1>3, <2>1 DEF ExpireRepeated, software
  <2>3. (leftover \intersect active)' = (leftover \intersect active) \ {i}
    BY <1>2, <2>2
  <2>4. Service!ServeAgain(i)
    BY <1>1, <1>2, <1>3, <2>2, <2>3 DEF Service!ServeAgain, ExpireRepeated
  <2> QED BY <2>4 DEF Service!Next
<1>4. CASE ExpireSingleShot(i)
  <2>1. left' = [left EXCEPT ![i] = 0] /\ active' = active \ {i} /\ type[i] # "repeated"
    BY <1>4 DEF ExpireSingleShot
  <2>2. (leftover \intersect active)' = (leftover \intersect active) \ {i}
    BY <1>2, <2>1
  <2>3. Service!ServeOnce(i)
    BY <1>1, <1>2, <2>1, <2>2 DEF Service!ServeOnce, Service!Drop
  <2> QED BY <2>3 DEF Service!Next
<1> QED BY <1>3, <1>4 DEF Expire

LEMMA TickPasses ==
    ASSUME TimingInv, Tick
    PROVE  [Service!Next]_(Service!vars)
<1>1. /\ left' = [i \in Ids |-> IF i \in active THEN left[i] - 1 ELSE left[i]]
      /\ UNCHANGED <<software, isr, leftover>>
  BY DEF Tick
<1>2. ASSUME NEW i \in active
      PROVE  left[i] > - MaxLatency
  <2>1. Quiescent \/ busy < MaxLatency
    BY DEF Tick
  <2>2. left[i] \in Int /\ MaxLatency \in Nat
    BY TimerTypes, TimingTypes DEF TimingInv, Bookkeeping
  <2> QED BY <2>1, <2>2, NotYetDue
<1>3. Service!Pass
  BY <1>1, <1>2 DEF Service!Pass, software
<1> QED BY <1>3 DEF Service!Next

LEMMA NextRefines ==
    ASSUME TimingInv, [Next]_vars
    PROVE  [Service!Next]_(Service!vars)
<1>1. ASSUME NEW c, NEW f, Enter(c, f), UNCHANGED <<software, hardware, ghosts>>
      PROVE  [Service!Next]_(Service!vars)
  <2>1. isr'.mask = isr.mask
    BY <1>1 DEF Enter, TimingInv, Bookkeeping, TypeInv, TypeOK, IsrOK
  <2> QED BY <1>1, <2>1, Invisible DEF software, ghosts
<1>2. CASE TimerIrqReturn \/ RadioIrq \/ RadioIrqReturn
  <2>1. isr.mask = {} /\ isr'.mask = {} /\ UNCHANGED <<software, ghosts>>
    BY <1>2 DEF TimerIrqReturn, RadioIrq, RadioIrqReturn, NoIsr, TimingInv, Timing, ServingOK
  <2> QED BY <2>1, Invisible DEF software, ghosts
<1>3. CASE UNCHANGED vars
  BY <1>3, Invisible DEF vars
<1> QED
  BY <1>1, <1>2, <1>3, CreateConfigures, DriverStepRefines, TimerIrqCollects, ExpireServes,
     TickPasses DEF Next, Start, Stop

LEMMA InitRefines == Init => Service!Init
<1> SUFFICES ASSUME Init PROVE Service!Init
  OBVIOUS
<1>1. {i \in Ids : type[i] = "repeated"} = {}
  BY DEF Init
<1> QED BY <1>1 DEF Init, Service!Init, NoIsr

\* The driver used from its handlers keeps the whole promise of TimerService.
THEOREM TimerImplementsService == ASSUME HandlersOnly PROVE Spec => ImplementsService
<1>1. TimingInv /\ [Next]_vars => TimingInv'
  BY NextTiming
<1>2. TimingInv /\ [Next]_vars => [Service!Next]_(Service!vars)
  BY NextRefines
<1> QED BY InitTiming, InitRefines, <1>1, <1>2, PTL DEF Spec, ImplementsService, Service!Spec

=============================================================================
