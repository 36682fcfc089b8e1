-------------------------------- MODULE Log --------------------------------
(***************************************************************************)
(* The log, platform/nrf51822/log.c: a ring buffer with free-running read  *)
(* and write counters, filled by the log_* functions and emptied byte by   *)
(* byte by the UART's TX_EMPTY event.                                      *)
(*                                                                         *)
(* Three contexts can be in the code at once, and each preempts the ones   *)
(* before it: "main" (main and SWI0), "uart" (uart_evt_handler, of MEDIUM  *)
(* priority) and "high" (timer and radio callbacks).  A call is a sequence *)
(* of steps, one for each access to what the contexts share; the specified *)
(* life begins when log_init() has returned.                               *)
(***************************************************************************)
EXTENDS Integers, Sequences, FiniteSets, Functions

CONSTANTS
    BufferLen,      \* BUFFER_LEN
    CounterSize,    \* number of values of wp and rp (2^32 on the SoC)
    Strings,        \* what is given to log_string() and log_printf()
    Chars,          \* what is given to log_char()
    CR, LF,         \* '\r' and '\n'
    Callers,        \* the contexts that log: "main", "high"
    LateCaller      \* may main be held between app_uart_put and rp++ for as
                    \* long as the UART takes to send a byte?

Bytes == Chars \cup {CR, LF} \cup UNION {Range(s) : s \in Strings}

ASSUME LogAssumption ==
    /\ BufferLen \in Nat \ {0, 1}
    /\ CounterSize \in Nat /\ CounterSize % BufferLen = 0 /\ CounterSize > BufferLen
    /\ \A s \in Strings : s \in Seq(Range(s))
    /\ Callers \subseteq {"main", "high"}
    /\ LateCaller \in BOOLEAN

VARIABLES
    wp, rp, buffer, state,  \* as in the source
    sending, txEmpty,       \* UART: a byte is being sent; its event is pending
    call,                   \* the call in progress in each context
    out, owed               \* ghosts: the byte last given to app_uart_put, and
                            \* how many of the queued ones log_string() owes

vars == <<wp, rp, buffer, state, sending, txEmpty, call, out, owed>>
uart == <<sending, txEmpty, out>>

Contexts == {"main", "uart", "high"}
Slots == 0 .. BufferLen - 1
Counters == 0 .. CounterSize - 1

\* BUFFER_USED_SPACE and BUFFER_EMPTY_SPACE, in unsigned arithmetic.
Used == (wp - rp) % CounterSize
EmptySpace == (BufferLen + rp - wp) % CounterSize
WP == wp % BufferLen
RP == rp % BufferLen

\* A call: where it is, the bytes it is to copy, those it copies after them, and
\* whether it starts the transmission.
Idle == [pc |-> "idle", str |-> <<>>, rest |-> <<>>, kicks |-> FALSE]
Call(pc, str, rest, kicks) == [pc |-> pc, str |-> str, rest |-> rest, kicks |-> kicks]

At(c, pc) == call[c].pc = pc
Goto(c, pc) == call' = [call EXCEPT ![c].pc = pc]
Return(c) == call' = [call EXCEPT ![c] = Idle]

\* Nothing of a higher priority is running or about to.
CanRun(c) == /\ c # "high" => At("high", "idle")
             /\ c = "main" => At("uart", "idle") /\ ~txEmpty

\* log_init() leaves its newline in the buffer, the UART idle.
Init == /\ wp = 2 /\ rp = 0
        /\ buffer = [i \in Slots |-> IF i = 0 THEN CR ELSE LF]
        /\ state = "READY"
        /\ sending = FALSE /\ txEmpty = FALSE
        /\ call = [c \in Contexts |-> Idle]
        /\ out = LF
        /\ owed = 0

-----------------------------------------------------------------------------
(* The callers. *)

Begin(c, new) == /\ c \in Callers /\ CanRun(c) /\ At(c, "idle")
                 /\ call' = [call EXCEPT ![c] = new]
                 /\ UNCHANGED <<wp, rp, buffer, state, uart, owed>>

\* log_string(), and log_int() and log_uint() once the number is text.
log_string(c) == \E s \in Strings : Begin(c, Call("check", s, <<>>, TRUE))

\* log_printf() formats into an array as long as the free space, its terminator
\* included.  Of an array of no length the content is anything.
log_printf(c) ==
    \E s \in Strings :
        IF EmptySpace = 0
        THEN Begin(c, Call("check", s, <<>>, TRUE))
        ELSE LET cut == IF Len(s) < EmptySpace THEN Len(s) ELSE EmptySpace - 1
             IN  Begin(c, Call("check", SubSeq(s, 1, cut), <<>>, TRUE))

log_char(c) == \E b \in Chars : Begin(c, Call("check", <<b>>, <<>>, FALSE))
log_newline(c) == Begin(c, Call("check", <<CR>>, <<LF>>, FALSE))

\* Mistake: the free space is compared with the next position to write.
CheckLoose(c) ==
    /\ Goto(c, IF EmptySpace < Len(call[c].str) + Len(call[c].rest) - 1 THEN "idle" ELSE "copy")
    /\ UNCHANGED <<wp, rp, buffer, state, uart, owed>>

\* -ENOMEM unless there is room for all of it.
Check(c) ==
    /\ IF EmptySpace < Len(call[c].str) + Len(call[c].rest)
       THEN Return(c)
       ELSE Goto(c, "copy")
    /\ UNCHANGED <<wp, rp, buffer, state, uart, owed>>

\* Mistake: the end of the buffer is not taken into account.
CopyStraight(c) ==
    /\ buffer' = [i \in Slots |-> IF i - WP \in 0 .. Len(call[c].str) - 1
                                  THEN call[c].str[i - WP + 1] ELSE buffer[i]]
    /\ Goto(c, "advance")
    /\ UNCHANGED <<wp, rp, state, uart, owed>>

\* The two memcpy(), the second one from the start of the buffer.
Copy(c) ==
    /\ buffer' = [i \in Slots |->
                    LET k == (i - WP) % BufferLen
                    IN  IF k < Len(call[c].str) THEN call[c].str[k + 1] ELSE buffer[i]]
    /\ Goto(c, "advance")
    /\ UNCHANGED <<wp, rp, state, uart, owed>>

\* wp += len.
Advance(c) ==
    /\ wp' = (wp + Len(call[c].str)) % CounterSize
    /\ owed' = IF call[c].kicks THEN Used + Len(call[c].str) ELSE owed
    /\ IF call[c].kicks THEN Goto(c, "test")
       ELSE IF call[c].rest = <<>> THEN Return(c)
       ELSE call' = [call EXCEPT ![c] = Call("copy", call[c].rest, <<>>, FALSE)]
    /\ UNCHANGED <<rp, buffer, state, uart>>

\* Mistake: log_string() always starts the transmission.
TestNothing(c) ==
    /\ Goto(c, "kick")
    /\ UNCHANGED <<wp, rp, buffer, state, uart, owed>>

Test(c) ==
    /\ IF state = "READY" THEN Goto(c, "kick") ELSE Return(c)
    /\ UNCHANGED <<wp, rp, buffer, state, uart, owed>>

Kick(c) ==
    /\ state' = "BUSY"
    /\ Goto(c, "used")
    /\ UNCHANGED <<wp, rp, buffer, uart, owed>>

-----------------------------------------------------------------------------
(* tx_next_byte(), called by log_string() and by the UART's handler. *)

TestUsed(c) ==
    /\ Goto(c, IF Used = 0 THEN "ready" ELSE "put")
    /\ UNCHANGED <<wp, rp, buffer, state, uart, owed>>

\* Mistake: the end of the transmission is not recorded.
SetReadyNever(c) == Return(c) /\ UNCHANGED <<wp, rp, buffer, state, uart, owed>>

SetReady(c) ==
    /\ state' = "READY"
    /\ Return(c)
    /\ UNCHANGED <<wp, rp, buffer, uart, owed>>

PutByte(c) ==
    /\ sending' = TRUE
    /\ out' = buffer[RP]
    /\ Goto(c, "inc")
    /\ UNCHANGED <<wp, rp, buffer, state, txEmpty, owed>>

\* rp++.
Inc(c) ==
    /\ rp' = (rp + 1) % CounterSize
    /\ owed' = IF owed = 0 THEN 0 ELSE owed - 1
    /\ Return(c)
    /\ UNCHANGED <<wp, buffer, state, uart>>

Step(c) ==
    /\ CanRun(c)
    /\ \/ At(c, "check") /\ Check(c)
       \/ At(c, "copy") /\ Copy(c)
       \/ At(c, "advance") /\ Advance(c)
       \/ At(c, "test") /\ Test(c)
       \/ At(c, "kick") /\ Kick(c)
       \/ At(c, "used") /\ TestUsed(c)
       \/ At(c, "ready") /\ SetReady(c)
       \/ At(c, "put") /\ PutByte(c)
       \/ At(c, "inc") /\ Inc(c)

\* uart_evt_handler(), for APP_UART_TX_EMPTY.
UartIrq ==
    /\ CanRun("uart") /\ At("uart", "idle") /\ txEmpty
    /\ txEmpty' = FALSE
    /\ Goto("uart", "used")
    /\ UNCHANGED <<wp, rp, buffer, state, sending, out, owed>>

\* The UART has sent its byte.
ByteSent ==
    /\ sending
    /\ LateCaller \/ ~At("main", "inc")
    /\ sending' = FALSE /\ txEmpty' = TRUE
    /\ UNCHANGED <<wp, rp, buffer, state, call, out, owed>>

Next ==
    \/ \E c \in Contexts : \/ log_string(c) \/ log_printf(c)
                           \/ log_char(c) \/ log_newline(c)
                           \/ Step(c)
    \/ UartIrq
    \/ ByteSent

Spec == Init /\ [][Next]_vars

\* The UART sends, its handler and the higher callers run to their end, and main
\* goes on however often it is interrupted.
Fairness == /\ WF_vars(ByteSent) /\ WF_vars(UartIrq)
            /\ \A c \in Contexts : SF_vars(Step(c))

FairSpec == Spec /\ Fairness

-----------------------------------------------------------------------------
(* Properties. *)

TypeOK ==
    /\ wp \in Counters /\ rp \in Counters
    /\ buffer \in [Slots -> Bytes]
    /\ state \in {"READY", "BUSY"}
    /\ sending \in BOOLEAN /\ txEmpty \in BOOLEAN
    /\ out \in Bytes
    /\ owed \in 0 .. Used
    /\ \A c \in Contexts : Len(call[c].str) + Len(call[c].rest) <= BufferLen
                           \/ At(c, "check")

Sending(c) == call[c].pc \in {"kick", "used", "ready", "put", "inc"}

\* The counters never say more than the buffer holds, across their wrap-around
\* and whatever leaves between the test of the free space and the copy.
NeverOverfull == Used <= BufferLen

\* tx_next_byte() is never executed by two contexts at once, nor is a byte given
\* to the UART while it sends another: `state` hands the transmission over from
\* log_string() to the handler and back.
OneSender ==
    /\ Cardinality({c \in Contexts : Sending(c)}) <= 1
    /\ \A c \in Contexts : At(c, "put") => ~sending /\ ~txEmpty

\* `state` tells the truth: BUSY as long as somebody is to send the next byte,
\* and READY otherwise, so that log_string() starts a transmission when one is
\* needed.
StateIsTrue == 
    (state = "BUSY") <=> (sending \/ txEmpty \/ \E c \in Contexts : Sending(c) /\ ~At(c, "kick"))

\* The bytes of the queue: those between rp and wp, but for one that the UART has
\* and rp has not passed yet.
queue ==
    LET skip == IF \E c \in Contexts : At(c, "inc") THEN 1 ELSE 0
    IN  [i \in 1 .. Used - skip |-> buffer[(rp + skip + i - 1) % BufferLen]]

\* What log_char() and log_newline() add, and strings, which log_printf() may cut.
Messages == {<<b>> : b \in Chars \cup {CR, LF}}
            \cup UNION {{SubSeq(s, 1, n) : n \in 1 .. Len(s)} : s \in Strings}

Fifo == INSTANCE LogFifo WITH Capacity <- BufferLen

\* The ring buffer is a first-in first-out queue of messages: nothing is lost,
\* repeated, overwritten or reordered on the way to the UART.
ImplementsFifo == Fifo!Spec

\* What log_string() has accepted is sent: as long as a byte is owed the read
\* counter moves on, although log_string() leaves the sending to a handler that
\* may just have found the buffer empty.
OwedIsSent == \A r \in Counters : (owed > 0 /\ rp = r) ~> rp # r
=============================================================================
