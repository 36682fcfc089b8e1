----------------------------- MODULE LinkLayer -----------------------------
(***************************************************************************)
(* The link layer, stack/ll.c: the advertising, scanning and initiating    *)
(* states, on top of the radio driver (module Radio) and of the timer      *)
(* driver.  Of that, the flags, the number `active` and whether the        *)
(* counter runs are as in timer.c; its times are those of TimerService.    *)
(*                                                                         *)
(* The application calls the API from a low-priority context: each driver  *)
(* call that an API function makes is a step, a call of the timer driver   *)
(* one step per access to what it shares with the handlers, and a timer or *)
(* radio interrupt may come between two of them.  The two interrupt        *)
(* handlers have the same priority: a callback runs to its end, in one     *)
(* step, with the timer calls that it makes.                               *)
(*                                                                         *)
(* A tick is the time that the shortest packet takes.                      *)
(***************************************************************************)
EXTENDS Naturals, FiniteSets, Sequences

CONSTANTS
    Ifs,            \* T_IFS, in ticks
    AirTime,        \* ticks that the longest packet takes
    CallDelay,      \* ticks that an API call may take
    MaxCount,       \* a bound: no call begins while `active` is larger
    PduInterval,    \* t_adv_pdu_interval
    AdvInterval,    \* the interval that ll_advertise_start() is given
    ChMaps,         \* the channel maps it is given
    ScanInterval,   \* the interval that ll_scan_start() and ll_conn_create() get
    ScanWindow,     \* the window they get
    Ops,            \* the API functions that the application uses
    ScanFrom,       \* the states in which it calls ll_scan_start()
    Pdus,           \* the packets other devices send
    Peers           \* the addresses given to ll_conn_create()

States == {"standby", "advertising", "scanning", "initiating"}
Timers == {"interval", "single", "ifs"}
AdvTypes == {"ADV_SCAN_IND", "ADV_NONCONN_IND"}
Channels == {37, 38, 39}

ASSUME LinkLayerAssumption ==
    /\ Ifs \in Nat \ {0}
    /\ AirTime \in 1 .. Ifs
    /\ CallDelay \in Nat /\ MaxCount \in Nat
    /\ PduInterval \in Nat \ {0}
    /\ AdvInterval \in Nat /\ AdvInterval > 3 * PduInterval
    /\ ChMaps \subseteq (SUBSET Channels) \ {{}}
    /\ ScanWindow \in Nat \ {0} /\ ScanInterval \in Nat /\ ScanWindow <= ScanInterval
    /\ Ops \subseteq {"ll_advertise_start", "ll_advertise_stop", "ll_scan_start",
                      "ll_scan_stop", "ll_conn_create", "ll_conn_cancel"}
    /\ ScanFrom \subseteq States

R == INSTANCE Radio WITH MaxAge <- Ifs

VARIABLES
    \* current_state, adv_ch_idx, adv_ch_map, pdu_adv.type (and rx), the recv_cb
    \* and send_cb of the radio (one state's pair), AdvA of pdu_connect_req
    current_state, adv_ch_idx, adv_ch_map, adv_type, callbacks, target,
    radio,
    \* the timers: those armed, ticks left, the state whose callback each was
    \* started with, those with a compare event left over, those that were stopped
    \* and whose compare register may still match, the driver's number of armed
    \* timers (its `active`), and whether the counter runs
    armed, left, cb, leftover, lapsing, count, running,
    \* timers the TIMER0 handler has still to serve
    due,
    \* the rest of the API call in progress, the state it leads to, the ticks that
    \* have passed during it, and where it is in a call of the timer driver: a flag
    \* tested, set or taken away, `active` loaded and to be stored one up or down, 0 stored
    todo, goal, slipped, within,
    \* ghosts: channels of this advertising event sent on, the last packet sent
    visited, air

link == <<current_state, adv_ch_idx, adv_ch_map, adv_type, callbacks, target>>
timers == <<armed, left, cb, leftover, lapsing, count, running>>
thread == <<todo, goal, slipped, within>>
ghosts == <<visited, air>>
vars == <<current_state, adv_ch_idx, adv_ch_map, adv_type, callbacks, target, radio,
          armed, left, cb, leftover, lapsing, count, running, due, todo, goal, slipped,
          within, visited, air>>

Outside == [at |-> "outside", count |-> 0]
U8(n) == n % 256

Init ==
    /\ current_state = "standby" /\ adv_ch_idx = 0 /\ adv_ch_map = {}
    /\ adv_type = "ADV_NONCONN_IND" /\ callbacks = "standby" /\ target = "none"
    /\ radio = R!Reset
    /\ armed = {} /\ leftover = {} /\ lapsing = {} /\ due = {}
    /\ count = 0 /\ running = FALSE
    /\ left = [i \in Timers |-> 0]
    /\ cb = [i \in Timers |-> "standby"]
    /\ todo = <<>> /\ goal = "standby" /\ slipped = 0 /\ within = Outside
    /\ visited = {} /\ air = [pdu |-> "none", ch |-> 37]

-----------------------------------------------------------------------------
(* The timer driver.  A timer stopped before it is due may leave a compare   *)
(* event behind (lapsing, leftover), and is then hasty when it is started    *)
(* again.                                                                    *)

\* timer_start() of a timer that is not armed, but for `active` and the counter.
Mark(i, ticks, state) ==
    /\ armed' = armed \union {i}
    /\ left' = [left EXCEPT ![i] = ticks]
    /\ cb' = [cb EXCEPT ![i] = state]
    /\ lapsing' = lapsing \ {i}

\* timer_start() in a handler: -EALREADY, with no effect, for an armed timer.
TimerStart(i, ticks, state) ==
    IF i \in armed THEN UNCHANGED timers
    ELSE /\ Mark(i, ticks, state)
         /\ count' = U8(count + 1) /\ running' = (running \/ count = 0)
         /\ UNCHANGED leftover

\* The counter is cleared, and may then match any register, at a time unknown: that
\* of a timer that is not armed (left = 0; taken to be all those ever started), and
\* that of an armed one, if `active` was wrong, but for those started since.
Clear(since, ticks) ==
    /\ lapsing' = {j \in Timers \ armed' : cb[j] # "standby"}
    /\ \E match \in [armed' \ since -> 1 .. AdvInterval] :
        left' = [j \in Timers |-> IF j \in since THEN ticks
                                 ELSE IF j \in armed' THEN match[j] ELSE 0]

\* `active` goes down to n; at 0 the counter is stopped and cleared.
CountDown(n) == count' = n /\ running' = (running /\ n # 0)

\* The end of timer i in a handler.  Stopped before it is due it is lapsing: its
\* compare register will match when the ticks it had left have passed.
Disarm(i, stopped) ==
    LET n == U8(count + 255) IN
    /\ armed' = armed \ {i}
    /\ CountDown(n)
    /\ IF n = 0 THEN Clear({}, 0)
       ELSE /\ lapsing' = lapsing \union stopped
            /\ left' = IF i \in stopped THEN left ELSE [left EXCEPT ![i] = 0]
    /\ UNCHANGED <<cb, leftover>>

Early(i) == {i} \intersect {j \in Timers : left[j] > 0}

\* timer_stop() in a handler: -EINVAL, with no effect, for a timer that is not armed.
TimerStop(i) == IF i \in armed THEN Disarm(i, Early(i)) ELSE UNCHANGED timers

Expired == {i \in armed : left[i] = 0 \/ i \in leftover}

-----------------------------------------------------------------------------
(* Advertising channels.  adv_chs[idx] is 37 + idx.                          *)

Channel(idx) == 37 + idx

\* Mistake: the channel's bit in the map for its index.
first_adv_ch_bit == IF 37 \in adv_ch_map THEN 1 ELSE IF 38 \in adv_ch_map THEN 2 ELSE 4
first_adv_ch_idx == IF 37 \in adv_ch_map THEN 0 ELSE IF 38 \in adv_ch_map THEN 1 ELSE 2

\* Mistake: channel 39 only follows 38.
HasNextAdjacent(idx) == (38 \in adv_ch_map /\ idx = 0) \/ (39 \in adv_ch_map /\ idx = 1)

\* inc_adv_ch_idx() succeeds when there is a channel after idx, and moves to it.
HasNext(idx) == (38 \in adv_ch_map /\ idx = 0) \/ (39 \in adv_ch_map /\ idx < 2)
next_adv_ch_idx(idx) == IF 38 \in adv_ch_map /\ idx = 0 THEN 1 ELSE 2
inc_adv_ch_idx(idx) == IF HasNext(idx) THEN next_adv_ch_idx(idx) ELSE idx

\* The scanner's and initiator's use of it: back to the first on success.
rotated_ch_idx == IF HasNext(adv_ch_idx) THEN first_adv_ch_idx ELSE adv_ch_idx

AdvFlags == IF adv_type = "ADV_SCAN_IND" THEN {"rx_next"} ELSE {}

SendAdv(idx) == R!Send(R!Prepare(R!Stop(radio), Channel(idx)), "adv", AdvFlags)

\* init_interval_cb() and scan_interval_cb(), their radio part.
RecvFlags(state) == IF state = "initiating" THEN {"tx_next"} ELSE {}

\* Mistake: the channel is selected and the radio not turned on.
ListenNever(state) == R!Prepare(radio, Channel(rotated_ch_idx))

Listen(state) ==
    LET on == R!Recv(R!Prepare(radio, Channel(rotated_ch_idx)), RecvFlags(state)) IN
    IF state = "initiating" THEN R!SetOutBuffer(on, "connect_req") ELSE on

-----------------------------------------------------------------------------
(* The TIMER0 handler: one step per callback.                                *)

\* Mistake: only the compare events of armed timers are cleared.
TimerIrqKeepsLeftover ==
    /\ due = {} /\ ~radio.end /\ Expired # {}
    /\ due' = Expired
    /\ leftover' = leftover \ armed
    /\ UNCHANGED <<link, radio, armed, left, cb, lapsing, count, running, thread, ghosts>>

\* The timers served are single shots except the interval; their callbacks run
\* with the handler's changes to the timers already made.
TimerIrq ==
    /\ due = {} /\ ~radio.end /\ Expired # {}
    /\ due' = Expired
    /\ leftover' = {}
    /\ UNCHANGED <<link, radio, armed, left, cb, lapsing, count, running, thread, ghosts>>

NextToServe(i) ==
    /\ i \in due
    /\ i = "single" => "interval" \notin due
    /\ i = "ifs" => due = {"ifs"}
    /\ due' = due \ {i}

\* Mistake: the interval timer is not armed again.
RestartOnce(period, startSingle, ticks) ==
    IF startSingle /\ "single" \notin armed
    THEN /\ armed' = (armed \union {"single"}) \ {"interval"}
         /\ left' = [left EXCEPT !["single"] = ticks]
         /\ cb' = [cb EXCEPT !["single"] = cb["interval"]]
         /\ lapsing' = lapsing \ {"single"}
         /\ UNCHANGED <<count, running>>
    ELSE /\ armed' = armed \ {"interval"} /\ CountDown(U8(count + 255))
         /\ UNCHANGED <<left, cb, lapsing>>

\* The interval timer is armed again and the single shot, unless it is running,
\* started with `ticks`.
RestartInterval(period, startSingle, ticks) ==
    LET start == startSingle /\ "single" \notin armed IN
    /\ left' = [left EXCEPT !["interval"] = period, !["single"] = IF start THEN ticks ELSE @]
    /\ armed' = IF start THEN armed \union {"single"} ELSE armed
    /\ cb' = IF start THEN [cb EXCEPT !["single"] = cb["interval"]] ELSE cb
    /\ lapsing' = IF start THEN lapsing \ {"single"} ELSE lapsing
    /\ count' = IF start THEN U8(count + 1) ELSE count
    /\ running' = (running \/ (start /\ count = 0))

\* The single shot is counted off and started again by its callback; if it was the
\* last, the counter is cleared in between.
RestartSingle(ticks) ==
    /\ running' = (running \/ count = 1)
    /\ UNCHANGED <<armed, cb, leftover, count>>
    /\ IF count = 1 THEN Clear({"single"}, ticks)
       ELSE left' = [left EXCEPT !["single"] = ticks] /\ UNCHANGED lapsing

\* adv_interval_cb()
AdvIntervalCb ==
    LET idx == first_adv_ch_idx IN
    /\ NextToServe("interval") /\ cb["interval"] = "advertising"
    /\ radio' = SendAdv(idx)
    /\ adv_ch_idx' = inc_adv_ch_idx(idx)
    /\ RestartInterval(AdvInterval, HasNext(idx), PduInterval)
    /\ visited' = {}
    /\ UNCHANGED <<current_state, adv_ch_map, adv_type, callbacks, target, leftover,
                   thread, air>>

\* scan_interval_cb() and init_interval_cb()
ScanIntervalCb ==
    /\ NextToServe("interval") /\ cb["interval"] \in {"scanning", "initiating"}
    /\ radio' = Listen(cb["interval"])
    /\ adv_ch_idx' = rotated_ch_idx
    /\ RestartInterval(ScanInterval, TRUE, ScanWindow)
    /\ UNCHANGED <<current_state, adv_ch_map, adv_type, callbacks, target, leftover,
                   thread, ghosts>>

\* adv_singleshot_cb()
AdvSingleShotCb ==
    /\ NextToServe("single") /\ cb["single"] = "advertising"
    /\ radio' = SendAdv(adv_ch_idx)
    /\ adv_ch_idx' = inc_adv_ch_idx(adv_ch_idx)
    /\ IF HasNext(adv_ch_idx)
       THEN RestartSingle(PduInterval)
       ELSE Disarm("single", {})
    /\ UNCHANGED <<current_state, adv_ch_map, adv_type, callbacks, target, thread, ghosts>>

\* Mistake: the radio stays on.
StopRadioCbKeepsListening(i) ==
    /\ NextToServe(i)
    /\ i = "single" => cb[i] # "advertising"
    /\ Disarm(i, {})
    /\ UNCHANGED <<link, radio, thread, ghosts>>

\* scan_singleshot_cb(), init_singleshot_cb() and t_ll_ifs_cb()
StopRadioCb(i) ==
    /\ NextToServe(i)
    /\ i = "single" => cb[i] # "advertising"
    /\ radio' = R!Stop(radio)
    /\ Disarm(i, {})
    /\ UNCHANGED <<link, thread, ghosts>>

TimerCallback ==
    \/ AdvIntervalCb \/ ScanIntervalCb \/ AdvSingleShotCb
    \/ \E i \in {"single", "ifs"} : StopRadioCb(i)

-----------------------------------------------------------------------------
(* The RADIO handler with the callback of the current state.                 *)

EndIrq(state) ==
    /\ due = {} /\ radio.end /\ callbacks = state
    /\ UNCHANGED <<current_state, adv_ch_idx, adv_ch_map, adv_type, callbacks,
                   due, thread, ghosts>>

\* No callback: after radio_set_callbacks(NULL, NULL), for a packet sent while
\* scanning or initiating, and for a late END of a stopped radio.
RadioIrqOnly ==
    /\ EndIrq(callbacks)
    /\ R!Received(radio) => callbacks = "standby"
    /\ R!Sent(radio) => callbacks # "advertising"
    /\ radio' = R!HandleEnd(radio)
    /\ UNCHANGED <<timers, target>>

\* Mistake: no timeout for the reply.
AdvRadioSendCbUntimed ==
    /\ EndIrq("advertising") /\ R!Sent(radio)
    /\ radio' = R!HandleEnd(radio)
    /\ UNCHANGED <<timers, target>>

\* adv_radio_send_cb()
AdvRadioSendCb ==
    /\ EndIrq("advertising") /\ R!Sent(radio)
    /\ radio' = R!HandleEnd(radio)
    /\ TimerStart("ifs", Ifs, "advertising")
    /\ UNCHANGED target

\* Mistakes: any SCAN_REQ is answered; the T_IFS timer is left running.
AdvRadioRecvCbAnyone ==
    LET handled == R!HandleEnd(radio) IN
    /\ EndIrq("advertising") /\ R!Received(radio)
    /\ IF adv_type = "ADV_SCAN_IND" /\ radio.inbuf.type = "SCAN_REQ"
       THEN TimerStop("ifs") /\ radio' = R!Send(handled, "scan_rsp", {})
       ELSE radio' = handled /\ UNCHANGED timers
    /\ UNCHANGED target
AdvRadioRecvCbTimed ==
    LET handled == R!HandleEnd(radio)
        response == R!Send(handled, "scan_rsp", {})
        req == radio.inbuf
    IN
    /\ EndIrq("advertising") /\ R!Received(radio)
    /\ radio' = IF adv_type # "ADV_SCAN_IND" \/ req.type # "SCAN_REQ" THEN handled
                ELSE IF req.to = "me" THEN response ELSE R!Stop(response)
    /\ UNCHANGED <<timers, target>>

\* adv_radio_recv_cb() with send_scan_rsp(): the response is started, and the
\* radio stopped again when the request is not for this device.
AdvRadioRecvCb ==
    LET handled == R!HandleEnd(radio)
        response == R!Send(handled, "scan_rsp", {})
        req == radio.inbuf
    IN
    /\ EndIrq("advertising") /\ R!Received(radio)
    /\ IF adv_type = "ADV_SCAN_IND" /\ req.type = "SCAN_REQ"
       THEN /\ TimerStop("ifs")
            /\ radio' = IF req.to = "me" THEN response ELSE R!Stop(response)
       ELSE radio' = handled /\ UNCHANGED timers
    /\ UNCHANGED target

\* Mistake: the radio is not turned on again.
ScanRadioRecvCbOnce ==
    /\ EndIrq("scanning") /\ R!Received(radio)
    /\ radio' = R!HandleEnd(radio)
    /\ UNCHANGED <<timers, target>>

\* scan_radio_recv_cb(), but for the report (module AdvReport)
ScanRadioRecvCb ==
    /\ EndIrq("scanning") /\ R!Received(radio)
    /\ radio' = R!Recv(R!HandleEnd(radio), {})
    /\ UNCHANGED <<timers, target>>

Connectable(pdu) ==
    /\ pdu.from \in Peers
    /\ \/ pdu.type = "ADV_IND"
       \/ pdu.type = "ADV_DIRECT_IND" /\ pdu.to = "me"

\* Mistake: the reply that is under way is never stopped.
InitRadioRecvCbReplies ==
    /\ EndIrq("initiating") /\ R!Received(radio)
    /\ radio' = R!HandleEnd(radio)
    /\ IF Connectable(radio.inbuf) THEN target' = radio.inbuf.from ELSE UNCHANGED target
    /\ UNCHANGED timers

\* init_radio_recv_cb(): the reply that the TX_NEXT shortcut has started goes
\* out to an accepted advertiser and is stopped otherwise.
InitRadioRecvCb ==
    LET handled == R!HandleEnd(radio) IN
    /\ EndIrq("initiating") /\ R!Received(radio)
    /\ IF Connectable(radio.inbuf)
       THEN target' = radio.inbuf.from /\ radio' = handled
       ELSE radio' = R!Recv(R!Stop(handled), {"tx_next"}) /\ UNCHANGED target
    /\ UNCHANGED timers

RadioInterrupt == \/ RadioIrqOnly \/ AdvRadioSendCb \/ AdvRadioRecvCb
                  \/ ScanRadioRecvCb \/ InitRadioRecvCb

-----------------------------------------------------------------------------
(* The application's calls.                                                  *)

CanRun == due = {} /\ ~radio.end /\ Expired = {}
InCall == todo # <<>> \/ within # Outside
CanCall(op) == op \in Ops /\ CanRun /\ ~InCall /\ count <= MaxCount
BeginCall(steps) == todo' = steps /\ slipped' = 0 /\ UNCHANGED within

\* A step of a call: what it does, to which timer, and whether its error ends
\* the call.
Do(what) == [what |-> what, timer |-> "none", must |-> FALSE]
Arming(i) == [what |-> "arm", timer |-> i, must |-> FALSE]
Stopping(i) == [what |-> "stop", timer |-> i, must |-> FALSE]
MustStop(i) == [Stopping(i) EXCEPT !.must = TRUE]

Enter == <<Arming("interval"), Do("enter")>>

\* ll_advertise_start() up to timer_start(): the arguments are checked first.
ll_advertise_start(type, chmap) ==
    /\ CanCall("ll_advertise_start") /\ current_state = "standby"
    /\ adv_ch_map' = chmap /\ adv_type' = type
    /\ callbacks' = IF type = "ADV_SCAN_IND" THEN "advertising" ELSE "standby"
    /\ goal' = "advertising"
    /\ BeginCall(Enter \o <<Do("first"), Do("radio_stop"), Do("prepare"), Do("send"),
                         Arming("single")>>)
    /\ UNCHANGED <<current_state, adv_ch_idx, target, radio, timers, due, ghosts>>

\* Mistake: the single-shot timer is forgotten.
ll_advertise_stop_half ==
    /\ CanCall("ll_advertise_stop") /\ current_state = "advertising"
    /\ BeginCall(<<Stopping("ifs"), MustStop("interval"), Do("standby")>>)
    /\ UNCHANGED <<link, radio, timers, due, goal, ghosts>>

ll_advertise_stop ==
    /\ CanCall("ll_advertise_stop") /\ current_state = "advertising"
    /\ BeginCall(<<Stopping("ifs"), MustStop("interval"), MustStop("single"), Do("standby")>>)
    /\ UNCHANGED <<link, radio, timers, due, goal, ghosts>>

\* ll_scan_start() does not look at current_state.
ll_scan_start ==
    /\ CanCall("ll_scan_start") /\ current_state \in ScanFrom
    /\ callbacks' = "scanning" /\ goal' = "scanning"
    /\ BeginCall(Enter \o <<Do("rotate"), Do("prepare"), Do("listen"), Arming("single")>>)
    /\ UNCHANGED <<current_state, adv_ch_idx, adv_ch_map, adv_type, target, radio, timers,
                   due, ghosts>>

ll_scan_stop ==
    /\ CanCall("ll_scan_stop") /\ current_state = "scanning"
    /\ BeginCall(<<MustStop("interval"), MustStop("single"), Do("radio_stop"), Do("standby")>>)
    /\ UNCHANGED <<link, radio, timers, due, goal, ghosts>>

\* ll_conn_create(): init_connect_req_pdu() leaves AdvA to be filled in.
ll_conn_create ==
    /\ CanCall("ll_conn_create") /\ current_state = "standby"
    /\ callbacks' = "initiating" /\ goal' = "initiating"
    /\ BeginCall(Enter \o <<Do("rotate"), Do("prepare"), Do("listen"), Do("set_out"),
                         Arming("single")>>)
    /\ UNCHANGED <<current_state, adv_ch_idx, adv_ch_map, adv_type, target, radio, timers,
                   due, ghosts>>

\* Mistake: the radio is stopped before the timers.
ll_conn_cancel_early ==
    /\ CanCall("ll_conn_cancel") /\ current_state = "initiating"
    /\ BeginCall(<<Do("radio_stop"), Stopping("interval"), Stopping("single"), Stopping("ifs"),
                   Do("standby")>>)
    /\ UNCHANGED <<link, radio, timers, due, goal, ghosts>>

ll_conn_cancel ==
    /\ CanCall("ll_conn_cancel") /\ current_state = "initiating"
    /\ BeginCall(<<Stopping("interval"), Stopping("single"), Stopping("ifs"), Do("radio_stop"),
                   Do("standby")>>)
    /\ UNCHANGED <<link, radio, timers, due, goal, ghosts>>

Call ==
    \/ \E type \in AdvTypes, chmap \in ChMaps : ll_advertise_start(type, chmap)
    \/ ll_advertise_stop \/ ll_scan_start \/ ll_scan_stop \/ ll_conn_create \/ ll_conn_cancel

\* The next step of the call in progress; the rest of it once that is done.
Doing(step) == CanRun /\ within = Outside /\ todo # <<>> /\ Head(todo) = step
Done == todo' = Tail(todo) /\ UNCHANGED <<slipped, within>>
Fail == todo' = <<>> /\ UNCHANGED <<slipped, within>>

Period == IF goal = "advertising" THEN AdvInterval ELSE ScanInterval

\* timer_start() up to the timer's flag; the call goes on where it returns.  A compare
\* event left over may be cleared by the handler before the flag is set.
StartTimer(i, ticks) ==
    /\ Mark(i, ticks, goal)
    /\ leftover' \in {leftover, IF i \in leftover THEN {} ELSE leftover}
    /\ within' = [at |-> "marked", count |-> 0]
    /\ todo' = Tail(todo)
    /\ UNCHANGED <<count, running, slipped>>

\* timer_start() of the interval: its error ends the call.
ArmInterval ==
    /\ Doing(Arming("interval"))
    /\ IF "interval" \in armed THEN Fail /\ UNCHANGED timers
                               ELSE StartTimer("interval", Period)
    /\ UNCHANGED <<link, radio, due, goal, ghosts>>

\* timer_start() of the single shot, in a callback that the call runs itself.
ArmSingle ==
    LET more == goal = "advertising" => HasNext(adv_ch_idx) IN
    /\ Doing(Arming("single"))
    /\ adv_ch_idx' = IF goal = "advertising" THEN inc_adv_ch_idx(adv_ch_idx) ELSE adv_ch_idx
    /\ IF more /\ "single" \notin armed
       THEN StartTimer("single", IF goal = "advertising" THEN PduInterval ELSE ScanWindow)
       ELSE Done /\ UNCHANGED timers
    /\ UNCHANGED <<current_state, adv_ch_map, adv_type, callbacks, target, radio, due, goal,
                   ghosts>>

\* timer_stop() finds the timer armed, or returns -EINVAL.
StopTimer(i) ==
    /\ Doing(Stopping(i)) \/ Doing(MustStop(i))
    /\ IF i \in armed THEN /\ within' = [at |-> "tested", count |-> 0]
                           /\ UNCHANGED <<todo, slipped>>
       ELSE IF Head(todo).must THEN Fail ELSE Done
    /\ UNCHANGED <<link, radio, timers, due, goal, ghosts>>

\* It masks the interrupt, whatever has happened since, and takes the timer's flag away.
ClearFlag(i) ==
    /\ CanRun /\ within.at = "tested" /\ Head(todo).timer = i
    /\ armed' = armed \ {i}
    /\ lapsing' = lapsing \union (armed \intersect Early(i))
    /\ within' = [at |-> "cleared", count |-> 0]
    /\ todo' = Tail(todo)
    /\ UNCHANGED <<link, radio, left, cb, leftover, count, running, due, goal, slipped, ghosts>>

\* `active` is loaded, to be stored one up, the counter started if it was 0, or one down.
LoadCount ==
    /\ CanRun
    /\ \/ /\ within.at = "marked"
          /\ within' = [at |-> "up", count |-> U8(count + 1)]
          /\ running' = (running \/ count = 0)
       \/ /\ within.at = "cleared"
          /\ within' = [at |-> "down", count |-> U8(count + 255)]
          /\ UNCHANGED running
    /\ UNCHANGED <<link, radio, armed, left, cb, leftover, lapsing, count, due, todo, goal,
                   slipped, ghosts>>

\* It is stored as it was loaded: what a handler has counted meanwhile is lost.
StoreCount ==
    /\ CanRun /\ within.at \in {"up", "down"}
    /\ count' = within.count
    /\ within' = IF within.at = "down" /\ within.count = 0 THEN [at |-> "zero", count |-> 0]
                                                           ELSE Outside
    /\ UNCHANGED <<link, radio, armed, left, cb, leftover, lapsing, running, due, todo, goal,
                   slipped, ghosts>>

\* Stored as 0: the counter is stopped and cleared, whatever a handler has started since.
Halt ==
    /\ CanRun /\ within.at = "zero"
    /\ running' = FALSE
    /\ UNCHANGED armed /\ Clear({}, 0)
    /\ within' = Outside
    /\ UNCHANGED <<link, radio, cb, leftover, count, due, todo, goal, slipped, ghosts>>

\* Assignments to the link layer's own state.
SetState ==
    /\ \/ Doing(Do("enter")) /\ current_state' = goal
       \/ Doing(Do("standby")) /\ current_state' = "standby"
    /\ Done
    /\ UNCHANGED <<adv_ch_idx, adv_ch_map, adv_type, callbacks, target, radio, timers, due,
                   goal, ghosts>>

SelectChannel ==
    /\ \/ Doing(Do("first")) /\ adv_ch_idx' = first_adv_ch_idx /\ visited' = {}
       \/ Doing(Do("rotate")) /\ adv_ch_idx' = rotated_ch_idx /\ UNCHANGED visited
    /\ Done
    /\ UNCHANGED <<current_state, adv_ch_map, adv_type, callbacks, target, radio, timers, due,
                   goal, air>>

\* Calls of the radio driver.
RadioCall ==
    /\ \/ Doing(Do("radio_stop")) /\ radio' = R!Stop(radio)
       \/ Doing(Do("prepare")) /\ radio' = R!Prepare(radio, Channel(adv_ch_idx))
       \/ Doing(Do("send")) /\ radio' = R!Send(radio, "adv", AdvFlags)
       \/ Doing(Do("listen")) /\ radio' = R!Recv(radio, RecvFlags(goal))
       \/ Doing(Do("set_out")) /\ radio' = R!SetOutBuffer(radio, "connect_req")
    /\ Done
    /\ UNCHANGED <<link, timers, due, goal, ghosts>>

ThreadStep ==
    \/ ArmInterval \/ ArmSingle \/ SetState \/ SelectChannel \/ RadioCall
    \/ \E i \in Timers : StopTimer(i) \/ ClearFlag(i)
    \/ LoadCount \/ StoreCount \/ Halt

-----------------------------------------------------------------------------
(* The air and the clock.                                                    *)

PacketSent ==
    /\ radio.phase = "tx" /\ ~radio.end /\ radio.age > 0
    /\ radio' = R!PacketSent(radio)
    /\ air' = [pdu |-> radio.ptr, ch |-> radio.ch]
    /\ visited' = IF radio.ptr = "adv" THEN visited \union {radio.ch} ELSE visited
    /\ UNCHANGED <<link, timers, due, thread>>

PacketReceived ==
    /\ radio.phase = "rx" /\ ~radio.end /\ radio.age > 0
    /\ \E pdu \in Pdus : radio' = R!PacketReceived(radio, pdu)
    /\ UNCHANGED <<link, timers, due, thread, ghosts>>

\* Interrupts are served within the tick.
Tick ==
    /\ due = {} /\ ~radio.end /\ Expired = {}
    /\ radio.phase = "tx" => radio.age < AirTime
    /\ IF InCall THEN slipped < CallDelay /\ slipped' = slipped + 1 ELSE UNCHANGED slipped
    /\ radio' = R!Aged(radio)
    /\ left' = [i \in Timers |-> IF running /\ left[i] > 0 THEN left[i] - 1 ELSE left[i]]
    /\ \E drifting \in SUBSET {i \in lapsing : left[i] = 0} :
        LET matched == IF ~running THEN {} ELSE drifting \union {i \in lapsing : left[i] = 1}
        IN  lapsing' = lapsing \ matched /\ leftover' = leftover \union matched
    /\ UNCHANGED <<link, armed, cb, count, running, due, todo, goal, within, ghosts>>

Next == TimerIrq \/ TimerCallback \/ RadioInterrupt \/ Call \/ ThreadStep
        \/ PacketSent \/ PacketReceived \/ Tick

Spec == Init /\ [][Next]_vars

\* Time passes, a packet on air ends, and an interrupt that stays pending, or a
\* thread that stays ready, gets the processor.
Fairness ==
    /\ SF_vars(Tick) /\ SF_vars(TimerIrq) /\ SF_vars(ThreadStep)
    /\ WF_vars(TimerCallback) /\ WF_vars(RadioInterrupt) /\ WF_vars(PacketSent)

FairSpec == Spec /\ Fairness

-----------------------------------------------------------------------------
\* The steps that API calls are made of.
Steps == [what : {"arm", "stop", "enter", "standby", "first", "rotate", "radio_stop", "prepare",
                  "send", "listen", "set_out"},
          timer : Timers \union {"none"}, must : BOOLEAN]

LinkOK ==
    /\ current_state \in States /\ callbacks \in States
    /\ adv_ch_idx \in 0 .. 2 /\ adv_ch_map \in SUBSET Channels /\ adv_type \in AdvTypes
    /\ target \in Peers \union {"none"}

TimersOK ==
    /\ armed \in SUBSET Timers /\ leftover \in SUBSET Timers /\ lapsing \in SUBSET Timers
    /\ left \in [Timers -> Nat] /\ cb \in [Timers -> States]
    /\ count \in 0 .. 255 /\ running \in BOOLEAN

TypeOK ==
    /\ LinkOK /\ TimersOK
    /\ radio.status \in SUBSET {"rx", "tx"} /\ radio.phase \in {"off", "rx", "tx"}
    /\ due \in SUBSET Timers /\ visited \in SUBSET Channels
    /\ goal \in States /\ todo \in Seq(Steps) /\ slipped \in 0 .. CallDelay
    /\ within \in [at : {"outside", "tested", "marked", "cleared", "up", "down", "zero"},
                  count : 0 .. 255]

\* No interrupt is pending or being served, and no API call is in progress.
Calm == CanRun /\ ~InCall

\* Whenever no END is pending, the status and flags that radio.c keeps say what
\* the peripheral does and which follow-up its shortcuts will start, however
\* END, radio_stop() and the timer callbacks were interleaved.
DriverKnowsRadio == ~radio.end => R!Agrees(radio) /\ R!FollowUpAgrees(radio)

\* Between interrupts and calls, the periodic timer runs in every state but
\* STANDBY, and only there: no start or stop function returns half-way.
StateMatchesTimers == Calm => (current_state = "standby" <=> "interval" \notin armed)

\* An advertiser that listens for a SCAN_REQ has the T_IFS timer running
\* (adv_radio_send_cb), so that it never listens into the next transmission.
ListeningIsTimed ==
    (callbacks = "advertising" /\ radio.phase = "rx" /\ ~radio.end /\ todo = <<>>) =>
        "ifs" \in armed

\* What is on air once the END interrupt has been served is never the receive
\* buffer; a SCAN_RSP answers a SCAN_REQ to this device (send_scan_rsp stops it
\* otherwise), a CONNECT_REQ an advertiser that it is addressed to
\* (init_radio_recv_cb).
RepliesMatchRequests ==
    (radio.phase = "tx" /\ ~radio.end) =>
        /\ radio.ptr \in {"adv", "scan_rsp", "connect_req"}
        /\ radio.ptr = "scan_rsp" => radio.inbuf.type = "SCAN_REQ" /\ radio.inbuf.to = "me"
        /\ radio.ptr = "connect_req" =>
            /\ radio.inbuf.type \in {"ADV_IND", "ADV_DIRECT_IND"}
            /\ radio.inbuf.type = "ADV_DIRECT_IND" => radio.inbuf.to = "me"
            /\ radio.inbuf.from \in Peers /\ target = radio.inbuf.from

\* A scanner's radio is on exactly while the window timer runs, also when the
\* window ends as a packet does and scan_radio_recv_cb turns the radio on again; an
\* initiator's listens in the window only.
ListensOnlyInWindow ==
    (Calm /\ current_state \in {"scanning", "initiating"}) =>
        /\ radio.phase = "rx" => "single" \in armed
        /\ current_state = "scanning" /\ "single" \in armed => radio.phase = "rx"

\* It listens from the start of every interval until the window is over.
WindowIsOpen ==
    (Calm /\ current_state = "scanning" /\ left["interval"] > ScanInterval - ScanWindow) =>
        radio.phase = "rx"

\* When adv_interval_cb begins an advertising event, the one before it has sent the
\* PDU on every channel of the map, in increasing order and once each.
EventCoversMapInOrder ==
    [][/\ AdvIntervalCb => visited = adv_ch_map
       /\ (PacketSent /\ air'.pdu = "adv") =>
            air'.ch \in adv_ch_map /\ \A c \in visited : c < air'.ch]_vars

\* The advertiser never cuts off its own transmission: neither the next channel,
\* nor the next event, nor the T_IFS timer stops the radio during one.
TransmissionCompletes ==
    [][(radio.phase = "tx" /\ ~radio.end) => (radio'.phase = "tx" \/ radio'.end)]_vars

\* The advertiser listens for the whole of T_IFS before t_ll_ifs_cb stops it.
FullListenWindow == [][due # due' /\ StopRadioCb("ifs") /\ radio.phase = "rx" => radio.age >= Ifs]_vars

\* In STANDBY a radio that is off stays off until the application calls a start
\* function: no event, channel or window begins, whatever the stop functions were
\* interrupted by.  (What ll_advertise_stop leaves on the air still goes on.)
StandbyStaysOff ==
    [][(current_state = "standby" /\ ~InCall /\ radio.phase = "off" /\ ~radio.end)
         => radio'.phase = "off"]_vars

\* Once ll_scan_stop or ll_conn_cancel has led to STANDBY, whatever expired or was
\* received during the call, no timer is armed and the radio is off.
StandbyIsSilent ==
    (Calm /\ current_state = "standby" /\ callbacks \in {"scanning", "initiating"}) =>
        armed = {} /\ radio.phase = "off"

\* Every channel of the map is advertised on again and again, if no timer expires during
\* ll_advertise_start, whose timer_start may lose what the handler counts (ll.c:274,
\* timer.c:217: the counter can then stop under the interval timer).
KeepsAdvertising ==
    \A c \in Channels :
        (current_state = "advertising" /\ c \in adv_ch_map) ~>
            (radio.phase = "tx" /\ radio.ptr = "adv" /\ radio.ch = c)

\* A scanner or an initiator listens again and again, whatever it receives, until a
\* stop function is called (scan_stop shows what ll_scan_stop may leave behind).
KeepsListening ==
    (current_state \in {"scanning", "initiating"} /\ "interval" \in armed) ~>
        (radio.phase = "rx" \/ (todo # <<>> /\ Head(todo).what = "stop"))

=============================================================================
