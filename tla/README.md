# Verification of blessed

TLA+ models of [blessed](https://github.com/pauloborges/blessed), a Bluetooth
Low Energy link layer for the nRF51822, their model checking with TLC and proofs
about them with TLAPS. `PROJECT.json` lists the components, the runs, the source
lines each definition models, the hazards and the findings.

## The system

| component | state | operations | users |
|---|---|---|---|
| timer driver `platform/nrf51822/timer.c` | `timers[]`, `active`; TIMER0: counter, CC, EVENTS_COMPARE, INTENSET | `timer_create/start/stop`, `TIMER0_IRQHandler` | link layer, examples |
| radio driver `platform/nrf51822/radio.c` | `status`, `flags`, `inbuf`, `outbuf`; RADIO: SHORTS, PACKETPTR, EVENTS_END | `radio_prepare/send/recv/stop`, `RADIO_IRQHandler` | link layer, examples |
| link layer `stack/ll.c` | `current_state`, `adv_ch_idx`, `adv_ch_map`, PDUs, three timers | `ll_advertise_*`, `ll_scan_*`, `ll_conn_*`, callbacks of timers and radio, data and parameter setters | bci, applications |
| report hand-off `platform/nrf51822/ll-plat.c`, `scan_radio_recv_cb` | one static report, its data in the radio's receive buffer | `ll_plat_send_adv_report`, `SWI0_IRQHandler` | link layer |
| log `platform/nrf51822/log.c` | ring buffer `wp`, `rp`, `state` | `log_*`, UART handler | everything |
| examples `examples/radio-*/main.c` | channel index, PDUs, two or three timers | `main`, callbacks of timers and radio | (programs) |
| bci `stack/bci.c` | advertising parameters | parameter checks, AD structures put and parsed | applications |
| random, delay, evtloop | none of their own | busy waits, WFI | everything |

**Contexts.** TIMER0 and RADIO interrupts have `IRQ_PRIORITY_HIGH`: neither
preempts the other, and RADIO, of the lower interrupt number, goes first when
both are pending. UART is MEDIUM, SWI0 (the application's report callback) LOW,
`main` is below all. Nothing masks interrupts. The link layer's callbacks run in
the two HIGH handlers and each makes at most one timer call; its API runs in
`main` or in SWI0 and can be interrupted between any two of its calls and inside
each, the timer driver's included.

**What is hard.** A timer or radio interrupt between two steps of an API call or
of the timer driver; a radio END pending while a timer callback stops the radio;
hardware that starts the reply before software has looked at the request; compare
events and END events left over from what was stopped; two timers in one
interrupt; counter wrap-around; calls that fail half-way. `PROJECT.json`
"hazards" has each at its line, with the properties aimed at it.

**What makes each component correct.** Timer: no armed timer is lost, none is
served early or after it was stopped, and the hardware counter runs exactly while
it is needed. Radio: the driver's idea of the radio is the truth whenever no END
is pending. Advertising: every event sends on every channel of the map, once, in
order; listening ends with T_IFS and lasts as long; only requests to this device
are answered. Scanning: the radio is on in the window and only there. Initiating:
only accepted advertisers are sent CONNECT_REQ; listening goes on until
cancelled. All: the state agrees with the timers that run. Log: bytes leave in the order
they came, none lost or twice, whoever is interrupted; what is owed is sent.
Reports: the application reads one packet's type, address and data, and the last
one before a silence. Data: a PDU goes out with length and data of one call of its
setter, if none overlaps it, and with no octet that was never set in any case;
parameters accepted by one layer are accepted by the next; what is put is what is
got. Examples: as the link layer, for their own use of the drivers.

## Modules

| module | what it is |
|---|---|
| `Timer` | timer.c with TIMER0. `timer_start` and `timer_stop` are sequences of steps, one per access to shared state; a step of a *thread* caller can be followed by an interrupt, a *handler* call cannot be preempted |
| `TimerService` | what timer.c promises, without counter or registers; `Timer!ImplementsService` maps one to the other |
| `TimerProofs` | the theorems about `Timer`: its bookkeeping; its times, and that it implements `TimerService` |
| `Radio` | radio.c and what it relies on of RADIO, as operators on one record: a handler of the link layer is the composition of the calls it makes |
| `LinkLayer` | ll.c: callbacks in one step each (nothing preempts them), API functions as a list `todo` of driver calls, one per step, and a timer call of theirs one step per access to what it shares with the handlers; the times of timers as in `TimerService`, their flags, `active` and the state of the counter as in timer.c |
| `LinkLayerProofs`, `AdvertiserProofs`, `ScannerProofs` | the theorems about `Radio` and `LinkLayer`: with any use of the API; for a device that only advertises; for one that scans and initiates |
| `Log` | log.c, one step per access to what `main`, the UART's handler and the HIGH handlers share |
| `LogFifo` | what log.c promises: a queue of whole messages; `Log!ImplementsFifo` maps one to the other |
| `LogProofs` | the theorems about `Log` |
| `LogFormat` | `itos` and `utos`, loop by loop |
| `LinkData` | the parameter checks of bci.c and ll.c, the setters, which write a PDU part by part, and the radio, which reads it part by part; timers expire and requests come whenever they may |
| `AdData` | `bci_ad_put`, `bci_ad_get` |
| `AdvReport` | `scan_radio_recv_cb`, SWI0 and an application that reads the report field by field while the radio goes on, until the end of the window cuts it off |
| `Device` | for programs that run in callbacks only: timer.c as operators on one record, TIMER0 and RADIO interrupts, the air, the clock |
| `ActiveObserver`, `PassiveObserver`, `Broadcaster`, `ScannableBroadcaster` | the four programs `examples/radio-*`, each `EXTENDS Device` |
| `Examples` | the four side by side: a device runs one, `program` says which |
| `DataPaths` | `LogFormat`, `LinkData`, `AdData` and `AdvReport` side by side: they share no state, `path` says which one moves |
| `DataPathsProofs` | the theorems about the four, and the same about `DataPaths` |
| `ExamplesProofs` | the theorems about the four programs and `Examples` |
| `MCTimer`, `MCLinkLayer`, `MCLog`, `MCDataPaths`, `MCExamples` | values for the constants |

`Timer`'s variables are those of the source: `active` (the flags) is the set of
armed timers and the global `active` is `count`, 8 bits wide. `left` and
`leftover` are ghosts: ticks until a timer is due, counted apart from the
registers, and timers armed over a stale compare event. `Tick` is the hardware.

`LinkLayer` keeps of a timer what its users see: armed, ticks left, and the stale
compare event that `timer_stop` can leave. Stopping records a timer as `lapsing`;
when its old compare value passes it becomes `leftover`; `TIMER0_IRQHandler`
clears all events, so a leftover matters only if no timer interrupt comes before
the timer is started again. `count` is the driver's `active` and `running` says
whether the counter goes on. A handler counts in one step, since nothing preempts
it. A call of the application does not. Its `timer_start` is `StartTimer` (up to the
flag), `LoadCount` (the test of `active`, TASKS_START, the load) and `StoreCount`; its
`timer_stop` is `StopTimer` (the test of the flag), `ClearFlag`, `LoadCount`,
`StoreCount` and, at 0, `Halt`. `within` says which of them the call is at. What a
handler has counted between load and store is lost, and what it has started before
`Halt` is stopped, as in `timer_race`. At count 0, right or wrong,
TASKS_CLEAR restarts the counter (`Clear`), and any old compare value may match at
any time, that of a timer still armed included: an over-approximation (it takes
every timer ever started, at any tick), which is safe for what holds.
The order in which two timers of one interrupt are served is that of their ids.
The action `ll_x` checks the arguments and does the assignments before the first
driver call; `ThreadStep` does the rest. ADV_IND is treated by the code as
ADV_SCAN_IND and is not modelled apart; `prev_adv_ch_idx` is never read. PDUs are
records of type, sender and addressee.

`Log` keeps `wp` and `rp` free-running and counts them modulo `CounterSize` where
the SoC has 2^32; `call` is the program counter and the arguments of the call in
each context; `out` and `owed` are ghosts. `log_int`, `log_uint` are `log_string`
of a text that `LogFormat` makes. The additions `wp += len` and `rp++` are one
step each, which matters only if a third context counts between load and store;
two contexts that both log are outside `Callers` of the passing run anyway.

`Device` has timer.c a second time, in the form the programs need: none of their
calls can be preempted, so that a whole `timer_start` is one operator, but the
compare events, the pending interrupt and the 8-bit count are all there, since
what goes wrong in the programs comes from them. `LinkData` has of a PDU's data two
halves, and `setting` and `onair` are how far a setter and the radio have come with
them; `sent` is what has gone out, `torn` whether a setter wrote meanwhile. The
advertiser's timers are there to the extent that they decide which call may fail:
`ll_advertise_stop` returns half-way when the single shot is over, and leaves the
radio on. `AdvReport` lets the radio write header and payload apart; a payload under
way is `Mixed`, and stays so when `radio_stop` cuts it off. `AdData` ends in `outside`
when the code reads behind the buffer.

`Decimal` and `TenTo` of `LogFormat` are recursive functions, the programs' times
are records and the data of `DataPaths` are constants: what the proofs need, and
the source's own values are those of the MC modules.

Definitions marked *Mistake* are plausible wrong versions of the one that
follows. Each property of each passing run has been seen to fail with one of them
in its place.

## Runs

| run | question | result |
|---|---|---|
| `timer` | Is a timer ever lost or served early, the count wrong? Is every armed timer served or stopped? Does timer.c implement `TimerService`? | holds, but for early service over a leftover event |
| `timer_race` | Is the driver safe to call from `main`? | **no** |
| `advertise` | Events complete, in order, for ever; listening timed and of full length; nothing cut off; replies right | holds if no timer expires and nothing that it sends ends during `ll_advertise_start` |
| `observe` | Scanning and initiating in any order of starts and stops: the radio on for the whole window and in windows only, CONNECT_REQ to whom it should go, listening goes on | holds for window < interval if no timer expires during a call |
| `stop` | With timers that expire and packets that end inside the calls and inside the timer driver, lost updates of `active` included: does a radio that is off in STANDBY stay off, after any sequence of starts and stops of advertising and connection attempts, and does `ll_conn_cancel` leave radio and timers off? | holds |
| `scan_stop` | Does `ll_scan_stop` stop scanning? | **no**, outside the window |
| `log` | Bytes in order, none lost or twice, over the wrap of the counters; one sender; what `log_string` owes is sent | holds for callers in `main` |
| `log_high` | The same of what is owed, for a caller in a timer or radio callback | **no** |
| `data` | Numbers printed right, PDUs whole unless set while sent, and filled even then, accepted parameters usable, AD structures got as put, complete ones read in bounds, undisturbed reports whole, the last report seen | holds |
| `report_torn` | Is every report of one packet? | **no** |
| `examples` | Replies only where they should go, listening timed, radio never busy when retuned, events on three channels, nothing cut off, T_IFS in full, every channel again and again | holds, but for the active observer's turns |
| `observer_stuck` | Does the active observer scan all channels again and again? | **no** |

What the five violations show is in `PROJECT.json` "findings", with the line of
the repository that says otherwise. A useful negative result is
`FullListenWindow`: a SCAN_REQ to another device leaves the T_IFS timer's compare
event behind, and it is only because the single-shot interrupt that begins the
next channel clears *all* events that the next reply window is not cut to nothing.

**Bounds.** `Timer` is checked with 2 timers (the pairwise interactions: one
counter, one count, one interrupt mask), a counter of 6 values that every wait
wraps, 2 durations, and interrupts or calls of at most 1 tick. The assumption
that a duration exceeds latency plus DRIFT_FIX is what makes compare values
reachable; the code does not check it (a hazard). `LinkLayer` counts in ticks of
the shortest packet: T_IFS and the longest packet take 2, the PDU interval 9
(more than PDU, request, response and T_IFS: 8; on the device 10 ms against
0.5 ms), the event more than three PDU intervals. The scanner's window and
interval are 5 and 8. In `stop`, whose only question is what still starts, all
times are 1 but the intervals, 2 and 4, so that timers also expire in the middle of an
exchange, and the map is that of channels 37 and 39. `CallDelay` is how many
packet times an API call may take between its steps. In `stop` it is 1: any timer
that is due may expire and a packet may end between any two steps of a call, those
inside `timer_start` and `timer_stop` included, and several handlers may run there
one after another. In `advertise`, `observe` and `scan_stop` it is 0: no time passes
during a call, so that no timer expires in it and nothing that it has started ends in
it; of the interrupts only the END of a packet that was on the air before the call
can fall into it. A call takes microseconds and a packet 80 or more, so that this is
what happens unless interrupts hold the application up. `MaxCount` bounds `active`,
which lost updates make grow: no call begins while it is above 3, the number of
timers. `ChMaps` are the channel maps given to `ll_advertise_start`: all seven in
`advertise`. `ScanFrom` are the states in which the application calls `ll_scan_start`,
which checks none: STANDBY and SCANNING in `observe`. (`stop` with `ll_scan_start`,
also called while advertising, and `ll_scan_stop` for the two connection calls has
both properties hold too, at 5 million states; their proofs allow it as well.)
Advertising is not mixed with the others in `observe`, because
`ll_advertise_stop` leaves the radio on and the next state's first radio call then
meets a transmission (below). Sets of PDUs have one member per case the code
distinguishes.

`Log` has a buffer of 4 bytes and counters of 8 values: every message length from
nothing to the whole buffer but one byte, and several turns. `LogFormat` prints every
number of 10 bits, signed and unsigned, in a buffer as tight as that of 32 bits in 12
bytes. `LinkData` has data that reach into one half, into both, and beyond the PDU (3,
31 and 32 octets), intervals on, between and outside the bounds, for connections both
ends of the range of ll.h:80 and both sides of 10 ms. `AdData` puts any three of nine
structures, one of each kind and of each special length, and reads every buffer of up to
four octets from eight values. `AdvReport` numbers packets modulo 3: the one being read,
the one before and the one coming in. The programs' times keep the order of their own: a
window or an interval is many packets, T_IFS a few.

**Assumptions** that the runs make and the code does not ensure; each fails in a known
way when it is dropped. `timer`: calls from HIGH handlers (`timer_race`), and only under
that assumption does timer.c implement `TimerService`. `LinkLayer` uses the times of
`TimerService`, and its flags and counts for the calls of the callbacks; the calls of
the application do not get that guarantee, and have timer.c's own steps. What they lose
there is part of `stop`. `advertise` and `observe` assume that nothing comes between
these steps that would be lost (`CallDelay` = 0); what becomes of each property without
that is under *Other disagreements*. `observe`: a window shorter than the interval.
`log`: calls from `main` only (`log_high`), and `main` is not held between
`app_uart_put` and `rp++` for as long as a byte takes, 10 us (`LateCaller`; with it a
byte is sent twice). `data`: connection intervals are in the range that ll.h:80 gives
(`LinkDataAssumption`; below it `win_size` and `win_offset` underflow). `examples`: no
packet ends within the few instructions between the entry of the active observer's
TIMER0 handler and its `radio_stop` (`ObserverLateEnd`; with it the late END is taken
for the end of the reception just started, PACKETPTR is set to the request and the next
packet overwrites it). The other programs are checked with packets that end there.

**Fairness.** Time passes (SF on `Tick`, which a pending interrupt disables again
and again), a pending interrupt is taken (SF on `TimerIrq`, which the radio's can
delay), handlers and callbacks, which do not block, end (WF), a packet on air
ends (WF), and an API call that interrupts keep preempting goes on (SF). Nothing
is assumed of the application or of the devices around. In `Log` a byte ends and
its event is served, and a call that is preempted goes on (WF and SF). In
`AdvReport` the reading application goes on however often packets interrupt it
(SF). The examples have one condition, WF of all that goes on by itself: whatever
is received, packets take time, so that they cannot keep the clock from going on.

**Deadlock** is checked in all runs but `data`: the clock can always advance, and
the log can always be called. In `data` a conversion or a call of `bci_ad_get` ends.

## Other disagreements

Met while modelling and seen with TLC on variants of the modules; not kept as runs.

- `timer.c:234`: `timer_stop` does not clear EVENTS_COMPARE, nor does
  `timer_start`: a timer restarted over an old event is served at once
  (`EarlyOnlyIfLeftover` without its second half fails in `timer`).
- `ll.c:274`, `timer.c:217`: with `CallDelay` = 1 the END of the first PDU can fall into
  the `timer_start` of `ll_advertise_start`'s single shot. The handler starts the T_IFS
  timer, its count is lost, and when T_IFS and single shot are over the counter stops
  under the interval timer: `KeepsAdvertising` fails in `advertise`. In `observe`
  `WindowIsOpen`, `DriverKnowsRadio` and `KeepsListening` fail with `CallDelay` = 1,
  `ListensOnlyInWindow` and `StandbyIsSilent` hold.
- `ll.c:352`: `ll_advertise_stop` leaves the radio on; between PDU and reply it
  listens without limit, in STANDBY, and may answer (`ListeningIsTimed` fails in
  `advertise` with `ll_advertise_stop` in `Ops`), and a scan started then corrupts what
  is on air (`DriverKnowsRadio` fails in `observe` with the advertising calls added).
  Between the last PDU of an event and the next event the single shot is not armed: the
  call returns an error after it has stopped the interval, and the state stays
  ADVERTISING.
- `ll.c:392`: a scan response that is set while advertising may be sent with new data and
  old length, or the reverse (`ResponseIsWhole` without its condition fails in `data`).
- `ll.c:555`: with window = interval, which `ll_scan_start` accepts, the interval
  callback finds the radio busy and the single shot running, and the single shot
  then stops the radio until the next interval (`WindowIsOpen` fails in `observe`
  with `ScanWindow` = `ScanInterval`).
- `ll.c:732`: a packet that ends between `radio_recv` and `radio_set_out_buffer` of
  `ll_conn_create` is answered from a NULL buffer, or from that of an earlier attempt
  (`RepliesMatchRequests` fails in `observe` with `CallDelay` = 1).
- `ll.c:299`: connectable advertising between 20 and 100 ms is accepted by bci and
  refused by `ll_advertise_start`. `ll.c:403`: the setters called by
  `init_adv_pdus` refuse NULL, so that PDUs without data have length 0, where ll.c:71
  says 6 to 37.
  `ll.c:456`: intervals below the least underflow `win_size` and `win_offset`.
  `ll.c:670`: `ll_set_data_ch_map` keeps the map it refuses, and the next CONNECT_REQ
  asks for it (ll.c:115 makes the function the map's guard). `ll.c:303`: so does
  `ll_advertise_start` for a wrong type.
- `bci.c:292`: the bound of `bci_ad_get` is one octet late and the length of a group
  is not compared with its type's. `bci.c:200`: the upper octet of an appearance is
  `u16 >> 1`, not `>> 8`; read back with a shift of one, values below 512 survive.
- `ll.c:533`: `length - BDADDR_LEN` underflows for short PDUs, and the length field
  is nowhere bounded.
- `log.c:181`: `log_char` and `log_newline` do not start the transmission.
- `radio-active-observer/main.c:127`: an advertisement that arrives in place of the
  SCAN_RSP leaves the radio off until the next window. `:125`: TxAdd is copied from
  the wrong bit to the wrong bit.
- `radio-scannable-broadcaster/main.c:153`, `ll.c:689`: the CRC is not looked at.

## Proofs

Every theorem holds for all values of the constants that the named assumptions
allow, and those are the ones of the runs or weaker.

**`Timer`** (`TimerProofs`, any number of timers up to 255, any counter size and any
durations within `TimerAssumption`). `TypeCorrect`: `Spec => []TypeOK`, whoever
calls. Under `HandlersOnly` (calls come from the HIGH handlers, no callback stops a
timer that expired with it), which `timer_race` shows to be needed:
`CountCorrect`, `RunningCorrect` and `StopIsFinal`, that is `CountExact`,
`RunningWhileActive` and `StoppedIsNotServed`. None of the three is inductive: in
the middle of `timer_start` a timer is marked and not yet counted, in the middle of
`timer_stop` the reverse, and a loaded count must still be current when it is
stored. `Bookkeeping` says so per program counter: `count` is the number of armed
timers corrected by the call in progress, `seen = count` between load and store,
`running` is implied by a positive count, and the timers waiting in `isr.mask` are
armed. The proof has one step per action and rests on the library's facts about
the cardinality of finite sets.

`TimerProofs` also has the times, under the same hypothesis: `NothingIsLost`
(`NoLostTimeout`), `NothingIsEarly` (`EarlyOnlyIfLeftover`) and
`TimerImplementsService` (`ImplementsService`: initial states map to initial
states, every step to a step of `TimerService` or a stutter). `TimingInv` is
`Bookkeeping` with `Timing`, which ties the registers to the ghosts: for an armed
timer, counter plus ticks left is its compare register or one turn of the counter
away from it (`DueOK`), no timer is overdue by more than the interrupt has taken so
far, a timer that is due is raised, being served or being stopped (`NoticedOK`), and
an event that is set means due or left over (`EventOK`). The assumptions that a
duration exceeds latency plus DRIFT_FIX and is less than a turn are what decides the
wrap. The liveness part of what `TimerService` is for, `ArmedTimerExpires`, stays
with TLC.

**`Log`** (`LogProofs`, any buffer and counter sizes within `LogAssumption`, any
text). Under `MainOnly` (one context logs, `main`, and it is not held between
`app_uart_put` and `rp++`; `log_high` and `LateCaller` show why): `LogTypeCorrect`,
`BufferHoldsAll` (`NeverOverfull`), `SendersExclude` (`OneSender`), `StateTellsTruth`
(`StateIsTrue`) and `LogImplementsFifo` (`ImplementsFifo`). The inductive `LogInv`
says that the space found free stays free until `wp` moves (`RoomOK`), that what has
been copied is still there then (`CopiedOK`), and that the transmission is in one
hand, which `state` and the program counters tell (`HandoverOK`), so that only one
context moves `rp`. That buffer indices do not jump when a counter wraps needs the
buffer's length to divide the counter's size, an assumption; with it the bytes from
`rp` to `wp` are those of the abstract queue.

**`LinkLayer` with any use of its API** (`LinkLayerProofs`, all functions, from every
state of `ScanFrom`, interrupted anywhere, the timer driver included, for any
`CallDelay`). `LinkTypeCorrect` (`TypeOK`) and `StandbyIsQuiet` (`StandbyStaysOff`).
Nothing is assumed of `count` and `running`, which may have gone wrong. `LinkInv`
describes what can remain of a call (`Shape`: a start function arms the interval before
all else, a stop function stops it before the single shot and enters STANDBY last) and
which timers may be armed with that much remaining: no callback arms a timer again once
the interval is stopped. `ChannelsAreDistinct`: `ch2freq` maps the 40 channels to 40
different even frequencies of the band.

**`LinkLayer` of a device that only advertises** (`AdvertiserProofs`, any channel map,
either PDU type, any packets of others). Under `AdvertiserOnly` (of the API only
`ll_advertise_start`, and no timer expires in it; a PDU, T_IFS, a response and T_IFS fit
in the PDU interval, `Exchange`, and two PDU intervals with one exchange in the
advertising interval: 1.8 ms in 10 ms, 22 ms in 100 ms): `ListeningIsTimed`,
`RepliesMatchRequests`, `DriverKnowsRadio`, `EventCoversMapInOrder`,
`TransmissionCompletes` and `FullListenWindow`. They share one inductive invariant.
`StartingOK` follows `ll_advertise_start` up to its first PDU. From then on `LaunchedOK`
holds: `ExchangeOK` lists the eight states of the radio in an exchange, END pending or
not, each with how much time is left until the next PDU (`UntilNext`), so that when that
timer is due only "off" remains; `EventOK` says which channels the event has covered and
that the rest of it fits before the next; `LeftoverOK` that a compare event left behind
by the T_IFS timer comes before the next PDU's interrupt, which clears it. `CountOK`
counts the armed timers, which decides that the counter runs. `CallDelay` = 0 is needed
for it (*Other disagreements*). With `ll_advertise_stop` the first property is false
(above), so that the hypothesis is not only one of convenience.

**`LinkLayer` of a device that scans and initiates** (`ScannerProofs`, any sequence of
`ll_scan_start`, `ll_scan_stop`, `ll_conn_create` and `ll_conn_cancel`, any packets and
any accepted peers). Under `ScannerOnly`: `ListensOnlyInWindow`, `WindowIsOpen`,
`RepliesMatchRequests`, `DriverKnowsRadio`, `StandbyIsSilent`, and, without
`ll_scan_stop`, `StateMatchesTimers` (`scan_stop` shows what `ll_scan_stop` does to it).
Its conditions are those without which a property is known to fail: the window is
shorter than the interval, no time passes in a call (both under *Other disagreements*),
and `ll_scan_start` is called in STANDBY or SCANNING. `ScannerInv` has four cases: no
timer runs (`IdleOK`); a start function has armed the interval and is on its way to the
first window, during which no time passes (`StartingOK`); the scanner runs, and the
interval's timer has exactly the gap between window and interval more to go than the
window's, or the window is over and less than the gap is left (`RunningOK`); a stop
function has stopped the interval (`StoppingOK`). Each says which states the radio can
be in, END pending or not, and what is left of the call. Besides, `CountOK` has the
driver's count right but for the timer that a call is starting or stopping, and
`LapsingOK` that no compare event is left over, which keeps a window from being cut by
the one before.

**Data** (`DataPathsProofs`). For any parameters, `AcceptedStarts`: what bci accepts
for scannable and non-connectable advertising, in whole units, `ll_advertise_start`
accepts. For any data within the PDUs' length, any order of calls and expiries,
`PdusAreWhole` (`AdvertisementIsWhole`, `ResponseIsWhole`): a PDU that is sent has
length and data of one call, an advertisement because its setter is refused while
ADVERTISING and while it is torn, if it was left on the air, a scan response unless a
setter overlaps it; `ResponsesFilled`: no octet that was never set goes out even then.
Their `PduInv` says what a setter has written so far (`WritingOK`), what the radio has
read and that it is still there unless `torn` (`SendingOK`), and that nobody writes the
advertised data (`StateOK`). `WindowFits`: the transmit window for any interval of
ll.h:80. `UndisturbedIsWhole`: for any number of packets, a report is of one packet if
none begins between its filling and the end of its reading, also when the end of the
window has cut an earlier one off in the middle. For buffers, lists and numbers of any
size, by induction:

- `WellFormedBuffersAreRead`: `bci_ad_get` stays inside a buffer of complete AD
  structures and ends at its end. The parser is always at the border of a group.
- `PutIsGot`: it finds what `bci_ad_put` was last given of each type, for items that
  survive the encoding (`Representable`: names without NUL, since `strncpy` ends there,
  and an appearance below 512, since the upper octet is `u16 >> 1`: the rest is known
  to be lost). `TripInv` ties the parser's position to the item whose
  group begins there, and `found` to the newest of the items before it.
- `NumbersArePrinted`: `itos` and `utos` print every number as its decimal text, in a
  buffer that has room for all (`LogFormatAssumption`: ten digits, sign and terminator
  in the 12 octets of `itosbuf`). `TextInv` follows the two loops with the sequence of
  quotients by ten: the digits written are their remainders, last first, and of the
  reversal what lies outside `p2 .. p1` is done.

The induction is that of the least counterexample (`LeastNumber`), which needs no
operator as a parameter; for `TenTo` and `Decimal` it also shows that the recursive
definition has a solution. The run checks the properties in the composition
`DataPaths`, to which theorems carry them over, since a step of one path is a step of
its module and the others stutter.

**The programs** (`ExamplesProofs`, all times within the programs' assumptions, all
packets). `RepliesMatchRequests`, `ListeningIsTimed` and `ListensOnChannel` if no packet
ends while the active observer's TIMER0 handler runs (`~ObserverLateEnd`, see
*Assumptions*); `EventCoversChannels`, `TransmissionCompletes` and `FullListenWindow`
without a condition. Lemmas about `Device` say what every call of the two drivers
returns, for any set of timers and any turn of the counter; each program has an
invariant of its own.

- Active observer: `ActiveOK` lists the radio's seven states, three of them with END
  pending, in which a stop or a reply is still owed; times are not needed.
- Passive observer: `PassiveOK` names the number k of ticks until the interval ends. Both
  compare registers follow from it, also the window's when it is over and its old
  value comes round only after a turn.
- Broadcasters: `Beats` places every state k ticks before the end of the event, `Past`
  ticks after the beginning of the last PDU, with both compare registers. The plain
  one is on air only less than `AirTime` after that.
- Scannable broadcaster: `ScannableIs` adds the seven states of an exchange
  (`Advertising` to `Silent`), each with how long after its beginning it can be, and
  `Ahead`, the ticks until the compare value of the T_IFS timer comes round.
  A compare value left by a timer that was stopped (`Gone`) comes round within this
  exchange, when the timer does not run or the channel's interrupt clears the event,
  or a turn later.

The invariants of the programs and of the scanner were first checked with TLC on the
instances of `examples` and `observe`.

**Model-checked only.** Liveness under fairness, which is out of the prover's reach:
`ArmedTimerExpires`, `KeepsAdvertising`, `KeepsListening`, `OwedIsSent`,
`LastReportIsSeen` and `ChannelsTakeTurns`. Every safety and action property of the
passing runs is the subject of a theorem; under which hypotheses is said above. The
reverse: `RunningWhileActive` and `StoppedIsNotServed` are proved of `Timer`, and
`WindowFitsInterval` of `LinkData`, and no passing run lists them; TLC agrees with each
on the instances of `timer` and `data`.

## Not modelled, and why

Register setup and TX power (no state that matters), `timer_get_remaining_us` (no
caller), a second `ll_init`, steps inside one radio call, the connection state (not
in the code), random fields of CONNECT_REQ, what the programs log and the index of
a PDU's name in `pdus[]`. random, delay and the event loop are busy waits and a WFI.
Of the other examples, `ll-scanner`'s callback is `AdvReport`'s reader; the rest call
the API once or twice from `main`, calls that `LinkLayer`, `LinkData`, `Timer` and
`Log` allow. `ll-initiator` keeps the address it was given by pointer
(`ll_peer_addresses` in ll.c) and never changes it: `Peers` is constant.

## Plan

Done: all components with state, composed as above, and the theorems above. What
could come next: the link layer in any use of its API but for `ll_advertise_stop` and
`ll_scan_stop`, which needs the invariants of `AdvertiserProofs` and `ScannerProofs`
joined at STANDBY; `CallDelay` above 0 for what holds with it, `ListensOnlyInWindow`
and `StandbyIsSilent` of the scanner, with nothing assumed of the driver's count; the
advertiser's properties after `ll_scan_start` in the wrong state.
