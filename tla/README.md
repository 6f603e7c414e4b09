# MicroJS8 in TLA+

MicroJS8 is a JS8 messaging appliance: a Python daemon that decodes 15-second
slots of audio, keeps a mailbox, and transmits what its operator, its automatic
replies and its beacons enqueue, by keying a radio over CAT or RTS. This
directory holds TLA+ specifications of the daemon, the TLC configurations that
check them on small instances, and TLAPS proofs.

Paths below are relative to `src/microjs8/` of the repository.

    tlc -workers 2 -config TxCore.cfg MCTxPipeline.tla     # one run (section 3)
    tlapm TxPipelineProofs.tla                             # the proofs of a module

## 1. The system

| Component | Source | State it keeps | Operations | Threads |
|---|---|---|---|---|
| outbound queue | `tx/queue.py` | SQLite table: kind, text, to_call, state, attempts, last_tx_at | enqueue, pick, the `mark_*` updates, record_ack, find_timed_out_acks, three recovery sweeps | called from all |
| encode worker | `tx/encode_worker.py`, `modem/encoder.py` | `EncodedAudioCache`: row id -> audio | oldest ENCODING row -> cache -> QUEUED | own thread |
| slot scheduler | `tx/scheduler.py` | `_mf_state`: the multi-frame burst in progress | one `_tick` a slot: ACK sweep, burst watchdog, pick, gate, key, frame, finalise | own thread |
| transmit backend | `tx/tx_backend.py`, `audio/playback.py` | `_burst_active`; silence, modulation and cursor of a frame | start_burst, transmit_frame, end_burst, the playback callback | scheduler's, PortAudio's |
| CAT service | `cat/service.py`, `cat/rigctl_client.py` | client, `_connected`, `_ptt_held_at`, hold override | ptt_on/kick/off, frequency, ping, reconnect, stop | reconnect and watchdog threads |
| RTS PTT | `cat/rts_ptt_*.py` | as CAT, with a serial line | as CAT | as CAT |
| beacons | `tx/beacon.py`, `app.py`, `ui/state.py` | HB mode, SOS armed, two threads | fire, single shot, start, stop, join | one thread each |
| safety gate, time source | `tx/safety.py`, `time_source.py`, `timing.py` | chrony cache, window of clock offsets | check_can_transmit | scheduler's, asyncio |
| GPS, power | `gps/*.py`, `power/battery.py` | cached coordinates, last charge | reports, losses, polls | GPS thread, asyncio |
| configuration | `config.py`, `app.py` | `config.toml`, the copy in memory | load, save_atomic | asyncio |
| audio capture, decoder | `audio/capture.py`, `modem/decoder.py` | ring of one minute | callback, snapshot, one decode a slot | PortAudio's, decode thread |
| reassembly | `protocol/reassembly.py` | buffers by sender, addressee and offset | feed, sweep | asyncio |
| inbound dispatch | `app.py`, `tx/auto_response.py` | - | ACK credit, auto-ACK, queries, held mail | asyncio |
| inbox, store | `store/inbox.py`, `store/db.py` | mail: UNREAD, READ, STORE, DELIVERED | add, mark, delete, query | asyncio |
| UI state, router, gestures | `ui/state.py`, `input/*.py` | screens, focus, edits, draft, inbox, hold gestures | key events, ends of countdowns | asyncio |
| grammar, checksum, screens, display, self-test | remaining files | - | pure functions, drawing, device I/O | - |

How they meet. PortAudio fills the ring; the decode thread copies it after every
slot and posts frames to the asyncio loop, where the assembler makes messages of
them and the dispatcher mail, answers and ACK credits. What is to be said goes
through the SQLite table: the asyncio thread and the beacon threads insert, the
encode worker renders, the scheduler picks. Every statement is its own transaction
(`isolation_level=None`) and the connection is shared: between a SELECT and the
UPDATE that acts on it any other thread may run. The scheduler calls the backend,
the backend the CAT service, whose watchdog and reconnect threads work on the same
fields, some of them without its lock. What GPS, fuel gauge, chrony and decoder
know reaches the gate late, through posts, polls and caches.

What is hard:

* **Read, then act.** The sweep reads the rows whose ACK is late and updates them
  one by one, by id; `record_ack` selects and updates the same way on another
  thread; the depth cap is a COUNT and an INSERT.
* **Several memories of one thing.** A burst is in the row (SENDING), the
  scheduler's context (`_mf_state`), the backend (`_burst_active`), the PTT
  timer (`_ptt_held_at`) and the radio; a beacon in the operator's wish, the held
  object and the thread; an identity in the file, the configuration, the user
  interface and rendered audio; mail in the table and in the list on the screen.
* **Restart and loss of power.** The tables survive, audio does not; a rename
  reaches the disk late. Rows may be in any state.
* **Timeouts.** ACK timeout, burst watchdog, CAT watchdog, playback timeout, joins of
  two seconds, reassembly limits, the 15 s slot and the 3 s of grace at shutdown
  overlap.
* **Unreliable partners.** Frames are lost or come out a few hertz off; ACK frames
  carry no id; rigctld may refuse, carry out and not answer, or answer late; gpsd
  reports fixes without coordinates.
* **A keyboard.** Some dozen keys, twelve screens, two gestures held for three
  seconds, and lists that change between two keys.

What makes it correct: a message is transmitted at most `MAX_ATTEMPTS` times, one
at a time, never before its audio is ready, on a boundary of 500 ms, never again
once it was cut off by a crash; a stale SOS is not transmitted; DELIVERED means an
ACK was decoded; every accepted message gets a verdict; the transmitter is let go
of; no frame becomes two messages and a cleanly heard mail is delivered; what is
acknowledged is stored, and held mail goes to whom it was left for; a beacon
speaks when and only when the operator wants it, under a saved name; a power loss
leaves a configuration; every slot is decoded once. `PROJECT.json` lists the
hazards with their lines and the properties that watch them.

## 2. Modules

| Module | Models |
|---|---|
| `OutboundText` | kinds and shape of an outbound text: `infer_outbound_kind`, who waits for an ACK, what the startup purge deletes |
| `TxPipeline`, `TxPipelineProps` | queue, encode worker, scheduler tick, ACK credit, startup and crash; what the pipeline promises |
| `MessageLifecycle` | the abstract specification: the life of a message as its sender may rely on it |
| `CatPtt` | keying: burst calls, CAT and RTS commands, PTT watchdog, reconnect, frequency commands, shutdown |
| `SlotAudio` | playback of a frame and its alignment; capture ring and decode thread |
| `Reassembly` | frames into messages |
| `Mail` | several stations: compose, dispatch, mailbox, automatic answers |
| `Sensors` | GPS, time source, battery |
| `Station` (extends `Sensors`) | identity and its saving, beacons, encode refusal, safety gate |
| `Operator` | screens, router, gestures |
| `MCTxPipeline`, `MCSlotAudio`, `MCReassembly`, `MCMail`, `MCStation`, `MCOperator` | small instances |
| `TxPipelineProofs` (with the refinement), `CatPttProofs`, `AudioProofs`, `ReassemblyProofs`, `MailProofs`, `StationProofs`, `OperatorProofs` | theorems about the module so named (`AudioProofs`: `SlotAudio`) |
| `SequenceLemmas` | lemmas about sequences, and the greatest element of a finite set |

The models meet at interfaces each states: `Mail` takes a text to be transmitted
whole or not at all, `Reassembly` says how whole texts come about and `TxPipeline`
how they are transmitted; `TxPipeline`'s gate is any boolean, `Station` says which
one; `CatPtt` has `play_frame` end, hang or freeze, `SlotAudio` says when it ends;
`Operator` changes heartbeat mode and armed flag, `Station` says what follows.

A definition `SlipX` stands before `X` and is the version of `X` that a plausible
mistake in the code would produce (a dropped guard, an off-by-one, a forgotten
reset). No specification uses one; each property was seen to fail when a slip takes
the place of its original, so that the property is known to say something.

### TxPipeline and the code

One action is one atomic access to shared state: an SQL statement, a cache
access, a call of the backend.

* Rows: `state`, `text`, `attempts`, `nextId` are the columns; `age` is the time
  since `last_tx_at` in slots. A row that was deleted or never inserted is
  `"absent"`.
* `spc`/`sid` is the program counter of `TxScheduler._tick` and the row it holds in
  a local variable; `due` and `skip` are its local collections. `wpc`/`wid` is the
  encode worker, `tpc` the enqueueing threads and the ACK path.
* `mfId`, `mfNext` are `_mf_state`; `burst` is `_burst_active`.
* `EnqueueCount`/`EnqueueInsert` are the two statements of
  `enqueue_for_encoding`, `AckSelect`/`AckCredit`/`AckDiscard` the three steps of an
  inbound ACK, `WorkerPick`/`Put`/`Mark`/`Fail` the worker's tick. `TickBegin` to
  `FailMessage` follow `_tick` in order; `Purge`, `Reset`, `AbandonStale` are the
  startup.
* `TickRaises` and `WatchdogAbandonRaises` are an UPDATE that raises, which `run()`
  (in a tick, or in the `abandon_stale_sending` before the first) or the watchdog's own
  handler swallows. `Crash` keeps the table only.
* Where two consecutive accesses are one action, nobody else can touch the data in
  between (`Settle`: a terminal row's audio; only its owner reads it).

Time: slots of 15 s. A sweep finds a row when `age > AckSlots` (90 s is exactly 6
slots, and the age is strictly greater only after the next boundary). The burst
watchdog compares 15 s x age with 20 s x frames. A tick ends before the next
boundary with one exception the code has: an inline encode (about 3 s) followed by
a 13 s frame misses a boundary (`NextSlot`, third disjunct). Handlers on other
threads last milliseconds: one may straddle a boundary but not two (`late`).

### CatPtt and the code

Time in ticks of 5 s, the greatest common divisor of the constants (15, 20, 30,
5). A command runs under the service's lock and is one action; each unlocked
access to `_ptt_held_at` and `_ptt_max_hold_override_s` is one of its own.
`service` is what `build_ptt_service` chose: both classes have the same loops, and
differ in what can become of a command (`Possible`). `Outcomes` are what rigctld
can make of one: done, refused (`RPRT -n`, the socket stays open), carried out but
unanswered (2 s timeout, socket closed), lost, answered by the late `RPRT 0` of an
earlier query although it was not done ("silent"), done but answered by a late
value ("garbled"). On the serial line: done, not done and not noticed, an error.
`Ask` is the query when CAT connects, `Tune` the operator's frequency edit.
`tx` is the scheduler thread from `set_burst_hold_seconds` to `end_burst`; `Hang`
is a playback whose callback never signals, `Freeze` a thread that never returns,
`DropContext` a burst the scheduler forgets. `wd`, `rc`, `main` are the watchdog,
the reconnect loop and `_cleanup`. The stopping phase is not bounded in time, which
allows more than the code does; properties about the hold do not speak of it.

### SlotAudio and the code

One unit of time is one sample, counted modulo `Cycle`; what takes milliseconds
takes no time, and the devices run at the rate of the clock. `fpc` is the thread in
`play_frame` and `PlayFrame` the four fields it sets under the lock; `silence`,
`cursor`, `armed`, `done` are those fields. `Callback` is `_audio_callback`, every
`Block` samples once the stream runs, also when `stop()` failed and left it running
(`StopStream`, second case). `Stall` is a device that asks for nothing more.
`SilenceFor` is the padding computed by `transmit_frame`. `ring` and `pos` are
the capture buffer, a sample in it being the time it was taken; `behind` is what
PortAudio holds back until a block is full. `dpc` is the decode thread's loop:
`WakeTime` is `_seconds_until_next_decode`, `Label` is `_current_nutc`. `main` is
the part of `_cleanup` that closes the two streams. Histories: `out` and `landed`
are what a frame sounded like and when its modulation reached the radio,
`disturbed` marks frames of a stalled or left-over stream, `lost` the samples of
blocks whose callback raised, `last` the slot that ended before a snapshot.

### Reassembly and the code

`Script` is what the stations around send; a slot puts one frame of each on the air
and the receiver decodes any subset, each `Drift` hertz off. A frame's text is the
token <<message, index>>, so that an emitted body says which frames it was made of;
a checksum is right when the body is that of one whole message. Keys are (from,
to, bucket of 10 Hz). `Feed` is `feed`: the stale buffers go first, then one of its
cases (`OnBufferedStarter`, `OnNonBufferedStarter`, `OnContinuation`, `Unrelated`).
`Sweep` is one round of `_reassembly_sweep_loop`: `sweep_completed`, then
`sweep_timeouts`. Ages count ticks of 5 s, and as a decode comes less than a tick
late, a limit of T may have passed at T and has passed at T + 1. `lane` is a
history: the bucket a message was received in undisturbed so far.

### Mail and the code

Every station runs the program. `todo` holds what operators set out to do
(`Operate`: compose, read, delete, as `_handle_compose_send` and the inbox keys do
it). `box` and `last` are the table of `store/inbox.py` and its AUTOINCREMENT.
`queued` and `waiting` are the rows of the outbound queue before transmission and in
WAIT_ACK. `Transmit` puts a text in the ears of any subset of the others; `air` is
what was decoded and not handled. `Receive` is `_on_decoded_frame` with
`_dispatch_assembled`: the back-correlation of ACKs, an auto-ACK after a successful
insert, QUERY MSGS, QUERY MSG, MSG TO. `Listed` is what the Inbox screen shows, the
UNREAD and READ rows: only those can be read or deleted, although `store/inbox.py`
means the screen to list held mail too (section 5). `AckTimeout` is the scheduler's sweep.
`accepted` and `promised` are histories.

### Station and Sensors and the code

A position is the number of losses that came before it was measured: a stale one
carries a smaller number. `posted` are the fixes in `call_soon_threadsafe`. `window`
is how many clock offsets the decoded frames have left, which is all that the gate asks
of them; a good answer of chrony is cached. Identities are saved in steps (`Write`, `Sync`, `Rename`, `WriteFails`,
`Adopt` for configuration and user interface, `Settle` for the disk), and `PowerLoss`
may come between any two. `threads` are all beacon threads ever started, with
`Fire`, `Put`, `Complete`, `Wake` as steps of `run`; `hbBeacon` and `sosBeacon` are
those the program holds. `main` is what the asyncio thread is in the middle of: a
save, or a join of two seconds which a stalled database outlasts. `Encode`,
`Gate` and `Transmit` are the worker's identity check, `check_can_transmit` and the
scheduler; only the beacons' rows of the queue appear. `strays` counts rows
enqueued by threads that nobody holds any more.

### Operator and the code

Everything runs on one thread, so a key is one action (`Press`), and what happens
between two keys is one each: `HoldDone`, `CountdownDone`, `PoweroffDone`,
`ExitRefused` (the gestures and systemctl), `MailArrives`, `Refresh`, `Hear`, `GpsFix`
(lists the decoder and the GPS refresh). `Refreshed` is `_refresh_inbox_ui`: list, badge
and focused row are taken from the mailbox together, or none when reading it fails; it
follows an arrival, a text that was stored, held mail and a delivery. `Hear` lets any
call be heard, the own one too, which the code filters: it may be set afterwards. That
the callback of the SOS gesture raises (emergency_arm_gesture.py:197) does not happen as
the program is wired, because `UIState.arm_emergency_beacon` swallows what it calls. `ScreenKey` follows the router's order: shutdown
gesture, open edit, the screen's own keys, the ring. The text being typed is left
out; whether a value is accepted is any outcome; a compose field holds nothing, what
was typed, or a pick.

### MessageLifecycle

pending -> on air -> sent -> delivered or abandoned, at most `MaxAttempts`
launches, one message on air at a time, broadcasts may be forgotten by a restart.
The refinement forced one concession into it, `LateAnswer` and `LateTimeout`: a
verdict can be overtaken when the ACK and the end of the wait coincide, because
`record_ack` and the sweep select and then update by id. What that means is stated apart:
`DeliveredIsFinal`, which the run TxOvertaken refutes (the sweep re-queues a delivered
message), and `CreditSparesBurst`, which holds (no credit hits a row on the air).
`RefinesLifecycle` is the refinement mapping, an `INSTANCE` with `status` computed from
`state`.

## 3. Runs

| Run | Question | Result |
|---|---|---|
| TxCore | eleven invariants of the pipeline: two threads, a 2-frame directed message and a heartbeat, one crash, raising tick or clock step anywhere | hold, 984 000 states |
| TxLive | every accepted message is settled if the gate stays open; the pipeline implements `MessageLifecycle`, over a crash | hold, 306 000 states |
| CatWatchdog | hold bounded, timer follows radio, live bursts spared, PTT always released; both services, one fault, two hangs, one shutdown | hold, 358 000 states |
| SlotAudio | frames go out whole and on a boundary; every slot is decoded once, with its own samples; over failing and hanging streams, long decodes, midnight and shutdown | hold, 2.2 million states |
| Reassembly | no frame in two messages, a mail heard whole is delivered, every buffer ends | hold, 157 000 states |
| Mail | acknowledged is stored, mail is private, rows live their life, no echo of answers; four plans of three stations | hold, 708 000 states |
| Station | beacons as wanted and silent when off, identities on the air were saved, no half configuration, fresh positions, a repeated SOS; seven sessions | hold, 478 000 states |
| Operator | edits and unconfigured stations confined, badge never too small, drafts survive, gestures end; five sessions | hold, 491 000 states |
| CatStuck | "the radio doesn't stay keyed forever" | violated |
| ReassemblyVerdict | "we never ACK an incomplete or checksum-failed message" | violated |
| StationSos | "so an unconfigured station can still call for help" | violated |
| TxOvertaken | "a terminal state (DELIVERED/ABANDONED)" | violated |

The four violated runs each set a sentence of the repository against the code;
`PROJECT.json` quotes it and tells the trace. The passing properties are stated so
that they hold in spite of what the code does: `BurstIsRemembered` allows a raised
tick, `FramesConsecutive` exempts bursts encoded inline and stepped clocks,
`TimerMatchesRadio` and `StuckIsReleased` ask for commands that work,
`HeardWholeIsDelivered` for frames in one bucket, `SosKeepsGoing` for a configured
station, `BeaconsAsWanted` for a station whose pipeline runs, `OnBoundary` for a
stream that was not left running, `SlotIsHeard` names a slot only when the thread was
not half a second late and the day did not just end.

Bounds. **Tx**: two rows are enough for a row to be swept, credited or
blocked while another is sent, and for a station's ACK to find one row or the
other. Two frames give a first, a last and a gap between them. Two attempts give
a retry and the exhaustion. `AckSlots = 2` instead of 6 (1 in TxLive) keeps the order
of "ACK in time", "at the limit", "late"; ages saturate one above it, where no
comparison tells them apart (`Overdue` compares with at most 3 slots for 2 frames).
`AtMostOneFault` lets a crash, an SQL error and a clock step each occur at every
point, one to a behaviour; all the invariants were also seen to hold with one of each
in the same behaviour (4.3 million states), which is left out for its length.
TxLive has a queue of depth 1, which the race of `enqueue` overflows. **CatPtt**:
two frames give a kick between frames, two hangs a hang after a forgotten burst.
**SlotAudio**: a period of 4 samples, a second of 2 periods, a slot of 2 seconds, a
day of 2 slots; blocks of 3 and frames of 7 samples divide neither each other nor
the period, so modulation begins and ends anywhere in a block; latencies below and
above a period; the ring holds two slots, its seam falls everywhere; a decode may
last as long as the code can bear and one sample longer. The two halves of the
program share only the clock, so one run has a station that only transmits and one
that only receives; the transmitting half alone was also run with two mishaps.
**Reassembly**: two senders in one bucket or two, a mail of two frames, a bare verb
followed by a text without a checksum, a single-frame query, a foreign frame; the
limits are in the code's proportion to the slot. **Mail**: three stations so that a
third can overhear, ask and be asked; two rows each, so that a queue is full; two
transmissions; the plans are small because their interleavings are all taken.
**Station**: three threads give an old, a new and a single shot; a window of three
offsets with two needed is below, at and above what the gate asks for; two losses give a position
that is one loss old and one that is two. Each session varies what interacts and
keeps the rest still. **Operator**: sessions as `MCOperator` says; three mails shift a
list of two; one failing access to the mailbox, reading or writing. No symmetry is used: rows are ordered, threads and
stations differ.

Deadlock is checked except in Mail and Station, where operators may have nothing
more to do and the world then rests.

### Fairness

`TxPipeline!FairSpec`: weak fairness of the worker, of the two later steps of the
ACK path, of the INSERT that follows a COUNT, of the tick, of startup, and of the slot
boundary. The code justifies each: they are straight-line code of a thread the
operating system schedules, loops that run while the daemon runs, or time. The
operator, the radio channel, the gate, crashes and errors owe nothing.
`EventuallySettled` asks for `<>[]gateOpen` because a station without a position
fix rightly sends nothing. `CatPtt!FairSpec`: the four threads and time; no one owes
a shutdown, a hang, a retune or a fault. `Reassembly!FairSpec`: time, the sweep task
and the handling of decoded frames. `Mail!FairSpec`: scheduler, decode handler and
ACK sweep of every station; operators owe nothing. `Station!FairSpec`: the encode
worker, the scheduler, every beacon thread, the posts of the asyncio loop, and the
asyncio thread while it is in the middle of something; nobody owes a command or a
change of the weather. `Operator!FairSpec`: the two countdowns and systemctl's five
seconds. `SlotAudio` states none.

## 4. Proofs

Every safety property that a passing run checks is also a theorem, for every value of
the constants: invariants, action properties and the refinement of
`MessageLifecycle`. 11 502 obligations: `AudioProofs` 3 157, `TxPipelineProofs`
2 297, `StationProofs` 1 938, `ReassemblyProofs` 1 268, `MailProofs` 1 172,
`CatPttProofs` 1 099, `OperatorProofs` 484, `SequenceLemmas` 87.

| Theorem | States |
|---|---|
| `TxPipelineProofs!TypeCorrect`, `InductiveHolds`, `SteadyHolds` | types; the two inductive invariants below |
| `AttemptsAreBounded` | no message is on the air more than `MaxAttempts` times |
| `SendingHasOwner`, `BurstHasContext` | a SENDING row belongs to the scheduler's burst, the present tick or an unfinished restart; the backend's burst is the scheduler's |
| `UnencodedIsNotSent`, `CacheIsBounded` | the scheduler never works on a row without audio of its own; cached audio is a live row's |
| `DeliveryIsEarned` | no more messages are DELIVERED to a station than ACKs were decoded from it |
| `CreditsSpareBursts` | an ACK is never credited to a row on the air |
| `FramesInSequence` | frames go out in consecutive slots |
| `BroadcastsDieWithTheRun`, `CutOffStaysCutOff` | what the startup purges or abandons is never transmitted again |
| `PipelineRefinesLifecycle`, `LifecycleWithoutErrors` | the pipeline implements `MessageLifecycle`, step by step, as long as no UPDATE of a tick raises |
| `CatPttProofs!TypeCorrect` | types |
| `LiveBurstIsSpared` | the watchdog never cuts a healthy burst, whatever commands fail |
| `TimerFollowsRadio`, `StuckBurstIsReleased` | timer and transmitter agree; the hold is bounded, while commands work |
| `ReassemblyProofs!TypeCorrect`, `NoTextTwice`, `WholeIsDelivered` | types; no text in two messages; a mail heard whole is delivered |
| `MailProofs!MailIsTyped` | types; queues and retries keep their bounds |
| `MailIsPrivate` | a text is stored where its author sent it or had it held for, and nowhere else |
| `AcknowledgedIsStored` | what a station acknowledges it has stored |
| `MailLivesItsLife` | a row keeps id and content, moves forward only, and goes only by the operator's hand (an action property) |
| `StationProofs!StationIsTyped` | types, the bounds of window and queue |
| `PositionStaysFresh` | a position in use is younger than every loss that was reported |
| `BurstsAreSaved`, `ConfigIsNeverHalf` | names on the air were saved; no half file |
| `BeaconsRunAsWanted`, `BeaconsOffAreSilent` | beacons speak when and only when wanted |
| `OperatorProofs!EditStaysOnSetup`, `UnconfiguredStaysConfined` | half-edited fields and unconfigured stations are confined |
| `DraftsSurvive`, `BadgeIsNotLow` | drafts survive (an action property); the badge is never too small |
| `AudioProofs!FramesAreWhole` | silence and modulation of its own frame go out, in order, once, before `play_frame` is content |
| `SilenceAligns`, `FramesLandOnBoundaries` | modulation reaches the radio on a boundary, for every latency |
| `SlotsAreHeard`, `SlotsFollowEachOther` | every decode gets the whole slot, oldest sample first, under its name; none is decoded twice or passed over (an action property) |

**Assumptions.** Each module names those about its constants; the runs evaluate them.
Most give types. The others come from the code's constants: at least one attempt and
one place in the queue; ages are counted beyond `AckSlots` and the longest message
(`AgeCapAssumption`, about the model's bound); `play_frame` and the watchdog wait
longer than a slot lasts (30, 20 and 20 s against 15); the reassembly limits are
longer than a slot (30 and 20 s); slots, seconds and days hold whole periods; a
capture block is no longer than the lag of a decode; the ring holds a slot, the lag
and the delay with which the decode thread may wake (15 + 0.5 s of 60, so that the
delay may be up to 14.5 s, the bound of the assumption `Lag + MaxLate < Slot`); time
wraps later than anything is remembered, dropped blocks included.

**Pipeline.** `AttemptsBounded` is not inductive: the count is raised by
`mark_sending` long after the row was picked, and four actions re-queue.
`Inductive` adds what carries it:

* `IdsBelow`: ids that were not handed out are untouched, and nobody holds one;
* `OneContext`: the scheduler has a context exactly between start and end of a
  burst, and it is of the row it transmits;
* `Budget`: a row that can be picked has an attempt left, and the attempt counted by
  `mark_sending` is ahead of the transmission it stands for;
* `WorkerOwns`: the row of the worker is ENCODING, and no row that the
  scheduler, the sweep or the ACK path hold by id is;
* `SendingIsOwned`, which is itself a promise.

The last two depend on each other: an ACK or a sweep acts on a row by id, and only
because that row cannot be ENCODING any more does it not take a row away from the
worker.

`Steady` builds on it and says what each step of a tick may rely on: the state of
the row in hand (`InHand`), that whatever is swept or credited was transmitted
(`Tried`), that the sweep's rows wait or were answered (`Swept`), and
`CreditInTime`: an ACK that was matched before the sweep re-queued its row is
credited before the next tick picks. Without it a credit could hit a row on the air,
which `CreditsSpareBursts` excludes.
Each promise then has a small invariant of its own: `OneBurst`, `LiveAudio`,
`AcksBalance` (credits given and pending against ACKs decoded), `InStep` (the age of
the row counts the frames), `StaleIsGone`, `CutOffIsOver`.

**Lifecycle.** `status` maps a row to what its sender may think of it. A step either
moves the status of one message, as one action of `MessageLifecycle` allows
(`MarkSendingLaunches`, `SettleEndsAiring`, `CreditAnswers`, `SweepTimesOut`,
`PurgeForgets`, `AbandonStaleBreaks`, `InsertSubmits`), or none (`Stutters`). A tick
whose UPDATE raises may leave a row SENDING that nobody transmits any more while the
next one goes on the air, and `MessageLifecycle` has one on air at a time; hence the
hypothesis.

**Keying.** `InTime` is why a healthy burst is spared: without a hang the timer runs
only from key-down to release, is set back with every frame and so never shows more
than a slot; what the watchdog read of it without the lock is no more. It holds for
every command that fails. `TimerInv` is about three threads while commands work: a
connection lasts (`SocketHolds`), `_burst_active` covers the burst
(`BurstIsNoted`), nothing is left over between bursts (`NoBurst`), and in any other
state the timer agrees with the transmitter until one of the two threads that may
release has begun to (`BurstInRelease`). `HoldInv` compares timer, hold and
transmission on top of it.

**Reassembly.** No two buffers were started at the same time (`Shelf`), so that the
one a continuation goes to is determined. `Once` has the texts of buffers and emitted
messages apart from each other and among those received; a text that is fed is new.
`Heard(m)` follows a mail received undisturbed: it is the latest buffer of its lane,
holds exactly the prefix fed so far and is as old as the slot, too young for any
timeout.

**Mail.** `PrivateMail` speaks of what was accepted; where a text comes from is
spread over mailboxes, queues and the air. `Provenance` says of each that it holds
only what its owner may pass on (`BoxOK`, `OutOK`, `AirOK`); a text changes hands only
between these. Ids being new (`last` bounds them) is what keeps rows apart.
`MailTyped` adds the bounds; that a new row's number is larger than all others needs a
greatest element of a finite set, proved once by induction (`GreatestExists`).

**Station.** `GpsInv` orders the positions in cache, in the loop and in use by
the losses still waiting between them (`Spells`). `NamesInv` says which of the
identities in memory, in a save under way, on disk and in audio are saved already.
`BeaconInv` is `LooseEnds` (a thread nobody holds was told to stop or winds up),
`HbHeld` and `SosHeld` (what is held is what was wished, except inside a join).
`SilenceInv` trades: threads at large plus rows they have written never exceed
the stalls.

**Operator.** `EditOnlyOnSetup` is inductive and carries `UnconfiguredIsConfined`: a
key on an open edit goes to the edit alone, and whatever else takes the setup screen
away gives it back. `BadgeInv` counts the unread rows of the list: reading lowers the
badge only when the mail read was an unread row of it, deleting lowers the list alone,
a refresh, if it does not fail, counts both anew.

**Audio.** `FrameInv` balances what went out against what is left of silence and
modulation; that a frame is not armed when the stream is at rest makes a left-over
callback harmless. `BoundaryInv` adds: the time of the next callback, the silence
left and the latency add up to a boundary; time may wrap because the cycle holds
whole periods. `HearInv` is about reception: the k-th sample before the ring's seam is
k samples older than what waits for its block, or more by the blocks dropped since
(`Dated`), older ones stand before younger ones (`InOrder`), and of the slot that
passes every sample handed over is there (`Heeded`); the thread sleeps until the lag
after that slot or after the one that has just ended, of which it then has everything
(`Asleep`); from the copy to the next plan, time tells the slot's age (`Aged`), and
the plan counts from it (`Planned`). Ring, slot, day and time each wrap; the lemmas
about remainders before it let one wrap stand for the other.

The proof of a step has one step per action. Only model-checked: liveness, because
fairness and ENABLED are out of the prover's reach (`EventuallySettled`,
`AlwaysReleased`, `EveryBufferEnds`, `FallsSilent`, `SosKeepsGoing`, `GesturesEnd`),
and the four sentences that are violated.

## 5. Not modelled, and why

* GFSK synthesis, resampling and the decoder library; rendering, display drivers and
  backlight; the decoding of I2C and UART keyboards; the discovery of sound cards:
  signal processing, drawing or device I/O. Where they matter they are a call that
  succeeds, fails, hangs or takes long.
* The arithmetic of CRC, grid squares and distances; TOML and the validation of
  fields; the parsing of gpsd's JSON and of rigctld's lines: pure functions, replaced
  by what their callers tell apart.
* The median of the clock offsets and the correction it yields: nobody applies it
  (safety.py:65), the gate asks only whether there are enough offsets.
* TxStatus reporting, the activity log, meters, lists of heard stations: shown only.
* `doctor.py`, `paths.py`, logging and the entry point.
* `_dispatch_inbox` (app.py:1909): only tests call it. The automatic SNR and GRID
  answers for groups: `parse` is given no groups, so they are unreachable.

### Known divergences without a run

Met while modelling; the models have the code's behaviour, the properties allow for it.

* Queue and scheduler: concurrent enqueues exceed the cap (queue.py:362); the
  90 s of an ACK count from the start of the burst (queue.py:541); a CQ row
  survives the purge at startup (queue.py:519); ACKs of group members are credited to
  directed mail (queue.py:178); a burst encoded inline misses a slot; "abort
  cleanly" leaves the burst of the backend active (scheduler.py:811).
* Keying: an unanswered T 1 leaves the radio keyed (tx_backend.py:338); after a
  refused ping, or an answer that is not understood, CAT stays disconnected with its
  socket open (service.py:262, 315); the grace of 3 s ends the process before
  `cat.stop()` (app.py:3296); a frequency edit retunes during a burst.
* Audio: the slot before midnight is named 0 and, half a second late, the present slot
  is (decoder.py:142); on a boundary the silence is a full period although "ALWAYS in
  [0, samples_per_period)" (tx_backend.py:80); a stream whose stop failed is out of
  step for the next frame.
* Reassembly and mail: a buffered starter discards pending text (reassembly.py:671);
  the directed log shows a dropped reply as sent (app.py:2962); a repeated mail is
  stored again (app.py:2283); the Inbox screen asks for UNREAD and READ rows
  (app.py:2990), although "the unified Inbox screen" is to list held mail as well, so
  that operators "can delete held STOREs" (inbox.py:511): held mail is shown nowhere and
  cannot be deleted; a QUERY MSGS to @ALLCALL is never answered (app.py:1519 says it is:
  `parse` calls every frame to @ALLCALL a broadcast, and the branch of
  `_dispatch_assembled` for it is not reached); an ACK to a text that begins with a number marks the
  held mail of that number DELIVERED (inbox.py:441).
* Station: an SOS queued before it was disarmed is still transmitted (app.py:2613);
  the end of a SINGLE heartbeat may switch off the mode selected since (app.py:2602),
  although 20 MIN and 1 HR "cycle until the operator picks OFF or SINGLE" (state.py:101);
  beacons armed without a queue do nothing (app.py:2630), although "a subsequent re-arm
  will succeed" (app.py:2623); a silent gpsd keeps its last fix (reader.py:65); an
  unreadable gauge opens the gate (battery.py:397).
* Operator: Esc from a mail's detail view after a cancelled Fn+Q returns to the detail
  view (state.py:1017); mail that arrives shifts the row Delete applies to
  (state.py:1375); the groups of `config.toml` do not reach the user interface
  (app.py:307), so the first edit erases them; a refused power-off leaves its screen
  up (shutdown_gesture.py:195).

## 6. Plan

Done: the pipeline and its lifecycle, keying, reassembly, mail, sensors and station,
the operator's side, slot audio; proofs of all safety properties of the runs.

Next, in this order:

1. Fewer hypotheses: `TimerMatchesRadio` and `StuckIsReleased` in spite of commands
   that were refused, as far as they hold there; the lifecycle with a tick that
   raises, as an abstract specification that allows it.
2. An abstract specification of `Mail` (a text is held, fetched, acknowledged), and
   `Mail` shown to implement it from `Provenance`.
3. An abstract specification of a burst (keyed, frames, released) and `CatPtt` shown
   to implement it from `TimerInv`.
