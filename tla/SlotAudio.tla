------------------------------ MODULE SlotAudio ------------------------------
(***************************************************************************)
(* The sound card and the clock: RealTxBackend.transmit_frame, which pads  *)
(* a frame so that its modulation reaches the radio on a 500 ms boundary   *)
(* (tx/tx_backend.py); AudioPlayback, whose PortAudio callback shares      *)
(* four fields with play_frame (audio/playback.py); AudioCapture's ring of *)
(* the last minute (audio/capture.py) and the DecodeThread that copies it  *)
(* after every slot (modem/decoder.py).                                    *)
(*                                                                         *)
(* One unit of time is one sample; both devices run at the rate of the     *)
(* clock.  What takes milliseconds takes no time.  A sample captured is    *)
(* named by its time.  Time is counted modulo Cycle, which is longer than  *)
(* anything remembered.  Slip... definitions are explained in TxPipeline.  *)
(***************************************************************************)
EXTENDS Integers, Sequences

CONSTANTS
    Period,         \* TX_TARGET_DELAY_MS: modulation begins on a multiple of it
    Second, Slot, Day,
    Lag,            \* _DECODE_LAG_S
    Block,          \* _CALLBACK_BLOCKSIZE: samples a playback callback wants
    Length,         \* samples of modulation in a frame
    Setups,         \* how the program may start: which of "play" and "decode"
                    \* come up, and tx_pipeline_latency_ms of the radio
    PlayTimeout,    \* timeout_s of play_frame
    CaptureBlock,   \* _CAPTURE_BLOCKSIZE
    Ring,           \* RX_BUFFER_SIZE
    Cycle,          \* bound: where time wraps
    MaxLate,        \* bound: how late the decode thread wakes
    MaxDecode,      \* bound: how long a decode lasts
    MaxFaults       \* bound: mishaps of the devices

(* The ring holds the whole slot that has ended, however late the decode   *)
(* thread may wake, and time wraps later than anything is remembered.      *)
ASSUME AudioAssumption ==
    /\ {Period, Second, Slot, Day, Block, Length, PlayTimeout, CaptureBlock,
        Ring, Cycle} \subseteq Nat \ {0}
    /\ \A s \in Setups : s.parts \subseteq {"play", "decode"} /\ s.latency \in Nat
    /\ {Lag, MaxLate, MaxDecode, MaxFaults} \subseteq Nat
    /\ Slot % Period = 0 /\ Day % Slot = 0 /\ Slot % Second = 0
    /\ Cycle % Day = 0 /\ Cycle % Ring = 0 /\ Cycle >= 2 * Ring
    /\ CaptureBlock <= Lag /\ Ring % CaptureBlock = 0
    /\ Lag + MaxLate < Slot /\ Slot + Lag + MaxLate <= Ring
    /\ Cycle > Ring + CaptureBlock + MaxLate + MaxDecode
    /\ Cycle >= Ring + Slot + (MaxFaults + 1) * CaptureBlock

None == -1

VARIABLES
    now,
    latency,        \* of the radio in use
    \* play_frame and the callback
    fpc,            \* the thread in play_frame: none, idle, start, wait, stop
    waited,         \* how long it has
    asked,          \* history: the silence asked for
    silence, cursor, \* _silence_remaining, _modulation_cursor
    armed,          \* _modulation is not None
    done,           \* _frame_done is set
    running, due,   \* the stream runs; time to its next callback
    stuck,          \* the device asks for no more samples
    out,            \* history: what went out since the frame was armed
    landed,         \* history: when its modulation reached the radio, or None
    disturbed,      \* history: the device stood still or ran on in this frame
    \* capture and decode thread
    ring, pos,      \* _buffer, _write_pos
    behind,         \* samples captured, not yet handed over
    lost,           \* history: samples of blocks that were dropped
    dpc,            \* the decode thread: none, plan, sleep, decode, gone
    wake, spent,    \* when it wants to wake; the time since then
    snap, nutc,     \* its copy of the ring, and the slot it takes it for
    last,           \* history: the slot that ended before the copy was made
    main,           \* _cleanup: run, closed, told, exited
    faults

txVars == <<latency, fpc, waited, asked, silence, cursor, armed, done, running,
            due, stuck, out, landed, disturbed>>
ringVars == <<ring, pos, behind, lost>>
rxVars == <<dpc, wake, spent, snap, nutc, last>>
vars == <<now, txVars, ringVars, rxVars, main, faults>>

Least(a, b) == IF a < b THEN a ELSE b
Stamp(t) == t % Cycle
Remembered == Ring + CaptureBlock + MaxLate + MaxDecode

Init ==
    /\ now = 0
    /\ \E setup \in Setups :
          /\ fpc = IF "play" \in setup.parts THEN "idle" ELSE "none"
          /\ dpc = IF "decode" \in setup.parts THEN "plan" ELSE "none"
          /\ latency = setup.latency
    /\ waited = 0 /\ asked = 0
    /\ silence = 0 /\ cursor = 0 /\ armed = FALSE /\ done = FALSE
    /\ running = FALSE /\ due = 0 /\ stuck = FALSE
    /\ out = << >> /\ landed = None /\ disturbed = FALSE
    /\ ring = [i \in 0..Ring - 1 |-> None] /\ pos = 0
    /\ behind = 0 /\ lost = {}
    /\ wake = 0 /\ spent = 0
    /\ snap = << >> /\ nutc = 0 /\ last = None
    /\ main = "run" /\ faults = 0

(* The histories end with play_frame.                                      *)
Forgotten == waited' = 0 /\ asked' = 0 /\ out' = << >> /\ landed' = None

Fault == faults < MaxFaults /\ faults' = faults + 1

-------------------------------------------------------------------------------
(* Transmission.                                                           *)

(* The silence before a frame, at time t into a slot: to the next boundary, *)
(* less the latency of the radio, or to a later one if that is too much.   *)
SlipSilenceFor(t, l) ==
    LET s == Period - (t % Period) - l IN IF s >= 0 THEN s ELSE -s
SilenceFor(t, l) ==
    LET s == Period - (t % Period) - l IN IF s >= 0 THEN s ELSE s % Period

(* transmit_frame reads the clock; play_frame sets its four fields under   *)
(* the lock.                                                               *)
SlipPlayFrame ==
    /\ fpc = "idle" /\ main = "run"
    /\ asked' = SilenceFor(now % Slot, latency)
    /\ silence' = asked' /\ armed' = TRUE /\ cursor' = 0
    /\ fpc' = "start"
    /\ out' = << >> /\ landed' = None /\ disturbed' = running
    /\ UNCHANGED <<now, latency, waited, done, running, due, stuck, ringVars,
                   rxVars, main, faults>>
PlayFrame ==
    /\ fpc = "idle" /\ main = "run"
    /\ asked' = SilenceFor(now % Slot, latency)
    /\ silence' = asked' /\ armed' = TRUE /\ cursor' = 0 /\ done' = FALSE
    /\ fpc' = "start"
    /\ out' = << >> /\ landed' = None /\ disturbed' = running
    /\ UNCHANGED <<now, latency, waited, running, due, stuck, ringVars, rxVars,
                   main, faults>>

(* stream.start(), which finds the stream running after a stop that        *)
(* failed.  If it raises, or the stream has been closed, the frame is left *)
(* as it is.                                                               *)
StartStream ==
    /\ fpc = "start" /\ main = "run"
    /\ running' = TRUE /\ due' = IF running THEN due ELSE 0
    /\ fpc' = "wait"
    /\ UNCHANGED <<now, latency, waited, asked, silence, cursor, armed, done,
                   stuck, out, landed, disturbed, ringVars, rxVars, main, faults>>
StartFails ==
    /\ fpc = "start"
    /\ \/ main = "run" /\ Fault
       \/ main # "run" /\ UNCHANGED faults
    /\ fpc' = "idle" /\ Forgotten
    /\ UNCHANGED <<now, latency, silence, cursor, armed, done, running, due,
                   stuck, disturbed, ringVars, rxVars, main>>

(* _audio_callback: silence, modulation, and silence again when there is   *)
(* none left; only then the frame is done.                                 *)
Ends(s, m) == armed /\ s + m < Block /\ cursor + m >= Length
Callback ==
    /\ running /\ ~stuck /\ due = 0
    /\ LET s == IF armed THEN Least(Block, silence) ELSE 0
           m == IF armed THEN Least(Block - s, Length - cursor) ELSE 0
       IN /\ silence' = silence - s
          /\ cursor' = cursor + m
          /\ armed' = (armed /\ ~Ends(s, m))
          /\ done' = (done \/ Ends(s, m))
          /\ out' = IF armed /\ fpc # "idle"
                    THEN out \o [i \in 1..Block |->
                                   IF i \in s + 1..s + m THEN cursor + i - s ELSE 0]
                    ELSE out
          /\ landed' = IF cursor = 0 /\ m > 0 /\ fpc # "idle" THEN Stamp(now + s + latency)
                       ELSE landed
    /\ due' = Block
    /\ UNCHANGED <<now, latency, fpc, waited, asked, running, stuck, disturbed,
                   ringVars, rxVars, main, faults>>

(* The device stops asking for samples, for a while or for good.           *)
Stall == /\ running /\ ~stuck /\ Fault
         /\ stuck' = TRUE /\ disturbed' = TRUE
         /\ UNCHANGED <<now, latency, fpc, waited, asked, silence, cursor, armed,
                        done, running, due, out, landed, ringVars, rxVars, main>>
Resume == /\ stuck /\ stuck' = FALSE
          /\ UNCHANGED <<now, latency, fpc, waited, asked, silence, cursor, armed,
                         done, running, due, out, landed, disturbed, ringVars,
                         rxVars, main, faults>>

(* The wait ends with the frame done, or with an error.                    *)
FrameWaited ==
    /\ fpc = "wait" /\ (done \/ waited = PlayTimeout)
    /\ fpc' = "stop"
    /\ UNCHANGED <<now, latency, waited, asked, silence, cursor, armed, done,
                   running, due, stuck, out, landed, disturbed, ringVars, rxVars,
                   main, faults>>

(* stream.stop(), whose failure is only logged.                            *)
StopStream ==
    /\ fpc = "stop" /\ fpc' = "idle" /\ Forgotten
    /\ \/ running' = FALSE /\ stuck' = FALSE /\ UNCHANGED faults
       \/ running /\ Fault /\ UNCHANGED <<running, stuck>>
    /\ UNCHANGED <<now, latency, silence, cursor, armed, done, due, disturbed,
                   ringVars, rxVars, main>>

-------------------------------------------------------------------------------
(* Reception.                                                              *)

(* _write_into_ring, for a block of samples.                               *)
Written(samples) ==
    LET offset(i) == (i - pos) % Ring
    IN [i \in 0..Ring - 1 |->
          IF offset(i) < Len(samples) THEN samples[offset(i) + 1] ELSE ring[i]]

(* _on_audio: the samples of a block are written, or dropped if it raises. *)
Capture ==
    /\ behind = CaptureBlock /\ main # "exited"
    /\ LET block == [i \in 1..CaptureBlock |-> Stamp(now - CaptureBlock - 1 + i)]
       IN \/ /\ ring' = Written(block)
             /\ pos' = (pos + CaptureBlock) % Ring
             /\ UNCHANGED <<lost, faults>>
          \/ /\ Fault
             /\ lost' = lost \union {block[i] : i \in 1..CaptureBlock}
             /\ UNCHANGED <<ring, pos>>
    /\ behind' = 0
    /\ UNCHANGED <<now, txVars, rxVars, main>>

(* _seconds_until_next_decode                                              *)
SlipWakeTime == now + Slot + Lag
WakeTime == now + (Slot - (now % Slot)) + Lag

Plan ==
    /\ dpc = "plan"
    /\ dpc' = IF main \in {"told", "exited"} THEN "gone" ELSE "sleep"
    /\ wake' = Stamp(WakeTime)
    /\ UNCHANGED <<now, txVars, ringVars, spent, snap, nutc, last, main, faults>>

(* _current_nutc: the time is truncated to seconds of the day.             *)
SlipLabel(seconds) == (seconds \div (Slot \div Second)) * Slot
Label(seconds) ==
    LET boundary == ((seconds - 1) \div (Slot \div Second)) * Slot
    IN IF boundary < 0 THEN 0 ELSE boundary

(* The thread wakes, now or a little later, and copies the ring; or it is  *)
(* told to stop.                                                           *)
Snapshot ==
    /\ dpc = "sleep" /\ main \in {"run", "closed"}
    /\ (now - wake) % Cycle <= MaxLate
    /\ dpc' = "decode" /\ spent' = (now - wake) % Cycle
    /\ snap' = [i \in 1..Ring |-> ring[(pos + i - 1) % Ring]]
    /\ last' = Stamp(now - (now % Slot) - Slot)
    /\ nutc' = Label((now % Day) \div Second)
    /\ UNCHANGED <<now, txVars, ringVars, wake, main, faults>>
WakesToStop ==
    /\ dpc = "sleep" /\ main \in {"told", "exited"}
    /\ dpc' = "gone"
    /\ UNCHANGED <<now, txVars, ringVars, wake, spent, snap, nutc, last, main,
                   faults>>

(* The decoder returns, or raises; its frames go to the loop.              *)
DecodeEnds ==
    /\ dpc = "decode" /\ dpc' = "plan"
    /\ snap' = << >>
    /\ UNCHANGED <<now, txVars, ringVars, wake, spent, nutc, last, main, faults>>

-------------------------------------------------------------------------------
(* _cleanup: the output stream is aborted and closed, then the decode      *)
(* thread is told and waited for, but not for ever, then the input stream  *)
(* is closed.                                                              *)
CloseOutput == /\ main = "run" /\ main' = "closed"
               /\ running' = FALSE /\ stuck' = FALSE
               /\ UNCHANGED <<now, latency, fpc, waited, asked, silence, cursor,
                              armed, done, due, out, landed, disturbed, ringVars,
                              rxVars, faults>>
TellDecoder == /\ main = "closed" /\ main' = "told"
               /\ UNCHANGED <<now, txVars, ringVars, rxVars, faults>>
CloseInput == /\ main = "told" /\ main' = "exited"
              /\ behind' = 0
              /\ UNCHANGED <<now, txVars, ring, pos, lost, rxVars, faults>>

(* Time passes when nobody has anything to do at once.                     *)
Tick ==
    /\ fpc \in {"none", "idle", "wait"} /\ ~(fpc = "wait" /\ (done \/ waited = PlayTimeout))
    /\ ~(running /\ ~stuck /\ due = 0)
    /\ behind < CaptureBlock
    /\ dpc # "plan"
    /\ dpc = "sleep" => main \in {"run", "closed"} /\ (now - wake) % Cycle # MaxLate
    /\ dpc = "decode" => spent < MaxDecode
    /\ now' = Stamp(now + 1)
    /\ waited' = IF fpc = "wait" THEN waited + 1 ELSE waited
    /\ due' = IF running /\ ~stuck THEN due - 1 ELSE due
    /\ behind' = IF main = "exited" \/ dpc = "none" THEN 0 ELSE behind + 1
    /\ lost' = lost \ {Stamp(now - Remembered)}
    /\ spent' = IF dpc = "decode" THEN spent + 1 ELSE spent
    /\ UNCHANGED <<latency, fpc, asked, silence, cursor, armed, done, running,
                   stuck, out, landed, disturbed, ring, pos, dpc, wake, snap,
                   nutc, last, main, faults>>

Transmit == PlayFrame \/ StartStream \/ StartFails \/ FrameWaited \/ StopStream
Device == Callback \/ Stall \/ Resume \/ Capture
Decode == Plan \/ Snapshot \/ WakesToStop \/ DecodeEnds
Cleanup == CloseOutput \/ TellDecoder \/ CloseInput

Next == Transmit \/ Device \/ Decode \/ Cleanup \/ Tick

Spec == Init /\ [][Next]_vars

-------------------------------------------------------------------------------
(* What a frame sounds like.                                               *)
Wanted(i) == IF i \in asked + 1..asked + Length THEN i - asked ELSE 0

(* When play_frame is content, the silence and the whole modulation of its *)
(* own frame have gone out, in order and once, whatever the callback did   *)
(* meanwhile and whatever an earlier frame left behind; and nothing else   *)
(* ever goes out before.                                                   *)
WholeFrame ==
    /\ \A i \in 1..Len(out) : out[i] = Wanted(i)
    /\ fpc = "wait" /\ done => Len(out) >= asked + Length

(* On a device that did not stall, the modulation of every frame reaches   *)
(* the radio on a boundary, whenever in the slot the frame was begun.      *)
OnBoundary == landed # None /\ ~disturbed => landed % Period = 0

(* A decode gets every sample of the slot that has just ended, except for  *)
(* blocks that were dropped, oldest first; and unless the thread was late  *)
(* by the rest of a second, or the day has just ended, it names the slot   *)
(* by its beginning.                                                       *)
SlotOf(t) == {Stamp(t + i) : i \in 0..Slot - 1}
Heard == {snap[i] : i \in 1..Len(snap)}
SlotIsHeard ==
    dpc = "decode" =>
       /\ SlotOf(last) \ lost \subseteq Heard
       /\ \A i, j \in 1..Ring : i < j /\ snap[j] \in SlotOf(last) /\ snap[i] # None =>
             (snap[j] - snap[i]) % Cycle \in 1..Cycle - Slot
       /\ spent + Lag < Second /\ last % Day # Day - Slot => nutc = last % Day

(* No slot is decoded twice, and one is passed over only when the decode   *)
(* before it lasted as long as a slot, less the lag.                       *)
NoSlotSkipped ==
    [][dpc = "sleep" /\ dpc' = "decode" /\ last # None =>
          last' # last /\ (spent < Slot - Lag => last' = Stamp(last + Slot))]_vars
===============================================================================
