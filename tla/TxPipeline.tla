------------------------------ MODULE TxPipeline ------------------------------
(***************************************************************************)
(* The transmit pipeline of MicroJS8: the SQLite outbound queue            *)
(* (tx/queue.py), the encode worker and its audio cache                    *)
(* (tx/encode_worker.py), the slot scheduler (tx/scheduler.py), and what   *)
(* the application does to the queue: enqueue, credit an ACK, recover at   *)
(* startup (app.py).                                                       *)
(*                                                                         *)
(* Each action is one atomic access to what the threads share: an SQL      *)
(* statement, a cache access, a call of the backend.  Between two of them  *)
(* any other thread may run.  Time is counted in 15 s slots: a row         *)
(* remembers its age in slots since last_tx_at instead of a date.          *)
(*                                                                         *)
(* A definition named Slip... is not part of the model: it is the wrong    *)
(* version of the definition after it that a plausible bug would make of   *)
(* the code, kept to show that the properties notice the difference.       *)
(***************************************************************************)
EXTENDS OutboundText, FiniteSets

CONSTANTS
    Offers,         \* the texts the threads may enqueue
    MaxMsgs,        \* bound: rows ever inserted
    QueueDepth,     \* QUEUE_DEPTH
    MaxAttempts,    \* MAX_ATTEMPTS
    AckSlots,       \* ACK_TIMEOUT_S in slots
    AgeCap,         \* bound: ages saturate here
    MaxCrashes,     \* bound: times the daemon dies
    MaxErrors,      \* bound: SQL statements of a tick that raise
    MaxClockSteps   \* bound: forward steps of the wall clock

ASSUME TxAssumption ==
    /\ Offers \subseteq Texts
    /\ Offers # {}
    /\ MaxMsgs \in Nat
    /\ QueueDepth \in Nat \ {0}
    /\ MaxAttempts \in Nat \ {0}
    /\ AckSlots \in Nat
    /\ AgeCap \in Nat /\ AgeCap > AckSlots
    /\ MaxCrashes \in Nat /\ MaxErrors \in Nat /\ MaxClockSteps \in Nat

(* The bound on ages is no smaller than the burst it has to count.          *)
ASSUME AgeCapAssumption == \A t \in Offers : t.frames <= AgeCap

Ids == 1..MaxMsgs
None == 0

Active   == {"ENCODING", "QUEUED", "SENDING", "WAIT_ACK"}
Terminal == {"DELIVERED", "ABANDONED"}
States   == {"absent"} \cup Active \cup Terminal

VARIABLES
    \* the outbound table: survives a crash
    state,      \* [Ids -> States]
    text,       \* [Ids -> Offers]; means nothing while the row is absent
    attempts,   \* [Ids -> Nat]
    age,        \* [Ids -> Nat]: slots since last_tx_at
    nextId,     \* AUTOINCREMENT
    \* memory of the process
    cache,      \* EncodedAudioCache: the ids that have audio
    wpc, wid,   \* encode worker: where it is, the row it works on
    spc, sid,   \* scheduler: where it is, the row of this tick
    due, skip,  \* scheduler: timed-out rows to sweep, rows deferred this tick
    mfId, mfNext, \* scheduler._mf_state: row, next frame
    inline,     \* the audio of that row was encoded within the tick
    burst,      \* RealTxBackend._burst_active
    tickDue,    \* a slot boundary has passed and its tick has not begun
    tpc,        \* where each enqueueing thread is
    ackId,      \* the row an ACK is being credited to
    late,       \* threads whose step cannot last until the next slot boundary
    \* the world
    gateOpen,   \* what check_can_transmit would answer
    air,        \* [Calls -> Nat]: ACK frames on their way to us
    crashes, errors, clockSteps,
    \* history, read by properties only
    decoded,    \* [Calls -> Nat]: ACK frames decoded
    aired,      \* [Ids -> Nat]: transmissions begun
    inherited,  \* rows inserted by an earlier run of the daemon
    cutOff      \* rows that were SENDING when the daemon died

rowVars   == <<state, text, attempts, age, nextId>>
workVars  == <<wpc, wid>>
tickVars  == <<sid, due, skip>>
burstVars == <<mfId, mfNext, inline, burst>>
appVars   == <<tpc, ackId, late>>
faultVars == <<crashes, errors, clockSteps>>
airVars   == <<gateOpen, air>>
histVars  == <<decoded, aired, inherited, cutOff>>
vars == <<rowVars, cache, workVars, spc, tickVars, burstVars, tickDue, appVars,
          airVars, faultVars, histVars>>

RowsIn(S) == {i \in Ids : state[i] \in S}
Oldest(i, S) == i \in S /\ \A j \in S : i <= j

(* The rows pick_next chooses from.                                        *)
SlipSendable == RowsIn({"QUEUED", "ENCODING"})
Sendable == RowsIn({"QUEUED"})

(* The daemon's threads run, from the restart of the worker on.            *)
Up == spc \notin {"down", "purged"}

Init ==
    /\ state = [i \in Ids |-> "absent"]
    /\ text = [i \in Ids |-> CHOOSE t \in Offers : TRUE]
    /\ attempts = [i \in Ids |-> 0]
    /\ age = [i \in Ids |-> 0]
    /\ nextId = 1
    /\ cache = {}
    /\ wpc = "idle" /\ wid = None
    /\ spc = "down" /\ sid = None /\ due = {} /\ skip = {}
    /\ mfId = None /\ mfNext = 0 /\ inline = FALSE /\ burst = FALSE
    /\ tickDue = FALSE
    /\ tpc = [t \in Threads |-> "idle"] /\ ackId = None /\ late = {}
    /\ gateOpen = TRUE
    /\ air = [c \in Calls |-> 0]
    /\ crashes = 0 /\ errors = 0 /\ clockSteps = 0
    /\ decoded = [c \in Calls |-> 0]
    /\ aired = [i \in Ids |-> 0] /\ inherited = {} /\ cutOff = {}

(* The two statements of a handler run within milliseconds: it crosses a    *)
(* slot boundary only if it began in the quiet end of the slot before.     *)
BeginHandler(t) ==
    late' = IF spc = "idle" /\ ~tickDue THEN late ELSE late \cup {t}

-------------------------------------------------------------------------------
(* Updates that several handlers make.                                     *)

(* The retry-or-abandon decision of the sweep and of _fail_message.        *)
SlipExhausted(i) == attempts[i] > MaxAttempts
Exhausted(i) == attempts[i] >= MaxAttempts

(* UPDATE of mark_sending.                                                 *)
SlipMarkSending(i) ==
    /\ state' = [state EXCEPT ![i] = "SENDING"]
    /\ age' = [age EXCEPT ![i] = 0]
    /\ UNCHANGED attempts
MarkSending(i) ==
    /\ state' = [state EXCEPT ![i] = "SENDING"]
    /\ attempts' = [attempts EXCEPT ![i] = @ + 1]
    /\ age' = [age EXCEPT ![i] = 0]

(* mark_delivered or mark_abandoned, then _discard_cached_audio.  Only the *)
(* scheduler and the ACK of this row touch its audio now: one step.        *)
SlipSettle(i, verdict) ==
    state' = [state EXCEPT ![i] = verdict] /\ UNCHANGED cache
Settle(i, verdict) ==
    state' = [state EXCEPT ![i] = verdict] /\ cache' = cache \ {i}

(* mark_retry: back to QUEUED with the audio kept.                         *)
Requeue(i) == state' = [state EXCEPT ![i] = "QUEUED"] /\ UNCHANGED cache

(* backend.end_burst and the pop of the scheduler's context.               *)
SlipEndBurst == UNCHANGED burst /\ mfId' = None /\ mfNext' = 0 /\ inline' = FALSE
EndBurst == burst' = FALSE /\ mfId' = None /\ mfNext' = 0 /\ inline' = FALSE

-------------------------------------------------------------------------------
(* Enqueueing: OutboundQueue.enqueue_for_encoding, two statements.         *)

(* SELECT COUNT of the active rows; a full queue rejects the message.      *)
EnqueueCount(t) ==
    /\ Up /\ tpc[t] = "idle"
    /\ nextId + Cardinality({u \in Threads : tpc[u] = "insert"}) <= MaxMsgs
    /\ Cardinality(RowsIn(Active)) < QueueDepth
    /\ tpc' = [tpc EXCEPT ![t] = "insert"]
    /\ BeginHandler(t)
    /\ UNCHANGED <<rowVars, cache, workVars, spc, tickVars, burstVars, tickDue,
                   ackId, airVars, faultVars, histVars>>

(* INSERT, in state ENCODING and with no attempts.                         *)
EnqueueInsert(t, m) ==
    /\ tpc[t] = "insert" /\ m.by = t
    /\ nextId \in Ids
    /\ state' = [state EXCEPT ![nextId] = "ENCODING"]
    /\ text' = [text EXCEPT ![nextId] = m]
    /\ attempts' = [attempts EXCEPT ![nextId] = 0]
    /\ age' = [age EXCEPT ![nextId] = 0]
    /\ nextId' = nextId + 1
    /\ tpc' = [tpc EXCEPT ![t] = "idle"]
    /\ late' = late \ {t}
    /\ UNCHANGED <<cache, workVars, spc, tickVars, burstVars, tickDue, ackId,
                   airVars, faultVars, histVars>>

-------------------------------------------------------------------------------
(* An ACK frame for us is decoded: OutboundQueue.record_ack, then          *)
(* EncodedAudioCache.discard, on the asyncio thread.                       *)

(* SELECT the most recently transmitted WAIT_ACK row addressed to c.       *)
AckSelect(c) ==
    LET waiting == {i \in RowsIn({"WAIT_ACK"}) : text[i].to = c}
    IN  /\ Up /\ tpc[App] = "idle" /\ air[c] > 0
        /\ air' = [air EXCEPT ![c] = @ - 1]
        /\ decoded' = [decoded EXCEPT ![c] = @ + 1]
        /\ \/ /\ waiting = {}
              /\ UNCHANGED <<tpc, ackId, late>>
           \/ \E i \in waiting :
                /\ \A j \in waiting : age[i] <= age[j]
                /\ ackId' = i
                /\ tpc' = [tpc EXCEPT ![App] = "credit"]
                /\ BeginHandler(App)
        /\ UNCHANGED <<rowVars, cache, workVars, spc, tickVars, burstVars,
                       tickDue, gateOpen, faultVars, aired,
                       inherited, cutOff>>

(* mark_delivered: the UPDATE names the id only, whatever its state is now. *)
SlipAckCredit ==
    /\ tpc[App] = "credit"
    /\ state' = [state EXCEPT ![ackId] = "DELIVERED"]
    /\ tpc' = [tpc EXCEPT ![App] = "discard"] /\ ackId' = None
    /\ UNCHANGED <<text, attempts, age, nextId, cache, workVars, spc, tickVars,
                   burstVars, tickDue, late, airVars, faultVars, histVars>>
AckCredit ==
    /\ tpc[App] = "credit"
    /\ state' = [state EXCEPT ![ackId] = "DELIVERED"]
    /\ tpc' = [tpc EXCEPT ![App] = "discard"]
    /\ UNCHANGED <<text, attempts, age, nextId, cache, workVars, spc, tickVars,
                   burstVars, tickDue, ackId, late, airVars, faultVars,
                   histVars>>

AckDiscard ==
    /\ tpc[App] = "discard"
    /\ cache' = cache \ {ackId}
    /\ ackId' = None
    /\ tpc' = [tpc EXCEPT ![App] = "idle"]
    /\ late' = late \ {App}
    /\ UNCHANGED <<rowVars, workVars, spc, tickVars, burstVars, tickDue,
                   airVars, faultVars, histVars>>

-------------------------------------------------------------------------------
(* EncodeWorker._tick.                                                     *)

WorkerPick ==
    /\ Up /\ wpc = "idle"
    /\ \E i \in Ids : Oldest(i, RowsIn({"ENCODING"})) /\ wid' = i
    /\ wpc' = "encode"
    /\ UNCHANGED <<rowVars, cache, spc, tickVars, burstVars, tickDue, appVars,
                   airVars, faultVars, histVars>>

(* The audio is cached first, the row marked QUEUED second.                *)
WorkerPut ==
    /\ wpc = "encode"
    /\ cache' = cache \cup {wid}
    /\ wpc' = "mark"
    /\ UNCHANGED <<rowVars, wid, spc, tickVars, burstVars, tickDue, appVars,
                   airVars, faultVars, histVars>>

(* mark_encoded: this UPDATE does test that the row is still ENCODING.     *)
WorkerMark ==
    /\ wpc = "mark"
    /\ state' = IF state[wid] = "ENCODING"
                THEN [state EXCEPT ![wid] = "QUEUED"] ELSE state
    /\ wpc' = "idle" /\ wid' = None
    /\ UNCHANGED <<text, attempts, age, nextId, cache, spc, tickVars,
                   burstVars, tickDue, appVars, airVars, faultVars, histVars>>

(* backend.encode raised: mark_abandoned.                                  *)
WorkerFail ==
    /\ wpc = "encode"
    /\ state' = [state EXCEPT ![wid] = "ABANDONED"]
    /\ wpc' = "idle" /\ wid' = None
    /\ UNCHANGED <<text, attempts, age, nextId, cache, spc, tickVars,
                   burstVars, tickDue, appVars, airVars, faultVars, histVars>>

-------------------------------------------------------------------------------
(* TxScheduler._tick.  spc names the next access of the tick.              *)

(* The tick is over: nothing it held in local variables remains.           *)
EndTick == spc' = "idle" /\ sid' = None /\ due' = {} /\ skip' = {}

(* 1. find_timed_out_acks: one SELECT for the whole sweep.                 *)
TickBegin ==
    /\ spc = "idle" /\ tickDue
    /\ tickDue' = FALSE
    /\ due' = {i \in RowsIn({"WAIT_ACK"}) : age[i] > AckSlots}
    /\ skip' = {}
    /\ spc' = "sweep"
    /\ UNCHANGED <<rowVars, cache, workVars, sid, burstVars, appVars, airVars,
                   faultVars, histVars>>

(* For each row of that SELECT: mark_retry and defer, or mark_abandoned    *)
(* and discard its audio.  Neither UPDATE looks at the state again.        *)
SweepRow(i) ==
    /\ spc = "sweep" /\ Oldest(i, due)
    /\ due' = due \ {i}
    /\ \/ Exhausted(i) /\ Settle(i, "ABANDONED") /\ UNCHANGED skip
       \/ ~Exhausted(i) /\ Requeue(i) /\ skip' = skip \cup {i}
    /\ UNCHANGED <<text, attempts, age, nextId, workVars, spc, sid, burstVars,
                   tickDue, appVars, airVars, faultVars, histVars>>

SweepDone ==
    /\ spc = "sweep" /\ due = {}
    /\ spc' = "select"
    /\ UNCHANGED <<rowVars, cache, workVars, tickVars, burstVars, tickDue,
                   appVars, airVars, faultVars, histVars>>

(* 20 s for each frame, counted from the start of the burst.               *)
Overdue == mfId # None /\ 15 * age[mfId] > 20 * text[mfId].frames

(* 2. _check_burst_watchdog: release, drop the context, abandon.           *)
BurstWatchdog ==
    /\ spc = "select" /\ Overdue
    /\ EndBurst
    /\ Settle(mfId, "ABANDONED")
    /\ UNCHANGED <<text, attempts, age, nextId, workVars, spc, tickVars,
                   tickDue, appVars, airVars, faultVars, histVars>>

(* 3. _pick_for_this_slot: a burst in progress goes on first.              *)
PickContinuation ==
    /\ spc = "select" /\ ~Overdue
    /\ mfId # None /\ state[mfId] = "SENDING"
    /\ sid' = mfId
    /\ spc' = "tx"
    /\ UNCHANGED <<rowVars, cache, workVars, due, skip, burstVars, tickDue,
                   appVars, airVars, faultVars, histVars>>

(* The context of a row that is no longer SENDING is dropped; the burst of *)
(* the backend is left as it is.                                           *)
DropContext ==
    /\ spc = "select" /\ ~Overdue
    /\ mfId # None /\ state[mfId] # "SENDING"
    /\ mfId' = None /\ mfNext' = 0 /\ inline' = FALSE
    /\ UNCHANGED <<rowVars, cache, workVars, spc, tickVars, burst, tickDue,
                   appVars, airVars, faultVars, histVars>>

(* Otherwise pick_next, unless the head of the queue was just re-queued.   *)
SlipPickFresh ==         \* a bug: what this tick re-queued is not deferred
    /\ spc = "select" /\ mfId = None
    /\ \E i \in Ids : Oldest(i, Sendable) /\ sid' = i
    /\ spc' = "gate"
    /\ UNCHANGED <<rowVars, cache, workVars, due, skip, burstVars, tickDue,
                   appVars, airVars, faultVars, histVars>>
PickFresh ==
    /\ spc = "select" /\ mfId = None
    /\ \E i \in Ids \ skip : Oldest(i, Sendable) /\ sid' = i
    /\ spc' = "gate"
    /\ UNCHANGED <<rowVars, cache, workVars, due, skip, burstVars, tickDue,
                   appVars, airVars, faultVars, histVars>>

SlipPickNothing ==
    /\ spc = "select"
    /\ \A i \in Ids : Oldest(i, Sendable) => i \in skip
    /\ EndTick
    /\ UNCHANGED <<rowVars, cache, workVars, burstVars, tickDue, appVars,
                   airVars, faultVars, histVars>>
PickNothing ==
    /\ spc = "select" /\ mfId = None
    /\ \A i \in Ids : Oldest(i, Sendable) => i \in skip
    /\ EndTick
    /\ UNCHANGED <<rowVars, cache, workVars, burstVars, tickDue, appVars,
                   airVars, faultVars, histVars>>

(* 4. check_can_transmit, for a fresh row only.                            *)
GateBlocks ==
    /\ spc = "gate" /\ ~gateOpen
    /\ EndTick
    /\ UNCHANGED <<rowVars, cache, workVars, burstVars, tickDue, appVars,
                   airVars, faultVars, histVars>>

(* 5. The audio comes from the cache, or is encoded inline on a miss.      *)
TakeCachedAudio ==
    /\ spc = "gate" /\ gateOpen /\ sid \in cache
    /\ inline' = FALSE
    /\ spc' = "key"
    /\ UNCHANGED <<rowVars, cache, workVars, tickVars, mfId, mfNext, burst,
                   tickDue, appVars, airVars, faultVars, histVars>>

EncodeInline ==
    /\ spc = "gate" /\ gateOpen /\ sid \notin cache
    /\ \/ inline' = TRUE /\ spc' = "key"
       \/ inline' = FALSE /\ spc' = "encodeFailed"
    /\ UNCHANGED <<rowVars, cache, workVars, tickVars, mfId, mfNext, burst,
                   tickDue, appVars, airVars, faultVars, histVars>>

(* EncoderError: mark_sending, then mark_abandoned.                        *)
EncodeFailedSending ==
    /\ spc = "encodeFailed"
    /\ MarkSending(sid)
    /\ spc' = "giveUp"
    /\ UNCHANGED <<text, nextId, cache, workVars, tickVars, burstVars, tickDue,
                   appVars, airVars, faultVars, histVars>>

EncodeFailedAbandon ==
    /\ spc = "giveUp"
    /\ Settle(sid, "ABANDONED")
    /\ EndTick
    /\ UNCHANGED <<text, attempts, age, nextId, workVars, burstVars, tickDue,
                   appVars, airVars, faultVars, histVars>>

(* start_burst raises RuntimeError if a burst is still active; run() logs  *)
(* the exception and waits for the next slot.                              *)
StartBurstRaises ==
    /\ spc = "key" /\ burst
    /\ inline' = FALSE
    /\ EndTick
    /\ UNCHANGED <<rowVars, cache, workVars, mfId, mfNext, burst, tickDue,
                   appVars, airVars, faultVars, histVars>>

StartBurst ==
    /\ spc = "key" /\ ~burst
    /\ burst' = TRUE
    /\ mfId' = sid /\ mfNext' = 0
    /\ spc' = "keyed"
    /\ UNCHANGED <<rowVars, cache, workVars, tickVars, inline, tickDue,
                   appVars, airVars, faultVars, histVars>>

(* CAT is down or refuses PTT: the attempt is counted and fails.           *)
StartBurstFails ==
    /\ spc = "key" /\ ~burst
    /\ inline' = FALSE
    /\ MarkSending(sid)
    /\ spc' = "fail"
    /\ UNCHANGED <<text, nextId, cache, workVars, tickVars, mfId, mfNext,
                   burst, tickDue, appVars, airVars, faultVars, histVars>>

BurstMarkSending ==
    /\ spc = "keyed"
    /\ MarkSending(sid)
    /\ spc' = "tx"
    /\ UNCHANGED <<text, nextId, cache, workVars, tickVars, burstVars, tickDue,
                   appVars, airVars, faultVars, histVars>>

CountAiring ==
    aired' = IF mfNext = 0 THEN [aired EXCEPT ![sid] = @ + 1] ELSE aired

(* 6. transmit_frame: one frame a slot; more frames are left.              *)
FrameSent ==
    /\ spc = "tx" /\ mfNext + 1 < text[sid].frames
    /\ CountAiring
    /\ mfNext' = mfNext + 1
    /\ EndTick
    /\ UNCHANGED <<rowVars, cache, workVars, mfId, inline, burst, tickDue,
                   appVars, airVars, faultVars, decoded, inherited,
                   cutOff>>

(* 7. The last frame: end_burst and pop the context.  The stations that    *)
(* hear the whole message and answer it put their ACKs on the air.         *)
LastFrameSent ==
    /\ spc = "tx" /\ mfNext + 1 = text[sid].frames
    /\ CountAiring
    /\ EndBurst
    /\ spc' = "sent"
    /\ \E H \in SUBSET Ackers(text[sid]) :
          air' = [c \in Calls |-> IF c \in H THEN air[c] + 1 ELSE air[c]]
    /\ UNCHANGED <<rowVars, cache, workVars, tickVars, tickDue, appVars,
                   gateOpen, faultVars, decoded, inherited, cutOff>>

(* Playback failed: end_burst, pop the context, retry or abandon.          *)
FrameFails ==
    /\ spc = "tx"
    /\ CountAiring
    /\ EndBurst
    /\ spc' = "fail"
    /\ UNCHANGED <<rowVars, cache, workVars, tickVars, tickDue, appVars,
                   airVars, faultVars, decoded, inherited, cutOff>>

(* mark_delivered for what expects no ACK, mark_wait_ack for directed mail. *)
SlipAfterSending(i) == Settle(i, "DELIVERED")
AfterSending(i) ==
    \/ SkipsWaitAck(text[i]) /\ Settle(i, "DELIVERED")
    \/ /\ ~SkipsWaitAck(text[i])
       /\ state' = [state EXCEPT ![i] = "WAIT_ACK"]
       /\ UNCHANGED cache

Finalize ==
    /\ spc = "sent"
    /\ AfterSending(sid)
    /\ EndTick
    /\ UNCHANGED <<text, attempts, age, nextId, workVars, burstVars, tickDue,
                   appVars, airVars, faultVars, histVars>>

(* _fail_message: attempts are read again, then retry or abandon.          *)
FailMessage ==
    /\ spc = "fail"
    /\ \/ Exhausted(sid) /\ Settle(sid, "ABANDONED")
       \/ ~Exhausted(sid) /\ Requeue(sid)
    /\ EndTick
    /\ UNCHANGED <<text, attempts, age, nextId, workVars, burstVars, tickDue,
                   appVars, airVars, faultVars, histVars>>

(* An UPDATE of the tick raises (disk full, I/O error): run() swallows it, *)
(* and so it does with that of abandon_stale_sending, before the first.    *)
TickRaises ==
    /\ errors < MaxErrors
    /\ spc \in {"starting", "sweep", "encodeFailed", "giveUp", "key", "keyed",
                "sent", "fail"}
    /\ errors' = errors + 1
    /\ EndTick
    /\ UNCHANGED <<rowVars, cache, workVars, burstVars, tickDue, appVars,
                   airVars, crashes, clockSteps, histVars>>

(* _check_burst_watchdog catches it: the row stays SENDING.                *)
WatchdogAbandonRaises ==
    /\ errors < MaxErrors
    /\ spc = "select" /\ Overdue
    /\ errors' = errors + 1
    /\ EndBurst
    /\ cache' = cache \ {mfId}
    /\ UNCHANGED <<rowVars, workVars, spc, tickVars, tickDue, appVars, airVars,
                   crashes, clockSteps, histVars>>

-------------------------------------------------------------------------------
(* Startup and death of the daemon.                                        *)

(* purge_stale_broadcasts.                                                 *)
Purge ==
    /\ spc = "down"
    /\ state' = [i \in Ids |->
                   IF state[i] \in Active /\ text[i].kind \in PurgedKinds
                   THEN "absent" ELSE state[i]]
    /\ spc' = "purged"
    /\ UNCHANGED <<text, attempts, age, nextId, cache, workVars, tickVars,
                   burstVars, tickDue, appVars, airVars, faultVars, histVars>>

(* The states reset_unencoded_to_encoding sends back to ENCODING.          *)
SlipLostAudio == {"ENCODING", "QUEUED", "SENDING"}
LostAudio == {"ENCODING", "QUEUED"}

(* reset_unencoded_to_encoding; then the worker and the scheduler start.   *)
Reset ==
    /\ spc = "purged"
    /\ state' = [i \in Ids |->
                   IF state[i] \in LostAudio THEN "ENCODING" ELSE state[i]]
    /\ spc' = "starting"
    /\ UNCHANGED <<text, attempts, age, nextId, cache, workVars, tickVars,
                   burstVars, tickDue, appVars, airVars, faultVars, histVars>>

(* The first thing TxScheduler.run does: abandon_stale_sending.            *)
SlipAbandonStale ==
    /\ spc = "starting" /\ spc' = "idle"
    /\ UNCHANGED <<rowVars, cache, workVars, tickVars, burstVars, tickDue,
                   appVars, airVars, faultVars, histVars>>
AbandonStale ==
    /\ spc = "starting"
    /\ state' = [i \in Ids |->
                   IF state[i] = "SENDING" THEN "ABANDONED" ELSE state[i]]
    /\ spc' = "idle"
    /\ UNCHANGED <<text, attempts, age, nextId, cache, workVars, tickVars,
                   burstVars, tickDue, appVars, airVars, faultVars, histVars>>

(* The process dies (power, kill, reboot); only the table is left.         *)
Crash ==
    /\ crashes < MaxCrashes /\ spc # "down"
    /\ crashes' = crashes + 1
    /\ cache' = {}
    /\ wpc' = "idle" /\ wid' = None
    /\ spc' = "down" /\ sid' = None /\ due' = {} /\ skip' = {}
    /\ mfId' = None /\ mfNext' = 0 /\ inline' = FALSE /\ burst' = FALSE
    /\ tickDue' = FALSE
    /\ tpc' = [t \in Threads |-> "idle"] /\ ackId' = None /\ late' = {}
    /\ inherited' = Ids \cap 1..(nextId - 1)
    /\ cutOff' = cutOff \cup RowsIn({"SENDING"})
    /\ UNCHANGED <<rowVars, airVars, errors, clockSteps, decoded, aired>>

-------------------------------------------------------------------------------
(* The world.                                                              *)

Older(n) == [i \in Ids |->
    IF state[i] \in {"SENDING", "WAIT_ACK"}
    THEN (IF age[i] + n > AgeCap THEN AgeCap ELSE age[i] + n) ELSE age[i]]

(* A slot boundary passes.  A tick ends before the next boundary, except   *)
(* that an inline encode (about 3 s) makes the tick of a first frame (13 s) *)
(* run past it; that boundary then has no tick.                            *)
NextSlot ==
    /\ \/ spc = "idle" /\ ~tickDue
       \/ spc \in {"down", "purged", "starting"}
       \/ spc = "tx" /\ inline /\ mfNext = 0 /\ age[sid] = 0
    /\ late = {}
    /\ late' = {t \in Threads : tpc[t] # "idle"}
    /\ tickDue' = (spc = "idle")
    /\ age' = Older(1)
    /\ UNCHANGED <<state, text, attempts, nextId, cache, workVars, spc,
                   tickVars, burstVars, tpc, ackId, airVars, faultVars,
                   histVars>>

(* chrony steps the wall clock forward by more than any timeout.           *)
ClockStep ==
    /\ clockSteps < MaxClockSteps
    /\ spc = "idle"
    /\ clockSteps' = clockSteps + 1
    /\ age' = Older(AgeCap)
    /\ UNCHANGED <<state, text, attempts, nextId, cache, workVars, spc,
                   tickVars, burstVars, tickDue, appVars, airVars, crashes,
                   errors, histVars>>

(* The position fix, the battery or the time source changes.               *)
GateChanges ==
    /\ gateOpen' = ~gateOpen
    /\ UNCHANGED <<rowVars, cache, workVars, spc, tickVars, burstVars, tickDue,
                   appVars, air, faultVars, histVars>>

(* An ACK is lost on the air, or arrives while the daemon is down.         *)
AckLost(c) ==
    /\ air[c] > 0
    /\ air' = [air EXCEPT ![c] = @ - 1]
    /\ UNCHANGED <<rowVars, cache, workVars, spc, tickVars, burstVars, tickDue,
                   appVars, gateOpen, faultVars, histVars>>

-------------------------------------------------------------------------------
Enqueue == \E t \in Threads :
    EnqueueCount(t) \/ \E m \in Offers : EnqueueInsert(t, m)

AckPath == (\E c \in Calls : AckSelect(c)) \/ AckCredit \/ AckDiscard

Worker == WorkerPick \/ WorkerPut \/ WorkerMark \/ WorkerFail

Pick == \/ BurstWatchdog \/ PickContinuation \/ DropContext
        \/ PickFresh \/ PickNothing

Transmit == FrameSent \/ LastFrameSent \/ FrameFails

Tick ==
    \/ TickBegin \/ (\E i \in Ids : SweepRow(i)) \/ SweepDone \/ Pick
    \/ GateBlocks \/ TakeCachedAudio \/ EncodeInline
    \/ EncodeFailedSending \/ EncodeFailedAbandon
    \/ StartBurstRaises \/ StartBurst \/ StartBurstFails \/ BurstMarkSending
    \/ Transmit \/ Finalize \/ FailMessage

Boot == Purge \/ Reset \/ AbandonStale

World == \/ NextSlot \/ ClockStep \/ GateChanges \/ Crash \/ TickRaises
         \/ WatchdogAbandonRaises \/ \E c \in Calls : AckLost(c)

Next == Enqueue \/ AckPath \/ Worker \/ Tick \/ Boot \/ World

Spec == Init /\ [][Next]_vars

(* The daemon's threads are scheduled and slots pass; the operator, the    *)
(* radio channel and the gate owe nothing.                                 *)
Fairness ==
    /\ WF_vars(Worker)
    /\ WF_vars(AckCredit \/ AckDiscard)
    /\ WF_vars(\E t \in Threads, m \in Offers : EnqueueInsert(t, m))
    /\ WF_vars(Tick)
    /\ WF_vars(Boot)
    /\ WF_vars(NextSlot)

FairSpec == Spec /\ Fairness
===============================================================================
