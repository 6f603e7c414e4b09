-------------------------------- MODULE CatPtt --------------------------------
(***************************************************************************)
(* Who keys the radio and who lets go of it: the burst calls of            *)
(* RealTxBackend (tx/tx_backend.py) as the slot scheduler makes them       *)
(* (tx/scheduler.py), CatService with its reconnect and watchdog threads   *)
(* (cat/service.py), the replies RigctlClient waits for                    *)
(* (cat/rigctl_client.py) and the shutdown of the daemon (app.py).         *)
(*                                                                         *)
(* Time is counted in ticks of 5 s.  _call holds the service's lock, so a  *)
(* PTT command is one action; everything else the threads share is read    *)
(* and written without a lock, one action for each access.  Slip...        *)
(* definitions are the wrong versions explained in TxPipeline.             *)
(***************************************************************************)
EXTENDS Naturals

CONSTANTS
    MaxFrames,      \* bound: frames of a message
    SlotTicks,      \* one frame, one slot: 15 s
    PerFrame,       \* _BURST_WATCHDOG_PER_FRAME_S: 20 s
    Grace,          \* _CAT_WATCHDOG_GRACE_S: 5 s
    DefaultHold,    \* _PTT_MAX_HOLD_S: 20 s
    PlayTimeout,    \* play_frame's timeout_s: 30 s
    MaxFaults,      \* bound: PTT commands that fail
    MaxHangs,       \* bound: frames that hang, contexts that are dropped
    MaxStops        \* 0: the daemon is never stopped; 1: it may be

ASSUME CatAssumption ==
    /\ {MaxFrames, SlotTicks, PerFrame, Grace, DefaultHold} \subseteq Nat \ {0}
    /\ PlayTimeout \in Nat /\ PlayTimeout > SlotTicks
    /\ DefaultHold > SlotTicks /\ PerFrame > SlotTicks
    /\ MaxFaults \in Nat /\ MaxHangs \in Nat /\ MaxStops \in 0..1

(* The hold the scheduler asks for, and the longest one it ever asks for.  *)
SlipHoldFor(n) == n
HoldFor(n) == n * PerFrame + Grace
MaxHold == HoldFor(MaxFrames) + DefaultHold
TickCap == MaxHold + 3      \* clocks saturate here

VARIABLES
    service,    \* "cat" or "rts": what build_ptt_service chose
    keyed,      \* the transmitter is on
    since,      \* history: ticks it is on without a frame beginning
    sock,       \* RigctlClient._sock is open (and _client is set)
    connected,  \* CatService._connected
    timed, held, \* _ptt_held_at is set; ticks since then
    cap,        \* _ptt_max_hold_override_s, 0 for None
    bursting,   \* RealTxBackend._burst_active
    tx,         \* the scheduler thread: its next step
    left, spent, \* frames left to send; ticks spent in the present frame
    hung,       \* this frame's playback does not signal its end
    wd, seen,   \* the watchdog thread: its next step, the hold it read
    rc,         \* the reconnect thread: its next step
    main,       \* the shutdown: its next step
    faults, hangs

catVars   == <<keyed, since, sock, connected, faults>>
timerVars == <<timed, held, cap>>
txVars    == <<bursting, tx, left, spent, hung>>
wdVars    == <<wd, seen>>
vars == <<service, catVars, timerVars, txVars, wdVars, rc, main, hangs>>

Init ==
    /\ service \in {"cat", "rts"}
    /\ keyed = FALSE /\ since = 0
    /\ sock = FALSE /\ connected = FALSE
    /\ timed = FALSE /\ held = 0 /\ cap = 0
    /\ bursting = FALSE
    /\ tx = "idle" /\ left = 0 /\ spent = 0 /\ hung = FALSE
    /\ wd = "wait" /\ seen = 0
    /\ rc = "check"
    /\ main = "run"
    /\ faults = 0 /\ hangs = 0

(* The scheduler's stop event, and that of the service's two threads.      *)
Stopping == main # "run"
CatStopping == main \in {"join", "exited"}

-------------------------------------------------------------------------------
(* What becomes of a command.  To rigctld: done; refused with RPRT -n;     *)
(* carried out but not acknowledged within 2 s; lost with the connection;  *)
(* not done, but answered by the late RPRT 0 of an earlier query ("silent");*)
(* carried out and answered by the late value of one ("garbled").  To the  *)
(* serial port: done; the line stays as it was and nobody notices          *)
(* ("silent": the ioctl failed); an error, "lost".                         *)
Outcomes == {"ok", "refused", "unacknowledged", "lost", "silent", "garbled"}
Possible(o) == service = "cat" \/ o \in {"ok", "silent", "lost"}
Reported(o) == o \in {"ok", "silent"}       \* the caller sees success

CountFault(o) ==
    /\ Possible(o)
    /\ faults' = IF o = "ok" THEN faults ELSE faults + 1
    /\ faults' <= MaxFaults

(* _call of ptt_on or ptt_off: on is what the command asks for.  RPRT -n   *)
(* leaves the connection as it is; an answer that is not understood leaves *)
(* it open and calls it broken; anything else closes it, and the close of  *)
(* a serial port tries to clear the line.                                  *)
PttCommand(o, on) ==
    \/ /\ ~sock /\ o = "lost"
       /\ UNCHANGED catVars
    \/ /\ sock /\ CountFault(o)
       /\ \/ keyed' = IF o \in {"ok", "unacknowledged", "garbled"} THEN on ELSE keyed
          \/ service = "rts" /\ o = "lost" /\ keyed /\ keyed' = FALSE
       /\ since' = IF keyed' # keyed THEN 0 ELSE since
       /\ sock' = (o \notin {"unacknowledged", "lost"})
       /\ connected' = (connected /\ sock' /\ o # "garbled")

(* _call of a frequency command: understood are the answers it accepts.    *)
FrequencyCommand(o, understood) ==
    \/ ~sock /\ o = "lost" /\ UNCHANGED <<sock, connected, faults>>
    \/ /\ sock /\ CountFault(o)
       /\ sock' = (o \notin {"unacknowledged", "lost"})
       /\ connected' = (connected /\ o \in understood)

-------------------------------------------------------------------------------
(* The scheduler thread in TxScheduler._tick and the backend's burst calls. *)

(* A row is picked: set_burst_hold_seconds for its number of frames.       *)
SetHold ==
    /\ tx = "idle" /\ ~Stopping
    /\ \E n \in 1..MaxFrames : left' = n /\ cap' = HoldFor(n)
    /\ spent' = 0
    /\ tx' = "start"
    /\ UNCHANGED <<catVars, timed, held, bursting, hung, wdVars, rc, main,
                   hangs>>

(* start_burst raises if a burst is active and fails if CAT is not         *)
(* connected.                                                              *)
StartBurst ==
    /\ tx = "start"
    /\ tx' = CASE bursting               -> "rest"
               [] ~bursting /\ ~connected -> "failed"
               [] OTHER                  -> "on"
    /\ UNCHANGED <<catVars, timerVars, bursting, left, spent, hung, wdVars, rc,
                   main, hangs>>

(* CatService.ptt_on, first the command ...                                *)
PttOn ==
    /\ tx = "on"
    /\ \E o \in Outcomes :
          PttCommand(o, TRUE) /\ tx' = IF Reported(o) THEN "mark" ELSE "failed"
    /\ UNCHANGED <<timerVars, bursting, left, spent, hung, wdVars, rc, main,
                   hangs>>

(* ... then the time of the key-down; start_burst notes the burst.         *)
SlipMarkHeld ==
    /\ tx = "mark" /\ tx' = "kick" /\ bursting' = TRUE
    /\ UNCHANGED <<catVars, timerVars, left, spent, hung, wdVars, rc, main,
                   hangs>>
MarkHeld ==
    /\ tx = "mark"
    /\ timed' = TRUE /\ held' = 0
    /\ bursting' = TRUE
    /\ tx' = "kick"
    /\ UNCHANGED <<catVars, cap, left, spent, hung, wdVars, rc, main, hangs>>

(* start_burst failed: the override is unset, the row retried later.       *)
StartFailed ==
    /\ tx = "failed"
    /\ cap' = 0
    /\ tx' = "rest"
    /\ UNCHANGED <<catVars, timed, held, bursting, left, spent, hung, wdVars,
                   rc, main, hangs>>

(* transmit_frame: ptt_kick reads the time of the key-down ...             *)
KickRead ==
    /\ tx = "kick"
    /\ tx' = IF timed THEN "kicked" ELSE "play"
    /\ spent' = 0
    /\ since' = 0
    /\ UNCHANGED <<keyed, sock, connected, faults, timerVars, bursting, left,
                   hung, wdVars, rc, main, hangs>>

(* ... and writes the present time.                                        *)
KickWrite ==
    /\ tx = "kicked"
    /\ timed' = TRUE /\ held' = 0
    /\ tx' = "play"
    /\ UNCHANGED <<catVars, cap, bursting, left, spent, hung, wdVars, rc, main,
                   hangs>>

(* The audio callback never signals the end of the frame.                  *)
Hang ==
    /\ tx = "play" /\ ~hung /\ hangs < MaxHangs
    /\ hung' = TRUE /\ hangs' = hangs + 1
    /\ UNCHANGED <<catVars, timerVars, bursting, tx, left, spent, wdVars, rc,
                   main>>

(* The thread itself is stuck, in a call without a timeout.                *)
Freeze ==
    /\ tx = "play" /\ hung
    /\ tx' = "dead"
    /\ UNCHANGED <<catVars, timerVars, bursting, left, spent, hung, wdVars, rc,
                   main, hangs>>

(* The frame is out.  The next one goes out in the next slot, unless run() *)
(* sees the stop event between the two; after the last one the burst ends. *)
FrameDone ==
    /\ tx = "play" /\ ~hung /\ spent = SlotTicks
    /\ left' = left - 1
    /\ tx' = CASE left = 1              -> "off1"
               [] left > 1 /\ ~Stopping -> "kick"
               [] OTHER                 -> "gone"
    /\ UNCHANGED <<catVars, timerVars, bursting, spent, hung, wdVars, rc, main,
                   hangs>>

(* Between two frames the context is dropped, its row was changed by an    *)
(* ACK: the burst is left as it is.                                        *)
DropContext ==
    /\ tx = "kick" /\ spent = SlotTicks /\ hangs < MaxHangs
    /\ hangs' = hangs + 1
    /\ tx' = "rest"
    /\ UNCHANGED <<catVars, timerVars, bursting, left, spent, hung, wdVars, rc,
                   main>>

(* play_frame gives up: the burst is ended and the row retried.            *)
FrameTimesOut ==
    /\ tx = "play" /\ spent = PlayTimeout
    /\ hung' = FALSE
    /\ tx' = "off1"
    /\ UNCHANGED <<catVars, timerVars, bursting, left, spent, wdVars, rc, main,
                   hangs>>

(* The last steps of end_burst.                                            *)
BurstEnded ==
    /\ tx = "ended"
    /\ bursting' = FALSE
    /\ tx' = "rest"
    /\ UNCHANGED <<catVars, timerVars, left, spent, hung, wdVars, rc, main,
                   hangs>>

SchedulerStops ==
    /\ tx \in {"idle", "rest"} /\ Stopping
    /\ tx' = "gone"
    /\ UNCHANGED <<catVars, timerVars, bursting, left, spent, hung, wdVars, rc,
                   main, hangs>>

-------------------------------------------------------------------------------
(* CatService.ptt_off, on the scheduler's or the watchdog's thread.        *)

SlipForget ==
    /\ \/ tx = "off1" /\ tx' = "off2" /\ UNCHANGED wd
       \/ wd = "off1" /\ wd' = "off2" /\ UNCHANGED tx
    /\ UNCHANGED <<catVars, timerVars, bursting, left, spent, hung, seen, rc,
                   main, hangs>>
Forget ==
    /\ \/ tx = "off1" /\ tx' = "off2" /\ UNCHANGED wd
       \/ wd = "off1" /\ wd' = "off2" /\ UNCHANGED tx
    /\ timed' = FALSE /\ held' = 0
    /\ UNCHANGED <<catVars, cap, bursting, left, spent, hung, seen, rc, main,
                   hangs>>

Unset ==
    /\ \/ tx = "off2" /\ tx' = "off3" /\ UNCHANGED wd
       \/ wd = "off2" /\ wd' = "off3" /\ UNCHANGED tx
    /\ cap' = 0
    /\ UNCHANGED <<catVars, timed, held, bursting, left, spent, hung, seen, rc,
                   main, hangs>>

(* "T 0"; neither caller looks at the result.                              *)
PttOff ==
    /\ \/ tx = "off3" /\ tx' = "ended" /\ UNCHANGED wd
       \/ wd = "off3" /\ wd' = "wait" /\ UNCHANGED tx
    /\ \E o \in Outcomes : PttCommand(o, FALSE)
    /\ UNCHANGED <<timerVars, bursting, left, spent, hung, seen, rc, main,
                   hangs>>

(* The watchdog thread reads the time of the key-down ...                  *)
WatchdogPoll ==
    /\ wd = "poll"
    /\ seen' = held
    /\ wd' = IF timed /\ ~CatStopping THEN "compare" ELSE "wait"
    /\ UNCHANGED <<catVars, timerVars, txVars, rc, main, hangs>>

(* ... then the override, and compares.  It polls twice a second: the hold *)
(* it measures is up to a tick longer than the ticks counted.              *)
Limit == IF cap = 0 THEN DefaultHold ELSE cap
WatchdogCompare ==
    /\ wd = "compare"
    /\ \/ seen >= Limit /\ wd' = "off1"
       \/ seen <= Limit /\ wd' = "wait"
    /\ UNCHANGED <<catVars, timerVars, txVars, seen, rc, main, hangs>>

-------------------------------------------------------------------------------
(* CatService._reconnect_loop.                                             *)

CheckClient ==
    /\ rc = "check"
    /\ rc' = CASE CatStopping          -> "gone"
               [] ~CatStopping /\ sock -> "wait"
               [] OTHER                -> "connect"
    /\ UNCHANGED <<catVars, timerVars, txVars, wdVars, main, hangs>>

(* A new client connects and answers a first ping, or is tried again.  A   *)
(* serial port comes up with its lines cleared, unless that fails.         *)
Connect ==
    /\ rc = "connect"
    /\ \E o \in Outcomes :
          /\ CountFault(o)
          /\ IF Reported(o) THEN sock' = TRUE /\ rc' = "announce"
                            ELSE sock' = sock /\ rc' = "check"
          /\ keyed' = (keyed /\ (service = "cat" \/ o # "ok"))
    /\ since' = IF keyed' # keyed THEN 0 ELSE since
    /\ UNCHANGED <<connected, timerVars, txVars, wdVars, main,
                   hangs>>

Announce ==
    /\ rc = "announce"
    /\ connected' = TRUE
    /\ rc' = IF service = "cat" /\ ~connected THEN "ask" ELSE "check"
    /\ UNCHANGED <<keyed, since, sock, faults, timerVars, txVars, wdVars, main,
                   hangs>>

(* _on_cat_status_change, on the reconnect thread: the radio is asked for  *)
(* its frequency, and an RPRT 0 is none.                                   *)
Ask ==
    /\ rc = "ask"
    /\ \E o \in Outcomes : FrequencyCommand(o, {"ok", "refused"})
    /\ rc' = "check"
    /\ UNCHANGED <<keyed, since, timerVars, txVars, wdVars, main, hangs>>

(* _commit_frequency_edit: the operator retunes the radio, also during a   *)
(* burst.                                                                  *)
Tune ==
    /\ main = "run" /\ service = "cat"
    /\ \E o \in Outcomes : FrequencyCommand(o, {"ok", "refused", "silent"})
    /\ UNCHANGED <<keyed, since, timerVars, txVars, wdVars, rc, main, hangs>>

(* _ping, of CatService alone: any line is an answer, and every error says *)
(* "disconnected", even one that leaves the client's socket open.          *)
Ping ==
    /\ rc = "ping"
    /\ \/ ~sock /\ connected' = FALSE /\ UNCHANGED <<sock, faults>>
       \/ /\ sock
          /\ \E o \in Outcomes :
                /\ CountFault(o)
                /\ sock' = (o \notin {"unacknowledged", "lost"})
                /\ connected' = IF o \in {"ok", "silent", "garbled"} THEN connected
                                ELSE FALSE
    /\ rc' = "check"
    /\ UNCHANGED <<keyed, since, timerVars, txVars, wdVars, main, hangs>>

-------------------------------------------------------------------------------
(* The daemon's _cleanup, run for at most _SHUTDOWN_GRACE_SEC.             *)

StopScheduler ==
    /\ main = "run" /\ MaxStops = 1
    /\ main' = "stopping"
    /\ UNCHANGED <<catVars, timerVars, txVars, wdVars, rc, hangs>>

(* The process exits and takes its daemon threads with it.                 *)
Exit ==
    /\ main' = "exited"
    /\ tx' = "gone" /\ wd' = "wait" /\ rc' = "gone"
    /\ sock' = FALSE /\ connected' = FALSE
    /\ since' = IF keyed' # keyed THEN 0 ELSE since
    /\ UNCHANGED <<faults, timerVars, bursting, left, spent, hung, seen, hangs>>

(* The 3 s of grace, counted from before the 3 s join of the scheduler, are *)
(* over while a frame still plays: _cleanup is cancelled in that join.     *)
GraceExpires == /\ main = "stopping" /\ tx \notin {"idle", "rest", "gone"}
                /\ UNCHANGED keyed /\ Exit

(* The scheduler has been joined.  stop: PTT off under the lock, straight  *)
(* to the client ...                                                       *)
StopRelease ==
    /\ main = "stopping" /\ tx = "gone"
    /\ \E o \in Outcomes : PttCommand(o, FALSE)
    /\ main' = "join"
    /\ UNCHANGED <<timerVars, txVars, wdVars, rc, hangs>>

(* ... then its threads are joined and the client is closed, a serial port *)
(* with its lines cleared.                                                 *)
StopClose == /\ main = "join"
             /\ keyed' = (keyed /\ ~(service = "rts" /\ sock))
             /\ Exit

-------------------------------------------------------------------------------
Older(n) == IF n < TickCap THEN n + 1 ELSE n

(* 5 s pass.  The steps of a thread that is not waiting take milliseconds. *)
Tick ==
    /\ tx \in {"idle", "rest", "play", "dead", "gone"}
    /\ tx = "play" => spent < IF hung THEN PlayTimeout ELSE SlotTicks
    /\ wd = "wait"
    /\ since' = IF keyed THEN Older(since) ELSE 0
    /\ held' = IF timed THEN Older(held) ELSE 0
    /\ spent' = IF tx = "play" THEN spent + 1 ELSE spent
    /\ tx' = IF tx = "rest" THEN "idle" ELSE tx
    /\ wd' = IF CatStopping THEN "wait" ELSE "poll"
    /\ rc' = CASE rc # "wait"                 -> rc
               [] rc = "wait" /\ CatStopping  -> "gone"
               [] rc = "wait" /\ ~CatStopping ->
                    IF service = "cat" THEN "ping" ELSE "check"
    /\ UNCHANGED <<keyed, sock, connected, faults, timed, cap, bursting, left,
                   hung, seen, main, hangs>>

Scheduler ==
    /\ \/ StartBurst \/ PttOn \/ MarkHeld \/ StartFailed \/ KickRead \/ KickWrite
       \/ FrameDone \/ FrameTimesOut \/ BurstEnded \/ SchedulerStops
    /\ UNCHANGED service
Release == (Forget \/ Unset \/ PttOff) /\ UNCHANGED service
Watchdog == (WatchdogPoll \/ WatchdogCompare) /\ UNCHANGED service
Reconnect == (CheckClient \/ Connect \/ Announce \/ Ask \/ Ping) /\ UNCHANGED service
Shutdown == /\ StopScheduler \/ GraceExpires \/ StopRelease \/ StopClose
            /\ UNCHANGED service
Mishap == (Hang \/ Freeze \/ DropContext) /\ UNCHANGED service
Retune == Tune /\ UNCHANGED service
Send == SetHold /\ UNCHANGED service
Time == Tick /\ UNCHANGED service

Next == Send \/ Scheduler \/ Release \/ Watchdog \/ Reconnect \/ Shutdown
        \/ Mishap \/ Retune \/ Time

Spec == Init /\ [][Next]_vars

(* The threads are scheduled and time passes; nobody owes a message, a     *)
(* fault or a shutdown.                                                    *)
FairSpec ==
    /\ Spec
    /\ WF_vars(Scheduler) /\ WF_vars(Release) /\ WF_vars(Watchdog)
    /\ WF_vars(Reconnect) /\ WF_vars(Time)

-------------------------------------------------------------------------------
(* While PTT works, the transmitter is never on for longer than the hold   *)
(* of the present burst after the last frame began, even if the scheduler  *)
(* thread is stuck or has forgotten the burst (TxScheduler asks for the    *)
(* hold, ptt_kick restarts it, the watchdog enforces it).                  *)
StuckIsReleased == faults = 0 /\ ~Stopping => since <= HoldFor(MaxFrames) + 1

(* When neither ptt_on nor ptt_off is under way, the watchdog's timer runs *)
(* exactly while the transmitter is on: three threads' unlocked reads and  *)
(* writes of _ptt_held_at leave it neither lost nor behind.                *)
AtRest == tx \in {"idle", "rest", "play", "dead"} /\ wd = "wait"
TimerMatchesRadio ==
    faults = 0 /\ ~Stopping /\ AtRest => (timed <=> keyed)

(* The watchdog yanks PTT only from a burst that is stuck or forgotten: a  *)
(* frame in progress always ends in time.                                  *)
WatchdogSparesLiveBurst ==
    wd \in {"off1", "off2", "off3"} => hangs > 0 \/ Stopping

(* While the service works the transmitter is always let go of, whatever   *)
(* happens to the scheduler thread.                                        *)
AlwaysReleased == [](keyed => <>(~keyed \/ faults > 0 \/ Stopping))

-------------------------------------------------------------------------------
(* What the code's own comments claim and the code does not do.            *)

(* tx/tx_backend.py: "Stuck-PTT defense ... the radio doesn't stay keyed   *)
(* forever", for a burst that began well.                                  *)
BurstsEndUnkeyed == [](keyed /\ bursting => <>(~keyed))
===============================================================================
