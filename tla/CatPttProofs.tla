----------------------------- MODULE CatPttProofs -----------------------------
(***************************************************************************)
(* Proofs about the keying of the radio, for every number of frames, every *)
(* length of slot, hold and timeout, and any number of faults and hangs.   *)
(***************************************************************************)
EXTENDS CatPtt, TLAPS

TxSteps == {"idle", "start", "on", "mark", "failed", "kick", "kicked", "play",
            "dead", "off1", "off2", "off3", "ended", "rest", "gone"}
WdSteps == {"wait", "poll", "compare", "off1", "off2", "off3"}
RcSteps == {"check", "connect", "announce", "ask", "ping", "wait", "gone"}
MainSteps == {"run", "stopping", "join", "exited"}

Holds == {HoldFor(n) : n \in 1..MaxFrames}

(* The types of the variables, thread by thread; the scheduler has a frame *)
(* to send as long as it works on a burst.                                 *)
RadioOK ==
    /\ service \in {"cat", "rts"}
    /\ keyed \in BOOLEAN /\ sock \in BOOLEAN /\ connected \in BOOLEAN
    /\ since \in Nat /\ faults \in Nat /\ hangs \in Nat
TimerOK == timed \in BOOLEAN /\ held \in Nat /\ cap \in {0} \cup Holds
SchedulerOK ==
    /\ bursting \in BOOLEAN /\ hung \in BOOLEAN /\ spent \in Nat
    /\ tx \in TxSteps
    /\ left \in Nat
    /\ tx \in {"start", "on", "mark", "kick", "kicked", "play"} => left > 0
OthersOK ==
    /\ wd \in WdSteps /\ seen \in Nat
    /\ rc \in RcSteps /\ main \in MainSteps

TypeOK == RadioOK /\ TimerOK /\ SchedulerOK /\ OthersOK

(* Every hold the scheduler asks for outlasts a frame, and none exceeds    *)
(* the hold of the longest message.                                        *)
LEMMA HoldsAreBounded ==
    /\ HoldFor(MaxFrames) \in Nat
    /\ \A h \in Holds : h \in Nat /\ h > SlotTicks /\ h <= HoldFor(MaxFrames)
<1>1. HoldFor(MaxFrames) \in Nat
  BY CatAssumption DEF HoldFor
<1>2. ASSUME NEW n \in 1..MaxFrames
      PROVE  /\ HoldFor(n) \in Nat /\ HoldFor(n) > SlotTicks
             /\ HoldFor(n) <= HoldFor(MaxFrames)
  <2>1. n * PerFrame \in Nat /\ MaxFrames * PerFrame \in Nat
    BY CatAssumption
  <2>2. n * PerFrame >= PerFrame
    BY CatAssumption
  <2>3. MaxFrames * PerFrame = n * PerFrame + (MaxFrames - n) * PerFrame
    BY CatAssumption
  <2>4. (MaxFrames - n) * PerFrame \in Nat
    BY CatAssumption
  <2> QED BY <2>1, <2>2, <2>3, <2>4, CatAssumption DEF HoldFor
<1> QED BY <1>1, <1>2 DEF Holds

(* TickCap, where the clocks stop, lies above every hold.                  *)
LEMMA CapIsLarge == TickCap \in Nat /\ TickCap > HoldFor(MaxFrames) + 1
BY HoldsAreBounded, CatAssumption DEF TickCap, MaxHold

(* A part of TypeOK whose variables do not change stays true.              *)
LEMMA TypeFrames ==
    /\ RadioOK /\ UNCHANGED <<service, catVars, hangs>> => RadioOK'
    /\ TimerOK /\ UNCHANGED timerVars => TimerOK'
    /\ SchedulerOK /\ UNCHANGED txVars => SchedulerOK'
    /\ OthersOK /\ UNCHANGED <<wdVars, rc, main>> => OthersOK'
BY DEF RadioOK, catVars, TimerOK, timerVars, SchedulerOK, txVars, OthersOK,
       wdVars

(* The initial state is well typed.                                        *)
LEMMA TypeInit == Init => TypeOK
<1> SUFFICES ASSUME Init PROVE TypeOK
  OBVIOUS
<1>1. /\ keyed \in BOOLEAN /\ sock \in BOOLEAN /\ connected \in BOOLEAN
      /\ timed \in BOOLEAN /\ bursting \in BOOLEAN /\ hung \in BOOLEAN
  BY Zenon DEF Init
<1>2. /\ {since, faults, hangs, held, spent, left, seen} \subseteq Nat
      /\ cap = 0
  BY SMT DEF Init
<1>3. /\ service \in {"cat", "rts"} /\ tx \in TxSteps /\ wd \in WdSteps
      /\ rc \in RcSteps /\ main \in MainSteps /\ tx = "idle"
  BY DEF Init, TxSteps, WdSteps, RcSteps, MainSteps
<1> QED
  BY <1>1, <1>2, <1>3 DEF TypeOK, RadioOK, TimerOK, SchedulerOK, OthersOK

(* A command to the radio keeps the types of what it touches.              *)
LEMMA CommandTypes ==
    ASSUME RadioOK, UNCHANGED <<service, hangs>>, NEW o \in Outcomes,
           NEW on \in BOOLEAN, NEW understood,
           \/ PttCommand(o, on)
           \/ FrequencyCommand(o, understood) /\ UNCHANGED <<keyed, since>>
    PROVE  RadioOK'
<1>1. keyed' \in BOOLEAN /\ sock' \in BOOLEAN /\ connected' \in BOOLEAN
  BY Zenon DEF RadioOK, PttCommand, FrequencyCommand, catVars
<1>2. since' \in Nat /\ faults' \in Nat
  BY SMT DEF RadioOK, PttCommand, FrequencyCommand, CountFault, catVars
<1> QED BY <1>1, <1>2 DEF RadioOK

(* Every action of the four threads keeps the types.                       *)
LEMMA TypeStep == ASSUME TypeOK, [Next]_vars PROVE TypeOK'
<1> USE DEF TypeOK
<1>1. CASE Send
  <2>1. TimerOK' /\ SchedulerOK'
    BY <1>1 DEF Send, SetHold, TimerOK, SchedulerOK, Holds, TxSteps
  <2> QED BY <1>1, <2>1, TypeFrames DEF Send, SetHold
<1>2. CASE Scheduler
  <2> USE <1>2 DEF SchedulerOK, TxSteps
  <2>1. CASE StartBurst
    <3>1. SchedulerOK' BY <2>1 DEF StartBurst
    <3> QED BY <2>1, <3>1, TypeFrames DEF StartBurst, Scheduler
  <2>2. CASE PttOn
    <3>1. SchedulerOK' BY <2>2 DEF PttOn
    <3>2. RadioOK' BY <2>2, CommandTypes DEF PttOn, Scheduler
    <3> QED BY <2>2, <3>1, <3>2, TypeFrames DEF PttOn, Scheduler
  <2>3. CASE MarkHeld
    <3>1. SchedulerOK' /\ TimerOK' BY <2>3 DEF MarkHeld, TimerOK
    <3> QED BY <2>3, <3>1, TypeFrames DEF MarkHeld, Scheduler
  <2>4. CASE StartFailed
    <3>1. SchedulerOK' /\ TimerOK' BY <2>4 DEF StartFailed, TimerOK
    <3> QED BY <2>4, <3>1, TypeFrames DEF StartFailed, Scheduler
  <2>5. CASE KickRead
    <3>1. SchedulerOK' BY <2>5 DEF KickRead
    <3>2. RadioOK' BY <2>5 DEF KickRead, RadioOK, Scheduler
    <3> QED BY <2>5, <3>1, <3>2, TypeFrames DEF KickRead, Scheduler
  <2>6. CASE KickWrite
    <3>1. SchedulerOK' /\ TimerOK' BY <2>6 DEF KickWrite, TimerOK
    <3> QED BY <2>6, <3>1, TypeFrames DEF KickWrite, Scheduler
  <2>7. CASE FrameDone
    <3>1. SchedulerOK' BY <2>7 DEF FrameDone
    <3> QED BY <2>7, <3>1, TypeFrames DEF FrameDone, Scheduler
  <2>8. CASE FrameTimesOut
    <3>1. SchedulerOK' BY <2>8 DEF FrameTimesOut
    <3> QED BY <2>8, <3>1, TypeFrames DEF FrameTimesOut, Scheduler
  <2>9. CASE BurstEnded
    <3>1. SchedulerOK' BY <2>9 DEF BurstEnded
    <3> QED BY <2>9, <3>1, TypeFrames DEF BurstEnded, Scheduler
  <2>10. CASE SchedulerStops
    <3>1. SchedulerOK' BY <2>10 DEF SchedulerStops
    <3> QED BY <2>10, <3>1, TypeFrames DEF SchedulerStops, Scheduler
  <2> QED BY <2>1, <2>2, <2>3, <2>4, <2>5, <2>6, <2>7, <2>8, <2>9, <2>10
          DEF Scheduler
<1>3. CASE Release
  <2> USE <1>3 DEF SchedulerOK, OthersOK, TxSteps, WdSteps
  <2>1. CASE Forget
    <3>1. SchedulerOK' /\ OthersOK' /\ TimerOK' BY <2>1 DEF Forget, TimerOK
    <3> QED BY <2>1, <3>1, TypeFrames DEF Forget, Release
  <2>2. CASE Unset
    <3>1. SchedulerOK' /\ OthersOK' /\ TimerOK' BY <2>2 DEF Unset, TimerOK
    <3> QED BY <2>2, <3>1, TypeFrames DEF Unset, Release
  <2>3. CASE PttOff
    <3>1. SchedulerOK' /\ OthersOK' BY <2>3 DEF PttOff
    <3>2. RadioOK' BY <2>3, CommandTypes DEF PttOff, Release
    <3> QED BY <2>3, <3>1, <3>2, TypeFrames DEF PttOff, Release
  <2> QED BY <2>1, <2>2, <2>3 DEF Release
<1>4. CASE Watchdog
  <2>1. OthersOK'
    BY <1>4 DEF Watchdog, WatchdogPoll, WatchdogCompare, OthersOK, WdSteps,
           TimerOK
  <2> QED BY <1>4, <2>1, TypeFrames DEF Watchdog, WatchdogPoll, WatchdogCompare
<1>5. CASE Reconnect
  <2> USE <1>5 DEF OthersOK, RcSteps
  <2>1. CASE CheckClient
    <3>1. OthersOK' BY <2>1 DEF CheckClient, wdVars
    <3> QED BY <2>1, <3>1, TypeFrames DEF CheckClient, Reconnect
  <2>2. CASE Connect
    <3>1. OthersOK' BY <2>2 DEF Connect, wdVars
    <3>2. keyed' \in BOOLEAN /\ sock' \in BOOLEAN
      BY <2>2, Zenon DEF Connect, RadioOK
    <3>3. since' \in Nat /\ faults' \in Nat
      BY <2>2, SMT DEF Connect, RadioOK, CountFault
    <3>4. RadioOK' BY <2>2, <3>2, <3>3 DEF Connect, Reconnect, RadioOK
    <3> QED BY <2>2, <3>1, <3>4, TypeFrames DEF Connect, Reconnect
  <2>3. CASE Announce
    <3>1. OthersOK' /\ RadioOK' BY <2>3 DEF Announce, Reconnect, RadioOK, wdVars
    <3> QED BY <2>3, <3>1, TypeFrames DEF Announce, Reconnect
  <2>4. CASE Ask
    <3>1. OthersOK' BY <2>4 DEF Ask, wdVars
    <3>2. RadioOK' BY <2>4, CommandTypes DEF Ask, Reconnect
    <3> QED BY <2>4, <3>1, <3>2, TypeFrames DEF Ask, Reconnect
  <2>5. CASE Ping
    <3>1. OthersOK' BY <2>5 DEF Ping, wdVars
    <3>2. sock' \in BOOLEAN
      BY <2>5, Zenon DEF Ping, RadioOK
    <3>5. connected' \in BOOLEAN
      BY <2>5, Zenon DEF Ping, RadioOK
    <3>3. faults' \in Nat
      <4>1. UNCHANGED faults \/ \E o \in Outcomes : CountFault(o)
        BY <2>5, Zenon DEF Ping
      <4> QED BY <4>1 DEF RadioOK, CountFault
    <3>4. RadioOK' BY <2>5, <3>2, <3>3, <3>5 DEF Ping, Reconnect, RadioOK
    <3> QED BY <2>5, <3>1, <3>4, TypeFrames DEF Ping, Reconnect
  <2> QED BY <2>1, <2>2, <2>3, <2>4, <2>5 DEF Reconnect
<1>6. CASE Shutdown
  <2> USE <1>6 DEF OthersOK, RcSteps, MainSteps, WdSteps
  <2>1. CASE StopScheduler
    <3>1. OthersOK' BY <2>1 DEF StopScheduler, wdVars
    <3> QED BY <2>1, <3>1, TypeFrames DEF StopScheduler, Shutdown
  <2>2. CASE GraceExpires \/ StopClose
    <3>1. /\ Exit /\ UNCHANGED service
          /\ \/ UNCHANGED keyed
             \/ keyed' = (keyed /\ ~(service = "rts" /\ sock))
      BY <2>2 DEF GraceExpires, StopClose, Shutdown
    <3>2. OthersOK' BY <3>1 DEF Exit
    <3>3. RadioOK' BY <3>1 DEF Exit, RadioOK
    <3>4. SchedulerOK' BY <3>1 DEF Exit, SchedulerOK, TxSteps
    <3> QED BY <3>1, <3>2, <3>3, <3>4, TypeFrames DEF Exit
  <2>3. CASE StopRelease
    <3>1. OthersOK' BY <2>3 DEF StopRelease, wdVars
    <3>2. RadioOK' BY <2>3, CommandTypes DEF StopRelease, Shutdown
    <3> QED BY <2>3, <3>1, <3>2, TypeFrames DEF StopRelease, Shutdown
  <2> QED BY <2>1, <2>2, <2>3 DEF Shutdown
<1>7. CASE Mishap
  <2>1. SchedulerOK'
    BY <1>7 DEF Mishap, Hang, Freeze, DropContext, SchedulerOK, TxSteps
  <2>2. hangs' \in Nat
    BY <1>7 DEF Mishap, Hang, Freeze, DropContext, RadioOK
  <2>3. RadioOK'
    BY <1>7, <2>2, Zenon DEF Mishap, Hang, Freeze, DropContext, RadioOK, catVars
  <2> QED BY <1>7, <2>1, <2>3, TypeFrames DEF Mishap, Hang, Freeze, DropContext
<1>8. CASE Retune
  <2>1. RadioOK' BY <1>8, CommandTypes DEF Retune, Tune
  <2> QED BY <1>8, <2>1, TypeFrames DEF Retune, Tune
<1>9. CASE Time
  <2>1. \A n \in Nat : Older(n) \in Nat
    BY CapIsLarge DEF Older
  <2>2. RadioOK'
    BY <1>9, <2>1 DEF Time, Tick, RadioOK
  <2>3. TimerOK'
    BY <1>9, <2>1 DEF Time, Tick, TimerOK
  <2>4. SchedulerOK'
    BY <1>9 DEF Time, Tick, SchedulerOK, TxSteps
  <2>5. OthersOK'
    BY <1>9 DEF Time, Tick, OthersOK, WdSteps, RcSteps
  <2> QED BY <2>2, <2>3, <2>4, <2>5
<1>10. CASE UNCHANGED vars
  BY <1>10, TypeFrames DEF vars
<1> QED
  BY <1>1, <1>2, <1>3, <1>4, <1>5, <1>6, <1>7, <1>8, <1>9, <1>10 DEF Next

(* Every reachable state is well typed.                                    *)
THEOREM TypeCorrect == Spec => []TypeOK
BY TypeInit, TypeStep, PTL DEF Spec

-------------------------------------------------------------------------------
(* Why the watchdog leaves a healthy burst alone: without a hang the timer *)
(* runs only from the key-down to the release, and it is set back at the   *)
(* beginning of every frame, so that it never shows more than a slot.      *)
InTime ==
    hangs = 0 /\ ~Stopping =>
       /\ ~hung /\ tx \notin {"dead", "gone"}
       /\ held <= SlotTicks
       /\ timed => tx \in {"kick", "kicked", "play", "off1"}
       /\ tx = "kicked" => spent = 0
       /\ tx = "play" => spent <= SlotTicks /\ (timed => held <= spent)
       /\ wd = "compare" => seen <= SlotTicks
       /\ wd \notin {"off1", "off2", "off3"}

(* Faults, hangs and a shutdown are never taken back.                      *)
LEMMA NothingIsUndone ==
    ASSUME TypeOK, [Next]_vars
    PROVE  /\ faults' = 0 => faults = 0
           /\ hangs' = 0 => hangs = 0
           /\ ~Stopping' => ~Stopping
<1> USE DEF TypeOK, RadioOK
<1>1. \A o : CountFault(o) => (faults' = 0 => faults = 0)
  BY DEF CountFault
<1>2. \A o, on : PttCommand(o, on) => (faults' = 0 => faults = 0)
  BY <1>1 DEF PttCommand, catVars
<1>3. \A o, u : FrequencyCommand(o, u) => (faults' = 0 => faults = 0)
  BY <1>1 DEF FrequencyCommand
<1>4. faults' = 0 => faults = 0
  BY <1>1, <1>2, <1>3
     DEF Next, Send, SetHold, Scheduler, StartBurst, PttOn, MarkHeld,
         StartFailed, KickRead, KickWrite, FrameDone, FrameTimesOut, BurstEnded,
         SchedulerStops, Release, Forget, Unset, PttOff, Watchdog, WatchdogPoll,
         WatchdogCompare, Reconnect, CheckClient, Connect, Announce, Ask, Ping,
         Shutdown, StopScheduler, GraceExpires, StopRelease, StopClose, Exit,
         Mishap, Hang, Freeze, DropContext, Retune, Tune, Time, Tick, vars,
         catVars
<1>5. hangs' = 0 => hangs = 0
  <2>1. CASE Mishap
    BY <2>1 DEF Mishap, Hang, Freeze, DropContext
  <2>2. CASE ~Mishap
    <3>1. UNCHANGED hangs
      BY <2>2, Zenon
         DEF Next, Send, SetHold, Scheduler, StartBurst, PttOn, MarkHeld,
             StartFailed, KickRead, KickWrite, FrameDone, FrameTimesOut,
             BurstEnded, SchedulerStops, Release, Forget, Unset, PttOff, Watchdog,
             WatchdogPoll, WatchdogCompare, Reconnect, CheckClient, Connect,
             Announce, Ask, Ping, Shutdown, StopScheduler, GraceExpires,
             StopRelease, StopClose, Exit, Retune, Tune, Time, Tick, vars
    <3> QED BY <3>1
  <2> QED BY <2>1, <2>2
<1>6. ~Stopping' => ~Stopping
  BY DEF Next, Send, SetHold, Scheduler, StartBurst, PttOn, MarkHeld,
         StartFailed, KickRead, KickWrite, FrameDone, FrameTimesOut, BurstEnded,
         SchedulerStops, Release, Forget, Unset, PttOff, Watchdog, WatchdogPoll,
         WatchdogCompare, Reconnect, CheckClient, Connect, Announce, Ask, Ping,
         Shutdown, StopScheduler, GraceExpires, StopRelease, StopClose, Exit,
         Mishap, Hang, Freeze, DropContext, Retune, Tune, Time, Tick, vars,
         Stopping
<1> QED BY <1>4, <1>5, <1>6

(* While the program works, only StopScheduler begins a shutdown: its other *)
(* steps come after it.                                                    *)
LEMMA NoShutdown == Shutdown => Stopping'
BY DEF Shutdown, StopScheduler, GraceExpires, StopRelease, StopClose, Exit,
       Stopping

(* The limit the watchdog compares with is longer than a slot.             *)
LEMMA LimitOutlastsSlot ==
    TimerOK => Limit \in Nat /\ Limit > SlotTicks
              /\ (cap # 0 => Limit = cap /\ Limit <= HoldFor(MaxFrames))
BY HoldsAreBounded, CatAssumption DEF TimerOK, Limit

(* The clock counts one tick, and not beyond TickCap.                      *)
LEMMA OlderByOne ==
    \A n \in Nat : /\ Older(n) \in Nat /\ Older(n) <= n + 1
                   /\ n <= HoldFor(MaxFrames) => Older(n) = n + 1
BY CapIsLarge, HoldsAreBounded DEF Older

(* InTime is inductive: a step of any thread keeps the timer of a healthy  *)
(* burst below the watchdog's limit.                                       *)
LEMMA InTimeStep == ASSUME TypeOK, InTime, [Next]_vars PROVE InTime'
<1> SUFFICES ASSUME hangs' = 0, ~Stopping'
             PROVE  InTime'
  BY DEF InTime
<1>1. /\ hangs = 0 /\ ~Stopping
      /\ ~hung /\ tx \notin {"dead", "gone"}
      /\ held <= SlotTicks
      /\ timed => tx \in {"kick", "kicked", "play", "off1"}
      /\ tx = "kicked" => spent = 0
      /\ tx = "play" => spent <= SlotTicks /\ (timed => held <= spent)
      /\ wd = "compare" => seen <= SlotTicks
      /\ wd \notin {"off1", "off2", "off3"}
  BY NothingIsUndone DEF InTime
<1>2. /\ SlotTicks \in Nat /\ PlayTimeout \in Nat /\ PlayTimeout > SlotTicks
      /\ held \in Nat /\ seen \in Nat /\ spent \in Nat /\ left \in Nat
      /\ timed \in BOOLEAN /\ hung \in BOOLEAN
      /\ tx = "play" => left > 0
  BY CatAssumption DEF TypeOK, TimerOK, SchedulerOK, OthersOK
<1>3. Limit \in Nat /\ Limit > SlotTicks
  BY LimitOutlastsSlot DEF TypeOK
<1> HIDE DEF Limit
<1>4. CASE Send \/ Scheduler
  <2> USE <1>1, <1>2 DEF InTime, timerVars, wdVars, Stopping
  <2>1. CASE Send
    BY <2>1 DEF Send, SetHold
  <2>2. CASE StartBurst \/ PttOn \/ StartFailed \/ BurstEnded \/ SchedulerStops
    BY <2>2 DEF StartBurst, PttOn, StartFailed, BurstEnded, SchedulerStops
  <2>3. CASE MarkHeld \/ KickRead \/ KickWrite
    BY <2>3 DEF MarkHeld, KickRead, KickWrite
  <2>4. CASE FrameDone
    BY <2>4 DEF FrameDone
  <2>5. CASE FrameTimesOut
    BY <2>5 DEF FrameTimesOut
  <2> QED BY <1>4, <2>1, <2>2, <2>3, <2>4, <2>5 DEF Scheduler
<1>5. CASE Release \/ Watchdog
  <2> USE <1>1, <1>2 DEF InTime, timerVars, txVars
  <2>1. CASE Forget
    BY <2>1 DEF Forget
  <2>2. CASE Unset
    BY <2>2 DEF Unset
  <2>3. CASE PttOff
    BY <2>3 DEF PttOff
  <2>4. CASE WatchdogPoll
    BY <2>4 DEF WatchdogPoll
  <2>5. CASE WatchdogCompare
    BY <1>3, <2>5 DEF WatchdogCompare
  <2> QED BY <1>5, <2>1, <2>2, <2>3, <2>4, <2>5 DEF Watchdog, Release
<1>6. CASE Reconnect \/ Retune
  BY <1>1, <1>6
     DEF InTime, Reconnect, CheckClient, Connect, Announce, Ask, Ping, Retune,
         Tune, timerVars, txVars, wdVars
<1>7. CASE Mishap
  BY <1>1, <1>2, <1>7
     DEF InTime, Mishap, Hang, Freeze, DropContext, timerVars, wdVars, TypeOK,
         RadioOK
<1>8. CASE Time
  BY <1>1, <1>2, <1>8, OlderByOne, HoldsAreBounded
     DEF InTime, Time, Tick, CatStopping, Stopping
<1>9. CASE UNCHANGED vars
  BY <1>1, <1>9 DEF InTime, vars, timerVars, txVars, wdVars
<1> QED
  BY <1>4, <1>5, <1>6, <1>7, <1>8, <1>9, NoShutdown DEF Next

(* A healthy burst is never cut off: whatever commands fail or are lost,   *)
(* the watchdog releases PTT only after a hang, a dropped context or the   *)
(* beginning of a shutdown (_watchdog_loop, ptt_kick).                     *)
THEOREM LiveBurstIsSpared == Spec => []WatchdogSparesLiveBurst
<1>1. Init => InTime
  BY CatAssumption DEF Init, InTime, Stopping
<1>2. TypeOK /\ InTime => WatchdogSparesLiveBurst
  BY DEF TypeOK, RadioOK, InTime, WatchdogSparesLiveBurst
<1> QED BY <1>1, <1>2, TypeCorrect, InTimeStep, PTL DEF Spec

-------------------------------------------------------------------------------
(* What the scheduler, the watchdog and the reconnect thread owe each      *)
(* other while commands are carried out (Working).                         *)
Working == faults = 0 /\ ~Stopping

(* Once there is a connection it lasts; without one nothing is keyed.      *)
SocketHolds ==
    /\ keyed \/ connected \/ tx = "on" \/ rc = "announce" => sock
    /\ rc = "connect" => ~sock

(* _burst_active is set from the key-down to the end of the release.       *)
BurstIsNoted ==
    /\ tx \in {"on", "mark", "failed"} => ~bursting
    /\ tx \in {"kick", "kicked", "play", "dead", "off1", "off2", "off3", "ended"}
          => bursting
    /\ hung => tx \in {"play", "dead"}
    /\ tx # "gone"

(* Outside a burst the transmitter is off and the timer stopped, and when  *)
(* the next burst begins the watchdog has nothing old in hand.             *)
NoBurst ==
    ~bursting =>
       /\ ~timed
       /\ keyed <=> tx = "mark"
       /\ tx \in {"idle", "start", "on", "mark", "failed"} => wd \in {"wait", "poll"}

(* A burst whose frames end in time is keyed and timed, and the watchdog   *)
(* has read nothing that would make it act.                                *)
LiveBurst ==
    tx \in {"kick", "kicked"} \/ (tx = "play" /\ ~hung) =>
       /\ timed /\ keyed
       /\ held <= SlotTicks
       /\ tx = "kicked" => spent = 0
       /\ tx = "play" => spent <= SlotTicks /\ held <= spent
       /\ wd = "compare" => seen <= SlotTicks
       /\ wd \notin {"off1", "off2", "off3"}

(* In any other burst the timer agrees with the transmitter until one of   *)
(* the two threads that may release it has begun to.                       *)
BurstInRelease ==
    /\ wd \in {"off2", "off3"} \/ tx \in {"off2", "off3", "ended"} => ~timed
    /\ tx = "ended" => ~keyed
    /\ bursting /\ wd \notin {"off2", "off3"}
          /\ tx \in {"idle", "start", "rest", "play", "dead", "off1"}
       => (timed <=> keyed)

TimerInv ==
    Working => SocketHolds /\ BurstIsNoted /\ NoBurst /\ LiveBurst /\ BurstInRelease

(* A command that does not fail does what it asks for and keeps the        *)
(* connection, or finds none and does nothing.                             *)
LEMMA CommandsWork ==
    ASSUME RadioOK, faults = 0, faults' = 0
    PROVE  /\ \A o \in Outcomes : CountFault(o) => o = "ok"
           /\ \A o \in Outcomes, on \in BOOLEAN : PttCommand(o, on) =>
                 \/ ~sock /\ o = "lost" /\ UNCHANGED catVars
                 \/ /\ sock /\ sock' /\ o = "ok" /\ keyed' = on
                    /\ since' = IF keyed' # keyed THEN 0 ELSE since
                    /\ connected' => connected
           /\ \A o \in Outcomes : \A u : FrequencyCommand(o, u) =>
                 (sock' <=> sock) /\ (connected' => connected)
<1>1. \A o \in Outcomes : CountFault(o) => o = "ok"
  BY DEF CountFault
<1>2. ASSUME NEW o \in Outcomes, NEW on \in BOOLEAN, PttCommand(o, on)
      PROVE  \/ ~sock /\ o = "lost" /\ UNCHANGED catVars
             \/ /\ sock /\ sock' /\ o = "ok" /\ keyed' = on
                /\ since' = IF keyed' # keyed THEN 0 ELSE since
                /\ connected' => connected
  <2>1. CASE ~sock
    BY <1>2, <2>1 DEF PttCommand
  <2>2. CASE sock
    <3>1. o = "ok"
      BY <1>1, <1>2, <2>2 DEF PttCommand
    <3> QED BY <1>2, <2>2, <3>1, Zenon DEF PttCommand
  <2> QED BY <2>1, <2>2 DEF RadioOK
<1>3. ASSUME NEW o \in Outcomes, NEW u, FrequencyCommand(o, u)
      PROVE  (sock' <=> sock) /\ (connected' => connected)
  <2>1. CASE ~sock
    BY <1>3, <2>1 DEF FrequencyCommand
  <2>2. CASE sock
    <3>1. o = "ok"
      BY <1>1, <1>3, <2>2 DEF FrequencyCommand
    <3> QED BY <1>3, <2>2, <3>1, Zenon DEF FrequencyCommand
  <2> QED BY <2>1, <2>2 DEF RadioOK
<1> QED BY <1>1, <1>2, <1>3

(* TimerInv is inductive.  Every action of the four threads is a step; the *)
(* parts of the invariant that it cannot disturb are left out.             *)
LEMMA TimerStep == ASSUME TypeOK, TimerInv, [Next]_vars PROVE TimerInv'
<1> SUFFICES ASSUME Working'
             PROVE  SocketHolds' /\ BurstIsNoted' /\ NoBurst' /\ LiveBurst'
                    /\ BurstInRelease'
  BY DEF TimerInv
<1>1. Working /\ faults = 0 /\ faults' = 0 /\ ~Stopping /\ ~Stopping'
  BY NothingIsUndone DEF Working
<1>2. SocketHolds /\ BurstIsNoted /\ NoBurst /\ LiveBurst /\ BurstInRelease
  BY <1>1 DEF TimerInv
<1>3. /\ SlotTicks \in Nat /\ PlayTimeout \in Nat /\ PlayTimeout > SlotTicks
      /\ held \in Nat /\ seen \in Nat /\ spent \in Nat /\ left \in Nat
      /\ tx = "play" => left > 0
      /\ {timed, hung, bursting, keyed, sock, connected} \subseteq BOOLEAN
      /\ tx \in TxSteps /\ wd \in WdSteps /\ rc \in RcSteps
  BY CatAssumption DEF TypeOK, TimerOK, SchedulerOK, OthersOK, RadioOK
<1>4. Limit \in Nat /\ Limit > SlotTicks
  BY LimitOutlastsSlot DEF TypeOK
<1>5. /\ \A o \in Outcomes : CountFault(o) => o = "ok"
      /\ \A o \in Outcomes, on \in BOOLEAN : PttCommand(o, on) =>
            \/ ~sock /\ o = "lost" /\ UNCHANGED catVars
            \/ /\ sock /\ sock' /\ o = "ok" /\ keyed' = on
               /\ connected' => connected
      /\ \A o \in Outcomes : \A u : FrequencyCommand(o, u) =>
            (sock' <=> sock) /\ (connected' => connected)
  BY <1>1, CommandsWork DEF TypeOK
<1> HIDE DEF Limit, Stopping
<1> USE DEF catVars, timerVars, txVars, wdVars
<1>6. CASE Send
  <2> USE <1>6 DEF Send, SetHold
  <2>1. SocketHolds' BY <1>2 DEF SocketHolds
  <2>2. BurstIsNoted' BY <1>2 DEF BurstIsNoted
  <2>3. NoBurst' BY <1>2 DEF NoBurst
  <2>4. LiveBurst' BY <1>2 DEF LiveBurst
  <2>5. BurstInRelease' BY <1>2 DEF BurstInRelease
  <2> QED BY <2>1, <2>2, <2>3, <2>4, <2>5
<1>7. CASE StartBurst /\ UNCHANGED service
  <2> USE <1>7 DEF StartBurst
  <2>1. SocketHolds' BY <1>2, <1>3 DEF SocketHolds
  <2>2. BurstIsNoted' BY <1>2, <1>3 DEF BurstIsNoted
  <2>3. NoBurst' BY <1>2, <1>3 DEF NoBurst
  <2>4. LiveBurst' BY <1>2, <1>3 DEF LiveBurst
  <2>5. BurstInRelease' BY <1>2, <1>3 DEF BurstInRelease
  <2> QED BY <2>1, <2>2, <2>3, <2>4, <2>5
<1>8. CASE PttOn /\ UNCHANGED service
  <2>1. /\ tx = "on" /\ sock /\ sock' /\ keyed' = TRUE /\ tx' = "mark"
        /\ connected' => connected
        /\ UNCHANGED <<timerVars, bursting, hung, wdVars, rc>>
    <3>1. PICK o \in Outcomes : PttCommand(o, TRUE)
                          /\ tx' = IF Reported(o) THEN "mark" ELSE "failed"
      BY <1>8 DEF PttOn
    <3>2. tx = "on" /\ sock
      BY <1>2, <1>8 DEF PttOn, SocketHolds
    <3>3. o = "ok" /\ sock' /\ keyed' = TRUE /\ (connected' => connected)
      BY <1>5, <3>1, <3>2
    <3> QED BY <1>8, <3>1, <3>2, <3>3 DEF PttOn, Reported
  <2>2. SocketHolds' BY <1>2, <2>1 DEF SocketHolds
  <2>3. BurstIsNoted' BY <1>2, <2>1 DEF BurstIsNoted
  <2>4. NoBurst' BY <1>2, <2>1 DEF NoBurst
  <2>5. LiveBurst' BY <2>1 DEF LiveBurst
  <2>6. BurstInRelease' BY <1>2, <2>1 DEF BurstInRelease
  <2> QED BY <2>2, <2>3, <2>4, <2>5, <2>6
<1>9. CASE MarkHeld /\ UNCHANGED service
  <2> USE <1>9 DEF MarkHeld
  <2>1. SocketHolds' BY <1>2 DEF SocketHolds
  <2>2. BurstIsNoted' BY <1>2 DEF BurstIsNoted
  <2>3. NoBurst' BY <1>2 DEF NoBurst
  <2>4. LiveBurst' BY <1>2, <1>3 DEF LiveBurst, NoBurst, BurstIsNoted
  <2>5. BurstInRelease' BY <1>2 DEF BurstInRelease, NoBurst, BurstIsNoted
  <2> QED BY <2>1, <2>2, <2>3, <2>4, <2>5
<1>10. CASE StartFailed /\ UNCHANGED service
  <2> USE <1>10 DEF StartFailed
  <2>1. SocketHolds' BY <1>2 DEF SocketHolds
  <2>2. BurstIsNoted' BY <1>2 DEF BurstIsNoted
  <2>3. NoBurst' BY <1>2 DEF NoBurst
  <2>4. LiveBurst' BY <1>2 DEF LiveBurst
  <2>5. BurstInRelease' BY <1>2 DEF BurstInRelease, BurstIsNoted
  <2> QED BY <2>1, <2>2, <2>3, <2>4, <2>5
<1>11. CASE (KickRead \/ KickWrite) /\ UNCHANGED service
  <2> USE <1>11 DEF KickRead, KickWrite
  <2>1. SocketHolds' BY <1>2 DEF SocketHolds
  <2>2. BurstIsNoted' BY <1>2 DEF BurstIsNoted
  <2>3. NoBurst' BY <1>2 DEF NoBurst, BurstIsNoted
  <2>4. LiveBurst' BY <1>2, <1>3 DEF LiveBurst, BurstIsNoted
  <2>5. BurstInRelease' BY <1>2 DEF BurstInRelease, LiveBurst
  <2> QED BY <2>1, <2>2, <2>3, <2>4, <2>5
<1>12. CASE FrameDone /\ UNCHANGED service
  <2>1. /\ tx = "play" /\ ~hung /\ spent = SlotTicks
        /\ tx' \in {"off1", "kick"}
        /\ UNCHANGED <<catVars, timerVars, bursting, spent, hung, wdVars, rc>>
    BY <1>1, <1>3, <1>12 DEF FrameDone
  <2>2. SocketHolds' BY <1>2, <2>1 DEF SocketHolds
  <2>3. BurstIsNoted' BY <1>2, <2>1 DEF BurstIsNoted
  <2>4. NoBurst' BY <1>2, <2>1 DEF NoBurst, BurstIsNoted
  <2>5. LiveBurst' BY <1>2, <1>3, <2>1 DEF LiveBurst
  <2>6. BurstInRelease' BY <1>2, <2>1 DEF BurstInRelease, LiveBurst
  <2> QED BY <2>2, <2>3, <2>4, <2>5, <2>6
<1>13. CASE FrameTimesOut /\ UNCHANGED service
  <2> USE <1>13 DEF FrameTimesOut
  <2>1. SocketHolds' BY <1>2 DEF SocketHolds
  <2>2. BurstIsNoted' BY <1>2 DEF BurstIsNoted
  <2>3. NoBurst' BY <1>2 DEF NoBurst, BurstIsNoted
  <2>4. LiveBurst' BY <1>2 DEF LiveBurst
  <2>5. BurstInRelease' BY <1>2 DEF BurstInRelease
  <2> QED BY <2>1, <2>2, <2>3, <2>4, <2>5
<1>14. CASE (BurstEnded \/ SchedulerStops) /\ UNCHANGED service
  <2>1. BurstEnded
    BY <1>1, <1>14 DEF SchedulerStops
  <2> USE <2>1 DEF BurstEnded
  <2>2. SocketHolds' BY <1>2 DEF SocketHolds
  <2>3. BurstIsNoted' BY <1>2 DEF BurstIsNoted
  <2>4. NoBurst' BY <1>2 DEF NoBurst, BurstInRelease
  <2>5. LiveBurst' BY <1>2 DEF LiveBurst
  <2>6. BurstInRelease' BY <1>2 DEF BurstInRelease
  <2> QED BY <2>2, <2>3, <2>4, <2>5, <2>6
<1>15. CASE (Forget \/ Unset) /\ UNCHANGED service
  <2>1. /\ UNCHANGED <<catVars, bursting, left, spent, hung, seen, rc>>
        /\ \/ /\ tx = "off1" /\ tx' = "off2" /\ timed' = FALSE /\ held' = 0
              /\ UNCHANGED wd
           \/ tx = "off2" /\ tx' = "off3" /\ UNCHANGED <<wd, timed, held>>
           \/ /\ wd = "off1" /\ wd' = "off2" /\ timed' = FALSE /\ held' = 0
              /\ UNCHANGED tx
           \/ wd = "off2" /\ wd' = "off3" /\ UNCHANGED <<tx, timed, held>>
    BY <1>15 DEF Forget, Unset
  <2>2. SocketHolds' BY <1>2, <2>1 DEF SocketHolds
  <2>3. BurstIsNoted' BY <1>2, <2>1 DEF BurstIsNoted
  <2>4. NoBurst' BY <1>2, <2>1 DEF NoBurst, BurstIsNoted
  <2>5. LiveBurst' BY <1>2, <2>1 DEF LiveBurst
  <2>6. BurstInRelease' BY <1>2, <2>1 DEF BurstInRelease, BurstIsNoted
  <2> QED BY <2>2, <2>3, <2>4, <2>5, <2>6
<1>16. CASE PttOff /\ UNCHANGED service
  <2>1. /\ keyed' = FALSE /\ (sock' <=> sock) /\ (connected' => connected)
        /\ UNCHANGED <<timerVars, bursting, spent, hung, seen, rc>>
        /\ \/ tx = "off3" /\ tx' = "ended" /\ UNCHANGED wd
           \/ wd = "off3" /\ wd' = "wait" /\ UNCHANGED tx
    <3>1. PICK o \in Outcomes : PttCommand(o, FALSE)
      BY <1>16 DEF PttOff
    <3>2. keyed' = FALSE /\ (sock' <=> sock) /\ (connected' => connected)
      <4>1. CASE ~sock
        BY <1>2, <1>3, <1>5, <3>1, <4>1 DEF SocketHolds
      <4>2. CASE sock
        BY <1>5, <3>1, <4>2
      <4> QED BY <4>1, <4>2
    <3> QED BY <1>16, <3>2 DEF PttOff
  <2>2. SocketHolds' BY <1>2, <2>1 DEF SocketHolds
  <2>3. BurstIsNoted' BY <1>2, <2>1 DEF BurstIsNoted
  <2>4. NoBurst' BY <1>2, <2>1 DEF NoBurst, BurstIsNoted
  <2>5. LiveBurst' BY <1>2, <2>1 DEF LiveBurst
  <2>6. BurstInRelease' BY <1>2, <2>1 DEF BurstInRelease, BurstIsNoted
  <2> QED BY <2>2, <2>3, <2>4, <2>5, <2>6
<1>17. CASE Watchdog
  <2>1. /\ UNCHANGED <<catVars, timerVars, txVars, rc>>
        /\ \/ /\ wd = "poll" /\ seen' = held
              /\ (wd' = "compare" /\ timed) \/ wd' = "wait"
           \/ wd = "compare" /\ UNCHANGED seen
              /\ (wd' = "wait" \/ (wd' = "off1" /\ seen >= Limit))
    BY <1>17 DEF Watchdog, WatchdogPoll, WatchdogCompare
  <2>2. SocketHolds' BY <1>2, <2>1 DEF SocketHolds
  <2>3. BurstIsNoted' BY <1>2, <2>1 DEF BurstIsNoted
  <2>4. NoBurst' BY <1>2, <2>1 DEF NoBurst
  <2>5. LiveBurst' BY <1>2, <1>3, <1>4, <2>1 DEF LiveBurst
  <2>6. BurstInRelease' BY <1>2, <2>1 DEF BurstInRelease
  <2> QED BY <2>2, <2>3, <2>4, <2>5, <2>6
<1>18. CASE Reconnect \/ Retune
  <2>1. /\ UNCHANGED <<timerVars, txVars, wdVars>>
        /\ keyed' = keyed
        /\ sock => sock'
        /\ connected' => connected \/ sock'
        /\ rc' = "connect" => ~sock'
        /\ rc' = "announce" => sock'
    <3>1. CASE CheckClient
      BY <1>3, <3>1 DEF CheckClient
    <3>2. CASE Connect
      <4>1. ~sock /\ ~keyed
        BY <1>2, <1>3, <3>2 DEF SocketHolds, Connect
      <4>2. keyed' = FALSE
        BY <3>2, <4>1, Zenon DEF Connect
      <4>3. connected' = connected /\ rc' # "connect"
            /\ (rc' = "announce" => sock')
            /\ UNCHANGED <<timerVars, txVars, wdVars>>
        BY <3>2 DEF Connect
      <4> QED BY <1>3, <4>1, <4>2, <4>3
    <3>3. CASE Announce
      BY <1>2, <3>3 DEF Announce, SocketHolds
    <3>4. CASE Ask \/ Retune
      <4>1. PICK o \in Outcomes : \E u : FrequencyCommand(o, u)
        BY <3>4 DEF Ask, Retune, Tune
      <4> QED BY <1>2, <1>3, <1>5, <3>4, <4>1 DEF Ask, Retune, Tune, SocketHolds
    <3>5. CASE Ping
      <4>1. (sock => sock') /\ (connected' => connected)
        <5>1. CASE ~sock
          BY <3>5, <5>1 DEF Ping
        <5>2. CASE sock
          BY <1>5, <3>5, <5>2 DEF Ping
        <5> QED BY <5>1, <5>2
      <4> QED BY <3>5, <4>1 DEF Ping
    <3> QED BY <1>18, <3>1, <3>2, <3>3, <3>4, <3>5 DEF Reconnect
  <2>2. SocketHolds' BY <1>2, <2>1 DEF SocketHolds
  <2>3. BurstIsNoted' BY <1>2, <2>1 DEF BurstIsNoted
  <2>4. NoBurst' BY <1>2, <2>1 DEF NoBurst
  <2>5. LiveBurst' BY <1>2, <2>1 DEF LiveBurst
  <2>6. BurstInRelease' BY <1>2, <2>1 DEF BurstInRelease
  <2> QED BY <2>2, <2>3, <2>4, <2>5, <2>6
<1>19. CASE Mishap
  <2> USE <1>19 DEF Mishap, Hang, Freeze, DropContext
  <2>1. SocketHolds' BY <1>2 DEF SocketHolds
  <2>2. BurstIsNoted' BY <1>2, <1>3 DEF BurstIsNoted
  <2>3. NoBurst' BY <1>2 DEF NoBurst, BurstIsNoted
  <2>4. LiveBurst' BY <1>2 DEF LiveBurst
  <2>5. BurstInRelease' BY <1>2, <1>3 DEF BurstInRelease, LiveBurst, BurstIsNoted
  <2> QED BY <2>1, <2>2, <2>3, <2>4, <2>5
<1>20. CASE Time
  <2> USE <1>20 DEF Time, Tick, CatStopping, Stopping
  <2>1. SocketHolds' BY <1>2, <1>3 DEF SocketHolds
  <2>2. BurstIsNoted' BY <1>2, <1>3 DEF BurstIsNoted
  <2>3. NoBurst' BY <1>1, <1>2, <1>3 DEF NoBurst
  <2>4. LiveBurst'
    BY <1>1, <1>2, <1>3, OlderByOne, HoldsAreBounded DEF LiveBurst
  <2>5. BurstInRelease' BY <1>1, <1>2, <1>3 DEF BurstInRelease
  <2> QED BY <2>1, <2>2, <2>3, <2>4, <2>5
<1>21. CASE UNCHANGED vars
  BY <1>2, <1>21
     DEF vars, SocketHolds, BurstIsNoted, NoBurst, LiveBurst, BurstInRelease
<1> QED
  BY <1>1, <1>6, <1>7, <1>8, <1>9, <1>10, <1>11, <1>12, <1>13, <1>14, <1>15,
     <1>16, <1>17, <1>18, <1>19, <1>20, <1>21, NoShutdown
     DEF Next, Scheduler, Release

(* Between two releases the watchdog's timer runs exactly while the        *)
(* transmitter is on, although three threads read and write _ptt_held_at   *)
(* without a lock.                                                         *)
THEOREM TimerFollowsRadio == Spec => []TimerMatchesRadio
<1>1. Init => TimerInv
  BY DEF Init, TimerInv, SocketHolds, BurstIsNoted, NoBurst, LiveBurst,
         BurstInRelease
<1>2. TypeOK /\ TimerInv => TimerMatchesRadio
  BY DEF TypeOK, SchedulerOK, RadioOK, TimerOK, TimerInv, Working,
         TimerMatchesRadio, AtRest, NoBurst, LiveBurst, BurstInRelease
<1> QED BY <1>1, <1>2, TypeCorrect, TimerStep, PTL DEF Spec

-------------------------------------------------------------------------------
(* The hold is bounded: the timer lags behind no stretch of transmission,  *)
(* and the watchdog looks at it between any two ticks.                     *)
LongestHold == HoldFor(MaxFrames)
HoldInv ==
    Working =>
       /\ ~keyed => since = 0
       /\ keyed => since <= LongestHold + 1
       /\ keyed /\ timed => since <= held
       /\ timed => cap # 0 /\ held <= LongestHold + 1
       /\ timed /\ wd = "wait" => held <= LongestHold
       /\ timed /\ wd = "compare" => held <= seen
       /\ ~bursting /\ tx \in {"start", "on", "mark"} => cap # 0
       /\ tx \in {"mark", "kicked"} => since = 0

(* HoldInv is inductive: between two ticks the watchdog compares the timer *)
(* with the hold, so that no key-down is older than the longest hold and a *)
(* tick.                                                                   *)
LEMMA HoldStep == ASSUME TypeOK, TimerInv, HoldInv, [Next]_vars PROVE HoldInv'
<1> SUFFICES ASSUME Working'
             PROVE  HoldInv'
  BY DEF HoldInv
<1>1. Working /\ faults = 0 /\ faults' = 0 /\ ~Stopping /\ ~Stopping'
  BY NothingIsUndone DEF Working
<1>2. SocketHolds /\ BurstIsNoted /\ NoBurst /\ LiveBurst /\ BurstInRelease
  BY <1>1 DEF TimerInv
<1>3. /\ ~keyed => since = 0
      /\ keyed => since <= LongestHold + 1
      /\ keyed /\ timed => since <= held
      /\ timed => cap # 0 /\ held <= LongestHold + 1
      /\ timed /\ wd = "wait" => held <= LongestHold
      /\ timed /\ wd = "compare" => held <= seen
      /\ ~bursting /\ tx \in {"start", "on", "mark"} => cap # 0
      /\ tx \in {"mark", "kicked"} => since = 0
  BY <1>1 DEF HoldInv
<1>4. /\ LongestHold \in Nat
      /\ held \in Nat /\ seen \in Nat /\ since \in Nat
      /\ {timed, bursting, keyed, sock} \subseteq BOOLEAN
      /\ \A h \in Holds : h # 0
  BY HoldsAreBounded, CatAssumption
     DEF TypeOK, TimerOK, SchedulerOK, OthersOK, RadioOK, LongestHold
<1>5. Limit \in Nat /\ (cap # 0 => Limit <= LongestHold)
  BY LimitOutlastsSlot DEF TypeOK, LongestHold
<1>6. \A o \in Outcomes, on \in BOOLEAN : PttCommand(o, on) =>
         \/ ~sock /\ o = "lost" /\ UNCHANGED catVars
         \/ /\ sock /\ sock' /\ o = "ok" /\ keyed' = on
            /\ since' = IF keyed' # keyed THEN 0 ELSE since
  BY <1>1, CommandsWork DEF TypeOK
<1> HIDE DEF Limit, Stopping, LongestHold
<1> USE DEF HoldInv, catVars, timerVars, txVars, wdVars
<1>7. CASE Send
  <2>1. cap' # 0
    BY <1>4, <1>7 DEF Send, SetHold, Holds
  <2> QED BY <1>3, <1>7, <2>1 DEF Send, SetHold
<1>8. CASE Scheduler
  <2>1. CASE StartBurst \/ BurstEnded \/ FrameTimesOut
    BY <1>2, <1>3, <2>1
       DEF StartBurst, BurstEnded, FrameTimesOut, NoBurst, BurstIsNoted,
           BurstInRelease
  <2>2. CASE PttOn
    <3>1. PICK o \in Outcomes : PttCommand(o, TRUE)
      BY <2>2 DEF PttOn
    <3>2. ~bursting /\ ~timed /\ ~keyed /\ sock
      BY <1>2, <2>2 DEF PttOn, BurstIsNoted, NoBurst, SocketHolds
    <3>3. keyed' = TRUE /\ since' = 0
      BY <1>3, <1>4, <1>6, <3>1, <3>2
    <3> QED BY <1>3, <1>4, <2>2, <3>2, <3>3 DEF PttOn
  <2>3. CASE MarkHeld
    <3>1. ~bursting /\ keyed /\ ~timed /\ wd \in {"wait", "poll"}
      BY <1>2, <2>3 DEF MarkHeld, BurstIsNoted, NoBurst
    <3> QED BY <1>3, <1>4, <2>3, <3>1 DEF MarkHeld
  <2>4. CASE StartFailed
    BY <1>2, <1>3, <2>4 DEF StartFailed, BurstIsNoted, NoBurst
  <2>5. CASE KickRead
    BY <1>3, <1>4, <2>5 DEF KickRead
  <2>6. CASE KickWrite
    BY <1>2, <1>3, <1>4, <2>6 DEF KickWrite, LiveBurst
  <2>7. CASE FrameDone
    BY <1>3, <2>7 DEF FrameDone
  <2> QED BY <1>1, <1>8, <2>1, <2>2, <2>3, <2>4, <2>5, <2>6, <2>7
          DEF Scheduler, SchedulerStops
<1>9. CASE Release
  <2>1. CASE Forget
    BY <1>2, <1>3, <2>1 DEF Forget, NoBurst, BurstIsNoted
  <2>2. CASE Unset
    BY <1>2, <1>3, <2>2 DEF Unset, BurstInRelease, NoBurst, BurstIsNoted
  <2>3. CASE PttOff
    <3>1. PICK o \in Outcomes : PttCommand(o, FALSE)
      BY <2>3 DEF PttOff
    <3>2. keyed' = FALSE /\ since' = 0
      BY <1>2, <1>3, <1>4, <1>6, <3>1 DEF SocketHolds
    <3>3. ~timed
      BY <1>2, <2>3 DEF PttOff, BurstInRelease, NoBurst, LiveBurst
    <3> QED BY <1>3, <2>3, <3>2, <3>3 DEF PttOff
  <2> QED BY <1>9, <2>1, <2>2, <2>3 DEF Release
<1>10. CASE Watchdog
  <2>1. CASE WatchdogPoll
    BY <1>1, <1>3, <1>4, <2>1 DEF WatchdogPoll, CatStopping, Stopping
  <2>2. CASE WatchdogCompare
    BY <1>3, <1>4, <1>5, <2>2 DEF WatchdogCompare
  <2> QED BY <1>10, <2>1, <2>2 DEF Watchdog
<1>11. CASE Reconnect \/ Retune
  <2>1. UNCHANGED <<keyed, since>>
    <3>1. CASE Connect
      <4>1. ~keyed
        BY <1>2, <1>4, <3>1 DEF SocketHolds, Connect
      <4>2. keyed' = FALSE
        BY <3>1, <4>1, Zenon DEF Connect
      <4> QED BY <1>4, <3>1, <4>1, <4>2 DEF Connect
    <3> QED BY <1>11, <3>1
            DEF Reconnect, CheckClient, Announce, Ask, Ping, Retune, Tune
  <2>2. UNCHANGED <<timerVars, txVars, wdVars>>
    BY <1>11
       DEF Reconnect, CheckClient, Connect, Announce, Ask, Ping, Retune, Tune
  <2> QED BY <1>3, <2>1, <2>2
<1>12. CASE Mishap
  BY <1>3, <1>12 DEF Mishap, Hang, Freeze, DropContext
<1>13. CASE Time
  <2>1. keyed => timed
    BY <1>2, <1>13
       DEF Time, Tick, NoBurst, BurstIsNoted, LiveBurst, BurstInRelease
  <2>2. wd = "wait" /\ wd' = "poll"
    BY <1>1, <1>13 DEF Time, Tick, CatStopping, Stopping
  <2>3. timed => held' = held + 1 /\ held + 1 <= LongestHold + 1
    BY <1>3, <1>4, <1>13, <2>2, OlderByOne DEF Time, Tick, LongestHold
  <2>4. keyed => since' <= since + 1
    BY <1>4, <1>13, OlderByOne DEF Time, Tick
  <2>5. ~keyed => since' = 0
    BY <1>13 DEF Time, Tick
  <2>6. /\ UNCHANGED <<keyed, timed, cap, bursting, seen>>
        /\ since' \in Nat
        /\ tx' \notin {"start", "on", "mark", "kicked"}
    BY <1>4, <1>13, OlderByOne DEF Time, Tick
  <2> QED BY <1>3, <1>4, <2>1, <2>2, <2>3, <2>4, <2>5, <2>6
<1>14. CASE UNCHANGED vars
  BY <1>3, <1>14 DEF vars
<1> QED
  BY <1>1, <1>7, <1>8, <1>9, <1>10, <1>11, <1>12, <1>13, <1>14, NoShutdown
     DEF Next

(* As long as commands work, the transmitter is never on for more than the *)
(* hold of the longest message (and the tick until the watchdog looks)     *)
(* after the last frame began, even if the scheduler thread hangs or has   *)
(* forgotten the burst.                                                    *)
THEOREM StuckBurstIsReleased == Spec => []StuckIsReleased
<1>1. Init => HoldInv
  BY HoldsAreBounded DEF Init, HoldInv, LongestHold
<1>2. TypeOK /\ HoldInv => StuckIsReleased
  BY HoldsAreBounded
     DEF TypeOK, RadioOK, HoldInv, Working, StuckIsReleased, LongestHold
<1>3. Init => TimerInv
  BY DEF Init, TimerInv, SocketHolds, BurstIsNoted, NoBurst, LiveBurst,
         BurstInRelease
<1> QED BY <1>1, <1>2, <1>3, TypeCorrect, TimerStep, HoldStep, PTL DEF Spec
===============================================================================
