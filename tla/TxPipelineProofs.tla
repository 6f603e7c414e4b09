--------------------------- MODULE TxPipelineProofs ---------------------------
(***************************************************************************)
(* Proofs about the transmit pipeline, for every value of its constants:   *)
(* first its types and who owns a message, then, from that, what becomes   *)
(* of a message, and that its life is the one MessageLifecycle promises.   *)
(***************************************************************************)
EXTENDS TxPipelineProps, FiniteSetTheorems, TLAPS

(* A part of TypeOK whose variables do not change stays true.              *)
LEMMA Frames ==
    /\ RowsOK /\ UNCHANGED rowVars => RowsOK'
    /\ WorkerOK /\ UNCHANGED <<cache, workVars>> => WorkerOK'
    /\ TickOK /\ UNCHANGED <<spc, tickVars, tickDue>> => TickOK'
    /\ BurstOK /\ UNCHANGED burstVars => BurstOK'
    /\ AppOK /\ UNCHANGED appVars => AppOK'
    /\ WorldOK /\ UNCHANGED <<airVars, faultVars>> => WorldOK'
    /\ HistoryOK /\ UNCHANGED histVars => HistoryOK'
BY DEF RowsOK, rowVars, WorkerOK, workVars, TickOK, tickVars, BurstOK,
       burstVars, AppOK, appVars, WorldOK, airVars, faultVars, HistoryOK,
       histVars

(* The initial state is well typed.                                        *)
LEMMA TypeInit == Init => TypeOK
<1> SUFFICES ASSUME Init PROVE TypeOK
  OBVIOUS
<1>1. RowsOK
  <2>1. (CHOOSE t \in Offers : TRUE) \in Offers
    BY TxAssumption
  <2> QED
    BY <2>1, TxAssumption DEF Init, RowsOK, States, Active, Terminal, Ids
<1>2. WorkerOK /\ TickOK /\ BurstOK
  BY DEF Init, WorkerOK, TickOK, BurstOK, IdOrNone, None, SchedulerSteps,
         WorkingSteps, Ids
<1>3. AppOK
  BY DEF Init, AppOK, IdOrNone, None, Threads
<1>4. WorldOK
  BY DEF Init, WorldOK
<1>5. HistoryOK
  BY DEF Init, HistoryOK, Ids
<1> QED
  BY <1>1, <1>2, <1>3, <1>4, <1>5 DEF TypeOK

(* Every action of the pipeline keeps the types: one step per action.      *)
LEMMA TypeStep == ASSUME TypeOK, [Next]_vars PROVE TypeOK'
<1> USE TxAssumption DEF TypeOK, Ids, None
<1>1. ASSUME NEW t \in Threads, EnqueueCount(t) PROVE TypeOK'
  <2>1. AppOK'
    BY <1>1 DEF EnqueueCount, BeginHandler, AppOK, appVars, Threads, IdOrNone
  <2> QED BY <1>1, <2>1, Frames DEF EnqueueCount, BeginHandler
<1>2. ASSUME NEW t \in Threads, NEW m \in Offers, EnqueueInsert(t, m) PROVE TypeOK'
  <2>1. RowsOK' /\ AppOK'
    BY <1>2 DEF EnqueueInsert, RowsOK, AppOK, rowVars, States, Active,
           Terminal, appVars, Threads, IdOrNone
  <2> QED BY <1>2, <2>1, Frames DEF EnqueueInsert
<1>3. ASSUME NEW c \in Calls, AckSelect(c) PROVE TypeOK'
  <2>1. AppOK'
    BY <1>3 DEF AckSelect, RowsIn, BeginHandler, RowsOK, AppOK, rowVars,
           States, Active, Terminal, appVars, Threads, IdOrNone
  <2>2. WorldOK'
    BY <1>3 DEF AckSelect, RowsIn, BeginHandler, WorldOK, airVars, faultVars
  <2>3. HistoryOK'
    BY <1>3 DEF AckSelect, RowsIn, BeginHandler, RowsOK, HistoryOK, rowVars,
           States, Active, Terminal, histVars
  <2> QED BY <1>3, <2>1, <2>2, <2>3, Frames DEF AckSelect, BeginHandler
<1>4. CASE AckCredit
  <2>1. RowsOK' /\ AppOK'
    BY <1>4 DEF AckCredit, RowsOK, AppOK, rowVars, States, Active, Terminal,
           appVars, Threads, IdOrNone
  <2> QED BY <1>4, <2>1, Frames DEF AckCredit
<1>5. CASE AckDiscard
  <2>1. WorkerOK' /\ AppOK'
    BY <1>5 DEF AckDiscard, WorkerOK, AppOK, workVars, IdOrNone, appVars,
           Threads
  <2> QED BY <1>5, <2>1, Frames DEF AckDiscard
<1>6. CASE WorkerPick
  <2>1. WorkerOK'
    BY <1>6 DEF WorkerPick, Oldest, RowsIn, WorkerOK, workVars, IdOrNone
  <2> QED BY <1>6, <2>1, Frames DEF WorkerPick
<1>7. CASE WorkerPut
  <2>1. WorkerOK'
    BY <1>7 DEF WorkerPut, WorkerOK, workVars, IdOrNone
  <2> QED BY <1>7, <2>1, Frames DEF WorkerPut
<1>8. CASE WorkerMark
  <2>1. RowsOK' /\ WorkerOK'
    BY <1>8 DEF WorkerMark, RowsOK, WorkerOK, rowVars, States, Active,
           Terminal, workVars, IdOrNone
  <2> QED BY <1>8, <2>1, Frames DEF WorkerMark
<1>9. CASE WorkerFail
  <2>1. RowsOK' /\ WorkerOK'
    BY <1>9 DEF WorkerFail, RowsOK, WorkerOK, rowVars, States, Active,
           Terminal, workVars, IdOrNone
  <2> QED BY <1>9, <2>1, Frames DEF WorkerFail
<1>10. CASE TickBegin
  <2>1. TickOK'
    BY <1>10 DEF TickBegin, RowsIn, TickOK, tickVars, SchedulerSteps,
           WorkingSteps, IdOrNone
  <2> QED BY <1>10, <2>1, Frames DEF TickBegin
<1>11. ASSUME NEW i \in Ids, SweepRow(i) PROVE TypeOK'
  <2>1. RowsOK' /\ WorkerOK' /\ TickOK'
    BY <1>11 DEF SweepRow, Settle, Requeue, RowsOK, WorkerOK, TickOK, rowVars,
           States, Active, Terminal, workVars, IdOrNone, tickVars,
           SchedulerSteps, WorkingSteps
  <2> QED BY <1>11, <2>1, Frames DEF SweepRow, Settle, Requeue
<1>12. CASE SweepDone
  <2>1. TickOK'
    BY <1>12 DEF SweepDone, TickOK, tickVars, SchedulerSteps, WorkingSteps,
           IdOrNone
  <2> QED BY <1>12, <2>1, Frames DEF SweepDone
<1>13. CASE BurstWatchdog
  <2>1. RowsOK' /\ WorkerOK' /\ BurstOK'
    BY <1>13 DEF BurstWatchdog, Overdue, Settle, EndBurst, RowsOK, WorkerOK,
           BurstOK, rowVars, States, Active, Terminal, workVars, IdOrNone,
           burstVars
  <2> QED BY <1>13, <2>1, Frames DEF BurstWatchdog, Settle, EndBurst
<1>14. CASE PickContinuation
  <2>1. TickOK'
    BY <1>14 DEF PickContinuation, TickOK, BurstOK, tickVars, SchedulerSteps,
           WorkingSteps, IdOrNone, burstVars
  <2> QED BY <1>14, <2>1, Frames DEF PickContinuation
<1>15. CASE DropContext
  <2>1. BurstOK'
    BY <1>15 DEF DropContext, BurstOK, burstVars, IdOrNone
  <2> QED BY <1>15, <2>1, Frames DEF DropContext
<1>16. CASE PickFresh
  <2>1. TickOK'
    BY <1>16 DEF PickFresh, TickOK, tickVars, SchedulerSteps, WorkingSteps,
           IdOrNone
  <2> QED BY <1>16, <2>1, Frames DEF PickFresh
<1>17. CASE PickNothing
  <2>1. TickOK'
    BY <1>17 DEF PickNothing, EndTick, TickOK, tickVars, SchedulerSteps,
           WorkingSteps, IdOrNone
  <2> QED BY <1>17, <2>1, Frames DEF PickNothing, EndTick
<1>18. CASE GateBlocks
  <2>1. TickOK'
    BY <1>18 DEF GateBlocks, EndTick, TickOK, tickVars, SchedulerSteps,
           WorkingSteps, IdOrNone
  <2> QED BY <1>18, <2>1, Frames DEF GateBlocks, EndTick
<1>19. CASE TakeCachedAudio
  <2>1. TickOK' /\ BurstOK'
    BY <1>19 DEF TakeCachedAudio, TickOK, BurstOK, tickVars, SchedulerSteps,
           WorkingSteps, IdOrNone, burstVars
  <2> QED BY <1>19, <2>1, Frames DEF TakeCachedAudio
<1>20. CASE EncodeInline
  <2>1. TickOK' /\ BurstOK'
    BY <1>20 DEF EncodeInline, TickOK, BurstOK, tickVars, SchedulerSteps,
           WorkingSteps, IdOrNone, burstVars
  <2> QED BY <1>20, <2>1, Frames DEF EncodeInline
<1>21. CASE EncodeFailedSending
  <2>1. RowsOK'
    BY <1>21 DEF EncodeFailedSending, MarkSending, RowsOK, TickOK, rowVars,
           States, Active, Terminal, WorkingSteps
  <2>2. TickOK'
    BY <1>21 DEF EncodeFailedSending, MarkSending, TickOK, tickVars,
           SchedulerSteps, WorkingSteps, IdOrNone
  <2> QED BY <1>21, <2>1, <2>2, Frames DEF EncodeFailedSending, MarkSending
<1>22. CASE EncodeFailedAbandon
  <2>1. RowsOK' /\ WorkerOK' /\ TickOK'
    BY <1>22 DEF EncodeFailedAbandon, Settle, EndTick, RowsOK, WorkerOK, TickOK,
           rowVars, States, Active, Terminal, workVars, IdOrNone, tickVars,
           SchedulerSteps, WorkingSteps
  <2> QED BY <1>22, <2>1, Frames DEF EncodeFailedAbandon, Settle, EndTick
<1>23. CASE StartBurstRaises
  <2>1. TickOK' /\ BurstOK'
    BY <1>23 DEF StartBurstRaises, EndTick, TickOK, BurstOK, tickVars,
           SchedulerSteps, WorkingSteps, IdOrNone, burstVars
  <2> QED BY <1>23, <2>1, Frames DEF StartBurstRaises, EndTick
<1>24. CASE StartBurst
  <2>1. TickOK' /\ BurstOK'
    BY <1>24 DEF StartBurst, TickOK, BurstOK, tickVars, SchedulerSteps,
           WorkingSteps, IdOrNone, burstVars
  <2> QED BY <1>24, <2>1, Frames DEF StartBurst
<1>25. CASE StartBurstFails
  <2>1. RowsOK'
    BY <1>25 DEF StartBurstFails, MarkSending, RowsOK, TickOK, rowVars, States,
           Active, Terminal, tickVars, SchedulerSteps, WorkingSteps, IdOrNone
  <2>2. TickOK'
    BY <1>25 DEF StartBurstFails, MarkSending, TickOK, tickVars,
           SchedulerSteps, WorkingSteps, IdOrNone
  <2>3. BurstOK'
    BY <1>25 DEF StartBurstFails, MarkSending, BurstOK, burstVars, IdOrNone
  <2> QED BY <1>25, <2>1, <2>2, <2>3, Frames DEF StartBurstFails, MarkSending
<1>26. CASE BurstMarkSending
  <2>1. RowsOK' /\ TickOK'
    BY <1>26 DEF BurstMarkSending, MarkSending, RowsOK, TickOK, rowVars,
           States, Active, Terminal, tickVars, SchedulerSteps, WorkingSteps,
           IdOrNone
  <2> QED BY <1>26, <2>1, Frames DEF BurstMarkSending, MarkSending
<1>27. CASE FrameSent
  <2>1. TickOK'
    BY <1>27 DEF FrameSent, CountAiring, EndTick, TickOK, tickVars,
           SchedulerSteps, WorkingSteps, IdOrNone
  <2>2. BurstOK'
    BY <1>27 DEF FrameSent, CountAiring, EndTick, BurstOK, burstVars, IdOrNone
  <2>3. HistoryOK'
    BY <1>27 DEF FrameSent, CountAiring, EndTick, TickOK, HistoryOK, tickVars,
           SchedulerSteps, WorkingSteps, IdOrNone, histVars
  <2> QED BY <1>27, <2>1, <2>2, <2>3, Frames DEF FrameSent, CountAiring,
         EndTick
<1>28. CASE LastFrameSent
  <2>1. TickOK'
    BY <1>28 DEF LastFrameSent, CountAiring, EndBurst, TickOK, tickVars,
           SchedulerSteps, WorkingSteps, IdOrNone
  <2>2. BurstOK'
    BY <1>28 DEF LastFrameSent, CountAiring, EndBurst, BurstOK, burstVars,
           IdOrNone
  <2>3. WorldOK'
    BY <1>28 DEF LastFrameSent, CountAiring, EndBurst, WorldOK, airVars,
           faultVars
  <2>4. HistoryOK'
    BY <1>28 DEF LastFrameSent, CountAiring, EndBurst, TickOK, HistoryOK,
           tickVars, SchedulerSteps, WorkingSteps, IdOrNone, histVars
  <2> QED BY <1>28, <2>1, <2>2, <2>3, <2>4, Frames DEF LastFrameSent,
         CountAiring, EndBurst
<1>29. CASE FrameFails
  <2>1. TickOK'
    BY <1>29 DEF FrameFails, CountAiring, EndBurst, TickOK, tickVars,
           SchedulerSteps, WorkingSteps, IdOrNone
  <2>2. BurstOK'
    BY <1>29 DEF FrameFails, CountAiring, EndBurst, BurstOK, burstVars,
           IdOrNone
  <2>3. HistoryOK'
    BY <1>29 DEF FrameFails, CountAiring, EndBurst, TickOK, HistoryOK,
           tickVars, SchedulerSteps, WorkingSteps, IdOrNone, histVars
  <2> QED BY <1>29, <2>1, <2>2, <2>3, Frames DEF FrameFails, CountAiring,
         EndBurst
<1>30. CASE Finalize
  <2>1. RowsOK' /\ WorkerOK' /\ TickOK'
    BY <1>30 DEF Finalize, AfterSending, Settle, EndTick, RowsOK, WorkerOK,
           TickOK, rowVars, States, Active, Terminal, workVars, IdOrNone,
           tickVars, SchedulerSteps, WorkingSteps
  <2> QED BY <1>30, <2>1, Frames DEF Finalize, AfterSending, Settle, EndTick
<1>31. CASE FailMessage
  <2>1. RowsOK' /\ WorkerOK' /\ TickOK'
    BY <1>31 DEF FailMessage, Settle, Requeue, EndTick, RowsOK, WorkerOK,
           TickOK, rowVars, States, Active, Terminal, workVars, IdOrNone,
           tickVars, SchedulerSteps, WorkingSteps
  <2> QED BY <1>31, <2>1, Frames DEF FailMessage, Settle, Requeue, EndTick
<1>32. CASE TickRaises
  <2>1. TickOK' /\ WorldOK'
    BY <1>32 DEF TickRaises, EndTick, TickOK, WorldOK, tickVars,
           SchedulerSteps, WorkingSteps, IdOrNone, airVars, faultVars
  <2> QED BY <1>32, <2>1, Frames DEF TickRaises, EndTick
<1>33. CASE WatchdogAbandonRaises
  <2>1. WorkerOK'
    BY <1>33 DEF WatchdogAbandonRaises, WorkerOK, workVars, IdOrNone
  <2>2. BurstOK'
    BY <1>33 DEF WatchdogAbandonRaises, EndBurst, BurstOK, IdOrNone
  <2>3. WorldOK'
    BY <1>33 DEF WatchdogAbandonRaises, WorldOK, airVars
  <2> QED BY <1>33, <2>1, <2>2, <2>3, Frames DEF WatchdogAbandonRaises
<1>34. CASE Purge
  <2>1. RowsOK' /\ TickOK'
    BY <1>34 DEF Purge, RowsOK, TickOK, rowVars, States, Active, Terminal,
           tickVars, SchedulerSteps, WorkingSteps, IdOrNone
  <2> QED BY <1>34, <2>1, Frames DEF Purge
<1>35. CASE Reset
  <2>1. RowsOK' /\ TickOK'
    BY <1>35 DEF Reset, RowsOK, TickOK, rowVars, States, Active, Terminal,
           tickVars, SchedulerSteps, WorkingSteps, IdOrNone
  <2> QED BY <1>35, <2>1, Frames DEF Reset
<1>36. CASE AbandonStale
  <2>1. RowsOK' /\ TickOK'
    BY <1>36 DEF AbandonStale, RowsOK, TickOK, rowVars, States, Active,
           Terminal, tickVars, SchedulerSteps, WorkingSteps, IdOrNone
  <2> QED BY <1>36, <2>1, Frames DEF AbandonStale
<1>37. CASE Crash
  <2>1. WorkerOK'
    BY <1>37 DEF Crash, RowsIn, WorkerOK, workVars, IdOrNone
  <2>2. TickOK'
    BY <1>37 DEF Crash, RowsIn, TickOK, tickVars, SchedulerSteps, WorkingSteps,
           IdOrNone
  <2>3. BurstOK'
    BY <1>37 DEF Crash, RowsIn, BurstOK, burstVars, IdOrNone
  <2>4. AppOK'
    BY <1>37 DEF Crash, RowsIn, RowsOK, AppOK, rowVars, States, Active,
           Terminal, appVars, Threads, IdOrNone
  <2>5. WorldOK'
    BY <1>37 DEF Crash, RowsIn, WorldOK, airVars, faultVars
  <2>6. HistoryOK'
    BY <1>37 DEF Crash, RowsIn, RowsOK, HistoryOK, rowVars, States, Active,
           Terminal, histVars
  <2> QED BY <1>37, <2>1, <2>2, <2>3, <2>4, <2>5, <2>6, Frames DEF Crash
<1>38. CASE NextSlot
  <2>1. RowsOK' /\ TickOK' /\ AppOK'
    BY <1>38 DEF NextSlot, Older, RowsOK, TickOK, BurstOK, AppOK, rowVars,
           States, Active, Terminal, tickVars, SchedulerSteps, WorkingSteps,
           IdOrNone, burstVars, appVars, Threads
  <2> QED BY <1>38, <2>1, Frames DEF NextSlot
<1>39. CASE ClockStep
  <2>1. RowsOK' /\ WorldOK'
    BY <1>39 DEF ClockStep, Older, RowsOK, WorldOK, rowVars, States, Active,
           Terminal, airVars, faultVars
  <2> QED BY <1>39, <2>1, Frames DEF ClockStep
<1>40. CASE GateChanges
  <2>1. WorldOK'
    BY <1>40 DEF GateChanges, WorldOK, airVars, faultVars
  <2> QED BY <1>40, <2>1, Frames DEF GateChanges
<1>41. ASSUME NEW c \in Calls, AckLost(c) PROVE TypeOK'
  <2>1. WorldOK'
    BY <1>41 DEF AckLost, WorldOK, airVars, faultVars
  <2> QED BY <1>41, <2>1, Frames DEF AckLost
<1>42. CASE UNCHANGED vars
  BY <1>42, Frames DEF vars
<1> QED
  BY <1>1, <1>2, <1>3, <1>4, <1>5, <1>6, <1>7, <1>8, <1>9, <1>10, <1>11,
     <1>12, <1>13, <1>14, <1>15, <1>16, <1>17, <1>18, <1>19, <1>20, <1>21,
     <1>22, <1>23, <1>24, <1>25, <1>26, <1>27, <1>28, <1>29, <1>30, <1>31,
     <1>32, <1>33, <1>34, <1>35, <1>36, <1>37, <1>38, <1>39, <1>40, <1>41,
     <1>42
     DEF Next, Enqueue, AckPath, Worker, Tick, Pick, Transmit, Boot, World

(* Every reachable state is well typed.                                    *)
THEOREM TypeCorrect == Spec => []TypeOK
BY TypeInit, TypeStep, PTL DEF Spec

-------------------------------------------------------------------------------
(* The inductive invariant behind the safety theorems, part by part.       *)

(* Row ids are handed out in order: nothing refers to a row that was never *)
(* inserted, and such a row has counted nothing.                           *)
IdsBelow ==
    /\ \A i \in Ids : i >= nextId =>
          state[i] = "absent" /\ attempts[i] = 0 /\ aired[i] = 0
    /\ wid < nextId /\ sid < nextId /\ mfId < nextId /\ ackId < nextId
    /\ \A i \in due : i < nextId

(* The scheduler holds a context from StartBurst to EndBurst and never two; *)
(* the row it transmits is the row of the context.                         *)
OneContext ==
    /\ spc \in {"gate", "key", "encodeFailed"} => mfId = None
    /\ spc \in {"keyed", "tx"} => sid = mfId

(* A row that may still be picked has an attempt left, and an attempt that *)
(* was counted is ahead of the transmission it stands for.                 *)
Budget ==
    /\ AttemptsBounded
    /\ \A i \in RowsIn({"ENCODING", "QUEUED"}) : attempts[i] < MaxAttempts
    /\ spc \in {"gate", "key", "encodeFailed", "keyed"} =>
          attempts[sid] < MaxAttempts /\ state[sid] # "SENDING"
    /\ spc = "tx" /\ mfNext = 0 => aired[sid] < attempts[sid]
    /\ mfId # None /\ mfNext = 0 /\ state[mfId] = "SENDING" =>
          aired[mfId] < attempts[mfId]

(* A row is ENCODING from its insertion until the worker has done with it: *)
(* whoever else remembers a row remembers one past that.                   *)
Encoded(i) == state[i] \notin {"ENCODING", "absent"}
WorkerOwns ==
    /\ wpc # "idle" => state[wid] = "ENCODING"
    /\ spc \in WorkingSteps => Encoded(sid)
    /\ \A i \in due : Encoded(i)
    /\ tpc[App] = "credit" => Encoded(ackId)
    /\ mfId # None => Encoded(mfId)
    /\ ~Up => wpc = "idle" /\ due = {} /\ tpc[App] = "idle" /\ mfId = None

Inductive == IdsBelow /\ OneContext /\ Budget /\ WorkerOwns /\ SendingIsOwned

(* A part of it whose variables do not change stays true.                  *)
LEMMA InvFrames ==
    /\ IdsBelow /\ UNCHANGED <<state, attempts, aired, nextId, wid, sid, mfId,
                                ackId, due>> => IdsBelow'
    /\ OneContext /\ UNCHANGED <<spc, mfId, sid>> => OneContext'
    /\ Budget /\ UNCHANGED <<aired, attempts, state, spc, sid, mfNext, mfId>>
          => Budget'
    /\ WorkerOwns /\ UNCHANGED <<wpc, wid, state, spc, sid, due, tpc, ackId,
                                  mfId>> => WorkerOwns'
    /\ SendingIsOwned /\ UNCHANGED <<errors, state, mfId, sid, spc>>
          => SendingIsOwned'
BY DEF IdsBelow, OneContext, Budget, AttemptsBounded, RowsIn, WorkerOwns,
       Encoded, Up, SendingIsOwned

(* The inductive invariant holds initially: the table is empty.            *)
LEMMA InductiveInit == Init => Inductive
BY TxAssumption DEF Init, Inductive, IdsBelow, OneContext, Budget,
   AttemptsBounded, RowsIn, WorkerOwns, Encoded, Up, SendingIsOwned, Ids, None,
   Threads, WorkingSteps

(* Every action preserves the inductive invariant.                         *)
LEMMA InductiveStep ==
    ASSUME TypeOK, Inductive, [Next]_vars
    PROVE  Inductive'
<1>1. /\ state \in [Ids -> States]
      /\ attempts \in [Ids -> Nat] /\ aired \in [Ids -> Nat]
      /\ nextId \in Nat /\ errors \in Nat
      /\ wid \in Nat /\ (wpc # "idle" => wid \in Ids)
      /\ sid \in Nat /\ (spc \in WorkingSteps => sid \in Ids)
      /\ mfId \in IdOrNone /\ mfNext \in Nat
      /\ ackId \in Nat /\ (tpc[App] \in {"credit", "discard"} => ackId \in Ids)
      /\ tpc \in [Threads -> {"idle", "insert", "credit", "discard"}]
      /\ due \subseteq Ids
  BY TxAssumption DEF TypeOK, RowsOK, WorkerOK, TickOK, BurstOK, AppOK, WorldOK,
     HistoryOK, IdOrNone, Ids, None
<1> USE TxAssumption, <1>1
    DEF Inductive, Ids, None, IdOrNone, WorkingSteps, rowVars, workVars,
        tickVars, burstVars, appVars, airVars, faultVars, histVars
<1>2. ASSUME NEW t \in Threads, EnqueueCount(t) PROVE Inductive'
  <2>1. WorkerOwns'
    BY <1>2 DEF EnqueueCount, BeginHandler, IdsBelow, OneContext, WorkerOwns,
           Encoded, Up, RowsIn
  <2> QED BY <1>2, <2>1, InvFrames DEF EnqueueCount, BeginHandler
<1>3. ASSUME NEW t \in Threads, NEW m \in Offers, EnqueueInsert(t, m) PROVE Inductive'
  <2>1. IdsBelow'
    BY <1>3 DEF EnqueueInsert, IdsBelow
  <2>2. Budget'
    BY <1>3 DEF EnqueueInsert, IdsBelow, OneContext, Budget, AttemptsBounded,
           RowsIn
  <2>3. WorkerOwns'
    BY <1>3 DEF EnqueueInsert, IdsBelow, OneContext, WorkerOwns, Encoded, Up,
           RowsIn, Threads
  <2>4. SendingIsOwned'
    BY <1>3 DEF EnqueueInsert, OneContext, SendingIsOwned, RowsIn
  <2> QED BY <1>3, <2>1, <2>2, <2>3, <2>4, InvFrames DEF EnqueueInsert
<1>4. ASSUME NEW c \in Calls, AckSelect(c) PROVE Inductive'
  <2>1. IdsBelow'
    BY <1>4 DEF AckSelect, RowsIn, BeginHandler, IdsBelow
  <2>2. WorkerOwns'
    BY <1>4 DEF AckSelect, RowsIn, BeginHandler, IdsBelow, OneContext,
           WorkerOwns, Encoded, Up
  <2> QED BY <1>4, <2>1, <2>2, InvFrames DEF AckSelect, BeginHandler
<1>5. CASE AckCredit
  <2>1. IdsBelow'
    BY <1>5 DEF AckCredit, IdsBelow
  <2>2. Budget'
    BY <1>5 DEF AckCredit, IdsBelow, OneContext, Budget, AttemptsBounded,
           RowsIn
  <2>3. WorkerOwns'
    BY <1>5 DEF AckCredit, IdsBelow, OneContext, WorkerOwns, Encoded, Up,
           RowsIn
  <2>4. SendingIsOwned'
    BY <1>5 DEF AckCredit, OneContext, SendingIsOwned, RowsIn
  <2> QED BY <1>5, <2>1, <2>2, <2>3, <2>4, InvFrames DEF AckCredit
<1>6. CASE AckDiscard
  <2>1. IdsBelow'
    BY <1>6 DEF AckDiscard, IdsBelow
  <2>2. WorkerOwns'
    BY <1>6 DEF AckDiscard, IdsBelow, OneContext, WorkerOwns, Encoded, Up,
           RowsIn
  <2> QED BY <1>6, <2>1, <2>2, InvFrames DEF AckDiscard
<1>7. CASE WorkerPick
  <2>1. IdsBelow'
    BY <1>7 DEF WorkerPick, Oldest, RowsIn, IdsBelow
  <2>2. WorkerOwns'
    BY <1>7 DEF WorkerPick, Oldest, RowsIn, IdsBelow, OneContext, WorkerOwns,
           Encoded, Up
  <2> QED BY <1>7, <2>1, <2>2, InvFrames DEF WorkerPick
<1>8. CASE WorkerPut
  <2>1. WorkerOwns'
    BY <1>8 DEF WorkerPut, IdsBelow, OneContext, WorkerOwns, Encoded, Up,
           RowsIn
  <2> QED BY <1>8, <2>1, InvFrames DEF WorkerPut
<1>9. CASE WorkerMark
  <2>1. IdsBelow'
    BY <1>9 DEF WorkerMark, IdsBelow
  <2>2. Budget'
    BY <1>9 DEF WorkerMark, IdsBelow, OneContext, Budget, AttemptsBounded,
           RowsIn
  <2>3. WorkerOwns'
    BY <1>9 DEF WorkerMark, IdsBelow, OneContext, WorkerOwns, Encoded, Up,
           RowsIn
  <2>4. SendingIsOwned'
    BY <1>9 DEF WorkerMark, OneContext, SendingIsOwned, RowsIn
  <2> QED BY <1>9, <2>1, <2>2, <2>3, <2>4, InvFrames DEF WorkerMark
<1>10. CASE WorkerFail
  <2>1. IdsBelow'
    BY <1>10 DEF WorkerFail, IdsBelow
  <2>2. Budget'
    BY <1>10 DEF WorkerFail, IdsBelow, OneContext, Budget, AttemptsBounded,
           RowsIn
  <2>3. WorkerOwns'
    BY <1>10 DEF WorkerFail, IdsBelow, OneContext, WorkerOwns, Encoded, Up,
           RowsIn
  <2>4. SendingIsOwned'
    BY <1>10 DEF WorkerFail, OneContext, SendingIsOwned, RowsIn
  <2> QED BY <1>10, <2>1, <2>2, <2>3, <2>4, InvFrames DEF WorkerFail
<1>11. CASE TickBegin
  <2>1. IdsBelow'
    BY <1>11 DEF TickBegin, RowsIn, IdsBelow
  <2>2. OneContext'
    BY <1>11 DEF TickBegin, RowsIn, OneContext
  <2>3. Budget'
    BY <1>11 DEF TickBegin, RowsIn, IdsBelow, OneContext, Budget,
           AttemptsBounded
  <2>4. WorkerOwns'
    BY <1>11 DEF TickBegin, RowsIn, IdsBelow, OneContext, WorkerOwns, Encoded,
           Up
  <2>5. SendingIsOwned'
    BY <1>11 DEF TickBegin, RowsIn, OneContext, SendingIsOwned
  <2> QED BY <1>11, <2>1, <2>2, <2>3, <2>4, <2>5, InvFrames DEF TickBegin
<1>12. ASSUME NEW i \in Ids, SweepRow(i) PROVE Inductive'
  <2>1. IdsBelow'
    BY <1>12 DEF SweepRow, Settle, Requeue, IdsBelow, Oldest
  <2>2. Budget'
    BY <1>12 DEF SweepRow, Settle, Requeue, IdsBelow, OneContext, Budget,
           AttemptsBounded, RowsIn, Exhausted, Oldest
  <2>3. WorkerOwns'
    BY <1>12 DEF SweepRow, Settle, Requeue, IdsBelow, OneContext, WorkerOwns,
           Encoded, Up, RowsIn, Oldest
  <2>4. SendingIsOwned'
    BY <1>12 DEF SweepRow, Settle, Requeue, OneContext, SendingIsOwned, RowsIn,
           Oldest
  <2> QED BY <1>12, <2>1, <2>2, <2>3, <2>4, InvFrames DEF SweepRow, Settle,
         Requeue
<1>13. CASE SweepDone
  <2>1. OneContext'
    BY <1>13 DEF SweepDone, OneContext
  <2>2. Budget'
    BY <1>13 DEF SweepDone, IdsBelow, OneContext, Budget, AttemptsBounded,
           RowsIn
  <2>3. WorkerOwns'
    BY <1>13 DEF SweepDone, IdsBelow, OneContext, WorkerOwns, Encoded, Up,
           RowsIn
  <2>4. SendingIsOwned'
    BY <1>13 DEF SweepDone, OneContext, SendingIsOwned, RowsIn
  <2> QED BY <1>13, <2>1, <2>2, <2>3, <2>4, InvFrames DEF SweepDone
<1>14. CASE BurstWatchdog
  <2>1. IdsBelow'
    BY <1>14 DEF BurstWatchdog, Overdue, Settle, EndBurst, IdsBelow
  <2>2. OneContext'
    BY <1>14 DEF BurstWatchdog, Overdue, Settle, EndBurst, OneContext
  <2>3. Budget'
    BY <1>14 DEF BurstWatchdog, Overdue, Settle, EndBurst, IdsBelow,
           OneContext, Budget, AttemptsBounded, RowsIn
  <2>4. WorkerOwns'
    BY <1>14 DEF BurstWatchdog, Overdue, Settle, EndBurst, IdsBelow,
           OneContext, WorkerOwns, Encoded, Up, RowsIn
  <2>5. SendingIsOwned'
    BY <1>14 DEF BurstWatchdog, Overdue, Settle, EndBurst, OneContext,
           SendingIsOwned, RowsIn
  <2> QED BY <1>14, <2>1, <2>2, <2>3, <2>4, <2>5, InvFrames DEF BurstWatchdog,
         Settle, EndBurst
<1>15. CASE PickContinuation
  <2>1. IdsBelow'
    BY <1>15 DEF PickContinuation, IdsBelow
  <2>2. OneContext'
    BY <1>15 DEF PickContinuation, OneContext
  <2>3. Budget'
    BY <1>15 DEF PickContinuation, IdsBelow, OneContext, Budget,
           AttemptsBounded, RowsIn
  <2>4. WorkerOwns'
    BY <1>15 DEF PickContinuation, IdsBelow, OneContext, WorkerOwns, Encoded,
           Up, RowsIn
  <2>5. SendingIsOwned'
    BY <1>15 DEF PickContinuation, OneContext, SendingIsOwned, RowsIn
  <2> QED BY <1>15, <2>1, <2>2, <2>3, <2>4, <2>5, InvFrames DEF
         PickContinuation
<1>16. CASE DropContext
  <2>1. IdsBelow'
    BY <1>16 DEF DropContext, IdsBelow
  <2>2. OneContext'
    BY <1>16 DEF DropContext, OneContext
  <2>3. Budget'
    BY <1>16 DEF DropContext, IdsBelow, OneContext, Budget, AttemptsBounded,
           RowsIn
  <2>4. WorkerOwns'
    BY <1>16 DEF DropContext, IdsBelow, OneContext, WorkerOwns, Encoded, Up,
           RowsIn
  <2>5. SendingIsOwned'
    BY <1>16 DEF DropContext, OneContext, SendingIsOwned, RowsIn
  <2> QED BY <1>16, <2>1, <2>2, <2>3, <2>4, <2>5, InvFrames DEF DropContext
<1>17. CASE PickFresh
  <2>1. IdsBelow'
    BY <1>17 DEF PickFresh, IdsBelow, Oldest, Sendable, RowsIn
  <2>2. OneContext'
    BY <1>17 DEF PickFresh, OneContext, Oldest, Sendable, RowsIn
  <2>3. Budget'
    BY <1>17 DEF PickFresh, IdsBelow, OneContext, Budget, AttemptsBounded,
           RowsIn, Oldest, Sendable
  <2>4. WorkerOwns'
    BY <1>17 DEF PickFresh, IdsBelow, OneContext, WorkerOwns, Encoded, Up,
           RowsIn, Oldest, Sendable
  <2>5. SendingIsOwned'
    BY <1>17 DEF PickFresh, OneContext, SendingIsOwned, RowsIn, Oldest,
           Sendable
  <2> QED BY <1>17, <2>1, <2>2, <2>3, <2>4, <2>5, InvFrames DEF PickFresh
<1>18. CASE PickNothing
  <2>1. IdsBelow'
    BY <1>18 DEF PickNothing, EndTick, IdsBelow
  <2>2. OneContext'
    BY <1>18 DEF PickNothing, EndTick, OneContext
  <2>3. Budget'
    BY <1>18 DEF PickNothing, EndTick, IdsBelow, OneContext, Budget,
           AttemptsBounded, RowsIn
  <2>4. WorkerOwns'
    BY <1>18 DEF PickNothing, EndTick, IdsBelow, OneContext, WorkerOwns,
           Encoded, Up, RowsIn
  <2>5. SendingIsOwned'
    BY <1>18 DEF PickNothing, EndTick, OneContext, SendingIsOwned, RowsIn
  <2> QED BY <1>18, <2>1, <2>2, <2>3, <2>4, <2>5, InvFrames DEF PickNothing,
         EndTick
<1>19. CASE GateBlocks
  <2>1. IdsBelow'
    BY <1>19 DEF GateBlocks, EndTick, IdsBelow
  <2>2. OneContext'
    BY <1>19 DEF GateBlocks, EndTick, OneContext
  <2>3. Budget'
    BY <1>19 DEF GateBlocks, EndTick, IdsBelow, OneContext, Budget,
           AttemptsBounded, RowsIn
  <2>4. WorkerOwns'
    BY <1>19 DEF GateBlocks, EndTick, IdsBelow, OneContext, WorkerOwns,
           Encoded, Up, RowsIn
  <2>5. SendingIsOwned'
    BY <1>19 DEF GateBlocks, EndTick, OneContext, SendingIsOwned, RowsIn
  <2> QED BY <1>19, <2>1, <2>2, <2>3, <2>4, <2>5, InvFrames DEF GateBlocks,
         EndTick
<1>20. CASE TakeCachedAudio
  <2>1. OneContext'
    BY <1>20 DEF TakeCachedAudio, OneContext
  <2>2. Budget'
    BY <1>20 DEF TakeCachedAudio, IdsBelow, OneContext, Budget,
           AttemptsBounded, RowsIn
  <2>3. WorkerOwns'
    BY <1>20 DEF TakeCachedAudio, IdsBelow, OneContext, WorkerOwns, Encoded,
           Up, RowsIn
  <2>4. SendingIsOwned'
    BY <1>20 DEF TakeCachedAudio, OneContext, SendingIsOwned, RowsIn
  <2> QED BY <1>20, <2>1, <2>2, <2>3, <2>4, InvFrames DEF TakeCachedAudio
<1>21. CASE EncodeInline
  <2>1. OneContext'
    BY <1>21 DEF EncodeInline, OneContext
  <2>2. Budget'
    BY <1>21 DEF EncodeInline, IdsBelow, OneContext, Budget, AttemptsBounded,
           RowsIn
  <2>3. WorkerOwns'
    BY <1>21 DEF EncodeInline, IdsBelow, OneContext, WorkerOwns, Encoded, Up,
           RowsIn
  <2>4. SendingIsOwned'
    BY <1>21 DEF EncodeInline, OneContext, SendingIsOwned, RowsIn
  <2> QED BY <1>21, <2>1, <2>2, <2>3, <2>4, InvFrames DEF EncodeInline
<1>22. CASE EncodeFailedSending
  <2>1. IdsBelow'
    BY <1>22 DEF EncodeFailedSending, MarkSending, IdsBelow
  <2>2. OneContext'
    BY <1>22 DEF EncodeFailedSending, MarkSending, OneContext
  <2>3. Budget'
    BY <1>22 DEF EncodeFailedSending, MarkSending, IdsBelow, OneContext,
           Budget, AttemptsBounded, RowsIn
  <2>4. WorkerOwns'
    BY <1>22 DEF EncodeFailedSending, MarkSending, IdsBelow, OneContext,
           WorkerOwns, Encoded, Up, RowsIn
  <2>5. SendingIsOwned'
    BY <1>22 DEF EncodeFailedSending, MarkSending, OneContext, SendingIsOwned,
           RowsIn
  <2> QED BY <1>22, <2>1, <2>2, <2>3, <2>4, <2>5, InvFrames DEF
         EncodeFailedSending, MarkSending
<1>23. CASE EncodeFailedAbandon
  <2>1. IdsBelow'
    BY <1>23 DEF EncodeFailedAbandon, Settle, EndTick, IdsBelow
  <2>2. OneContext'
    BY <1>23 DEF EncodeFailedAbandon, Settle, EndTick, OneContext
  <2>3. Budget'
    BY <1>23 DEF EncodeFailedAbandon, Settle, EndTick, IdsBelow, OneContext,
           Budget, AttemptsBounded, RowsIn
  <2>4. WorkerOwns'
    BY <1>23 DEF EncodeFailedAbandon, Settle, EndTick, IdsBelow, OneContext,
           WorkerOwns, Encoded, Up, RowsIn
  <2>5. SendingIsOwned'
    BY <1>23 DEF EncodeFailedAbandon, Settle, EndTick, OneContext, SendingIsOwned,
           RowsIn
  <2> QED BY <1>23, <2>1, <2>2, <2>3, <2>4, <2>5, InvFrames DEF
         EncodeFailedAbandon, Settle, EndTick
<1>24. CASE StartBurstRaises
  <2>1. IdsBelow'
    BY <1>24 DEF StartBurstRaises, EndTick, IdsBelow
  <2>2. OneContext'
    BY <1>24 DEF StartBurstRaises, EndTick, OneContext
  <2>3. Budget'
    BY <1>24 DEF StartBurstRaises, EndTick, IdsBelow, OneContext, Budget,
           AttemptsBounded, RowsIn
  <2>4. WorkerOwns'
    BY <1>24 DEF StartBurstRaises, EndTick, IdsBelow, OneContext, WorkerOwns,
           Encoded, Up, RowsIn
  <2>5. SendingIsOwned'
    BY <1>24 DEF StartBurstRaises, EndTick, OneContext, SendingIsOwned, RowsIn
  <2> QED BY <1>24, <2>1, <2>2, <2>3, <2>4, <2>5, InvFrames DEF
         StartBurstRaises, EndTick
<1>25. CASE StartBurst
  <2>1. IdsBelow'
    BY <1>25 DEF StartBurst, IdsBelow
  <2>2. OneContext'
    BY <1>25 DEF StartBurst, OneContext
  <2>3. Budget'
    BY <1>25 DEF StartBurst, IdsBelow, OneContext, Budget, AttemptsBounded,
           RowsIn
  <2>4. WorkerOwns'
    BY <1>25 DEF StartBurst, IdsBelow, OneContext, WorkerOwns, Encoded, Up,
           RowsIn
  <2>5. SendingIsOwned'
    BY <1>25 DEF StartBurst, OneContext, SendingIsOwned, RowsIn
  <2> QED BY <1>25, <2>1, <2>2, <2>3, <2>4, <2>5, InvFrames DEF StartBurst
<1>26. CASE StartBurstFails
  <2>1. IdsBelow'
    BY <1>26 DEF StartBurstFails, MarkSending, IdsBelow
  <2>2. OneContext'
    BY <1>26 DEF StartBurstFails, MarkSending, OneContext
  <2>3. Budget'
    BY <1>26 DEF StartBurstFails, MarkSending, IdsBelow, OneContext, Budget,
           AttemptsBounded, RowsIn
  <2>4. WorkerOwns'
    BY <1>26 DEF StartBurstFails, MarkSending, IdsBelow, OneContext,
           WorkerOwns, Encoded, Up, RowsIn
  <2>5. SendingIsOwned'
    BY <1>26 DEF StartBurstFails, MarkSending, OneContext, SendingIsOwned,
           RowsIn
  <2> QED BY <1>26, <2>1, <2>2, <2>3, <2>4, <2>5, InvFrames DEF
         StartBurstFails, MarkSending
<1>27. CASE BurstMarkSending
  <2>1. IdsBelow'
    BY <1>27 DEF BurstMarkSending, MarkSending, IdsBelow
  <2>2. OneContext'
    BY <1>27 DEF BurstMarkSending, MarkSending, OneContext
  <2>3. Budget'
    BY <1>27 DEF BurstMarkSending, MarkSending, IdsBelow, OneContext, Budget,
           AttemptsBounded, RowsIn
  <2>4. WorkerOwns'
    BY <1>27 DEF BurstMarkSending, MarkSending, IdsBelow, OneContext,
           WorkerOwns, Encoded, Up, RowsIn
  <2>5. SendingIsOwned'
    BY <1>27 DEF BurstMarkSending, MarkSending, OneContext, SendingIsOwned,
           RowsIn
  <2> QED BY <1>27, <2>1, <2>2, <2>3, <2>4, <2>5, InvFrames DEF
         BurstMarkSending, MarkSending
<1>28. CASE FrameSent
  <2>1. IdsBelow'
    BY <1>28 DEF FrameSent, CountAiring, EndTick, IdsBelow
  <2>2. OneContext'
    BY <1>28 DEF FrameSent, CountAiring, EndTick, OneContext
  <2>3. Budget'
    BY <1>28 DEF FrameSent, CountAiring, EndTick, IdsBelow, OneContext, Budget,
           AttemptsBounded, RowsIn
  <2>4. WorkerOwns'
    BY <1>28 DEF FrameSent, CountAiring, EndTick, IdsBelow, OneContext,
           WorkerOwns, Encoded, Up, RowsIn
  <2>5. SendingIsOwned'
    BY <1>28 DEF FrameSent, CountAiring, EndTick, OneContext, SendingIsOwned,
           RowsIn
  <2> QED BY <1>28, <2>1, <2>2, <2>3, <2>4, <2>5, InvFrames DEF FrameSent,
         CountAiring, EndTick
<1>29. CASE LastFrameSent
  <2>1. IdsBelow'
    <3>1. /\ UNCHANGED <<rowVars, workVars, tickVars, appVars>> /\ mfId' = None
          /\ \A i \in Ids : i # sid => aired'[i] = aired[i]
      BY <1>29 DEF LastFrameSent, CountAiring, EndBurst
    <3> QED BY <3>1 DEF IdsBelow
  <2>2. OneContext'
    BY <1>29 DEF LastFrameSent, CountAiring, EndBurst, OneContext
  <2>3. Budget'
    BY <1>29 DEF LastFrameSent, CountAiring, EndBurst, IdsBelow, OneContext,
           Budget, AttemptsBounded, RowsIn
  <2>4. WorkerOwns'
    BY <1>29 DEF LastFrameSent, CountAiring, EndBurst, IdsBelow, OneContext,
           WorkerOwns, Encoded, Up, RowsIn
  <2>5. SendingIsOwned'
    BY <1>29 DEF LastFrameSent, CountAiring, EndBurst, OneContext,
           SendingIsOwned, RowsIn
  <2> QED BY <1>29, <2>1, <2>2, <2>3, <2>4, <2>5, InvFrames DEF LastFrameSent,
         CountAiring, EndBurst
<1>30. CASE FrameFails
  <2>1. IdsBelow'
    BY <1>30 DEF FrameFails, CountAiring, EndBurst, IdsBelow
  <2>2. OneContext'
    BY <1>30 DEF FrameFails, CountAiring, EndBurst, OneContext
  <2>3. Budget'
    BY <1>30 DEF FrameFails, CountAiring, EndBurst, IdsBelow, OneContext,
           Budget, AttemptsBounded, RowsIn
  <2>4. WorkerOwns'
    BY <1>30 DEF FrameFails, CountAiring, EndBurst, IdsBelow, OneContext,
           WorkerOwns, Encoded, Up, RowsIn
  <2>5. SendingIsOwned'
    BY <1>30 DEF FrameFails, CountAiring, EndBurst, OneContext, SendingIsOwned,
           RowsIn
  <2> QED BY <1>30, <2>1, <2>2, <2>3, <2>4, <2>5, InvFrames DEF FrameFails,
         CountAiring, EndBurst
<1>31. CASE Finalize
  <2>1. IdsBelow'
    BY <1>31 DEF Finalize, AfterSending, Settle, EndTick, IdsBelow
  <2>2. OneContext'
    BY <1>31 DEF Finalize, AfterSending, Settle, EndTick, OneContext
  <2>3. Budget'
    BY <1>31 DEF Finalize, AfterSending, Settle, EndTick, IdsBelow, OneContext,
           Budget, AttemptsBounded, RowsIn
  <2>4. WorkerOwns'
    BY <1>31 DEF Finalize, AfterSending, Settle, EndTick, IdsBelow, OneContext,
           WorkerOwns, Encoded, Up, RowsIn
  <2>5. SendingIsOwned'
    BY <1>31 DEF Finalize, AfterSending, Settle, EndTick, OneContext,
           SendingIsOwned, RowsIn
  <2> QED BY <1>31, <2>1, <2>2, <2>3, <2>4, <2>5, InvFrames DEF Finalize,
         AfterSending, Settle, EndTick
<1>32. CASE FailMessage
  <2>1. IdsBelow'
    BY <1>32 DEF FailMessage, Settle, Requeue, EndTick, IdsBelow
  <2>2. OneContext'
    BY <1>32 DEF FailMessage, Settle, Requeue, EndTick, OneContext
  <2>3. Budget'
    BY <1>32 DEF FailMessage, Settle, Requeue, EndTick, IdsBelow, OneContext,
           Budget, AttemptsBounded, RowsIn, Exhausted
  <2>4. WorkerOwns'
    BY <1>32 DEF FailMessage, Settle, Requeue, EndTick, IdsBelow, OneContext,
           WorkerOwns, Encoded, Up, RowsIn
  <2>5. SendingIsOwned'
    BY <1>32 DEF FailMessage, Settle, Requeue, EndTick, OneContext,
           SendingIsOwned, RowsIn
  <2> QED BY <1>32, <2>1, <2>2, <2>3, <2>4, <2>5, InvFrames DEF FailMessage,
         Settle, Requeue, EndTick
<1>33. CASE TickRaises
  <2>1. IdsBelow'
    BY <1>33 DEF TickRaises, EndTick, IdsBelow
  <2>2. OneContext'
    BY <1>33 DEF TickRaises, EndTick, OneContext
  <2>3. Budget'
    BY <1>33 DEF TickRaises, EndTick, IdsBelow, OneContext, Budget,
           AttemptsBounded, RowsIn
  <2>4. WorkerOwns'
    BY <1>33 DEF TickRaises, EndTick, IdsBelow, OneContext, WorkerOwns,
           Encoded, Up, RowsIn
  <2>5. SendingIsOwned'
    BY <1>33 DEF TickRaises, EndTick, OneContext, SendingIsOwned, RowsIn
  <2> QED BY <1>33, <2>1, <2>2, <2>3, <2>4, <2>5, InvFrames DEF TickRaises,
         EndTick
<1>34. CASE WatchdogAbandonRaises
  <2>1. IdsBelow'
    BY <1>34 DEF WatchdogAbandonRaises, EndBurst, Overdue, IdsBelow
  <2>2. OneContext'
    BY <1>34 DEF WatchdogAbandonRaises, EndBurst, OneContext
  <2>3. Budget'
    BY <1>34 DEF WatchdogAbandonRaises, EndBurst, Overdue, IdsBelow,
           OneContext, Budget, AttemptsBounded, RowsIn
  <2>4. WorkerOwns'
    BY <1>34 DEF WatchdogAbandonRaises, EndBurst, WorkerOwns, Encoded, Up
  <2>5. SendingIsOwned'
    BY <1>34 DEF WatchdogAbandonRaises, SendingIsOwned
  <2> QED BY <1>34, <2>1, <2>2, <2>3, <2>4, <2>5, InvFrames DEF
         WatchdogAbandonRaises, EndBurst
<1>35. CASE Purge
  <2>1. IdsBelow'
    BY <1>35 DEF Purge, IdsBelow, Active
  <2>2. OneContext'
    BY <1>35 DEF Purge, OneContext
  <2>3. Budget'
    BY <1>35 DEF Purge, IdsBelow, OneContext, Budget, AttemptsBounded, RowsIn
  <2>4. WorkerOwns'
    BY <1>35 DEF Purge, IdsBelow, OneContext, WorkerOwns, Encoded, Up, RowsIn,
           Active
  <2>5. SendingIsOwned'
    BY <1>35 DEF Purge, OneContext, SendingIsOwned, RowsIn
  <2> QED BY <1>35, <2>1, <2>2, <2>3, <2>4, <2>5, InvFrames DEF Purge
<1>36. CASE Reset
  <2>1. IdsBelow'
    BY <1>36 DEF Reset, IdsBelow, LostAudio
  <2>2. OneContext'
    BY <1>36 DEF Reset, OneContext, LostAudio
  <2>3. Budget'
    BY <1>36 DEF Reset, IdsBelow, OneContext, Budget, AttemptsBounded, RowsIn,
           LostAudio
  <2>4. WorkerOwns'
    BY <1>36 DEF Reset, IdsBelow, OneContext, WorkerOwns, Encoded, Up, RowsIn,
           LostAudio
  <2>5. SendingIsOwned'
    BY <1>36 DEF Reset, OneContext, SendingIsOwned, RowsIn, LostAudio
  <2> QED BY <1>36, <2>1, <2>2, <2>3, <2>4, <2>5, InvFrames DEF Reset
<1>37. CASE AbandonStale
  <2>1. IdsBelow'
    BY <1>37 DEF AbandonStale, IdsBelow
  <2>2. OneContext'
    BY <1>37 DEF AbandonStale, OneContext
  <2>3. Budget'
    BY <1>37 DEF AbandonStale, IdsBelow, OneContext, Budget, AttemptsBounded,
           RowsIn
  <2>4. WorkerOwns'
    BY <1>37 DEF AbandonStale, IdsBelow, OneContext, WorkerOwns, Encoded, Up,
           RowsIn
  <2>5. SendingIsOwned'
    BY <1>37 DEF AbandonStale, OneContext, SendingIsOwned, RowsIn
  <2> QED BY <1>37, <2>1, <2>2, <2>3, <2>4, <2>5, InvFrames DEF AbandonStale
<1>38. CASE Crash
  <2>1. IdsBelow'
    BY <1>38 DEF Crash, RowsIn, IdsBelow
  <2>2. OneContext'
    BY <1>38 DEF Crash, RowsIn, OneContext
  <2>3. Budget'
    BY <1>38 DEF Crash, RowsIn, IdsBelow, OneContext, Budget, AttemptsBounded
  <2>4. WorkerOwns'
    BY <1>38 DEF Crash, RowsIn, IdsBelow, OneContext, WorkerOwns, Encoded, Up,
           Threads
  <2>5. SendingIsOwned'
    BY <1>38 DEF Crash, RowsIn, OneContext, SendingIsOwned
  <2> QED BY <1>38, <2>1, <2>2, <2>3, <2>4, <2>5, InvFrames DEF Crash
<1>39. CASE NextSlot
  <2> QED BY <1>39, InvFrames DEF NextSlot
<1>40. CASE ClockStep
  <2> QED BY <1>40, InvFrames DEF ClockStep
<1>41. CASE GateChanges
  <2> QED BY <1>41, InvFrames DEF GateChanges
<1>42. ASSUME NEW c \in Calls, AckLost(c) PROVE Inductive'
  <2> QED BY <1>42, InvFrames DEF AckLost
<1>43. CASE UNCHANGED vars
  BY <1>43, InvFrames DEF vars
<1> QED
  BY <1>2, <1>3, <1>4, <1>5, <1>6, <1>7, <1>8, <1>9, <1>10, <1>11, <1>12,
     <1>13, <1>14, <1>15, <1>16, <1>17, <1>18, <1>19, <1>20, <1>21, <1>22,
     <1>23, <1>24, <1>25, <1>26, <1>27, <1>28, <1>29, <1>30, <1>31, <1>32,
     <1>33, <1>34, <1>35, <1>36, <1>37, <1>38, <1>39, <1>40, <1>41, <1>42,
     <1>43
     DEF Next, Enqueue, AckPath, Worker, Tick, Pick, Transmit, Boot, World

(* The pipeline never leaves the inductive invariant.                      *)
THEOREM InductiveHolds == Spec => []Inductive
BY TypeCorrect, InductiveInit, InductiveStep, PTL DEF Spec

(* However ACKs, sweeps, failures and restarts interleave, a message is put *)
(* on the air at most MaxAttempts times (mark_sending against the four      *)
(* places that re-queue a row).                                            *)
THEOREM AttemptsAreBounded == Spec => []AttemptsBounded
<1>1. Inductive => AttemptsBounded
  BY DEF Inductive, Budget
<1> QED BY <1>1, InductiveHolds, PTL

(* The transmitter has one user: whatever is SENDING is the row of the      *)
(* scheduler's context or of this tick, as long as no UPDATE raised.       *)
THEOREM SendingHasOwner == Spec => []SendingIsOwned
<1>1. Inductive => SendingIsOwned
  BY DEF Inductive
<1> QED BY <1>1, InductiveHolds, PTL

(* The scheduler never works on a row that the encode worker works on or    *)
(* that has not been encoded.                                              *)
THEOREM UnencodedIsNotSent == Spec => []NeverSendsUnencoded
<1>1. TypeOK /\ Inductive => NeverSendsUnencoded
  BY DEF Inductive, WorkerOwns, Encoded, NeverSendsUnencoded, WorkingSteps
<1> QED BY <1>1, InductiveHolds, TypeCorrect, PTL
-------------------------------------------------------------------------------
(***************************************************************************)
(* What becomes of a message: its audio, its burst, its acknowledgement,   *)
(* and what a restart leaves of it.  All of it rests on the inductive      *)
(* invariant above.                                                        *)
(***************************************************************************)

(* The row of the present tick is QUEUED until mark_sending and SENDING    *)
(* from there on, and its context is gone before it is settled.  A slot    *)
(* boundary waits for its tick at rest only.                               *)
InHand ==
    /\ spc \in {"gate", "key", "encodeFailed", "keyed"} => state[sid] = "QUEUED"
    /\ spc \in {"giveUp", "tx", "sent", "fail"} => state[sid] = "SENDING"
    /\ spc \in {"giveUp", "sent", "fail"} => mfId = None
    /\ spc \in {"down", "purged", "starting"} => sid = None /\ mfId = None
    /\ tickDue => spc = "idle"

(* What was on the air, or is credited or swept, has been tried.           *)
Tried ==
    /\ \A i \in RowsIn({"SENDING", "WAIT_ACK"}) : attempts[i] > 0
    /\ tpc[App] = "credit" => attempts[ackId] > 0
    /\ \A i \in due : attempts[i] > 0

(* While the sweep goes on, an ACK may still reach one of its rows, and    *)
(* nothing else.                                                           *)
Swept ==
    /\ \A i \in due : state[i] \in {"WAIT_ACK", "DELIVERED"}
    /\ due # {} => spc = "sweep"

(* A row whose ACK was matched may be re-queued or abandoned by the sweep  *)
(* before the ACK is credited.  Re-queued, it is deferred in this tick, and *)
(* the credit is given before the next tick begins: it never hits a row on *)
(* the air.                                                                *)
CreditInTime ==
    tpc[App] = "credit" =>
       /\ tickDue \/ spc # "idle" => App \in late
       /\ state[ackId] \in {"WAIT_ACK", "QUEUED", "ABANDONED"}
       /\ state[ackId] = "QUEUED" =>
             /\ App \in late /\ ~tickDue
             /\ spc \in {"sweep", "select"} => ackId \in skip
             /\ spc \in WorkingSteps => sid # ackId

Steady == InHand /\ Tried /\ Swept /\ CreditInTime

(* Unless an UPDATE raised, the burst of the backend is that of the        *)
(* scheduler's context, its row is SENDING, and no other row is.           *)
OneBurst ==
    errors = 0 =>
       /\ burst <=> mfId # None
       /\ mfId # None /\ spc # "keyed" => state[mfId] = "SENDING"
       /\ mfId # None /\ mfNext = 0 => spc \in {"keyed", "tx"}
       /\ \A i, j \in RowsIn({"SENDING"}) : i = j

(* Cached audio belongs to a live row, or to the row whose ACK is being    *)
(* credited; the worker caches before it marks.                            *)
LiveAudio ==
    /\ \A i \in cache :
          /\ state[i] \in Active \/ (tpc[App] = "discard" /\ i = ackId)
          /\ state[i] = "ENCODING" => wpc = "mark" /\ wid = i
          /\ spc = "starting" => state[i] # "SENDING"
    /\ ~Up => cache = {}

(* The rows an ACK of station c was credited to, and the ACK of c that is  *)
(* about to be.                                                            *)
Credited(c) ==
    {i \in RowsIn({"DELIVERED"}) : ~SkipsWaitAck(text[i]) /\ text[i].to = c}
Pending(c) == IF tpc[App] = "credit" /\ text[ackId].to = c THEN 1 ELSE 0

AcksBalance ==
    \A c \in Calls : Cardinality(Credited(c)) + Pending(c) <= decoded[c]

(* The frames of a burst count the slots since it was keyed.               *)
InStep ==
    errors = 0 /\ clockSteps = 0 /\ mfId # None =>
       /\ mfNext < text[mfId].frames
       /\ spc = "keyed" => mfNext = 0
       /\ spc = "tx" /\ mfNext = 0 /\ ~inline => age[mfId] = 0
       /\ mfNext > 0 /\ ~inline =>
             age[mfId] = IF spc = "idle" /\ ~tickDue THEN mfNext - 1 ELSE mfNext

(* A broadcast of an earlier run, once purged, is never live again.        *)
Outdated(i) == i \in inherited /\ text[i].kind \in PurgedKinds
StaleIsGone ==
    /\ \A i \in inherited : i < nextId
    /\ spc # "down" => \A i \in Ids : Outdated(i) =>
          /\ state[i] \notin Active
          /\ i \notin due /\ i # sid /\ i # mfId

(* Nor is a row the previous run was sending.  If abandon_stale_sending     *)
(* raised it is SENDING still, but nobody has it in hand.                  *)
CutOffIsOver ==
    \A i \in cutOff :
       /\ i < nextId
       /\ state[i] \in {"absent", "ABANDONED", "SENDING"}
       /\ i \notin due /\ i # sid /\ i # mfId
       /\ tpc[App] = "credit" => i # ackId

-------------------------------------------------------------------------------
(* The types the steps below need, spelled out.                            *)
LEMMA Typed ==
    ASSUME TypeOK
    PROVE  /\ state \in [Ids -> States] /\ text \in [Ids -> Offers]
           /\ attempts \in [Ids -> Nat] /\ age \in [Ids -> Nat]
           /\ nextId \in Nat /\ errors \in Nat /\ clockSteps \in Nat
           /\ cache \subseteq Ids
           /\ wid \in Nat /\ (wpc # "idle" => wid \in Ids)
           /\ sid \in Nat /\ (spc \in WorkingSteps => sid \in Ids)
           /\ due \subseteq Ids /\ skip \subseteq Ids
           /\ mfId \in Nat /\ (mfId # None => mfId \in Ids) /\ mfNext \in Nat
           /\ ackId \in Nat
           /\ (tpc[App] \in {"credit", "discard"} => ackId \in Ids)
           /\ tpc \in [Threads -> {"idle", "insert", "credit", "discard"}]
           /\ decoded \in [Calls -> Nat] /\ air \in [Calls -> Nat]
           /\ inherited \subseteq Ids /\ cutOff \subseteq Ids
           /\ Ids \subseteq Nat /\ None \notin Ids
           /\ App \in Threads
<1>1. Ids \subseteq Nat /\ None \notin Ids /\ App \in Threads
  BY TxAssumption DEF Ids, None, Threads
<1>2. IdOrNone \subseteq Nat /\ \A i \in IdOrNone : i # None => i \in Ids
  BY <1>1 DEF IdOrNone, None
<1>3. nextId \in Nat
  BY TxAssumption DEF TypeOK, RowsOK
<1> QED
  BY <1>1, <1>2, <1>3 DEF TypeOK, RowsOK, WorkerOK, TickOK, BurstOK, AppOK,
     WorldOK, HistoryOK

(* What sweeping one row comes to, whether it is tried again or given up.   *)
LEMMA SweepEffect ==
    ASSUME NEW i \in Ids, SweepRow(i)
    PROVE  /\ spc = "sweep" /\ i \in due /\ due' = due \ {i}
           /\ \E s \in {"ABANDONED", "QUEUED"} :
                 state' = [state EXCEPT ![i] = s]
           /\ UNCHANGED <<text, attempts, age, nextId, workVars, spc, sid,
                          burstVars, tickDue, appVars, airVars, faultVars,
                          histVars>>
BY DEF SweepRow, Settle, Requeue, Oldest

(* The scheduler's row has the state its step of the tick says.            *)
LEMMA InHandStep ==
    ASSUME TypeOK, Inductive, Steady, [Next]_vars
    PROVE  InHand'
<1> USE Typed
    DEF Inductive, Steady, InHand, IdsBelow, OneContext, WorkerOwns, Encoded,
        WorkingSteps, Up, rowVars, workVars, tickVars, burstVars, appVars,
        airVars, faultVars, histVars
<1>1. CASE Enqueue
  BY <1>1 DEF Enqueue, EnqueueCount, EnqueueInsert
<1>2. CASE AckPath
  BY <1>2 DEF AckPath, AckSelect, AckCredit, AckDiscard, CreditInTime
<1>3. CASE Worker
  BY <1>3 DEF Worker, WorkerPick, WorkerPut, WorkerMark, WorkerFail
<1>4. CASE TickBegin \/ (\E i \in Ids : SweepRow(i)) \/ SweepDone
  BY <1>4 DEF TickBegin, SweepRow, SweepDone
<1>5. CASE Pick
  BY <1>5
     DEF Pick, BurstWatchdog, PickContinuation, DropContext, PickFresh,
         PickNothing, EndTick, EndBurst, Sendable, RowsIn, Oldest
<1>6. CASE GateBlocks \/ TakeCachedAudio \/ EncodeInline
  BY <1>6 DEF GateBlocks, TakeCachedAudio, EncodeInline, EndTick
<1>7. CASE EncodeFailedSending \/ StartBurstFails \/ BurstMarkSending
  BY <1>7
     DEF EncodeFailedSending, StartBurstFails, BurstMarkSending, MarkSending
<1>8. CASE EncodeFailedAbandon \/ StartBurstRaises \/ StartBurst
  BY <1>8 DEF EncodeFailedAbandon, StartBurstRaises, StartBurst, EndTick
<1>9. CASE Transmit
  BY <1>9 DEF Transmit, FrameSent, LastFrameSent, FrameFails, EndTick, EndBurst
<1>10. CASE Finalize \/ FailMessage
  BY <1>10 DEF Finalize, FailMessage, EndTick
<1>11. CASE Boot
  BY <1>11 DEF Boot, Purge, Reset, AbandonStale
<1>12. CASE World
  <2>1. CASE NextSlot
    <3>1. tickDue' => spc' = "idle"
      BY <2>1, Zenon DEF NextSlot
    <3> QED BY <2>1, <3>1 DEF NextSlot
  <2>2. CASE ClockStep \/ GateChanges \/ Crash \/ TickRaises
            \/ WatchdogAbandonRaises \/ \E c \in Calls : AckLost(c)
    BY <2>2
       DEF ClockStep, GateChanges, Crash, TickRaises, WatchdogAbandonRaises,
           AckLost, EndTick, EndBurst
  <2> QED BY <1>12, <2>1, <2>2 DEF World
<1>13. CASE UNCHANGED vars
  BY <1>13 DEF vars
<1> QED
  BY <1>1, <1>2, <1>3, <1>4, <1>5, <1>6, <1>7, <1>8, <1>9, <1>10, <1>11, <1>12,
     <1>13
     DEF Next, Tick

(* A row on the air has had its attempt counted.                           *)
LEMMA TriedStep ==
    ASSUME TypeOK, Inductive, Steady, [Next]_vars
    PROVE  Tried'
<1> USE Typed
    DEF Inductive, Steady, InHand, IdsBelow, OneContext, WorkerOwns, Encoded,
        WorkingSteps, Up, rowVars, workVars, tickVars, burstVars, appVars,
        airVars, faultVars, histVars, Tried, RowsIn
<1>1. CASE Enqueue
  BY <1>1 DEF Enqueue, EnqueueCount, EnqueueInsert, BeginHandler
<1>2. CASE AckPath
  BY <1>2 DEF AckPath, AckSelect, AckCredit, AckDiscard, BeginHandler
<1>3. CASE Worker
  BY <1>3 DEF Worker, WorkerPick, WorkerPut, WorkerMark, WorkerFail
<1>4. CASE TickBegin \/ (\E i \in Ids : SweepRow(i)) \/ SweepDone
  BY <1>4 DEF TickBegin, SweepRow, SweepDone, Settle, Requeue
<1>5. CASE Pick
  BY <1>5
     DEF Pick, BurstWatchdog, PickContinuation, DropContext, PickFresh,
         PickNothing, EndTick, Settle, EndBurst
<1>6. CASE GateBlocks \/ TakeCachedAudio \/ EncodeInline
  BY <1>6 DEF GateBlocks, TakeCachedAudio, EncodeInline, EndTick
<1>7. CASE EncodeFailedSending \/ StartBurstFails \/ BurstMarkSending
  BY <1>7
     DEF EncodeFailedSending, StartBurstFails, BurstMarkSending, MarkSending
<1>8. CASE EncodeFailedAbandon \/ StartBurstRaises \/ StartBurst
  BY <1>8
     DEF EncodeFailedAbandon, StartBurstRaises, StartBurst, EndTick, Settle
<1>9. CASE Transmit
  BY <1>9 DEF Transmit, FrameSent, LastFrameSent, FrameFails, EndTick, EndBurst
<1>10. CASE Finalize \/ FailMessage
  BY <1>10 DEF Finalize, FailMessage, EndTick, AfterSending, Settle, Requeue
<1>11. CASE Boot
  BY <1>11 DEF Boot, Purge, Reset, AbandonStale, LostAudio
<1>12. CASE NextSlot \/ ClockStep \/ GateChanges \/ \E c \in Calls : AckLost(c)
  BY <1>12 DEF NextSlot, ClockStep, GateChanges, AckLost
<1>13. CASE Crash \/ TickRaises \/ WatchdogAbandonRaises
  BY <1>13 DEF Crash, TickRaises, WatchdogAbandonRaises, EndTick, EndBurst
<1>14. CASE UNCHANGED vars
  BY <1>14 DEF vars
<1> QED
  BY <1>1, <1>2, <1>3, <1>4, <1>5, <1>6, <1>7, <1>8, <1>9, <1>10, <1>11, <1>12,
     <1>13, <1>14
     DEF Next, Tick, World

(* Only an ACK reaches a row that is being swept.                          *)
LEMMA SweptStep ==
    ASSUME TypeOK, Inductive, Steady, [Next]_vars
    PROVE  Swept'
<1> USE Typed
    DEF Inductive, Steady, InHand, IdsBelow, OneContext, WorkerOwns, Encoded,
        WorkingSteps, Up, rowVars, workVars, tickVars, burstVars, appVars,
        airVars, faultVars, histVars, Swept, RowsIn
<1>1. CASE Enqueue
  BY <1>1 DEF Enqueue, EnqueueCount, EnqueueInsert, BeginHandler
<1>2. CASE AckPath
  BY <1>2 DEF AckPath, AckSelect, AckCredit, AckDiscard, BeginHandler
<1>3. CASE Worker
  BY <1>3 DEF Worker, WorkerPick, WorkerPut, WorkerMark, WorkerFail
<1>4. CASE TickBegin \/ (\E i \in Ids : SweepRow(i)) \/ SweepDone
  BY <1>4 DEF TickBegin, SweepRow, SweepDone, Settle, Requeue
<1>5. CASE Pick
  BY <1>5
     DEF Pick, BurstWatchdog, PickContinuation, DropContext, PickFresh,
         PickNothing, EndTick, Settle, EndBurst
<1>6. CASE GateBlocks \/ TakeCachedAudio \/ EncodeInline
  BY <1>6 DEF GateBlocks, TakeCachedAudio, EncodeInline, EndTick
<1>7. CASE EncodeFailedSending \/ StartBurstFails \/ BurstMarkSending
  BY <1>7
     DEF EncodeFailedSending, StartBurstFails, BurstMarkSending, MarkSending
<1>8. CASE EncodeFailedAbandon \/ StartBurstRaises \/ StartBurst
  BY <1>8
     DEF EncodeFailedAbandon, StartBurstRaises, StartBurst, EndTick, Settle
<1>9. CASE Transmit
  BY <1>9 DEF Transmit, FrameSent, LastFrameSent, FrameFails, EndTick, EndBurst
<1>10. CASE Finalize \/ FailMessage
  BY <1>10 DEF Finalize, FailMessage, EndTick, AfterSending, Settle, Requeue
<1>11. CASE Boot
  BY <1>11 DEF Boot, Purge, Reset, AbandonStale, LostAudio
<1>12. CASE NextSlot \/ ClockStep \/ GateChanges \/ \E c \in Calls : AckLost(c)
  BY <1>12 DEF NextSlot, ClockStep, GateChanges, AckLost
<1>13. CASE Crash \/ TickRaises \/ WatchdogAbandonRaises
  BY <1>13 DEF Crash, TickRaises, WatchdogAbandonRaises, EndTick, EndBurst
<1>14. CASE UNCHANGED vars
  BY <1>14 DEF vars
<1> QED
  BY <1>1, <1>2, <1>3, <1>4, <1>5, <1>6, <1>7, <1>8, <1>9, <1>10, <1>11, <1>12,
     <1>13, <1>14
     DEF Next, Tick, World

(* An ACK is credited before its row is launched again.                    *)
LEMMA CreditStep ==
    ASSUME TypeOK, Inductive, Steady, [Next]_vars
    PROVE  CreditInTime'
<1> USE Typed
    DEF Inductive, Steady, InHand, IdsBelow, OneContext, WorkerOwns, Encoded,
        WorkingSteps, Up, rowVars, workVars, tickVars, burstVars, appVars,
        airVars, faultVars, histVars, CreditInTime, Swept, RowsIn, Threads
<1>1. CASE Enqueue
  BY <1>1 DEF Enqueue, EnqueueCount, EnqueueInsert, BeginHandler
<1>2. CASE AckPath
  BY <1>2 DEF AckPath, AckSelect, AckCredit, AckDiscard, BeginHandler
<1>3. CASE Worker
  BY <1>3 DEF Worker, WorkerPick, WorkerPut, WorkerMark, WorkerFail
<1>4. CASE TickBegin \/ (\E i \in Ids : SweepRow(i)) \/ SweepDone
  BY <1>4 DEF TickBegin, SweepRow, SweepDone, Settle, Requeue
<1>5. CASE Pick
  BY <1>5
     DEF Pick, BurstWatchdog, PickContinuation, DropContext, PickFresh,
         PickNothing, EndTick, Settle, EndBurst
<1>6. CASE GateBlocks \/ TakeCachedAudio \/ EncodeInline
  BY <1>6 DEF GateBlocks, TakeCachedAudio, EncodeInline, EndTick
<1>7. CASE EncodeFailedSending \/ StartBurstFails \/ BurstMarkSending
  BY <1>7
     DEF EncodeFailedSending, StartBurstFails, BurstMarkSending, MarkSending
<1>8. CASE EncodeFailedAbandon \/ StartBurstRaises \/ StartBurst
  BY <1>8
     DEF EncodeFailedAbandon, StartBurstRaises, StartBurst, EndTick, Settle
<1>9. CASE Transmit
  BY <1>9 DEF Transmit, FrameSent, LastFrameSent, FrameFails, EndTick, EndBurst
<1>10. CASE Finalize \/ FailMessage
  BY <1>10 DEF Finalize, FailMessage, EndTick, AfterSending, Settle, Requeue
<1>11. CASE Boot
  BY <1>11 DEF Boot, Purge, Reset, AbandonStale, LostAudio
<1>12. CASE NextSlot \/ ClockStep \/ GateChanges \/ \E c \in Calls : AckLost(c)
  BY <1>12 DEF NextSlot, ClockStep, GateChanges, AckLost
<1>13. CASE Crash \/ TickRaises \/ WatchdogAbandonRaises
  BY <1>13 DEF Crash, TickRaises, WatchdogAbandonRaises, EndTick, EndBurst
<1>14. CASE UNCHANGED vars
  BY <1>14 DEF vars
<1> QED
  BY <1>1, <1>2, <1>3, <1>4, <1>5, <1>6, <1>7, <1>8, <1>9, <1>10, <1>11, <1>12,
     <1>13, <1>14
     DEF Next, Tick, World

(* No row gets on the air past the burst the scheduler holds.              *)
LEMMA BurstStep ==
    ASSUME TypeOK, Inductive, Steady, OneBurst, [Next]_vars
    PROVE  OneBurst'
<1> USE Typed
    DEF Inductive, Steady, InHand, IdsBelow, OneContext, WorkerOwns, Encoded,
        WorkingSteps, Up, rowVars, workVars, tickVars, burstVars, appVars,
        airVars, faultVars, histVars, OneBurst, SendingIsOwned, RowsIn,
        CreditInTime, Swept
<1>1. CASE Enqueue
  BY <1>1 DEF Enqueue, EnqueueCount, EnqueueInsert, BeginHandler
<1>2. CASE AckPath
  BY <1>2 DEF AckPath, AckSelect, AckCredit, AckDiscard, BeginHandler
<1>3. CASE Worker
  BY <1>3 DEF Worker, WorkerPick, WorkerPut, WorkerMark, WorkerFail
<1>4. CASE TickBegin \/ (\E i \in Ids : SweepRow(i)) \/ SweepDone
  <2>1. CASE TickBegin
    BY <2>1 DEF TickBegin
  <2>2. ASSUME NEW i \in Ids, SweepRow(i) PROVE OneBurst'
    BY <2>2, SweepEffect
  <2>3. CASE SweepDone
    BY <2>3 DEF SweepDone
  <2> QED BY <1>4, <2>1, <2>2, <2>3
<1>5. CASE Pick
  BY <1>5
     DEF Pick, BurstWatchdog, PickContinuation, DropContext, PickFresh,
         PickNothing, EndTick, Settle, EndBurst
<1>6. CASE GateBlocks \/ TakeCachedAudio \/ EncodeInline
  BY <1>6 DEF GateBlocks, TakeCachedAudio, EncodeInline, EndTick
<1>7. CASE EncodeFailedSending \/ StartBurstFails \/ BurstMarkSending
  BY <1>7
     DEF EncodeFailedSending, StartBurstFails, BurstMarkSending, MarkSending
<1>8. CASE EncodeFailedAbandon \/ StartBurstRaises \/ StartBurst
  <2>1. CASE EncodeFailedAbandon
    BY <2>1 DEF EncodeFailedAbandon, EndTick, Settle
  <2>2. CASE StartBurstRaises
    BY <2>2 DEF StartBurstRaises, EndTick
  <2>3. CASE StartBurst
    BY <2>3 DEF StartBurst
  <2> QED BY <1>8, <2>1, <2>2, <2>3
<1>9. CASE Transmit
  BY <1>9 DEF Transmit, FrameSent, LastFrameSent, FrameFails, EndTick, EndBurst
<1>10. CASE Finalize \/ FailMessage
  <2>1. CASE Finalize
    BY <2>1 DEF Finalize, EndTick, AfterSending, Settle
  <2>2. CASE FailMessage
    BY <2>2 DEF FailMessage, EndTick, Settle, Requeue
  <2> QED BY <1>10, <2>1, <2>2
<1>11. CASE Boot
  <2>1. CASE Purge
    BY <2>1 DEF Purge
  <2>2. CASE Reset
    BY <2>2 DEF Reset, LostAudio
  <2>3. CASE AbandonStale
    <3>1. \A i \in Ids : state'[i] # "SENDING"
      BY <2>3 DEF AbandonStale
    <3>2. mfId = None
      BY <2>3 DEF AbandonStale
    <3>3. UNCHANGED <<burstVars, errors>>
      BY <2>3 DEF AbandonStale
    <3>4. errors = 0 => (burst' <=> mfId' # None)
      BY <3>3
    <3> QED BY <3>1, <3>2, <3>3, <3>4
  <2> QED BY <1>11, <2>1, <2>2, <2>3 DEF Boot
<1>12. CASE NextSlot \/ ClockStep \/ GateChanges \/ \E c \in Calls : AckLost(c)
  BY <1>12 DEF NextSlot, ClockStep, GateChanges, AckLost
<1>13. CASE Crash \/ TickRaises \/ WatchdogAbandonRaises
  BY <1>13 DEF Crash, TickRaises, WatchdogAbandonRaises, EndTick, EndBurst
<1>14. CASE UNCHANGED vars
  BY <1>14 DEF vars
<1> QED
  BY <1>1, <1>2, <1>3, <1>4, <1>5, <1>6, <1>7, <1>8, <1>9, <1>10, <1>11, <1>12,
     <1>13, <1>14
     DEF Next, Tick, World

(* Whoever makes a row terminal drops its audio, or is about to.           *)
LEMMA AudioStep ==
    ASSUME TypeOK, Inductive, Steady, LiveAudio, [Next]_vars
    PROVE  LiveAudio'
<1> USE Typed
    DEF Inductive, Steady, InHand, IdsBelow, OneContext, WorkerOwns, Encoded,
        WorkingSteps, Up, rowVars, workVars, tickVars, burstVars, appVars,
        airVars, faultVars, histVars, LiveAudio, RowsIn, CreditInTime, Swept,
        Active
<1>1. CASE Enqueue
  BY <1>1 DEF Enqueue, EnqueueCount, EnqueueInsert, BeginHandler
<1>2. CASE AckPath
  BY <1>2 DEF AckPath, AckSelect, AckCredit, AckDiscard, BeginHandler
<1>3. CASE Worker
  BY <1>3 DEF Worker, WorkerPick, WorkerPut, WorkerMark, WorkerFail
<1>4. CASE TickBegin \/ (\E i \in Ids : SweepRow(i)) \/ SweepDone
  BY <1>4 DEF TickBegin, SweepRow, SweepDone, Settle, Requeue
<1>5. CASE Pick
  BY <1>5
     DEF Pick, BurstWatchdog, PickContinuation, DropContext, PickFresh,
         PickNothing, EndTick, Settle, EndBurst
<1>6. CASE GateBlocks \/ TakeCachedAudio \/ EncodeInline
  BY <1>6 DEF GateBlocks, TakeCachedAudio, EncodeInline, EndTick
<1>7. CASE EncodeFailedSending \/ StartBurstFails \/ BurstMarkSending
  BY <1>7
     DEF EncodeFailedSending, StartBurstFails, BurstMarkSending, MarkSending
<1>8. CASE EncodeFailedAbandon \/ StartBurstRaises \/ StartBurst
  BY <1>8
     DEF EncodeFailedAbandon, StartBurstRaises, StartBurst, EndTick, Settle
<1>9. CASE Transmit
  BY <1>9 DEF Transmit, FrameSent, LastFrameSent, FrameFails, EndTick, EndBurst
<1>10. CASE Finalize \/ FailMessage
  BY <1>10 DEF Finalize, FailMessage, EndTick, AfterSending, Settle, Requeue
<1>11. CASE Boot
  BY <1>11 DEF Boot, Purge, Reset, AbandonStale, LostAudio
<1>12. CASE NextSlot \/ ClockStep \/ GateChanges \/ \E c \in Calls : AckLost(c)
  BY <1>12 DEF NextSlot, ClockStep, GateChanges, AckLost
<1>13. CASE Crash \/ TickRaises \/ WatchdogAbandonRaises
  BY <1>13 DEF Crash, TickRaises, WatchdogAbandonRaises, EndTick, EndBurst
<1>14. CASE UNCHANGED vars
  BY <1>14 DEF vars
<1> QED
  BY <1>1, <1>2, <1>3, <1>4, <1>5, <1>6, <1>7, <1>8, <1>9, <1>10, <1>11, <1>12,
     <1>13, <1>14
     DEF Next, Tick, World

(* A purged broadcast stays out of every thread's hands.                   *)
LEMMA StaleStep ==
    ASSUME TypeOK, Inductive, Steady, StaleIsGone, [Next]_vars
    PROVE  StaleIsGone'
<1> USE Typed
    DEF Inductive, Steady, InHand, IdsBelow, OneContext, WorkerOwns, Encoded,
        WorkingSteps, Up, rowVars, workVars, tickVars, burstVars, appVars,
        airVars, faultVars, histVars, StaleIsGone, Outdated, RowsIn,
        CreditInTime, Swept, Active
<1>1. CASE Enqueue
  BY <1>1 DEF Enqueue, EnqueueCount, EnqueueInsert, BeginHandler
<1>2. CASE AckPath
  BY <1>2 DEF AckPath, AckSelect, AckCredit, AckDiscard, BeginHandler
<1>3. CASE Worker
  BY <1>3 DEF Worker, WorkerPick, WorkerPut, WorkerMark, WorkerFail
<1>4. CASE TickBegin \/ (\E i \in Ids : SweepRow(i)) \/ SweepDone
  <2>1. CASE TickBegin
    BY <2>1 DEF TickBegin
  <2>2. ASSUME NEW i \in Ids, SweepRow(i) PROVE StaleIsGone'
    BY <2>2, SweepEffect
  <2>3. CASE SweepDone
    BY <2>3 DEF SweepDone
  <2> QED BY <1>4, <2>1, <2>2, <2>3
<1>5. CASE Pick
  <2>1. CASE BurstWatchdog
    BY <2>1 DEF BurstWatchdog, Overdue, Settle, EndBurst
  <2>2. CASE PickContinuation \/ DropContext \/ PickFresh \/ PickNothing
    BY <2>2
       DEF PickContinuation, DropContext, PickFresh, PickNothing, EndTick,
           Sendable, Oldest
  <2> QED BY <1>5, <2>1, <2>2 DEF Pick
<1>6. CASE GateBlocks \/ TakeCachedAudio \/ EncodeInline
  BY <1>6 DEF GateBlocks, TakeCachedAudio, EncodeInline, EndTick
<1>7. CASE EncodeFailedSending \/ StartBurstFails \/ BurstMarkSending
  BY <1>7
     DEF EncodeFailedSending, StartBurstFails, BurstMarkSending, MarkSending
<1>8. CASE EncodeFailedAbandon \/ StartBurstRaises \/ StartBurst
  BY <1>8
     DEF EncodeFailedAbandon, StartBurstRaises, StartBurst, EndTick, Settle
<1>9. CASE Transmit
  BY <1>9 DEF Transmit, FrameSent, LastFrameSent, FrameFails, EndTick, EndBurst
<1>10. CASE Finalize \/ FailMessage
  BY <1>10 DEF Finalize, FailMessage, EndTick, AfterSending, Settle, Requeue
<1>11. CASE Boot
  <2>1. CASE Purge
    BY <2>1 DEF Purge
  <2>2. CASE Reset
    BY <2>2 DEF Reset, LostAudio
  <2>3. CASE AbandonStale
    BY <2>3 DEF AbandonStale
  <2> QED BY <1>11, <2>1, <2>2, <2>3 DEF Boot
<1>12. CASE NextSlot \/ ClockStep \/ GateChanges \/ \E c \in Calls : AckLost(c)
  BY <1>12 DEF NextSlot, ClockStep, GateChanges, AckLost
<1>13. CASE Crash \/ TickRaises \/ WatchdogAbandonRaises
  BY <1>13 DEF Crash, TickRaises, WatchdogAbandonRaises, EndTick, EndBurst
<1>14. CASE UNCHANGED vars
  BY <1>14 DEF vars
<1> QED
  BY <1>1, <1>2, <1>3, <1>4, <1>5, <1>6, <1>7, <1>8, <1>9, <1>10, <1>11, <1>12,
     <1>13, <1>14
     DEF Next, Tick, World

(* So does a row that was cut off, once it is abandoned.                   *)
LEMMA CutOffStep ==
    ASSUME TypeOK, Inductive, Steady, CutOffIsOver, [Next]_vars
    PROVE  CutOffIsOver'
<1> USE Typed
    DEF Inductive, Steady, InHand, IdsBelow, OneContext, WorkerOwns, Encoded,
        WorkingSteps, Up, rowVars, workVars, tickVars, burstVars, appVars,
        airVars, faultVars, histVars, CutOffIsOver, RowsIn, CreditInTime,
        Swept
<1>1. CASE Enqueue
  BY <1>1 DEF Enqueue, EnqueueCount, EnqueueInsert, BeginHandler
<1>2. CASE AckPath
  BY <1>2 DEF AckPath, AckSelect, AckCredit, AckDiscard, BeginHandler
<1>3. CASE Worker
  BY <1>3 DEF Worker, WorkerPick, WorkerPut, WorkerMark, WorkerFail
<1>4. CASE TickBegin \/ (\E i \in Ids : SweepRow(i)) \/ SweepDone
  <2>1. CASE TickBegin
    BY <2>1 DEF TickBegin
  <2>2. ASSUME NEW i \in Ids, SweepRow(i) PROVE CutOffIsOver'
    BY <2>2, SweepEffect
  <2>3. CASE SweepDone
    BY <2>3 DEF SweepDone
  <2> QED BY <1>4, <2>1, <2>2, <2>3
<1>5. CASE Pick
  <2>1. CASE BurstWatchdog
    BY <2>1 DEF BurstWatchdog, Overdue, Settle, EndBurst
  <2>2. CASE PickContinuation \/ DropContext \/ PickFresh \/ PickNothing
    BY <2>2
       DEF PickContinuation, DropContext, PickFresh, PickNothing, EndTick,
           Sendable, Oldest
  <2> QED BY <1>5, <2>1, <2>2 DEF Pick
<1>6. CASE GateBlocks \/ TakeCachedAudio \/ EncodeInline
  BY <1>6 DEF GateBlocks, TakeCachedAudio, EncodeInline, EndTick
<1>7. CASE EncodeFailedSending \/ StartBurstFails \/ BurstMarkSending
  BY <1>7
     DEF EncodeFailedSending, StartBurstFails, BurstMarkSending, MarkSending
<1>8. CASE EncodeFailedAbandon \/ StartBurstRaises \/ StartBurst
  BY <1>8
     DEF EncodeFailedAbandon, StartBurstRaises, StartBurst, EndTick, Settle
<1>9. CASE Transmit
  BY <1>9 DEF Transmit, FrameSent, LastFrameSent, FrameFails, EndTick, EndBurst
<1>10. CASE Finalize \/ FailMessage
  BY <1>10 DEF Finalize, FailMessage, EndTick, AfterSending, Settle, Requeue
<1>11. CASE Boot
  <2>1. CASE Purge
    BY <2>1 DEF Purge
  <2>2. CASE Reset
    BY <2>2 DEF Reset, LostAudio
  <2>3. CASE AbandonStale
    BY <2>3 DEF AbandonStale
  <2> QED BY <1>11, <2>1, <2>2, <2>3 DEF Boot
<1>12. CASE NextSlot \/ ClockStep \/ GateChanges \/ \E c \in Calls : AckLost(c)
  BY <1>12 DEF NextSlot, ClockStep, GateChanges, AckLost
<1>13. CASE Crash \/ TickRaises \/ WatchdogAbandonRaises
  BY <1>13 DEF Crash, TickRaises, WatchdogAbandonRaises, EndTick, EndBurst
<1>14. CASE UNCHANGED vars
  BY <1>14 DEF vars
<1> QED
  BY <1>1, <1>2, <1>3, <1>4, <1>5, <1>6, <1>7, <1>8, <1>9, <1>10, <1>11, <1>12,
     <1>13, <1>14
     DEF Next, Tick, World

(* Every text has at least one frame and fits the bound on ages.           *)
LEMMA TextTyped ==
    ASSUME TypeOK
    PROVE  /\ AgeCap \in Nat
           /\ \A i \in Ids :
                 /\ text[i].frames \in Nat /\ 0 < text[i].frames
                 /\ text[i].frames <= AgeCap
           /\ \A m \in Offers : m.frames \in Nat /\ 0 < m.frames
BY TxAssumption, AgeCapAssumption DEF TypeOK, RowsOK, Texts


(* A burst in progress sends a frame whenever a slot passes.               *)
LEMMA FramesStep ==
    ASSUME TypeOK, Inductive, Steady, OneBurst, InStep, [Next]_vars
    PROVE  InStep'
<1> USE Typed, TextTyped
    DEF Inductive, Steady, InHand, IdsBelow, OneContext, WorkerOwns, Encoded,
        WorkingSteps, Up, rowVars, workVars, tickVars, burstVars, appVars,
        airVars, faultVars, histVars, InStep, OneBurst, RowsIn, Swept,
        CreditInTime
<1>1. CASE Enqueue
  BY <1>1 DEF Enqueue, EnqueueCount, EnqueueInsert, BeginHandler
<1>2. CASE AckPath
  BY <1>2 DEF AckPath, AckSelect, AckCredit, AckDiscard, BeginHandler
<1>3. CASE Worker
  BY <1>3 DEF Worker, WorkerPick, WorkerPut, WorkerMark, WorkerFail
<1>4. CASE TickBegin \/ (\E i \in Ids : SweepRow(i)) \/ SweepDone
  BY <1>4 DEF TickBegin, SweepRow, SweepDone, Settle, Requeue
<1>5. CASE Pick
  BY <1>5
     DEF Pick, BurstWatchdog, PickContinuation, DropContext, PickFresh,
         PickNothing, EndTick, Settle, EndBurst, Overdue
<1>6. CASE GateBlocks \/ TakeCachedAudio \/ EncodeInline
  BY <1>6 DEF GateBlocks, TakeCachedAudio, EncodeInline, EndTick
<1>7. CASE EncodeFailedSending \/ StartBurstFails \/ BurstMarkSending
  <2>1. CASE EncodeFailedSending
    BY <2>1 DEF EncodeFailedSending, MarkSending
  <2>2. CASE StartBurstFails
    BY <2>2 DEF StartBurstFails, MarkSending
  <2>3. CASE BurstMarkSending
    BY <2>3 DEF BurstMarkSending, MarkSending
  <2> QED BY <1>7, <2>1, <2>2, <2>3
<1>8. CASE EncodeFailedAbandon \/ StartBurstRaises \/ StartBurst
  BY <1>8
     DEF EncodeFailedAbandon, StartBurstRaises, StartBurst, EndTick, Settle
<1>9. CASE Transmit
  BY <1>9 DEF Transmit, FrameSent, LastFrameSent, FrameFails, EndTick, EndBurst
<1>10. CASE Finalize \/ FailMessage
  BY <1>10 DEF Finalize, FailMessage, EndTick, AfterSending, Settle, Requeue
<1>11. CASE Boot
  BY <1>11 DEF Boot, Purge, Reset, AbandonStale, LostAudio
<1>12. CASE NextSlot \/ ClockStep \/ GateChanges \/ \E c \in Calls : AckLost(c)
  <2>1. CASE NextSlot
    <3>1. UNCHANGED <<state, text, spc, sid, burstVars, errors, clockSteps>>
      BY <2>1 DEF NextSlot
    <3>2. errors = 0 /\ mfId # None =>
             age'[mfId] = IF age[mfId] + 1 > AgeCap THEN AgeCap ELSE age[mfId] + 1
      BY <2>1 DEF NextSlot, Older
    <3>3. CASE spc = "idle" /\ ~tickDue
      <4>1. tickDue'
        BY <2>1, <3>3, Zenon DEF NextSlot
      <4> QED BY <3>1, <3>2, <3>3, <4>1
    <3>4. CASE ~(spc = "idle" /\ ~tickDue)
      <4>1. inline \/ mfId = None
        BY <2>1, <3>4 DEF NextSlot
      <4> QED BY <3>1, <4>1
    <3> QED BY <3>3, <3>4
  <2>2. CASE ClockStep
    BY <2>2 DEF ClockStep
  <2>3. CASE GateChanges \/ \E c \in Calls : AckLost(c)
    BY <2>3 DEF GateChanges, AckLost
  <2> QED BY <1>12, <2>1, <2>2, <2>3
<1>13. CASE Crash \/ TickRaises \/ WatchdogAbandonRaises
  BY <1>13 DEF Crash, TickRaises, WatchdogAbandonRaises, EndTick, EndBurst
<1>14. CASE UNCHANGED vars
  BY <1>14 DEF vars
<1> QED
  BY <1>1, <1>2, <1>3, <1>4, <1>5, <1>6, <1>7, <1>8, <1>9, <1>10, <1>11, <1>12,
     <1>13, <1>14
     DEF Next, Tick, World

(* The rows credited to a station are finitely many.                       *)
LEMMA CreditedFinite ==
    ASSUME NEW c
    PROVE  IsFiniteSet(Credited(c)) /\ IsFiniteSet(Credited(c)')
<1>1. IsFiniteSet(Ids)
  BY TxAssumption, FS_Interval DEF Ids
<1> QED BY <1>1, FS_Subset DEF Credited, RowsIn

(* Nothing but an ACK turns a row that waits for one into a DELIVERED row,  *)
(* and no step makes an ACK pending but its match.                         *)
LEMMA CreditsKept ==
    ASSUME TypeOK, Inductive, Steady, [Next]_vars,
           ~AckCredit, ~\E d \in Calls : AckSelect(d)
    PROVE  /\ \A c \in Calls : Credited(c)' \subseteq Credited(c)
           /\ tpc'[App] = "credit" =>
                 /\ tpc[App] = "credit" /\ ackId' = ackId
                 /\ text'[ackId] = text[ackId]
           /\ decoded' = decoded
<1> USE Typed
    DEF Inductive, Steady, InHand, IdsBelow, OneContext, WorkerOwns, Encoded,
        WorkingSteps, Up, rowVars, workVars, tickVars, burstVars, appVars,
        airVars, faultVars, histVars, Credited, RowsIn, Swept, CreditInTime,
        Threads
<1>1. CASE Enqueue
  BY <1>1 DEF Enqueue, EnqueueCount, EnqueueInsert, BeginHandler
<1>2. CASE AckDiscard
  BY <1>2 DEF AckDiscard
<1>3. CASE Worker
  BY <1>3 DEF Worker, WorkerPick, WorkerPut, WorkerMark, WorkerFail
<1>4. CASE TickBegin \/ (\E i \in Ids : SweepRow(i)) \/ SweepDone
  BY <1>4 DEF TickBegin, SweepRow, SweepDone, Settle, Requeue
<1>5. CASE Pick
  BY <1>5
     DEF Pick, BurstWatchdog, PickContinuation, DropContext, PickFresh,
         PickNothing, EndTick, Settle, EndBurst
<1>6. CASE GateBlocks \/ TakeCachedAudio \/ EncodeInline
  BY <1>6 DEF GateBlocks, TakeCachedAudio, EncodeInline, EndTick
<1>7. CASE EncodeFailedSending \/ StartBurstFails \/ BurstMarkSending
  BY <1>7
     DEF EncodeFailedSending, StartBurstFails, BurstMarkSending, MarkSending
<1>8. CASE EncodeFailedAbandon \/ StartBurstRaises \/ StartBurst
  BY <1>8
     DEF EncodeFailedAbandon, StartBurstRaises, StartBurst, EndTick, Settle
<1>9. CASE Transmit
  BY <1>9 DEF Transmit, FrameSent, LastFrameSent, FrameFails, EndTick, EndBurst
<1>10. CASE Finalize \/ FailMessage
  BY <1>10 DEF Finalize, FailMessage, EndTick, AfterSending, Settle, Requeue
<1>11. CASE Boot
  BY <1>11 DEF Boot, Purge, Reset, AbandonStale, LostAudio
<1>12. CASE NextSlot \/ ClockStep \/ GateChanges \/ \E c \in Calls : AckLost(c)
  BY <1>12 DEF NextSlot, ClockStep, GateChanges, AckLost
<1>13. CASE Crash \/ TickRaises \/ WatchdogAbandonRaises
  BY <1>13 DEF Crash, TickRaises, WatchdogAbandonRaises, EndTick, EndBurst
<1>14. CASE UNCHANGED vars
  BY <1>14 DEF vars
<1> QED
  BY <1>1, <1>2, <1>3, <1>4, <1>5, <1>6, <1>7, <1>8, <1>9, <1>10, <1>11, <1>12,
     <1>13, <1>14
     DEF Next, Tick, World, AckPath

(* Each step keeps the balance of ACKs: an ACK is counted when it is        *)
(* matched, spent when it is credited.                                     *)
LEMMA AcksStep ==
    ASSUME TypeOK, Inductive, Steady, AcksBalance, [Next]_vars
    PROVE  AcksBalance'
<1> SUFFICES ASSUME NEW c \in Calls
             PROVE  Cardinality(Credited(c)') + Pending(c)' <= decoded'[c]
  BY DEF AcksBalance
<1>1. /\ Cardinality(Credited(c)) \in Nat /\ Cardinality(Credited(c)') \in Nat
      /\ Credited(c)' \subseteq Credited(c) =>
            Cardinality(Credited(c)') <= Cardinality(Credited(c))
  BY CreditedFinite, FS_Subset, FS_CardinalityType
<1>2. /\ Cardinality(Credited(c)) + Pending(c) <= decoded[c]
      /\ Pending(c) \in 0..1 /\ Pending(c)' \in 0..1 /\ decoded[c] \in Nat
  BY Typed DEF AcksBalance, Pending
<1>3. CASE AckCredit
  <2>1. /\ Credited(c)' \subseteq Credited(c) \cup {ackId}
        /\ text[ackId].to # c => Credited(c)' \subseteq Credited(c)
        /\ Pending(c)' = 0 /\ decoded' = decoded
        /\ text[ackId].to = c => Pending(c) = 1
    BY <1>3, Typed DEF AckCredit, Credited, RowsIn, Pending, histVars
  <2>2. CASE text[ackId].to = c
    <3>1. /\ IsFiniteSet(Credited(c) \cup {ackId})
          /\ Cardinality(Credited(c) \cup {ackId}) =
                IF ackId \in Credited(c) THEN Cardinality(Credited(c))
                                         ELSE Cardinality(Credited(c)) + 1
      BY CreditedFinite, FS_AddElement
    <3>2. Cardinality(Credited(c)') <= Cardinality(Credited(c) \cup {ackId})
      BY <2>1, <3>1, FS_Subset
    <3>3. Cardinality(Credited(c) \cup {ackId}) \in Nat
      BY <3>1, FS_CardinalityType
    <3> QED BY <1>1, <1>2, <2>1, <2>2, <3>1, <3>2, <3>3
  <2> QED BY <1>1, <1>2, <2>1, <2>2
<1>4. CASE \E d \in Calls : AckSelect(d)
  <2>1. PICK d \in Calls : AckSelect(d)
    BY <1>4
  <2>2. /\ Credited(c)' = Credited(c) /\ tpc[App] = "idle"
        /\ decoded' = [decoded EXCEPT ![d] = @ + 1]
    BY <2>1 DEF AckSelect, Credited, RowsIn, rowVars
  <2>3. Pending(c) = 0
    BY <2>2 DEF Pending
  <2>4. Pending(c)' = 1 => c = d
    BY <2>1, <2>2, Typed DEF AckSelect, RowsIn, Pending, rowVars
  <2> QED BY <1>1, <1>2, <2>2, <2>3, <2>4, Typed
<1>5. CASE ~AckCredit /\ ~\E d \in Calls : AckSelect(d)
  <2>1. Credited(c)' \subseteq Credited(c) /\ decoded' = decoded
    BY <1>5, CreditsKept
  <2>2. Pending(c)' <= Pending(c)
    BY <1>5, CreditsKept DEF Pending
  <2> QED BY <1>1, <1>2, <2>1, <2>2
<1> QED BY <1>3, <1>4, <1>5

-------------------------------------------------------------------------------
(* The table is empty and nothing runs: every invariant above holds.       *)
LEMMA LifeInit ==
    Init => Steady /\ OneBurst /\ LiveAudio /\ AcksBalance /\ InStep
               /\ StaleIsGone /\ CutOffIsOver
<1> SUFFICES ASSUME Init
             PROVE  Steady /\ OneBurst /\ LiveAudio /\ AcksBalance /\ InStep
                       /\ StaleIsGone /\ CutOffIsOver
  OBVIOUS
<1> USE TxAssumption DEF Init, RowsIn, Up, Threads, None, Ids
<1>1. Steady
  BY DEF Steady, InHand, Tried, Swept, CreditInTime, WorkingSteps
<1>2. OneBurst /\ LiveAudio /\ InStep
  BY DEF OneBurst, LiveAudio, InStep
<1>3. StaleIsGone /\ CutOffIsOver
  BY DEF StaleIsGone, CutOffIsOver
<1>4. AcksBalance
  <2> SUFFICES ASSUME NEW c \in Calls
               PROVE  Cardinality(Credited(c)) + Pending(c) <= decoded[c]
    BY DEF AcksBalance
  <2>1. Credited(c) = {} /\ Pending(c) = 0 /\ decoded[c] = 0
    BY DEF Credited, Pending
  <2> QED BY <2>1, FS_EmptySet
<1> QED BY <1>1, <1>2, <1>3, <1>4

(* The row in hand, the swept rows and the ACK being credited are always    *)
(* what the steps of the tick take them for.                               *)
THEOREM SteadyHolds == Spec => []Steady
<1>1. TypeOK /\ Inductive /\ Steady /\ [Next]_vars => Steady'
  BY InHandStep, TriedStep, SweptStep, CreditStep DEF Steady
<1> QED BY <1>1, LifeInit, TypeCorrect, InductiveHolds, PTL DEF Spec

(* Between two ticks the backend keys the radio for the context of the      *)
(* scheduler or not at all: as long as no UPDATE raises, the row in a burst *)
(* stays SENDING, so the pop without end_burst never happens.              *)
THEOREM BurstHasContext == Spec => []BurstIsRemembered
<1>1. TypeOK /\ OneBurst => BurstIsRemembered
  BY DEF OneBurst, BurstIsRemembered
<1> QED
  BY <1>1, LifeInit, BurstStep, TypeCorrect, InductiveHolds, SteadyHolds, PTL
     DEF Spec

(* The audio cache needs no bound of its own: whatever mix of sweeps, ACKs, *)
(* failures and inline encodes, it holds the audio of live rows only.      *)
THEOREM CacheIsBounded == Spec => []CacheHoldsLiveAudio
<1>1. LiveAudio => CacheHoldsLiveAudio
  BY DEF LiveAudio, CacheHoldsLiveAudio
<1> QED
  BY <1>1, LifeInit, AudioStep, TypeCorrect, InductiveHolds, SteadyHolds, PTL
     DEF Spec

(* What an ACK is credited to is never a row on the air, although sweep    *)
(* and handler update it by id alone: the tick that re-queues a row leaves *)
(* it alone, and a handler does not last from one tick into the next.      *)
THEOREM CreditsSpareBursts == Spec => []CreditSparesBurst
<1>1. TypeOK /\ Inductive /\ Steady => CreditSparesBurst
  <2> SUFFICES ASSUME TypeOK, Inductive, Steady, tpc[App] = "credit"
               PROVE  /\ state[ackId] # "SENDING"
                      /\ spc \in WorkingSteps => sid # ackId
    BY DEF CreditSparesBurst
  <2>1. state[ackId] \in {"WAIT_ACK", "QUEUED", "ABANDONED"}
    BY DEF Steady, CreditInTime
  <2>2. ASSUME spc \in WorkingSteps, sid = ackId PROVE FALSE
    BY <2>1, <2>2 DEF Steady, InHand, CreditInTime, WorkingSteps
  <2> QED BY <2>1, <2>2
<1> QED BY <1>1, TypeCorrect, InductiveHolds, SteadyHolds, PTL

(* record_ack matches by call alone, yet no station has more messages       *)
(* DELIVERED to it than ACK frames were decoded from it.                   *)
THEOREM DeliveryIsEarned == Spec => []DeliveredIsAcknowledged
<1>1. TypeOK /\ AcksBalance => DeliveredIsAcknowledged
  <2> SUFFICES ASSUME TypeOK, AcksBalance, NEW c \in Calls
               PROVE  Cardinality(Credited(c)) <= decoded[c]
    BY DEF DeliveredIsAcknowledged, Credited
  <2>1. /\ Cardinality(Credited(c)) \in Nat /\ Pending(c) \in Nat
        /\ decoded[c] \in Nat
    BY CreditedFinite, FS_CardinalityType, Typed DEF Pending
  <2> QED BY <2>1 DEF AcksBalance
<1> QED
  BY <1>1, LifeInit, AcksStep, TypeCorrect, InductiveHolds, SteadyHolds, PTL
     DEF Spec

(* The frames of a message whose audio was ready go out in consecutive      *)
(* slots, whatever the other threads do between them.                      *)
THEOREM FramesInSequence == Spec => []FramesConsecutive
<1>1. TypeOK /\ Inductive /\ Steady /\ InStep => FramesConsecutive
  BY Typed
     DEF Inductive, Steady, InHand, OneContext, InStep, FramesConsecutive,
         None, WorkingSteps
<1> QED
  BY <1>1, LifeInit, BurstStep, FramesStep, TypeCorrect, InductiveHolds,
     SteadyHolds, PTL DEF Spec

(* purge_stale_broadcasts runs before the threads start: a heartbeat or an  *)
(* SOS of an earlier run never comes back, by any re-queueing.             *)
THEOREM BroadcastsDieWithTheRun == Spec => []NoStaleBroadcast
<1>1. TypeOK /\ Inductive /\ StaleIsGone => NoStaleBroadcast
  BY Typed DEF Inductive, StaleIsGone, Outdated, PurgedKinds, NoStaleBroadcast,
         WorkingSteps
<1> QED
  BY <1>1, LifeInit, StaleStep, TypeCorrect, InductiveHolds, SteadyHolds, PTL
     DEF Spec

(* A message that was partly on the air when the daemon died is given up by *)
(* abandon_stale_sending, and none of the four re-queueings revives it.    *)
THEOREM CutOffStaysCutOff == Spec => []CutOffNotResent
<1>1. TypeOK /\ CutOffIsOver => CutOffNotResent
  BY Typed DEF CutOffIsOver, CutOffNotResent, WorkingSteps
<1> QED
  BY <1>1, LifeInit, CutOffStep, TypeCorrect, InductiveHolds, SteadyHolds, PTL
     DEF Spec

-------------------------------------------------------------------------------
(* The refinement of MessageLifecycle, for ticks whose UPDATEs succeed: one *)
(* that raises may leave its row SENDING while another is launched.        *)

(* What a row looks like to its sender.                                    *)
Told(s) ==
    CASE s \in {"ENCODING", "QUEUED"} -> "pending"
      [] s = "SENDING"               -> "onair"
      [] s = "WAIT_ACK"              -> "sent"
      [] s = "DELIVERED"             -> "delivered"
      [] s = "ABANDONED"             -> "abandoned"

(* The status of a row that was inserted and not purged is that of its      *)
(* state alone.                                                            *)
LEMMA StatusIsTold ==
    /\ Status = [i \in Ids |-> Status[i]]
    /\ \A i \in Ids : state[i] \in States \ {"absent"} =>
          Status[i] = Told(state[i])
    /\ \A i \in Ids : state[i] = "absent" /\ nextId \in Nat =>
          Status[i] = IF i < nextId THEN "forgotten" ELSE "none"
<1>1. Status = [i \in Ids |-> Status[i]]
  BY DEF Status
<1>2. ASSUME NEW i \in Ids, state[i] \in States \ {"absent"}
      PROVE  Status[i] = Told(state[i])
  BY <1>2 DEF Status, StatusOf, Told, States, Active, Terminal
<1>3. ASSUME NEW i \in Ids, state[i] = "absent", nextId \in Nat
      PROVE  Status[i] = IF i < nextId THEN "forgotten" ELSE "none"
  <2>1. i \in Nat
    BY TxAssumption DEF Ids
  <2> QED BY <1>3, <2>1 DEF Status, StatusOf
<1> QED BY <1>1, <1>2, <1>3

(* The same of the state a step leads to.                                  *)
LEMMA NextStatusIsTold ==
    /\ Status' = [i \in Ids |-> Status'[i]]
    /\ \A i \in Ids : state'[i] \in States \ {"absent"} =>
          Status'[i] = Told(state'[i])
    /\ \A i \in Ids : state'[i] = "absent" /\ nextId' \in Nat =>
          Status'[i] = IF i < nextId' THEN "forgotten" ELSE "none"
<1>1. Status' = [i \in Ids |-> Status'[i]]
  BY DEF Status
<1>2. ASSUME NEW i \in Ids, state'[i] \in States \ {"absent"}
      PROVE  Status'[i] = Told(state'[i])
  BY <1>2 DEF Status, StatusOf, Told, States, Active, Terminal
<1>3. ASSUME NEW i \in Ids, state'[i] = "absent", nextId' \in Nat
      PROVE  Status'[i] = IF i < nextId' THEN "forgotten" ELSE "none"
  <2>1. i \in Nat
    BY TxAssumption DEF Ids
  <2> QED BY <1>3, <2>1 DEF Status, StatusOf
<1> QED BY <1>1, <1>2, <1>3

(* A step that changes the state of one inserted row changes the status of  *)
(* that message only.                                                      *)
LEMMA OneMoves ==
    ASSUME TypeOK, NEW i \in Ids,
           NEW s \in States \ {"absent"},
           state' = [state EXCEPT ![i] = s], nextId' = nextId
    PROVE  Status' = [Status EXCEPT ![i] = Told(s)]
<1>1. \A j \in Ids : Status'[j] = IF j = i THEN Told(s) ELSE Status[j]
  <2> SUFFICES ASSUME NEW j \in Ids
               PROVE  Status'[j] = IF j = i THEN Told(s) ELSE Status[j]
    OBVIOUS
  <2>1. CASE j = i
    BY <2>1, Typed, NextStatusIsTold
  <2>2. CASE j # i
    <3>1. state'[j] = state[j] /\ state[j] \in States
      BY <2>2, Typed
    <3>2. CASE state[j] = "absent"
      BY <2>2, <3>1, <3>2, Typed, StatusIsTold, NextStatusIsTold
    <3>3. CASE state[j] # "absent"
      BY <2>2, <3>1, <3>3, StatusIsTold, NextStatusIsTold
    <3> QED BY <3>2, <3>3
  <2> QED BY <2>1, <2>2
<1>2. Status' = [j \in Ids |-> Status'[j]] /\ Status = [j \in Ids |-> Status[j]]
  BY StatusIsTold, NextStatusIsTold
<1> QED BY <1>1, <1>2

(* A step that leaves the table alone, or re-encodes what waits, stutters.  *)
LEMMA Stutters ==
    ASSUME TypeOK, UNCHANGED <<nextId, attempts>>,
           \A i \in Ids : \/ state'[i] = state[i]
                          \/ {state[i], state'[i]} \subseteq {"ENCODING", "QUEUED"}
    PROVE  UNCHANGED Lifecycle!lifeVars
<1>1. \A j \in Ids : Status'[j] = Status[j]
  <2> SUFFICES ASSUME NEW j \in Ids PROVE Status'[j] = Status[j]
    OBVIOUS
  <2>1. CASE state'[j] = state[j] /\ state[j] = "absent"
    BY <2>1, Typed, StatusIsTold, NextStatusIsTold
  <2>2. CASE state'[j] = state[j] /\ state[j] # "absent"
    BY <2>2, Typed, StatusIsTold, NextStatusIsTold
  <2>3. CASE {state[j], state'[j]} \subseteq {"ENCODING", "QUEUED"}
    BY <2>3, StatusIsTold, NextStatusIsTold DEF States, Active, Told
  <2> QED BY <2>1, <2>2, <2>3
<1>2. Status' = Status
  BY <1>1, StatusIsTold, NextStatusIsTold
<1> QED BY <1>2 DEF Lifecycle!lifeVars

(* A handler's verdict on one row is the matching step of that message.     *)
LEMMA Moves ==
    ASSUME NEW i \in Ids,
           \/ Lifecycle!Submit(i) \/ Lifecycle!Launch(i) \/ Lifecycle!Reject(i)
           \/ Lifecycle!Complete(i) \/ Lifecycle!Break(i) \/ Lifecycle!Answer(i)
           \/ Lifecycle!Timeout(i) \/ Lifecycle!LateAnswer(i)
           \/ Lifecycle!LateTimeout(i)
    PROVE  Lifecycle!Next
BY DEF Lifecycle!Next, Lifecycle!Messages, Ids

(* INSERT submits the message.                                             *)
LEMMA InsertSubmits ==
    ASSUME TypeOK, Inductive, NEW t \in Threads, NEW m \in Offers,
           EnqueueInsert(t, m)
    PROVE  Lifecycle!Next
<1>1. /\ nextId \in Ids /\ state[nextId] = "absent" /\ nextId \in Nat
      /\ state' = [state EXCEPT ![nextId] = "ENCODING"]
      /\ attempts' = [attempts EXCEPT ![nextId] = 0] /\ nextId' = nextId + 1
  BY Typed DEF EnqueueInsert, Inductive, IdsBelow
<1>2. \A j \in Ids : Status'[j] = IF j = nextId THEN "pending" ELSE Status[j]
  <2> SUFFICES ASSUME NEW j \in Ids
               PROVE  Status'[j] = IF j = nextId THEN "pending" ELSE Status[j]
    OBVIOUS
  <2>1. CASE j = nextId
    <3>1. state'[j] = "ENCODING"
      BY <1>1, <2>1, Typed
    <3> QED BY <2>1, <3>1, NextStatusIsTold DEF States, Active, Told
  <2>2. CASE j # nextId
    <3>1. /\ state'[j] = state[j] /\ state[j] \in States
          /\ j < nextId' <=> j < nextId
      BY <1>1, <2>2, Typed
    <3>2. CASE state[j] = "absent"
      BY <1>1, <2>2, <3>1, <3>2, StatusIsTold, NextStatusIsTold
    <3>3. CASE state[j] # "absent"
      BY <2>2, <3>1, <3>3, StatusIsTold, NextStatusIsTold
    <3> QED BY <3>2, <3>3
  <2> QED BY <2>1, <2>2
<1>3. Status' = [Status EXCEPT ![nextId] = "pending"]
  BY <1>2, StatusIsTold, NextStatusIsTold
<1>4. Status[nextId] = "none"
  BY <1>1, StatusIsTold
<1>5. Lifecycle!Submit(nextId)
  BY <1>1, <1>3, <1>4 DEF Lifecycle!Submit, Lifecycle!Becomes
<1> QED BY <1>1, <1>5, Moves

(* mark_sending launches the message, and no other is on the air.           *)
LEMMA MarkSendingLaunches ==
    ASSUME TypeOK, Inductive, Steady, errors = 0, nextId' = nextId,
           spc \in {"encodeFailed", "key", "keyed"}, MarkSending(sid)
    PROVE  Lifecycle!Next
<1>1. sid \in Ids /\ state[sid] = "QUEUED" /\ attempts[sid] < MaxAttempts
  BY Typed DEF Inductive, Budget, Steady, InHand, WorkingSteps
<1>2. \A j \in Ids : state[j] # "SENDING"
  BY Typed, <1>1
     DEF Inductive, SendingIsOwned, OneContext, RowsIn
<1>3. \A j \in Ids : Status[j] # "onair"
  <2> SUFFICES ASSUME NEW j \in Ids PROVE Status[j] # "onair"
    OBVIOUS
  <2>1. state[j] \in States /\ state[j] # "SENDING"
    BY <1>2, Typed
  <2> QED BY <2>1, Typed, StatusIsTold DEF Told, States, Active, Terminal
<1>4. Status[sid] = "pending"
  BY <1>1, StatusIsTold DEF States, Active, Told
<1>5. Status' = [Status EXCEPT ![sid] = "onair"]
  BY <1>1, OneMoves DEF MarkSending, States, Active, Told
<1>6. Lifecycle!Launch(sid)
  BY <1>1, <1>3, <1>4, <1>5
     DEF MarkSending, Lifecycle!Launch, Lifecycle!Becomes, Lifecycle!Triable,
         Lifecycle!Messages, Ids
<1> QED BY <1>1, <1>6, Moves

(* A row that leaves the air completes its message or breaks it off.        *)
LEMMA SettleEndsAiring ==
    ASSUME TypeOK, NEW i \in Ids, state[i] = "SENDING",
           NEW s \in {"WAIT_ACK", "DELIVERED", "ABANDONED", "QUEUED"},
           s = "QUEUED" => attempts[i] < MaxAttempts,
           state' = [state EXCEPT ![i] = s], UNCHANGED <<attempts, nextId>>
    PROVE  Lifecycle!Next
<1>1. Status[i] = "onair"
  BY StatusIsTold DEF States, Active, Told
<1>2. Status' = [Status EXCEPT ![i] = Told(s)]
  BY OneMoves DEF States, Active, Terminal
<1>3. Lifecycle!Complete(i) \/ Lifecycle!Break(i)
  BY <1>1, <1>2
     DEF Told, Lifecycle!Complete, Lifecycle!Break, Lifecycle!Becomes,
         Lifecycle!Triable
<1> QED BY <1>3, Moves

(* The credit of an ACK answers the message, in time or after its wait.     *)
LEMMA CreditAnswers ==
    ASSUME TypeOK, Steady, AckCredit
    PROVE  Lifecycle!Next
<1>1. /\ ackId \in Ids /\ attempts[ackId] > 0
      /\ state[ackId] \in {"WAIT_ACK", "QUEUED", "ABANDONED"}
      /\ state' = [state EXCEPT ![ackId] = "DELIVERED"]
      /\ UNCHANGED <<attempts, nextId>>
  BY Typed DEF AckCredit, Steady, Tried, CreditInTime
<1>2. Status[ackId] \in {"sent", "pending", "abandoned"}
  BY <1>1, StatusIsTold DEF States, Active, Terminal, Told
<1>3. Status' = [Status EXCEPT ![ackId] = "delivered"]
  BY <1>1, OneMoves DEF States, Terminal, Told
<1>4. Lifecycle!Answer(ackId) \/ Lifecycle!LateAnswer(ackId)
  BY <1>1, <1>2, <1>3
     DEF Lifecycle!Answer, Lifecycle!LateAnswer, Lifecycle!Becomes
<1> QED BY <1>1, <1>4, Moves

(* The sweep ends the wait, or overtakes the answer it did not see.         *)
LEMMA SweepTimesOut ==
    ASSUME TypeOK, Steady, NEW i \in Ids, SweepRow(i)
    PROVE  Lifecycle!Next
<1>1. /\ i \in due /\ state[i] \in {"WAIT_ACK", "DELIVERED"}
      /\ UNCHANGED <<attempts, nextId>>
  BY SweepEffect DEF Steady, Swept
<1>2. Status[i] \in {"sent", "delivered"}
  BY <1>1, StatusIsTold DEF States, Active, Terminal, Told
<1>3. \/ /\ attempts[i] >= MaxAttempts
         /\ state' = [state EXCEPT ![i] = "ABANDONED"]
      \/ /\ attempts[i] < MaxAttempts
         /\ state' = [state EXCEPT ![i] = "QUEUED"]
  BY Typed, TxAssumption DEF SweepRow, Exhausted, Settle, Requeue
<1>4. Lifecycle!Unanswered(i)
  <2>1. CASE /\ attempts[i] >= MaxAttempts
            /\ state' = [state EXCEPT ![i] = "ABANDONED"]
    <3>1. Status' = [Status EXCEPT ![i] = "abandoned"]
      BY <1>1, <2>1, OneMoves DEF States, Terminal, Told
    <3> QED BY <2>1, <3>1, Typed, TxAssumption
            DEF Lifecycle!Unanswered, Lifecycle!Triable, Lifecycle!Becomes
  <2>2. CASE /\ attempts[i] < MaxAttempts
            /\ state' = [state EXCEPT ![i] = "QUEUED"]
    <3>1. Status' = [Status EXCEPT ![i] = "pending"]
      BY <1>1, <2>2, OneMoves DEF States, Active, Told
    <3> QED BY <2>2, <3>1
            DEF Lifecycle!Unanswered, Lifecycle!Triable, Lifecycle!Becomes
  <2> QED BY <1>3, <2>1, <2>2
<1>5. Lifecycle!Timeout(i) \/ Lifecycle!LateTimeout(i)
  BY <1>1, <1>2, <1>4 DEF Lifecycle!Timeout, Lifecycle!LateTimeout
<1> QED BY <1>5, Moves

(* purge_stale_broadcasts is the restart that forgets broadcasts.           *)
LEMMA PurgeForgets ==
    ASSUME TypeOK, Inductive, Purge
    PROVE  Lifecycle!Next
<1> DEFINE F == {i \in Ids :
                   state[i] \in Active /\ text[i].kind \in PurgedKinds}
<1>1. /\ \A i \in Ids : state'[i] = IF i \in F THEN "absent" ELSE state[i]
      /\ nextId' = nextId /\ attempts' = attempts
  BY DEF Purge
<1>2. ASSUME NEW i \in F
      PROVE  /\ Status[i] \in {"pending", "onair", "sent"}
             /\ Status'[i] = "forgotten"
  <2>1. state[i] \in Active /\ i < nextId /\ i \in Ids
    BY Typed DEF Inductive, IdsBelow, Active
  <2>2. Status[i] \in {"pending", "onair", "sent"}
    BY <2>1, StatusIsTold DEF States, Active, Told
  <2>3. state'[i] = "absent"
    BY <1>1, <2>1
  <2> QED BY <1>1, <2>1, <2>2, <2>3, Typed, NextStatusIsTold
<1>3. ASSUME NEW i \in Ids \ F PROVE Status'[i] = Status[i]
  <2>1. state'[i] = state[i] /\ state[i] \in States
    BY <1>1, Typed
  <2>2. CASE state[i] = "absent"
    BY <1>1, <2>1, <2>2, Typed, StatusIsTold, NextStatusIsTold
  <2>3. CASE state[i] # "absent"
    BY <2>1, <2>3, StatusIsTold, NextStatusIsTold
  <2> QED BY <2>2, <2>3
<1>4. Status' = [i \in Ids |-> IF i \in F THEN "forgotten" ELSE Status[i]]
  BY <1>2, <1>3, NextStatusIsTold
<1>5. Lifecycle!Restart(F)
  BY <1>1, <1>2, <1>4 DEF Lifecycle!Restart, Lifecycle!Messages, Ids
<1>6. F \in SUBSET Lifecycle!Messages
  BY DEF Lifecycle!Messages, Ids
<1> QED BY <1>5, <1>6 DEF Lifecycle!Next

(* The start of the scheduler breaks off what the last run was sending: at  *)
(* most one message.                                                       *)
LEMMA AbandonStaleBreaks ==
    ASSUME TypeOK, OneBurst, errors = 0, AbandonStale
    PROVE  [Lifecycle!Next]_Lifecycle!lifeVars
<1>1. /\ \A i \in Ids :
            state'[i] = IF state[i] = "SENDING" THEN "ABANDONED" ELSE state[i]
      /\ state' \in [Ids -> States] /\ UNCHANGED <<attempts, nextId>>
  BY Typed DEF AbandonStale, States, Terminal
<1>2. CASE \E i \in Ids : state[i] = "SENDING"
  <2>1. PICK i \in Ids : state[i] = "SENDING"
    BY <1>2
  <2>2. \A j \in Ids : state[j] = "SENDING" => j = i
    BY <2>1 DEF OneBurst, RowsIn
  <2>3. state' = [state EXCEPT ![i] = "ABANDONED"]
    BY <1>1, <2>1, <2>2, Typed
  <2>4. Lifecycle!Next
    BY <1>1, <2>1, <2>3, SettleEndsAiring
  <2> QED BY <2>4
<1>3. CASE \A i \in Ids : state[i] # "SENDING"
  BY <1>1, <1>3, Stutters
<1> QED BY <1>2, <1>3

(* Every step of the pipeline is a step of a message's life or a stutter.   *)
LEMMA LifeStep ==
    ASSUME TypeOK, Inductive, Steady, OneBurst, errors = 0, [Next]_vars
    PROVE  [Lifecycle!Next]_Lifecycle!lifeVars
<1> USE DEF rowVars, workVars, tickVars, burstVars, appVars, airVars,
            faultVars, histVars
<1>1. CASE UNCHANGED <<state, nextId, attempts>>
  BY <1>1, Stutters
<1>2. CASE Enqueue
  <2>1. ASSUME NEW t \in Threads, EnqueueCount(t)
        PROVE  [Lifecycle!Next]_Lifecycle!lifeVars
    BY <1>1, <2>1 DEF EnqueueCount
  <2> QED BY <1>2, <2>1, InsertSubmits DEF Enqueue
<1>3. CASE AckPath
  <2>1. CASE (\E c \in Calls : AckSelect(c)) \/ AckDiscard
    BY <1>1, <2>1 DEF AckSelect, AckDiscard
  <2> QED BY <1>3, <2>1, CreditAnswers DEF AckPath
<1>4. CASE Worker
  <2>1. CASE WorkerPick \/ WorkerPut
    BY <1>1, <2>1 DEF WorkerPick, WorkerPut
  <2>2. CASE WorkerMark
    <3>1. \A i \in Ids : \/ state'[i] = state[i]
                         \/ {state[i], state'[i]} \subseteq {"ENCODING", "QUEUED"}
      BY <2>2, Typed DEF WorkerMark
    <3>2. UNCHANGED <<nextId, attempts>>
      BY <2>2 DEF WorkerMark
    <3> QED BY <3>1, <3>2, Stutters
  <2>3. CASE WorkerFail
    <3>1. /\ wid \in Ids /\ state[wid] = "ENCODING"
          /\ state' = [state EXCEPT ![wid] = "ABANDONED"]
          /\ UNCHANGED <<attempts, nextId>>
      BY <2>3, Typed DEF WorkerFail, Inductive, WorkerOwns
    <3>2. Status[wid] = "pending"
      BY <3>1, StatusIsTold DEF States, Active, Told
    <3>3. Status' = [Status EXCEPT ![wid] = "abandoned"]
      BY <3>1, OneMoves DEF States, Terminal, Told
    <3>4. Lifecycle!Reject(wid)
      BY <3>1, <3>2, <3>3 DEF Lifecycle!Reject, Lifecycle!Becomes
    <3> QED BY <3>1, <3>4, Moves
  <2> QED BY <1>4, <2>1, <2>2, <2>3 DEF Worker
<1>5. CASE TickBegin \/ SweepDone \/ PickContinuation \/ DropContext
         \/ PickFresh
           \/ PickNothing \/ GateBlocks \/ TakeCachedAudio \/ EncodeInline
           \/ StartBurstRaises \/ StartBurst \/ Transmit
  BY <1>1, <1>5
     DEF TickBegin, SweepDone, PickContinuation, DropContext, PickFresh,
         PickNothing, GateBlocks, TakeCachedAudio, EncodeInline,
         StartBurstRaises, StartBurst, Transmit, FrameSent, LastFrameSent,
         FrameFails
<1>6. CASE \E i \in Ids : SweepRow(i)
  BY <1>6, SweepTimesOut
<1>7. CASE BurstWatchdog
  <2>1. /\ mfId \in Ids /\ state[mfId] = "SENDING"
        /\ state' = [state EXCEPT ![mfId] = "ABANDONED"]
        /\ UNCHANGED <<attempts, nextId>>
    BY <1>7, Typed DEF BurstWatchdog, Overdue, Settle, OneBurst
  <2> QED BY <2>1, SettleEndsAiring
<1>8. CASE EncodeFailedSending \/ StartBurstFails \/ BurstMarkSending
  BY <1>8, MarkSendingLaunches
     DEF EncodeFailedSending, StartBurstFails, BurstMarkSending
<1>9. CASE EncodeFailedAbandon \/ Finalize \/ FailMessage
  <2>1. sid \in Ids /\ state[sid] = "SENDING" /\ UNCHANGED <<attempts, nextId>>
    BY <1>9, Typed
       DEF EncodeFailedAbandon, Finalize, FailMessage, Steady, InHand,
           WorkingSteps
  <2>2. \E s \in {"WAIT_ACK", "DELIVERED", "ABANDONED", "QUEUED"} :
           /\ state' = [state EXCEPT ![sid] = s]
           /\ s = "QUEUED" => attempts[sid] < MaxAttempts
    BY <1>9, <2>1, Typed, TxAssumption
       DEF EncodeFailedAbandon, Finalize, FailMessage, AfterSending, Settle,
           Requeue, Exhausted
  <2> QED BY <2>1, <2>2, SettleEndsAiring
<1>10. CASE Boot
  <2>1. CASE Reset
    <3>1. \A i \in Ids : \/ state'[i] = state[i]
                         \/ {state[i], state'[i]} \subseteq {"ENCODING", "QUEUED"}
      BY <2>1, Typed DEF Reset, LostAudio
    <3>2. UNCHANGED <<nextId, attempts>>
      BY <2>1 DEF Reset
    <3> QED BY <3>1, <3>2, Stutters
  <2> QED BY <1>10, <2>1, PurgeForgets, AbandonStaleBreaks DEF Boot
<1>11. CASE World
  BY <1>1, <1>11
     DEF World, NextSlot, ClockStep, GateChanges, Crash, TickRaises,
         WatchdogAbandonRaises, AckLost
<1>12. CASE UNCHANGED vars
  BY <1>1, <1>12 DEF vars
<1> QED
  BY <1>2, <1>3, <1>4, <1>5, <1>6, <1>7, <1>8, <1>9, <1>10, <1>11, <1>12
     DEF Next, Tick, Pick

NoError == errors = 0

(* Where no UPDATE may raise, none has.                                     *)
LEMMA NoErrors ==
    ASSUME MaxErrors = 0, errors = 0, [Next]_vars
    PROVE  errors' = 0
<1> USE DEF faultVars
<1>1. CASE Enqueue
  BY <1>1 DEF Enqueue, EnqueueCount, EnqueueInsert
<1>2. CASE AckPath
  BY <1>2 DEF AckPath, AckSelect, AckCredit, AckDiscard
<1>3. CASE Worker
  BY <1>3 DEF Worker, WorkerPick, WorkerPut, WorkerMark, WorkerFail
<1>4. CASE TickBegin \/ (\E i \in Ids : SweepRow(i)) \/ SweepDone
  BY <1>4 DEF TickBegin, SweepRow, SweepDone
<1>5. CASE Pick
  BY <1>5
     DEF Pick, BurstWatchdog, PickContinuation, DropContext, PickFresh,
         PickNothing
<1>6. CASE GateBlocks \/ TakeCachedAudio \/ EncodeInline
  BY <1>6 DEF GateBlocks, TakeCachedAudio, EncodeInline
<1>7. CASE EncodeFailedSending \/ StartBurstFails \/ BurstMarkSending
  BY <1>7 DEF EncodeFailedSending, StartBurstFails, BurstMarkSending
<1>8. CASE EncodeFailedAbandon \/ StartBurstRaises \/ StartBurst
  BY <1>8 DEF EncodeFailedAbandon, StartBurstRaises, StartBurst
<1>9. CASE Transmit
  BY <1>9 DEF Transmit, FrameSent, LastFrameSent, FrameFails
<1>10. CASE Finalize \/ FailMessage
  BY <1>10 DEF Finalize, FailMessage
<1>11. CASE Boot
  BY <1>11 DEF Boot, Purge, Reset, AbandonStale
<1>12. CASE NextSlot \/ ClockStep \/ GateChanges \/ \E c \in Calls : AckLost(c)
  BY <1>12 DEF NextSlot, ClockStep, GateChanges, AckLost
<1>13. CASE Crash
  BY <1>13 DEF Crash
<1>14. CASE UNCHANGED vars
  BY <1>14 DEF vars
<1>15. ~TickRaises /\ ~WatchdogAbandonRaises
  BY DEF TickRaises, WatchdogAbandonRaises
<1> QED
  BY <1>1, <1>2, <1>3, <1>4, <1>5, <1>6, <1>7, <1>8, <1>9, <1>10, <1>11, <1>12,
     <1>13, <1>14, <1>15
     DEF Next, Tick, World

(* As long as the UPDATEs of the ticks succeed, the queue, the worker, the  *)
(* scheduler, the ACK path and any number of restarts together give every  *)
(* message the life MessageLifecycle promises its sender.                  *)
THEOREM PipelineRefinesLifecycle == Spec /\ []NoError => RefinesLifecycle
<1>1. Init => Lifecycle!Init
  <2> SUFFICES ASSUME Init PROVE Lifecycle!Init
    OBVIOUS
  <2>1. \A i \in Ids : Status[i] = "none"
    <3>1. Ids \subseteq Nat /\ \A i \in Ids : ~(i < 1)
      BY TxAssumption DEF Ids
    <3> QED BY <3>1, StatusIsTold DEF Init
  <2>2. Status = [i \in Ids |-> "none"]
    BY <2>1, StatusIsTold
  <2> QED BY <2>2 DEF Init, Lifecycle!Init, Lifecycle!Messages, Ids
<1>2. TypeOK /\ Inductive /\ Steady /\ OneBurst /\ NoError /\ [Next]_vars
         => [Lifecycle!Next]_Lifecycle!lifeVars
  BY LifeStep DEF NoError
<1> QED
  BY <1>1, <1>2, LifeInit, BurstStep, TypeCorrect, InductiveHolds, SteadyHolds,
     PTL DEF Spec, RefinesLifecycle, Lifecycle!Spec

(* In particular when nothing makes an UPDATE raise, as in the run.         *)
COROLLARY LifecycleWithoutErrors ==
    ASSUME MaxErrors = 0
    PROVE  Spec => RefinesLifecycle
<1>1. Init => NoError
  BY DEF Init, NoError
<1>2. NoError /\ [Next]_vars => NoError'
  BY NoErrors DEF NoError
<1> QED BY <1>1, <1>2, PipelineRefinesLifecycle, PTL DEF Spec
===============================================================================
