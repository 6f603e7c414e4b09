---------------------------- MODULE TxPipelineProps ----------------------------
(***************************************************************************)
(* What the transmit pipeline promises: properties of TxPipeline.          *)
(***************************************************************************)
EXTENDS TxPipeline

SchedulerSteps ==
    {"down", "purged", "starting", "idle", "sweep", "select", "gate", "key",
     "encodeFailed", "giveUp", "keyed", "tx", "sent", "fail"}

IdOrNone == Ids \cup {None}

WorkingSteps ==
    {"gate", "key", "encodeFailed", "giveUp", "keyed", "tx", "sent", "fail"}

(* The types of the variables, part by part.                               *)
RowsOK ==
    /\ state \in [Ids -> States]
    /\ text \in [Ids -> Offers]
    /\ attempts \in [Ids -> Nat]
    /\ age \in [Ids -> Nat]
    /\ nextId \in 1..(MaxMsgs + 1)

WorkerOK ==
    /\ cache \subseteq Ids
    /\ wpc \in {"idle", "encode", "mark"}
    /\ wid \in IdOrNone /\ (wpc # "idle" => wid \in Ids)

TickOK ==
    /\ spc \in SchedulerSteps
    /\ sid \in IdOrNone /\ (spc \in WorkingSteps => sid \in Ids)
    /\ due \subseteq Ids /\ skip \subseteq Ids
    /\ tickDue \in BOOLEAN

BurstOK ==
    mfId \in IdOrNone /\ mfNext \in Nat /\ inline \in BOOLEAN /\ burst \in BOOLEAN

AppOK ==
    /\ tpc \in [Threads -> {"idle", "insert", "credit", "discard"}]
    /\ \A t \in Threads \ {App} : tpc[t] \in {"idle", "insert"}
    /\ ackId \in IdOrNone
    /\ (tpc[App] \in {"credit", "discard"} => ackId \in Ids)
    /\ late \subseteq Threads

WorldOK ==
    /\ gateOpen \in BOOLEAN
    /\ air \in [Calls -> Nat]
    /\ crashes \in Nat /\ errors \in Nat /\ clockSteps \in Nat

HistoryOK ==
    /\ decoded \in [Calls -> Nat]
    /\ aired \in [Ids -> Nat]
    /\ inherited \subseteq Ids
    /\ cutOff \subseteq Ids

(* Every variable has its type; a thread that works on a row knows which.  *)
TypeOK ==
    RowsOK /\ WorkerOK /\ TickOK /\ BurstOK /\ AppOK /\ WorldOK /\ HistoryOK

(* No message is put on the air more than MAX_ATTEMPTS times, whatever the *)
(* mix of missing ACKs, ACKs that race the sweep, failed frames, failed    *)
(* keyings and restarts that re-queued it (mark_sending is the only place  *)
(* that counts, four places re-queue).                                     *)
AttemptsBounded ==
    \A i \in Ids : aired[i] <= attempts[i] /\ attempts[i] <= MaxAttempts

(* The transmitter has one user: a SENDING row is the row whose burst the  *)
(* scheduler holds, or the one this tick is starting or settling, or a row *)
(* the previous run left and AbandonStale has not reached.  Needs that no  *)
(* UPDATE of a tick raised.                                                *)
SendingIsOwned ==
    errors = 0 =>
      \A i \in RowsIn({"SENDING"}) :
         \/ i = mfId
         \/ i = sid /\ spc \in {"giveUp", "sent", "fail"}
         \/ spc \in {"down", "purged", "starting"}

(* Between two ticks the backend is in a burst exactly when the scheduler  *)
(* remembers whose burst it is: a burst nobody remembers is one nobody     *)
(* will end (DropContext pops the context without end_burst).              *)
BurstIsRemembered ==
    (spc = "idle" /\ errors = 0) => (burst <=> mfId # None)

(* What goes on the air had its audio ready or is being encoded by this    *)
(* tick: the scheduler never works on a row the encode worker owns.        *)
NeverSendsUnencoded ==
    spc \in WorkingSteps \ {"fail"} =>
       state[sid] \notin {"ENCODING", "absent"} /\ (wpc # "idle" => wid # sid)

(* When nobody is between marking a row terminal and discarding its audio, *)
(* the cache holds audio of live rows only: it is bounded by the queue.    *)
CacheHoldsLiveAudio ==
    tpc[App] # "discard" => \A i \in cache : state[i] \in Active

(* An ACK frame is spent once: no more directed rows of a station are      *)
(* DELIVERED than ACK frames were decoded from it, although a station may  *)
(* answer every retry of a message and the match goes by call alone.       *)
DeliveredIsAcknowledged ==
    \A c \in Calls :
       Cardinality({i \in RowsIn({"DELIVERED"}) :
                      ~SkipsWaitAck(text[i]) /\ text[i].to = c}) <= decoded[c]

(* A handler that has chosen the row an ACK belongs to, and not yet marked *)
(* it, never marks a row whose next transmission has begun: the sweep may  *)
(* re-queue the row in between, but the same tick does not send it.        *)
CreditSparesBurst ==
    tpc[App] = "credit" =>
       state[ackId] # "SENDING" /\ (spc \in WorkingSteps => sid # ackId)

(* A burst whose audio was ready sends one frame in each of consecutive    *)
(* slots, from the slot it was keyed in on, as long as no tick of it       *)
(* raised and the clock that counts the slots was not stepped.             *)
FramesConsecutive ==
    (spc = "tx" /\ mfNext > 0 /\ ~inline /\ errors + clockSteps = 0) =>
       age[sid] = mfNext

(* Neither an SOS nor a heartbeat of an earlier run is ever transmitted.   *)
NoStaleBroadcast ==
    spc \in {"key", "keyed", "tx"} /\ sid \in inherited =>
       text[sid].kind \notin {"ALLCALL", "HEARTBEAT"}

(* What was partly on the air when the daemon died is not sent again.      *)
CutOffNotResent == spc \in {"gate", "key", "keyed", "tx"} => sid \notin cutOff

(* "a message that has reached a terminal state (DELIVERED/ABANDONED)"     *)
(* (tx/scheduler.py:703), and the state machine of tx/queue.py:14-19, in   *)
(* which nothing leads out of DELIVERED: what was acknowledged is not sent *)
(* again, nor given up.                                                    *)
DeliveredIsFinal ==
    [][\A i \in Ids : state[i] = "DELIVERED" => state'[i] = "DELIVERED"]_vars

(* With a gate that is not blocked forever, every accepted message reaches *)
(* a verdict or is purged by a restart: no row is lost between the worker, *)
(* the scheduler and the sweep, and no retry goes on for ever.             *)
EventuallySettled ==
    <>[]gateOpen =>
       \A i \in Ids : (state[i] \in Active) ~> (state[i] \notin Active)

(* The promise to the operator, in terms of the message alone.             *)
StatusOf(i) ==
    CASE state[i] = "absent" /\ i >= nextId    -> "none"
      [] state[i] = "absent" /\ i < nextId     -> "forgotten"
      [] state[i] \in {"ENCODING", "QUEUED"}    -> "pending"
      [] state[i] = "SENDING"                  -> "onair"
      [] state[i] = "WAIT_ACK"                 -> "sent"
      [] state[i] = "DELIVERED"                -> "delivered"
      [] state[i] = "ABANDONED"                -> "abandoned"
Status == [i \in Ids |-> StatusOf(i)]

Lifecycle == INSTANCE MessageLifecycle WITH status <- Status, tries <- attempts

(* Every step of the pipeline is a step of the message's life or none.     *)
RefinesLifecycle == Lifecycle!Spec

===============================================================================
