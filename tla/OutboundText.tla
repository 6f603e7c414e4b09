----------------------------- MODULE OutboundText -----------------------------
(***************************************************************************)
(* What the transmit pipeline needs to know of an outbound text: the kind  *)
(* it was enqueued with, the shape of its first two tokens, the call it is *)
(* addressed to and the number of frames it encodes to.  tx/queue.py and   *)
(* the last step of TxScheduler._tick decide from these alone whether a    *)
(* sent message waits for an ACK.  Slip... definitions are explained in     *)
(* TxPipeline.                                                             *)
(***************************************************************************)
EXTENDS Naturals

CONSTANTS
    Calls,      \* the stations that may acknowledge a message of ours
    NoCall,     \* to_call of a row that names no single station
    App,        \* the asyncio thread: operator, replies and inbound ACKs
    Beacons     \* the heartbeat and emergency beacon threads

Threads == {App} \cup Beacons

(* OutboundKind. *)
Kinds == {"HEARTBEAT", "CQ", "ALLCALL", "DIRECTED", "REPLY"}

(* The second token of the text, upper-cased; "none" when there is none.   *)
Verbs == {"none", "MSG", "other"}

(* One text as the program enqueues it: "by" is the thread that calls      *)
(* enqueue_for_encoding, "group" says that the recipient starts with "@".  *)
Texts ==
    [kind : Kinds, group : BOOLEAN, verb : Verbs, to : Calls \cup {NoCall},
     frames : Nat \ {0}, by : Threads]

(* infer_outbound_kind: only a MSG to a single station expects an ACK.     *)
InferKind(t) ==
    IF t.verb = "MSG" /\ ~t.group THEN "DIRECTED" ELSE "REPLY"

NoAckKinds == Kinds \ {"DIRECTED"}

(* The stored kind or the kind inferred from the text may rule out an ACK. *)
SkipsWaitAck(t) == t.kind \in NoAckKinds \/ InferKind(t) \in NoAckKinds

(* purge_stale_broadcasts deletes these kinds, and only these.             *)
SlipPurgedKinds == {"ALLCALL"}
PurgedKinds == {"ALLCALL", "HEARTBEAT"}

(* The stations whose software answers the text with an ACK once they have *)
(* it whole: the addressee of a MSG, or any member of the group.           *)
Ackers(t) ==
    CASE t.verb = "MSG" /\ t.group  -> Calls
      [] t.verb = "MSG" /\ ~t.group -> {t.to} \ {NoCall}
      [] OTHER                      -> {}
===============================================================================
