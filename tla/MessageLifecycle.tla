--------------------------- MODULE MessageLifecycle ---------------------------
(***************************************************************************)
(* The life of an outbound message as its sender may rely on it: it is     *)
(* pending until the transmitter is free, on the air at most MaxAttempts   *)
(* times and never together with another, and ends delivered, abandoned    *)
(* or, if it is a broadcast, forgotten by a restart.  Where the message is *)
(* kept, who encodes it and how the slots are counted does not appear.     *)
(*                                                                         *)
(* One thing weakens the promise: a verdict may still be overtaken when    *)
(* the answer and the end of the wait coincide (LateAnswer, LateTimeout).  *)
(***************************************************************************)
EXTENDS Naturals

CONSTANTS MaxMsgs, MaxAttempts

VARIABLES status, tries

lifeVars == <<status, tries>>

Messages == 1..MaxMsgs
Statuses == {"none", "pending", "onair", "sent", "delivered", "abandoned",
             "forgotten"}

Init ==
    /\ status = [i \in Messages |-> "none"]
    /\ tries = [i \in Messages |-> 0]

Becomes(i, s) == status' = [status EXCEPT ![i] = s]
Triable(i) == tries[i] < MaxAttempts

Submit(i) ==
    /\ status[i] = "none" /\ Becomes(i, "pending")
    /\ tries' = [tries EXCEPT ![i] = 0]

(* The transmitter takes one message at a time.                            *)
Launch(i) ==
    /\ status[i] = "pending" /\ Triable(i)
    /\ \A j \in Messages : status[j] # "onair"
    /\ Becomes(i, "onair")
    /\ tries' = [tries EXCEPT ![i] = @ + 1]

(* It cannot be encoded.                                                   *)
Reject(i) ==
    status[i] = "pending" /\ Becomes(i, "abandoned") /\ UNCHANGED tries

Complete(i) ==
    /\ status[i] = "onair"
    /\ Becomes(i, "sent") \/ Becomes(i, "delivered")
    /\ UNCHANGED tries

(* The transmission failed or was cut off.                                 *)
Break(i) ==
    /\ status[i] = "onair"
    /\ Becomes(i, "abandoned") \/ (Triable(i) /\ Becomes(i, "pending"))
    /\ UNCHANGED tries

Answer(i) == status[i] = "sent" /\ Becomes(i, "delivered") /\ UNCHANGED tries

(* No answer: another try, or the end only when the tries are used up.     *)
Unanswered(i) ==
    \/ Triable(i) /\ Becomes(i, "pending")
    \/ ~Triable(i) /\ Becomes(i, "abandoned")

Timeout(i) == status[i] = "sent" /\ Unanswered(i) /\ UNCHANGED tries

LateAnswer(i) ==
    /\ status[i] \in {"pending", "abandoned"} /\ tries[i] > 0
    /\ Becomes(i, "delivered") /\ UNCHANGED tries

LateTimeout(i) == status[i] = "delivered" /\ Unanswered(i) /\ UNCHANGED tries

(* A restart forgets some of the unfinished messages.                      *)
Restart(F) ==
    /\ \A i \in F : status[i] \in {"pending", "onair", "sent"}
    /\ status' = [i \in Messages |-> IF i \in F THEN "forgotten" ELSE status[i]]
    /\ UNCHANGED tries

Next ==
    \/ \E i \in Messages :
          \/ Submit(i) \/ Launch(i) \/ Reject(i) \/ Complete(i) \/ Break(i)
          \/ Answer(i) \/ Timeout(i) \/ LateAnswer(i) \/ LateTimeout(i)
    \/ \E F \in SUBSET Messages : Restart(F)

Spec == Init /\ [][Next]_lifeVars
===============================================================================
