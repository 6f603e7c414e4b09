-------------------------------- MODULE MailProofs --------------------------------
(***************************************************************************)
(* Proofs about mail, for every set of stations and groups and whatever    *)
(* the operators set out to do.                                            *)
(***************************************************************************)
EXTENDS Mail, SequenceLemmas, FiniteSetTheorems

(***************************************************************************)
(* Who may read a text: those it was written for.                          *)
(***************************************************************************)
(* What a text on its way may be, a row of the outbound queue, and a row   *)
(* of a mailbox.                                                           *)
WireOK(w) ==
    /\ w.verb = "MSG" /\ w.text # NoText => MeantFor(w.text, w.to)
    /\ w.verb = "MSG TO:" /\ w.text # NoText => HeldFor(w.text, w.for)
RowOK(row) ==
    /\ row = [oid |-> row.oid, kind |-> row.kind, wire |-> row.wire, tries |-> row.tries]
    /\ WireOK(row.wire)
MailOK(m) ==
    /\ m = Mail(m.type, m.from, m.to, m.num, m.text)
    /\ m.type = "STORE" /\ m.text # NoText => HeldFor(m.text, m.to)

BoxOK ==
    /\ DOMAIN box = Stations
    /\ last \in [Stations -> Nat]
    /\ \A s \in Stations :
          /\ DOMAIN box[s] \subseteq 1..last[s]
          /\ \A id \in DOMAIN box[s] : MailOK(box[s][id])
OutOK ==
    \E rows :
        /\ \A row \in rows : RowOK(row)
        /\ queued \in [Stations -> SUBSET rows]
        /\ waiting \in [Stations -> Seq(rows)]
AirOK == \A h \in air : h[1] \in Stations /\ WireOK(h[2])

Provenance ==
    /\ todo \subseteq Intents
    /\ BoxOK /\ OutOK /\ AirOK /\ PrivateMail

(* Mailboxes and the outbound queue keep what is asked of them, whatever   *)
(* operation the handlers apply.                                           *)
LEMMA EnqueueKeepsOut ==
    ASSUME OutOK, NEW s \in Stations, NEW kind, NEW w, WireOK(w),
           Enqueue(s, kind, w), UNCHANGED waiting
    PROVE  OutOK'
<1>1. CASE UNCHANGED queued
  BY <1>1 DEF OutOK
<1>2. CASE queued' = [queued EXCEPT ![s] = @ \cup {Row(s, kind, w)}]
  <2>1. PICK rows : /\ \A row \in rows : RowOK(row)
                    /\ queued \in [Stations -> SUBSET rows]
                    /\ waiting \in [Stations -> Seq(rows)]
    BY DEF OutOK
  <2> DEFINE more == rows \cup {Row(s, kind, w)}
  <2>2. RowOK(Row(s, kind, w))
    BY DEF RowOK, Row
  <2>3. \A row \in more : RowOK(row)
    BY <2>1, <2>2
  <2>4. queued' \in [Stations -> SUBSET more]
    BY <1>2, <2>1
  <2>5. waiting' \in [Stations -> Seq(more)]
    <3>1. \A q \in Seq(rows) : q \in Seq(more)
      BY SeqMonotonic
    <3> QED BY <3>1, <2>1
  <2> HIDE DEF more
  <2> QED BY <2>3, <2>4, <2>5 DEF OutOK, RowOK, WireOK, MeantFor, HeldFor
<1> QED BY <1>1, <1>2 DEF Enqueue

(* Taking a row off the waiting list, back to the queue or for good,       *)
(* leaves letters that were allowed.                                       *)
LEMMA RemovalKeepsOut ==
    ASSUME OutOK, NEW s \in Stations, NEW j \in 1..Len(waiting[s]),
           waiting' = [waiting EXCEPT ![s] = RemoveAt(@, j)],
           \/ UNCHANGED queued
           \/ queued' = [queued EXCEPT ![s] = @ \cup {waiting[s][j]}]
    PROVE  OutOK'
<1>1. PICK rows : /\ \A row \in rows : RowOK(row)
                  /\ queued \in [Stations -> SUBSET rows]
                  /\ waiting \in [Stations -> Seq(rows)]
  BY DEF OutOK
<1>2. waiting[s][j] \in rows
  BY <1>1, ElementOfSeq
<1>3. RemoveAt(waiting[s], j) \in Seq(rows)
  BY <1>1, RemoveAtKeepsSeq
<1>4. queued' \in [Stations -> SUBSET rows] /\ waiting' \in [Stations -> Seq(rows)]
  BY <1>1, <1>2, <1>3
<1> QED BY <1>1, <1>4 DEF OutOK

(* A text the station may keep, under a new id, leaves an allowed mailbox. *)
LEMMA InsertKeepsBox ==
    ASSUME BoxOK, NEW s \in Stations, NEW m, MailOK(m), Insert(s, m)
    PROVE  BoxOK'
<1>1. NewId(s) = last[s] + 1 /\ NewId(s) \in Nat
  BY DEF BoxOK, NewId
<1>2. last' \in [Stations -> Nat] /\ DOMAIN box' = Stations
  BY <1>1 DEF BoxOK, Insert
<1>3. ASSUME NEW t \in Stations
      PROVE  /\ DOMAIN box'[t] \subseteq 1..last'[t]
             /\ \A id \in DOMAIN box'[t] : MailOK(box'[t][id])
  <2>1. CASE t = s
    BY <2>1, <1>1 DEF BoxOK, Insert
  <2>2. CASE t # s
    BY <2>2 DEF BoxOK, Insert
  <2> QED BY <2>1, <2>2
<1> QED BY <1>2, <1>3 DEF BoxOK, MailOK, Mail, HeldFor

(* So does a change of state of a row that is there.                       *)
LEMMA TransitionKeepsBox ==
    ASSUME BoxOK, NEW s \in Stations, NEW id, NEW old, NEW new,
           Transition(s, id, old, new), new # "STORE"
    PROVE  BoxOK'
<1>0. last' = last
  BY Zenon DEF Transition
<1>1. CASE UNCHANGED box
  BY <1>0, <1>1 DEF BoxOK, MailOK, HeldFor
<1>2. CASE id \in DOMAIN box[s] /\ box' = [box EXCEPT ![s][id].type = new]
  <2> DEFINE m == box[s][id]
             moved == [m EXCEPT !.type = new]
  <2>1. MailOK(moved)
    <3>1. m = Mail(m.type, m.from, m.to, m.num, m.text)
      BY <1>2 DEF BoxOK, MailOK
    <3>2. moved = Mail(new, m.from, m.to, m.num, m.text)
      BY <3>1 DEF Mail
    <3> QED BY <3>2 DEF MailOK, Mail
  <2>2. box' = [box EXCEPT ![s] = [box[s] EXCEPT ![id] = moved]]
    BY <1>2, Zenon
  <2> HIDE DEF moved
  <2>3. ASSUME NEW t \in Stations
        PROVE  /\ DOMAIN box'[t] = DOMAIN box[t]
               /\ \A j \in DOMAIN box[t] : MailOK(box'[t][j])
    BY <1>2, <2>1, <2>2 DEF BoxOK
  <2> QED BY <1>0, <2>2, <2>3 DEF BoxOK, MailOK, HeldFor
<1> QED BY <1>1, <1>2, Zenon DEF Transition

(* A handler that accepts a mail.                                          *)
LEMMA AcceptKeepsProvenance ==
    ASSUME Provenance, NEW s \in Stations, NEW w, NEW m, MailOK(m), Accept(s, w, m),
           w.verb = "MSG" /\ w.text # NoText => MeantFor(w.text, s)
    PROVE  BoxOK' /\ OutOK' /\ PrivateMail'
<1> DEFINE ack == Wire(s, w.from, "ACK", 0, NoText, s)
<1>1. WireOK(ack)
  BY DEF WireOK, Wire
<1>2. BoxOK /\ OutOK /\ PrivateMail
  BY DEF Provenance
<1>3. UNCHANGED waiting
  BY DEF Accept, NoCredit
<1>4. CASE Insert(s, m) /\ accepted' = accepted \cup {<<s, w>>} /\ Reply(s, w.from, "ACK", 0)
  <2>1. OutOK'
    BY <1>1, <1>2, <1>3, <1>4, EnqueueKeepsOut DEF Reply
  <2>2. BoxOK'
    BY <1>2, <1>4, InsertKeepsBox
  <2>3. PrivateMail'
    <3>1. \A h \in accepted' : h[2].verb = "MSG" /\ h[2].text # NoText
                                 => MeantFor(h[2].text, h[1])
      BY <1>2, <1>4 DEF PrivateMail
    <3> QED BY <3>1 DEF PrivateMail, MeantFor, HeldFor
  <2> QED BY <2>1, <2>2, <2>3
<1>5. CASE UNCHANGED <<mailVars, accepted>> /\ NoReply
  <2>1. UNCHANGED <<box, last, queued, accepted>>
    BY <1>5 DEF mailVars, NoReply
  <2>2. BoxOK'
    BY <1>2, <2>1 DEF BoxOK, MailOK, HeldFor
  <2>3. OutOK'
    BY <1>2, <1>3, <2>1 DEF OutOK
  <2>4. PrivateMail'
    BY <1>2, <2>1 DEF PrivateMail
  <2> QED BY <2>2, <2>3, <2>4
<1> QED BY <1>4, <1>5 DEF Accept

(* The variables that an action leaves alone keep their part.              *)
LEMMA UnchangedParts ==
    /\ OutOK /\ UNCHANGED outVars => OutOK'
    /\ BoxOK /\ UNCHANGED mailVars => BoxOK'
    /\ PrivateMail /\ UNCHANGED accepted => PrivateMail'
    /\ AirOK /\ air' \subseteq air => AirOK'
<1>1. OutOK /\ UNCHANGED outVars => OutOK'
  BY DEF OutOK, outVars
<1>2. BoxOK /\ UNCHANGED mailVars => BoxOK'
  <2>1. ASSUME BoxOK, UNCHANGED mailVars PROVE BoxOK'
    BY <2>1 DEF BoxOK, mailVars, MailOK, HeldFor
  <2> QED BY <2>1
<1>3. PrivateMail /\ UNCHANGED accepted => PrivateMail'
  BY DEF PrivateMail, MeantFor, HeldFor
<1>4. AirOK /\ air' \subseteq air => AirOK'
  BY DEF AirOK, WireOK, MeantFor, HeldFor
<1> QED BY <1>1, <1>2, <1>3, <1>4

(* What operators do puts no text where it does not belong.                *)
LEMMA OperateKeepsProvenance ==
    ASSUME Provenance, NEW i \in todo, Operate(i)
    PROVE  Provenance'
<1>1. i \in Intents /\ i.by \in Stations /\ todo' \subseteq Intents
  BY MailAssumption DEF Provenance, Operate
<1>2. AirOK' /\ PrivateMail' /\ UNCHANGED waiting
  BY UnchangedParts DEF Provenance, Operate
<1>3. BoxOK /\ OutOK
  BY DEF Provenance
<1>4. CASE Compose(i)
  <2>1. BoxOK'
    BY <1>3, <1>4, UnchangedParts DEF Compose
  <2>2. CASE UNCHANGED queued
    BY <1>1, <1>2, <1>3, <2>1, <2>2, UnchangedParts DEF Provenance, outVars
  <2>3. CASE ~Refused(i) /\ Enqueue(i.by, InferKind(ComposeWire(i)), ComposeWire(i))
    <3>1. WireOK(ComposeWire(i))
      <4>1. CASE i.cmd \in {"MSG", "FREE"}
        BY <1>1, <4>1 DEF ComposeWire, Wire, WireOK, MeantFor
      <4>2. CASE i.cmd = "MSG TO"
        BY <1>1, <4>2 DEF ComposeWire, Wire, WireOK, HeldFor
      <4>3. CASE i.cmd = "QUERY MSG"
        BY <4>3 DEF ComposeWire, Wire, WireOK
      <4>4. CASE i.cmd \notin {"MSG", "FREE", "MSG TO", "QUERY MSG"}
        BY <4>4 DEF ComposeWire, Plain, Wire, WireOK
      <4> QED BY <4>1, <4>2, <4>3, <4>4
    <3>2. OutOK'
      BY <1>1, <1>2, <1>3, <2>3, <3>1, EnqueueKeepsOut
    <3> QED BY <1>1, <1>2, <2>1, <3>2 DEF Provenance
  <2> QED BY <1>4, <2>2, <2>3 DEF Compose
<1>5. CASE Broadcast(i)
  <2> DEFINE w == Plain(i.by, AllCall, i.cmd)
  <2>1. WireOK(w)
    BY DEF WireOK, Plain, Wire
  <2>2. OutOK'
    BY <1>1, <1>2, <1>3, <1>5, <2>1, EnqueueKeepsOut DEF Broadcast
  <2>3. BoxOK'
    BY <1>3, <1>5, UnchangedParts DEF Broadcast
  <2> QED BY <1>1, <1>2, <2>2, <2>3 DEF Provenance
<1>6. ASSUME UNCHANGED queued, BoxOK' PROVE Provenance'
  BY <1>1, <1>2, <1>3, <1>6, UnchangedParts DEF Provenance, outVars
<1>7. CASE Store(i)
  <2> DEFINE m == Mail("STORE", i.by, i.to, i.num, i.text)
  <2>1. MailOK(m)
    BY <1>1, <1>7 DEF MailOK, Mail, HeldFor, Store
  <2>2. BoxOK'
    BY <1>1, <1>3, <1>7, <2>1, InsertKeepsBox, UnchangedParts DEF Store
  <2> QED BY <1>6, <1>7, <2>2 DEF Store
<1>8. CASE Read(i)
  BY <1>1, <1>3, <1>6, <1>8, TransitionKeepsBox DEF Read
<1>9. CASE Delete(i)
  <2>1. BoxOK'
    <3>1. ASSUME NEW t \in Stations
          PROVE  /\ DOMAIN box'[t] \subseteq 1..last[t]
                 /\ \A id \in DOMAIN box'[t] : MailOK(box'[t][id])
      <4>1. CASE t = i.by
        BY <1>3, <1>9, <4>1 DEF Delete, BoxOK
      <4>2. CASE t # i.by
        BY <1>3, <1>9, <4>2 DEF Delete, BoxOK
      <4> QED BY <4>1, <4>2
    <3> QED BY <1>3, <1>9, <3>1 DEF Delete, BoxOK, MailOK, HeldFor
  <2> QED BY <1>6, <1>9, <2>1 DEF Delete
<1> QED BY <1>4, <1>5, <1>7, <1>8, <1>9 DEF Operate

(* Nor does sending: what is on the air was in the queue.                  *)
LEMMA TransmitKeepsProvenance ==
    ASSUME Provenance, NEW s \in Stations, Transmit(s)
    PROVE  Provenance'
<1>1. PICK row \in queued[s] :
         /\ queued' = [queued EXCEPT ![s] = @ \ {row}]
         /\ \/ UNCHANGED waiting
            \/ waiting' = [waiting EXCEPT ![s] = Append(@, [row EXCEPT !.tries = @ + 1])]
         /\ \E hearing \in SUBSET (Stations \ {s}) :
               air' = {<<r, row.wire>> : r \in hearing}
  BY DEF Transmit
<1>2. PICK rows : /\ \A q \in rows : RowOK(q)
                  /\ queued \in [Stations -> SUBSET rows]
                  /\ waiting \in [Stations -> Seq(rows)]
  BY DEF Provenance, OutOK
<1>3. RowOK(row)
  BY <1>1, <1>2
<1> DEFINE again == [row EXCEPT !.tries = @ + 1]
           more == rows \cup {again}
<1>4. RowOK(again)
  <2>1. row = [oid |-> row.oid, kind |-> row.kind, wire |-> row.wire, tries |-> row.tries]
    BY <1>3 DEF RowOK
  <2>2. again = [oid |-> row.oid, kind |-> row.kind, wire |-> row.wire,
                 tries |-> row.tries + 1]
    BY <2>1
  <2> HIDE DEF again
  <2> QED BY <1>3, <2>2 DEF RowOK
<1> HIDE DEF again
<1>5. OutOK'
  <2>1. \A q \in more : RowOK(q)
    BY <1>2, <1>4
  <2>2. queued' \in [Stations -> SUBSET more]
    BY <1>1, <1>2
  <2>3. \A q \in Seq(rows) : q \in Seq(more) /\ Append(q, again) \in Seq(more)
    <3>1. \A q \in Seq(rows) : q \in Seq(more)
      BY SeqMonotonic
    <3> QED BY <3>1
  <2>4. waiting' \in [Stations -> Seq(more)]
    BY <1>1, <1>2, <2>3 DEF again
  <2> HIDE DEF more
  <2> QED BY <2>1, <2>2, <2>4 DEF OutOK, RowOK, WireOK, MeantFor, HeldFor
<1>6. AirOK'
  <2>1. \A h \in air' : h[1] \in Stations /\ WireOK(h[2])
    BY <1>1, <1>3 DEF RowOK
  <2> QED BY <2>1 DEF AirOK, WireOK, MeantFor, HeldFor
<1>7. BoxOK' /\ PrivateMail' /\ todo' \subseteq Intents
  BY UnchangedParts DEF Provenance, Transmit
<1> QED BY <1>5, <1>6, <1>7 DEF Provenance

(* Nor does giving up on an ACK or trying again.                           *)
LEMMA TimeoutKeepsProvenance ==
    ASSUME Provenance, NEW s \in Stations, NEW j \in 1..Len(waiting[s]), AckTimeout(s, j)
    PROVE  Provenance'
<1>1. OutOK'
  BY RemovalKeepsOut DEF Provenance, AckTimeout
<1>2. BoxOK' /\ PrivateMail' /\ AirOK' /\ todo' \subseteq Intents
  BY UnchangedParts DEF Provenance, AckTimeout
<1> QED BY <1>1, <1>2 DEF Provenance

(* Nor does a receiver: it stores, relays and marks only what the frame,   *)
(* or a mailbox that may hold it, says.                                    *)
LEMMA ReceiveKeepsProvenance ==
    ASSUME Provenance, NEW s, NEW w, Receive(s, w)
    PROVE  Provenance'
<1>1. s \in Stations /\ WireOK(w)
  BY DEF Provenance, AirOK, Receive
<1>2. AirOK' /\ todo' \subseteq Intents
  BY UnchangedParts DEF Provenance, Receive
<1>3. BoxOK /\ OutOK /\ PrivateMail
  BY DEF Provenance
<1> SUFFICES BoxOK' /\ OutOK' /\ PrivateMail'
  BY <1>2 DEF Provenance
<1>4. CASE HandleMsg(s, w)
  <2> DEFINE m == Mail("UNREAD", w.from, s, w.num, w.text)
  <2>1. MailOK(m)
    BY DEF MailOK, Mail
  <2>2. w.verb = "MSG" /\ w.text # NoText => MeantFor(w.text, s)
    BY <1>1, <1>4 DEF HandleMsg, ForUs, WireOK
  <2> QED BY <1>1, <1>4, <2>1, <2>2, AcceptKeepsProvenance DEF HandleMsg
<1>5. CASE HandleMsgTo(s, w)
  <2> DEFINE m == Mail("STORE", w.from, w.for, w.num, w.text)
  <2>1. MailOK(m)
    BY <1>1, <1>5 DEF MailOK, Mail, HandleMsgTo, WireOK
  <2>2. w.verb # "MSG"
    BY <1>5 DEF HandleMsgTo
  <2> QED BY <1>1, <1>5, <2>1, <2>2, AcceptKeepsProvenance DEF HandleMsgTo
<1>6. ASSUME NEW kind, NEW sent, WireOK(sent), Enqueue(s, kind, sent), Quiet, NoCredit
      PROVE  BoxOK' /\ OutOK' /\ PrivateMail'
  <2>1. OutOK'
    BY <1>1, <1>3, <1>6, EnqueueKeepsOut DEF NoCredit
  <2>2. BoxOK' /\ PrivateMail'
    BY <1>3, <1>6, UnchangedParts DEF Quiet
  <2> QED BY <2>1, <2>2
<1>7. ASSUME NoReply, Quiet, NoCredit PROVE BoxOK' /\ OutOK' /\ PrivateMail'
  BY <1>3, <1>7, UnchangedParts DEF Quiet, NoReply, NoCredit, outVars
<1>8. CASE HandleQueryMsgs(s, w)
  <2>1. ASSUME NEW verb, NEW num PROVE WireOK(Wire(s, w.from, verb, num, NoText, s))
    BY DEF WireOK, Wire
  <2> QED BY <1>6, <1>7, <1>8, <2>1 DEF HandleQueryMsgs, Reply
<1>9. CASE HandleQueryMsgId(s, w)
  <2> DEFINE sent == Wire(s, w.from, "MSG", w.num, box[s][w.num].text, s)
  <2>1. ASSUME MayFetch(s, w.num, w.from) PROVE WireOK(sent)
    <3>1. MailOK(box[s][w.num])
      BY <1>1, <1>3, <2>1 DEF BoxOK, MayFetch
    <3> QED BY <2>1, <3>1 DEF MailOK, MayFetch, WireOK, Wire, MeantFor
  <2>2. CASE MayFetch(s, w.num, w.from)
    BY <1>6, <1>9, <2>1, <2>2 DEF HandleQueryMsgId
  <2>3. CASE ~MayFetch(s, w.num, w.from)
    BY <1>7, <1>9, <2>3 DEF HandleQueryMsgId
  <2> QED BY <2>2, <2>3
<1>10. CASE HandleAck(s, w)
  <2>1. PrivateMail' /\ UNCHANGED queued
    BY <1>3, <1>10, UnchangedParts DEF HandleAck, AfterAck, NoReply
  <2>2. CASE Credited(s, w.from) = {}
    BY <1>3, <1>10, <2>1, <2>2, UnchangedParts DEF HandleAck, NoCredit, outVars
  <2>3. CASE Credited(s, w.from) # {}
    <3>1. PICK j \in Credited(s, w.from) :
            /\ waiting' = [waiting EXCEPT ![s] = RemoveAt(@, j)]
            /\ \/ Transition(s, waiting[s][j].wire.num, "STORE", "DELIVERED")
               \/ UNCHANGED mailVars
      BY <1>10, <2>3 DEF HandleAck
    <3>2. j \in 1..Len(waiting[s])
      BY DEF Credited
    <3>3. OutOK'
      BY <1>1, <1>3, <2>1, <3>1, <3>2, RemovalKeepsOut
    <3>4. BoxOK'
      BY <1>1, <1>3, <3>1, TransitionKeepsBox, UnchangedParts
    <3> QED BY <2>1, <3>3, <3>4
  <2> QED BY <2>2, <2>3
<1>11. CASE Shown(s, w)
  BY <1>7, <1>11 DEF Shown
<1> QED BY <1>4, <1>5, <1>8, <1>9, <1>10, <1>11 DEF Receive, Dispatch

(* So the provenance of every text is right in every reachable state.      *)
LEMMA ProvenanceHolds == Spec => []Provenance
<1>1. Init => Provenance
  <2> SUFFICES ASSUME Init PROVE Provenance
    OBVIOUS
  <2>1. todo \subseteq Intents
    BY DEF Init, Intents
  <2>2. BoxOK
    BY DEF Init, BoxOK
  <2>3. OutOK
    <3>1. queued \in [Stations -> SUBSET {}] /\ waiting \in [Stations -> Seq({})]
      BY DEF Init
    <3> QED BY <3>1 DEF OutOK
  <2> QED BY <2>1, <2>2, <2>3 DEF Init, AirOK, PrivateMail, Provenance
<1>2. Provenance /\ [Next]_vars => Provenance'
  <2> SUFFICES ASSUME Provenance, [Next]_vars PROVE Provenance'
    OBVIOUS
  <2>1. ASSUME NEW i \in todo, Operate(i) PROVE Provenance'
    BY <2>1, OperateKeepsProvenance
  <2>2. ASSUME NEW s \in Stations, Transmit(s) PROVE Provenance'
    BY <2>2, TransmitKeepsProvenance
  <2>3. ASSUME NEW s \in Stations, NEW j \in 1..Len(waiting[s]), AckTimeout(s, j)
        PROVE  Provenance'
    BY <2>3, TimeoutKeepsProvenance
  <2>4. ASSUME NEW h \in air, Receive(h[1], h[2]) PROVE Provenance'
    BY <2>4, ReceiveKeepsProvenance
  <2>5. CASE UNCHANGED vars
    BY <2>5, UnchangedParts DEF Provenance, vars
  <2> QED BY <2>1, <2>2, <2>3, <2>4, <2>5 DEF Next
<1> QED BY <1>1, <1>2, PTL DEF Spec

(* A text held for a station reaches nobody it was not written for: what a *)
(* station accepts as a mail to itself an operator has sent to it, or has  *)
(* had held for it, however many stations relay, ask for and fetch mail    *)
(* and whatever ids they ask for (_handle_query_msg_id).                   *)
THEOREM MailIsPrivate == Spec => []PrivateMail
<1>1. Provenance => PrivateMail
  BY DEF Provenance
<1> QED BY <1>1, ProvenanceHolds, PTL

(***************************************************************************)
(* What is acknowledged.                                                   *)
(***************************************************************************)
(* A station acknowledges only mail that it has stored, although inserts   *)
(* fail and the queue of the answers is full (_handle_inbound_msg_for_us). *)
THEOREM AcknowledgedIsStored == Spec => []AckedIsStored
<1>1. Init => AckedIsStored
  BY DEF Init, AckedIsStored
<1>2. AckedIsStored /\ [Next]_vars => AckedIsStored'
  <2> SUFFICES ASSUME AckedIsStored, [Next]_vars PROVE AckedIsStored'
    OBVIOUS
  <2>1. ASSUME UNCHANGED <<accepted, promised>> PROVE AckedIsStored'
    BY <2>1 DEF AckedIsStored
  <2>2. ASSUME NEW i \in todo, Operate(i) PROVE AckedIsStored'
    BY <2>1, <2>2 DEF Operate
  <2>3. ASSUME NEW s \in Stations, Transmit(s) PROVE AckedIsStored'
    BY <2>1, <2>3 DEF Transmit
  <2>4. ASSUME NEW s \in Stations, NEW j, AckTimeout(s, j) PROVE AckedIsStored'
    BY <2>1, <2>4 DEF AckTimeout
  <2>5. ASSUME NEW s, NEW w, Receive(s, w) PROVE AckedIsStored'
    <3>1. ASSUME NEW m, Accept(s, w, m) PROVE AckedIsStored'
      BY <3>1 DEF Accept, AckedIsStored
    <3>2. ASSUME Quiet PROVE AckedIsStored'
      BY <2>1, <3>2 DEF Quiet
    <3> QED BY <2>1, <2>5, <3>1, <3>2
            DEF Receive, Dispatch, HandleMsg, HandleMsgTo, HandleQueryMsgs,
                HandleQueryMsgId, HandleAck, Shown
  <2>6. CASE UNCHANGED vars
    BY <2>1, <2>6 DEF vars
  <2> QED BY <2>2, <2>3, <2>4, <2>5, <2>6 DEF Next
<1> QED BY <1>1, <1>2, PTL DEF Spec

(***************************************************************************)
(* The life of a stored mail.                                              *)
(***************************************************************************)
AllKept == \A s \in Stations : \A id \in DOMAIN box[s] : Kept(s, id)

(* A step that leaves the mailboxes alone keeps every mail.                *)
LEMMA UnchangedKeeps == box' = box => AllKept
BY DEF AllKept, Kept, MailOf, Moves

(* An insert keeps every mail: its id is new.                              *)
LEMMA InsertKeeps ==
    ASSUME BoxOK, NEW s \in Stations, NEW m, Insert(s, m)
    PROVE  AllKept
<1>1. NewId(s) \notin DOMAIN box[s]
  BY DEF BoxOK, NewId
<1>2. ASSUME NEW t \in Stations, NEW id \in DOMAIN box[t]
      PROVE  id \in DOMAIN box'[t] /\ box'[t][id] = box[t][id]
  BY <1>1 DEF BoxOK, Insert
<1> QED BY <1>2 DEF AllKept, Kept, MailOf, Moves

(* A forward change of state keeps every mail.                             *)
LEMMA TransitionKeeps ==
    ASSUME BoxOK, NEW s \in Stations, NEW id, NEW old, NEW new,
           Transition(s, id, old, new), Moves(old, new)
    PROVE  AllKept
<1>1. CASE UNCHANGED box
  BY <1>1, UnchangedKeeps
<1>2. CASE /\ id \in DOMAIN box[s] /\ box[s][id].type = old
           /\ box' = [box EXCEPT ![s][id].type = new]
  <2> DEFINE m == box[s][id]
             moved == [m EXCEPT !.type = new]
  <2>1. moved = Mail(new, m.from, m.to, m.num, m.text)
    <3>1. m = Mail(m.type, m.from, m.to, m.num, m.text)
      BY <1>2 DEF BoxOK, MailOK
    <3> QED BY <3>1 DEF Mail
  <2>2. box' = [box EXCEPT ![s] = [box[s] EXCEPT ![id] = moved]]
    BY <1>2, Zenon
  <2> HIDE DEF moved
  <2>3. ASSUME NEW t \in Stations, NEW j \in DOMAIN box[t]
        PROVE  /\ j \in DOMAIN box'[t]
               /\ \/ box'[t][j] = box[t][j]
                  \/ t = s /\ j = id /\ box'[t][j] = moved
    BY <1>2, <2>2 DEF BoxOK
  <2>4. ASSUME NEW t \in Stations, NEW j \in DOMAIN box[t] PROVE Kept(t, j)
    <3>1. CASE box'[t][j] = box[t][j]
      BY <2>3, <3>1 DEF Kept, MailOf, Moves
    <3>2. CASE t = s /\ j = id /\ box'[t][j] = moved
      BY <1>2, <2>1, <2>3, <3>2 DEF Kept, MailOf, Mail
    <3> QED BY <2>3, <3>1, <3>2
  <2> QED BY <2>4 DEF AllKept
<1> QED BY <1>1, <1>2, Zenon DEF Transition

(* A mail once stored keeps its id and its content, moves only forward,    *)
(* and disappears only by the operator's hand: ids are never given again,  *)
(* and the answers to remote stations change nothing but the type          *)
(* (_transition_type, _insert_blob).                                       *)
THEOREM MailLivesItsLife == Spec => MailLifecycle
<1>1. ASSUME Provenance, [Next]_vars
      PROVE  [\A s \in Stations : \A id \in DOMAIN box[s] :
                 Kept(s, id) \/ Removed(s, id)]_vars
  <2>1. BoxOK /\ todo \subseteq Intents
    BY <1>1 DEF Provenance
  <2>2. ASSUME UNCHANGED mailVars PROVE AllKept
    BY <2>2, UnchangedKeeps DEF mailVars
  <2>3. ASSUME NEW i \in todo, Operate(i), ~Delete(i) PROVE AllKept
    <3>1. i.by \in Stations
      BY <2>1, MailAssumption
    <3>2. Moves("UNREAD", "READ")
      BY DEF Moves
    <3> QED BY <2>1, <2>2, <2>3, <3>1, <3>2, InsertKeeps, TransitionKeeps
            DEF Operate, Compose, Broadcast, Store, Read
  <2>4. ASSUME NEW i \in todo, Delete(i)
        PROVE  \A s \in Stations : \A id \in DOMAIN box[s] : Kept(s, id) \/ Removed(s, id)
    <3>1. i.by \in Stations
      BY <2>1, MailAssumption
    <3>2. ASSUME NEW s \in Stations, NEW id \in DOMAIN box[s]
          PROVE  \/ id \in DOMAIN box'[s] /\ box'[s][id] = box[s][id]
                 \/ s = i.by /\ id = i.num /\ id \notin DOMAIN box'[s]
      <4>1. CASE s = i.by
        BY <2>1, <2>4, <4>1 DEF Delete, BoxOK
      <4>2. CASE s # i.by
        BY <2>1, <2>4, <4>2 DEF Delete, BoxOK
      <4> QED BY <4>1, <4>2
    <3>3. i.cmd = "DELETE"
      BY <2>4 DEF Delete
    <3> QED BY <3>2, <3>3 DEF Kept, MailOf, Moves, Removed
  <2>5. ASSUME NEW s \in Stations, Transmit(s) PROVE AllKept
    BY <2>2, <2>5 DEF Transmit
  <2>6. ASSUME NEW s \in Stations, NEW j, AckTimeout(s, j) PROVE AllKept
    BY <2>2, <2>6 DEF AckTimeout
  <2>7. ASSUME NEW h \in air, Receive(h[1], h[2]) PROVE AllKept
    <3> DEFINE s == h[1]
               w == h[2]
    <3>1. s \in Stations
      BY <1>1 DEF Provenance, AirOK
    <3>2. ASSUME NEW m, Accept(s, w, m) PROVE AllKept
      BY <2>1, <2>2, <3>1, <3>2, InsertKeeps DEF Accept
    <3>3. ASSUME Quiet PROVE AllKept
      BY <2>2, <3>3 DEF Quiet
    <3>4. CASE HandleAck(s, w)
      <4>1. Moves("STORE", "DELIVERED")
        BY DEF Moves
      <4> QED BY <2>1, <2>2, <3>1, <3>4, <4>1, TransitionKeeps DEF HandleAck
    <3> QED BY <2>7, <3>2, <3>3, <3>4
            DEF Receive, Dispatch, HandleMsg, HandleMsgTo, HandleQueryMsgs,
                HandleQueryMsgId, Shown
  <2> QED BY <1>1, <2>3, <2>4, <2>5, <2>6, <2>7 DEF Next, AllKept
<1> QED BY <1>1, ProvenanceHolds, PTL DEF Spec, MailLifecycle

(***************************************************************************)
(* Types.                                                                  *)
(***************************************************************************)
(* The rows of a station, in the queue and waiting for an ACK: they fit,   *)
(* they are its own, what waits was sent and what is queued may be sent.   *)
Slips(s, rows, sent, n) ==
    /\ IsFiniteSet(rows) /\ Cardinality(rows) + Len(sent) <= QueueDepth
    /\ \A row \in rows : /\ row.oid \in 1..n /\ row.wire.from = s
                         /\ row.tries \in 0..(MaxTries - 1)
    /\ \A j \in 1..Len(sent) : /\ sent[j].oid \in 1..n /\ sent[j].wire.from = s
                               /\ sent[j].tries \in 1..MaxTries
OutTyped == \A s \in Stations : \E n \in Nat : Slips(s, queued[s], waiting[s], n)
BoxTyped == \A s \in Stations : \A id \in DOMAIN box[s] : box[s][id].type \in MailTypes
AirTyped == \A h \in air : h[1] \in Stations /\ h[2].from # h[1]
MailTyped == errors \in 0..MaxErrors /\ OutTyped /\ BoxTyped /\ AirTyped

(* The rows of an outbound queue, and a bound of the numbers they have.    *)
LEMMA RowsOf ==
    ASSUME OutOK, NEW s \in Stations
    PROVE  /\ \E rows : waiting[s] \in Seq(rows)
           /\ Len(waiting[s]) \in Nat
           /\ OutRows(s) = queued[s] \cup {waiting[s][j] : j \in 1..Len(waiting[s])}
<1>1. PICK rows : waiting \in [Stations -> Seq(rows)]
  BY DEF OutOK
<1>2. waiting[s] \in Seq(rows)
  BY <1>1
<1>3. Len(waiting[s]) \in Nat /\ DOMAIN waiting[s] = 1..Len(waiting[s])
  BY <1>2, LenProperties
<1> QED BY <1>2, <1>3 DEF OutRows, Range

(* The number of a new row is the next one.                                *)
LEMMA RowIsNew ==
    ASSUME OutOK, NEW s \in Stations, NEW n \in Nat,
           Slips(s, queued[s], waiting[s], n)
    PROVE  \E m \in Nat : 1 + Max({0} \cup {row.oid : row \in OutRows(s)}) = m + 1
<1> DEFINE T == {0} \cup {row.oid : row \in OutRows(s)}
<1>1. \A row \in OutRows(s) : row.oid \in 1..n
  <2>1. \A j \in 1..Len(waiting[s]) : waiting[s][j].oid \in 1..n
    BY DEF Slips
  <2>2. \A row \in queued[s] : row.oid \in 1..n
    BY DEF Slips
  <2> QED BY <2>1, <2>2, RowsOf
<1>2. T # {} /\ \A x \in T : x \in Nat /\ x <= n
  BY <1>1
<1> HIDE DEF T
<1>3. \E x \in T : \A y \in T : y <= x
  BY <1>2, GreatestExists
<1>4. \E x \in T : \A y \in T : x >= y
  BY <1>2, <1>3
<1>5. Max(T) \in T
  BY <1>4 DEF Max
<1>6. Max(T) \in Nat
  BY <1>2, <1>5
<1>7. \E m \in Nat : 1 + Max(T) = m + 1
  <2>1. \A m \in Nat : 1 + m = m + 1
    OBVIOUS
  <2> QED BY <1>6, <2>1, Zenon
<1> QED BY <1>7, Zenon DEF T

(* An answer or a composed text is queued when it fits, and is the         *)
(* station's own.                                                          *)
LEMMA EnqueueKeepsTyped ==
    ASSUME OutOK, OutTyped, NEW s \in Stations, NEW kind, NEW w, w.from = s,
           Enqueue(s, kind, w), UNCHANGED waiting
    PROVE  OutTyped'
<1>1. CASE UNCHANGED queued
  BY <1>1 DEF OutTyped
<1>2. CASE HasRoom(s) /\ queued' = [queued EXCEPT ![s] = @ \cup {Row(s, kind, w)}]
  <2> DEFINE r == Row(s, kind, w)
             Q == queued[s]
             W == waiting[s]
  <2>1. PICK n \in Nat : Slips(s, Q, W, n)
    BY DEF OutTyped
  <2>2. PICK m \in Nat : r.oid = m + 1
    BY <2>1, RowIsNew DEF Row
  <2>3. r.wire.from = s /\ r.tries = 0
    BY DEF Row
  <2>4. queued' = [queued EXCEPT ![s] = Q \cup {r}] /\ queued'[s] = Q \cup {r}
    BY <1>2 DEF OutOK
  <2>5. Len(W) \in Nat /\ Cardinality(Q) + Len(W) < QueueDepth
    BY <1>2, RowsOf DEF HasRoom, Pending
  <2> HIDE DEF r, Q, W
  <2>6. IsFiniteSet(Q \cup {r}) /\ Cardinality(Q \cup {r}) + Len(W) <= QueueDepth
    <3>1. IsFiniteSet(Q) /\ Cardinality(Q) \in Nat
      BY <2>1, FS_CardinalityType DEF Slips
    <3>2. Cardinality(Q \cup {r}) \in {Cardinality(Q), Cardinality(Q) + 1}
      BY <3>1, FS_AddElement
    <3>3. IsFiniteSet(Q \cup {r})
      BY <3>1, FS_AddElement
    <3>4. QueueDepth \in Nat
      BY MailAssumption
    <3> QED BY <2>5, <3>1, <3>2, <3>3, <3>4
  <2>7. PICK k \in Nat : k >= n /\ k >= m + 1
    <3>1. n + m + 1 \in Nat /\ n + m + 1 >= n /\ n + m + 1 >= m + 1
      OBVIOUS
    <3> QED BY <3>1
  <2>8. Slips(s, Q \cup {r}, W, k)
    <3>1. \A row \in Q \cup {r} : /\ row.oid \in 1..k /\ row.wire.from = s
                                  /\ row.tries \in 0..(MaxTries - 1)
      BY <2>1, <2>2, <2>3, <2>7, MailAssumption DEF Slips
    <3>2. \A j \in 1..Len(W) : /\ W[j].oid \in 1..k /\ W[j].wire.from = s
                               /\ W[j].tries \in 1..MaxTries
      BY <2>1, <2>7 DEF Slips
    <3> QED BY <2>6, <3>1, <3>2 DEF Slips
  <2>9. ASSUME NEW t \in Stations
        PROVE  \E i \in Nat : Slips(t, queued'[t], waiting'[t], i)
    <3>1. CASE t = s
      BY <2>4, <2>8, <3>1 DEF W
    <3>2. CASE t # s
      BY <2>4, <3>2 DEF OutTyped, OutOK
    <3> QED BY <3>1, <3>2
  <2> QED BY <2>9 DEF OutTyped
<1> QED BY <1>1, <1>2 DEF Enqueue

(* A row that leaves the waiting list goes back to the queue while it may  *)
(* be sent again, or for good.                                             *)
LEMMA RemovalKeepsTyped ==
    ASSUME OutOK, OutTyped, NEW s \in Stations, NEW j \in 1..Len(waiting[s]),
           waiting' = [waiting EXCEPT ![s] = RemoveAt(@, j)],
           \/ UNCHANGED queued
           \/ /\ waiting[s][j].tries < MaxTries
              /\ queued' = [queued EXCEPT ![s] = @ \cup {waiting[s][j]}]
    PROVE  OutTyped'
<1> DEFINE Q == queued[s]
           W == waiting[s]
           V == RemoveAt(W, j)
           r == W[j]
<1>1. PICK n \in Nat : Slips(s, Q, W, n)
  BY DEF OutTyped
<1>2. PICK rows : W \in Seq(rows)
  BY RowsOf
<1>3. Len(V) = Len(W) - 1 /\ Len(W) \in Nat
  BY <1>2, RemoveAtKeepsSeq, LenProperties
<1>4. \A i \in 1..Len(V) : \E k \in 1..Len(W) : V[i] = W[k]
  <2>1. \A i \in 1..(Len(W) - 1) : V[i] = IF i < j THEN W[i] ELSE W[i + 1]
    BY <1>2, RemoveAtIs
  <2> HIDE DEF V
  <2>2. ASSUME NEW i \in 1..(Len(W) - 1)
        PROVE  \E k \in 1..Len(W) : V[i] = W[k]
    <3>1. i \in 1..Len(W) /\ i + 1 \in 1..Len(W)
      BY <1>3
    <3> QED BY <2>1, <3>1
  <2> QED BY <1>3, <2>2
<1>5. waiting'[s] = V /\ \A t \in Stations \ {s} : waiting'[t] = waiting[t]
  BY DEF OutOK
<1>6. IsFiniteSet(Q) /\ Cardinality(Q) \in Nat /\ QueueDepth \in Nat /\ MaxTries \in Nat
  BY <1>1, FS_CardinalityType, MailAssumption DEF Slips
<1>7. \A i \in 1..Len(V) : /\ V[i].oid \in 1..n /\ V[i].wire.from = s
                           /\ V[i].tries \in 1..MaxTries
  BY <1>1, <1>4 DEF Slips
<1>8. CASE UNCHANGED queued
  <2>1. Slips(s, Q, V, n)
    BY <1>1, <1>3, <1>6, <1>7 DEF Slips
  <2>2. ASSUME NEW t \in Stations
        PROVE  \E i \in Nat : Slips(t, queued'[t], waiting'[t], i)
    BY <1>5, <1>8, <2>1 DEF OutTyped
  <2> QED BY <2>2 DEF OutTyped
<1>9. CASE r.tries < MaxTries /\ queued' = [queued EXCEPT ![s] = Q \cup {r}]
  <2>1. IsFiniteSet(Q \cup {r}) /\ Cardinality(Q \cup {r}) <= Cardinality(Q) + 1
    <3>1. /\ IsFiniteSet(Q \cup {r})
          /\ Cardinality(Q \cup {r}) = IF r \in Q THEN Cardinality(Q)
                                                  ELSE Cardinality(Q) + 1
      BY <1>6, FS_AddElement
    <3> QED BY <1>6, <3>1
  <2>2. Cardinality(Q \cup {r}) \in Nat
    BY <2>1, FS_CardinalityType
  <2>3. r.oid \in 1..n /\ r.wire.from = s /\ r.tries \in 0..(MaxTries - 1)
    BY <1>1, <1>6, <1>9 DEF Slips
  <2> HIDE DEF r, V
  <2>4. Slips(s, Q \cup {r}, V, n)
    <3>1. Cardinality(Q \cup {r}) + Len(V) <= QueueDepth
      BY <1>1, <1>3, <1>6, <2>1, <2>2 DEF Slips
    <3>2. \A row \in Q \cup {r} : /\ row.oid \in 1..n /\ row.wire.from = s
                                  /\ row.tries \in 0..(MaxTries - 1)
      BY <1>1, <2>3 DEF Slips
    <3> QED BY <1>7, <2>1, <3>1, <3>2 DEF Slips
  <2>5. ASSUME NEW t \in Stations
        PROVE  \E i \in Nat : Slips(t, queued'[t], waiting'[t], i)
    <3>1. CASE t = s
      BY <1>5, <1>9, <2>4, <3>1 DEF OutOK
    <3>2. CASE t # s
      BY <1>5, <1>9, <3>2 DEF OutOK, OutTyped
    <3> QED BY <3>1, <3>2
  <2> QED BY <2>5 DEF OutTyped
<1> QED BY <1>8, <1>9

(* A row that is sent leaves the queue, and waits with one try more.       *)
LEMMA TransmitKeepsTyped ==
    ASSUME Provenance, OutTyped, NEW s \in Stations, Transmit(s)
    PROVE  OutTyped' /\ AirTyped'
<1> DEFINE Q == queued[s]
           W == waiting[s]
<1>1. PICK row \in Q :
         /\ queued' = [queued EXCEPT ![s] = @ \ {row}]
         /\ \/ UNCHANGED waiting
            \/ waiting' = [waiting EXCEPT ![s] = Append(@, [row EXCEPT !.tries = @ + 1])]
         /\ \E hearing \in SUBSET (Stations \ {s}) :
               air' = {<<r, row.wire>> : r \in hearing}
  BY DEF Transmit
<1>2. PICK n \in Nat : Slips(s, Q, W, n)
  BY DEF OutTyped
<1>3. PICK rows : /\ \A q \in rows : RowOK(q)
                  /\ queued \in [Stations -> SUBSET rows]
                  /\ waiting \in [Stations -> Seq(rows)]
  BY DEF Provenance, OutOK
<1> DEFINE again == [row EXCEPT !.tries = @ + 1]
           V == Append(W, again)
<1>4. /\ again.oid = row.oid /\ again.wire = row.wire
      /\ again.tries = row.tries + 1
  <2>1. row = [oid |-> row.oid, kind |-> row.kind, wire |-> row.wire, tries |-> row.tries]
    BY <1>1, <1>3 DEF RowOK
  <2> QED BY <2>1
<1>5. /\ row.oid \in 1..n /\ row.wire.from = s /\ row.tries \in 0..(MaxTries - 1)
  BY <1>1, <1>2 DEF Slips
<1>6. AirTyped'
  <2>1. \A h \in air' : h[1] \in Stations /\ h[2].from # h[1]
    BY <1>1, <1>5
  <2> QED BY <2>1 DEF AirTyped
<1>7. /\ IsFiniteSet(Q) /\ Cardinality(Q) \in Nat /\ QueueDepth \in Nat
      /\ MaxTries \in Nat /\ W \in Seq(rows) /\ Len(W) \in Nat
  BY <1>2, <1>3, FS_CardinalityType, MailAssumption, LenProperties DEF Slips
<1>8. IsFiniteSet(Q \ {row}) /\ Cardinality(Q \ {row}) = Cardinality(Q) - 1
  BY <1>1, <1>7, FS_RemoveElement
<1>9. /\ queued'[s] = Q \ {row}
      /\ \A t \in Stations \ {s} : queued'[t] = queued[t] /\ waiting'[t] = waiting[t]
  BY <1>1, <1>3
<1> HIDE DEF again, Q, W
<1>10. ASSUME NEW sent, Slips(s, Q \ {row}, sent, n), waiting'[s] = sent
       PROVE  OutTyped'
  <2>1. ASSUME NEW t \in Stations
        PROVE  \E i \in Nat : Slips(t, queued'[t], waiting'[t], i)
    <3>1. CASE t = s
      BY <1>9, <1>10, <3>1
    <3>2. CASE t # s
      BY <1>9, <3>2 DEF OutTyped
    <3> QED BY <3>1, <3>2
  <2> QED BY <2>1 DEF OutTyped
<1>11. CASE UNCHANGED waiting
  <2>1. Slips(s, Q \ {row}, W, n)
    BY <1>2, <1>7, <1>8 DEF Slips
  <2> QED BY <1>6, <1>10, <1>11, <2>1 DEF W
<1>12. CASE waiting' = [waiting EXCEPT ![s] = Append(@, again)]
  <2>1. waiting'[s] = V
    BY <1>3, <1>12 DEF W
  <2>2. /\ Len(V) = Len(W) + 1
        /\ \A i \in 1..Len(V) : V[i] = IF i = Len(W) + 1 THEN again ELSE W[i]
    BY <1>7
  <2> HIDE DEF V
  <2>3. \A i \in 1..Len(V) : /\ V[i].oid \in 1..n /\ V[i].wire.from = s
                             /\ V[i].tries \in 1..MaxTries
    <3>1. ASSUME NEW i \in 1..Len(V)
          PROVE  /\ V[i].oid \in 1..n /\ V[i].wire.from = s
                 /\ V[i].tries \in 1..MaxTries
      <4>1. CASE i = Len(W) + 1
        BY <1>4, <1>5, <1>7, <2>2, <4>1
      <4>2. CASE i # Len(W) + 1
        BY <1>2, <1>7, <2>2, <4>2 DEF Slips
      <4> QED BY <4>1, <4>2
    <3> QED BY <3>1
  <2>4. Slips(s, Q \ {row}, V, n)
    BY <1>2, <1>7, <1>8, <2>2, <2>3 DEF Slips
  <2> QED BY <1>6, <1>10, <2>1, <2>4
<1> QED BY <1>1, <1>11, <1>12 DEF again

(* What is put in a mailbox, and what becomes of a row there, is of a      *)
(* known type.                                                             *)
LEMMA BoxesStayTyped ==
    ASSUME BoxOK, BoxTyped, NEW s \in Stations
    PROVE  /\ \A m : m.type \in MailTypes /\ Insert(s, m) => BoxTyped'
           /\ \A id, old, new :
                 new \in MailTypes /\ Transition(s, id, old, new) => BoxTyped'
<1>1. ASSUME NEW m, m.type \in MailTypes, Insert(s, m) PROVE BoxTyped'
  <2>1. ASSUME NEW t \in Stations, NEW id \in DOMAIN box'[t]
        PROVE  box'[t][id].type \in MailTypes
    <3>1. CASE t = s
      BY <1>1, <3>1 DEF BoxOK, BoxTyped, Insert
    <3>2. CASE t # s
      BY <1>1, <3>2 DEF BoxOK, BoxTyped, Insert
    <3> QED BY <3>1, <3>2
  <2> QED BY <2>1 DEF BoxTyped
<1>2. ASSUME NEW id, NEW old, NEW new, new \in MailTypes,
             Transition(s, id, old, new)
      PROVE  BoxTyped'
  <2>1. CASE UNCHANGED box
    BY <2>1 DEF BoxTyped
  <2>2. CASE id \in DOMAIN box[s] /\ box' = [box EXCEPT ![s][id].type = new]
    <3> DEFINE m == box[s][id]
               moved == [m EXCEPT !.type = new]
    <3>1. moved.type = new
      <4>1. m = Mail(m.type, m.from, m.to, m.num, m.text)
        BY <2>2 DEF BoxOK, MailOK
      <4> QED BY <4>1 DEF Mail
    <3>2. box' = [box EXCEPT ![s] = [box[s] EXCEPT ![id] = moved]]
      BY <2>2, Zenon
    <3> HIDE DEF moved
    <3>3. ASSUME NEW t \in Stations, NEW j \in DOMAIN box'[t]
          PROVE  box'[t][j].type \in MailTypes
      <4>1. j \in DOMAIN box[t] /\ box'[t][j] \in {box[t][j], moved}
        BY <2>2, <3>2 DEF BoxOK
      <4> QED BY <1>2, <3>1, <4>1 DEF BoxTyped
    <3> QED BY <3>3 DEF BoxTyped
  <2> QED BY <1>2, <2>1, <2>2, Zenon DEF Transition
<1> QED BY <1>1, <1>2

(* The types are kept by what the operators do.                            *)
LEMMA OperateKeepsTyped ==
    ASSUME Provenance, MailTyped, NEW i \in todo, Operate(i)
    PROVE  MailTyped'
<1>1. i \in Intents /\ i.by \in Stations
  BY MailAssumption DEF Provenance
<1>2. AirTyped' /\ errors' \in 0..MaxErrors /\ UNCHANGED waiting
  BY DEF MailTyped, AirTyped, Operate
<1>3. BoxOK /\ OutOK /\ BoxTyped /\ OutTyped
  BY DEF Provenance, MailTyped
<1>4. ASSUME UNCHANGED box PROVE BoxTyped'
  BY <1>3, <1>4 DEF BoxTyped
<1>5. ASSUME UNCHANGED queued PROVE OutTyped'
  BY <1>2, <1>3, <1>5 DEF OutTyped
<1>6. CASE Compose(i)
  <2>1. ComposeWire(i).from = i.by
    BY DEF ComposeWire, Wire, Plain
  <2>2. OutTyped'
    BY <1>1, <1>2, <1>3, <1>5, <1>6, <2>1, EnqueueKeepsTyped DEF Compose
  <2> QED BY <1>2, <1>4, <1>6, <2>2 DEF Compose, MailTyped, mailVars
<1>7. CASE Broadcast(i)
  <2>1. Plain(i.by, AllCall, i.cmd).from = i.by
    BY DEF Wire, Plain
  <2>2. OutTyped'
    BY <1>1, <1>2, <1>3, <1>7, <2>1, EnqueueKeepsTyped DEF Broadcast
  <2> QED BY <1>2, <1>4, <1>7, <2>2 DEF Broadcast, MailTyped, mailVars
<1>8. CASE Store(i)
  <2>1. Mail("STORE", i.by, i.to, i.num, i.text).type \in MailTypes
    BY DEF Mail, MailTypes
  <2>2. BoxTyped'
    BY <1>1, <1>3, <1>4, <1>8, <2>1, BoxesStayTyped DEF Store, mailVars
  <2> QED BY <1>2, <1>5, <1>8, <2>2 DEF Store, MailTyped
<1>9. CASE Read(i)
  <2>1. "READ" \in MailTypes
    BY DEF MailTypes
  <2>2. BoxTyped'
    BY <1>1, <1>3, <1>9, <2>1, BoxesStayTyped DEF Read
  <2> QED BY <1>2, <1>5, <1>9, <2>2 DEF Read, MailTyped
<1>10. CASE Delete(i)
  <2>1. ASSUME NEW t \in Stations, NEW id \in DOMAIN box'[t]
        PROVE  box'[t][id].type \in MailTypes
    <3>1. CASE t = i.by
      BY <1>3, <1>10, <3>1 DEF BoxOK, BoxTyped, Delete
    <3>2. CASE t # i.by
      BY <1>3, <1>10, <3>2 DEF BoxOK, BoxTyped, Delete
    <3> QED BY <3>1, <3>2
  <2> QED BY <1>2, <1>5, <1>10, <2>1 DEF Delete, MailTyped, BoxTyped
<1> QED BY <1>6, <1>7, <1>8, <1>9, <1>10 DEF Operate

(* And by what a receiver does.                                            *)
LEMMA ReceiveKeepsTyped ==
    ASSUME Provenance, MailTyped, NEW s, NEW w, Receive(s, w)
    PROVE  MailTyped'
<1>1. s \in Stations /\ AirTyped' /\ MaxErrors \in Nat
  BY MailAssumption DEF MailTyped, AirTyped, Receive
<1>2. BoxOK /\ OutOK /\ BoxTyped /\ OutTyped /\ errors \in 0..MaxErrors
  BY DEF Provenance, MailTyped
<1>3. ASSUME NEW m, m.type \in MailTypes, Accept(s, w, m) PROVE MailTyped'
  <2>1. Wire(s, w.from, "ACK", 0, NoText, s).from = s
    BY DEF Wire
  <2>2. UNCHANGED waiting
    BY <1>3 DEF Accept, NoCredit
  <2>3. OutTyped'
    <3>1. CASE Reply(s, w.from, "ACK", 0)
      BY <1>1, <1>2, <2>1, <2>2, <3>1, EnqueueKeepsTyped DEF Reply
    <3>2. CASE NoReply
      BY <1>2, <2>2, <3>2 DEF NoReply, OutTyped
    <3> QED BY <1>3, <3>1, <3>2 DEF Accept
  <2>4. BoxTyped'
    <3>1. CASE Insert(s, m)
      BY <1>1, <1>2, <1>3, <3>1, BoxesStayTyped
    <3>2. CASE UNCHANGED box
      BY <1>2, <3>2 DEF BoxTyped
    <3> QED BY <1>3, <3>1, <3>2 DEF Accept, mailVars
  <2>5. errors' \in 0..MaxErrors
    BY <1>1, <1>2, <1>3 DEF Accept
  <2> QED BY <1>1, <2>3, <2>4, <2>5 DEF MailTyped
<1>4. ASSUME Quiet, NoCredit,
             \/ NoReply
             \/ \E kind, sent : sent.from = s /\ Enqueue(s, kind, sent)
      PROVE  MailTyped'
  <2>1. UNCHANGED <<box, errors, waiting>>
    BY <1>4 DEF Quiet, NoCredit, mailVars
  <2>2. OutTyped'
    <3>1. CASE NoReply
      BY <1>2, <2>1, <3>1 DEF NoReply, OutTyped
    <3>2. ASSUME NEW kind, NEW sent, sent.from = s, Enqueue(s, kind, sent)
          PROVE  OutTyped'
      BY <1>1, <1>2, <2>1, <3>2, EnqueueKeepsTyped
    <3> QED BY <1>4, <3>1, <3>2
  <2> QED BY <1>1, <1>2, <2>1, <2>2 DEF MailTyped, BoxTyped
<1>5. CASE HandleMsg(s, w)
  <2>1. Mail("UNREAD", w.from, s, w.num, w.text).type \in MailTypes
    BY DEF Mail, MailTypes
  <2> QED BY <1>3, <1>5, <2>1 DEF HandleMsg
<1>6. CASE HandleMsgTo(s, w)
  <2>1. Mail("STORE", w.from, w.for, w.num, w.text).type \in MailTypes
    BY DEF Mail, MailTypes
  <2> QED BY <1>3, <1>6, <2>1 DEF HandleMsgTo
<1>7. \A verb, num, text : Wire(s, w.from, verb, num, text, s).from = s
  BY DEF Wire
<1>8. CASE HandleQueryMsgs(s, w)
  BY <1>4, <1>7, <1>8 DEF HandleQueryMsgs, Reply
<1>9. CASE HandleQueryMsgId(s, w)
  BY <1>4, <1>7, <1>9 DEF HandleQueryMsgId
<1>10. CASE HandleAck(s, w)
  <2>1. UNCHANGED <<queued, errors>>
    BY <1>10 DEF HandleAck, AfterAck, NoReply
  <2>2. CASE Credited(s, w.from) = {}
    <3>1. UNCHANGED <<box, waiting>>
      BY <1>10, <2>2 DEF HandleAck, NoCredit, mailVars
    <3> QED BY <1>1, <1>2, <2>1, <3>1 DEF MailTyped, BoxTyped, OutTyped
  <2>3. CASE Credited(s, w.from) # {}
    <3>1. PICK j \in Credited(s, w.from) :
            /\ waiting' = [waiting EXCEPT ![s] = RemoveAt(@, j)]
            /\ \/ Transition(s, waiting[s][j].wire.num, "STORE", "DELIVERED")
               \/ UNCHANGED mailVars
      BY <1>10, <2>3 DEF HandleAck
    <3>2. j \in 1..Len(waiting[s])
      BY DEF Credited
    <3>3. OutTyped'
      BY <1>1, <1>2, <2>1, <3>1, <3>2, RemovalKeepsTyped
    <3>4. "DELIVERED" \in MailTypes
      BY DEF MailTypes
    <3>5. BoxTyped'
      BY <1>1, <1>2, <3>1, <3>4, BoxesStayTyped DEF mailVars, BoxTyped
    <3> QED BY <1>1, <1>2, <2>1, <3>3, <3>5 DEF MailTyped
  <2> QED BY <2>2, <2>3
<1>11. CASE Shown(s, w)
  BY <1>4, <1>11 DEF Shown
<1> QED BY <1>5, <1>6, <1>8, <1>9, <1>10, <1>11 DEF Receive, Dispatch

(* The rows of a station are its own, fit in its queue and are sent at     *)
(* most MaxTries times; a mailbox holds ids that were given and states     *)
(* that exist; nobody hears itself.                                        *)
THEOREM MailIsTyped == Spec => []TypeOK
<1>1. Init => MailTyped
  <2> SUFFICES ASSUME Init PROVE MailTyped
    OBVIOUS
  <2>1. OutTyped
    <3>1. ASSUME NEW s \in Stations PROVE Slips(s, queued[s], waiting[s], 0)
      <4>1. queued[s] = {} /\ waiting[s] = << >>
        BY DEF Init
      <4>2. Cardinality({}) = 0 /\ IsFiniteSet({}) /\ QueueDepth \in Nat
        BY FS_EmptySet, MailAssumption
      <4>3. Len(<< >>) = 0
        OBVIOUS
      <4> QED BY <4>1, <4>2, <4>3 DEF Slips
    <3> QED BY <3>1 DEF OutTyped
  <2> QED BY <2>1, MailAssumption DEF Init, MailTyped, BoxTyped, AirTyped
<1>2. Provenance /\ MailTyped /\ [Next]_vars => MailTyped'
  <2> SUFFICES ASSUME Provenance, MailTyped, [Next]_vars PROVE MailTyped'
    OBVIOUS
  <2>1. ASSUME NEW i \in todo, Operate(i) PROVE MailTyped'
    BY <2>1, OperateKeepsTyped
  <2>2. ASSUME NEW s \in Stations, Transmit(s) PROVE MailTyped'
    <3>1. UNCHANGED <<box, errors>>
      BY <2>2 DEF Transmit, mailVars
    <3> QED BY <2>2, <3>1, TransmitKeepsTyped DEF MailTyped, BoxTyped
  <2>3. ASSUME NEW s \in Stations, NEW j \in 1..Len(waiting[s]), AckTimeout(s, j)
        PROVE  MailTyped'
    <3>1. UNCHANGED <<box, errors, air>>
      BY <2>3 DEF AckTimeout, mailVars
    <3>2. OutTyped'
      BY <2>3, RemovalKeepsTyped DEF Provenance, MailTyped, AckTimeout
    <3> QED BY <3>1, <3>2 DEF MailTyped, BoxTyped, AirTyped
  <2>4. ASSUME NEW h \in air, Receive(h[1], h[2]) PROVE MailTyped'
    BY <2>4, ReceiveKeepsTyped
  <2>5. CASE UNCHANGED vars
    BY <2>5 DEF MailTyped, BoxTyped, OutTyped, AirTyped, vars, mailVars, outVars
  <2> QED BY <2>1, <2>2, <2>3, <2>4, <2>5 DEF Next
<1>3. Provenance /\ MailTyped => TypeOK
  <2> SUFFICES ASSUME Provenance, MailTyped PROVE TypeOK
    OBVIOUS
  <2>1. ASSUME NEW s \in Stations
        PROVE  /\ Pending(s) <= QueueDepth
               /\ \A row \in OutRows(s) : /\ row.oid \in Nat \ {0}
                                          /\ row.wire.from = s
                                          /\ row.tries \in 0..MaxTries
    <3>1. PICK n \in Nat : Slips(s, queued[s], waiting[s], n)
      BY DEF MailTyped, OutTyped
    <3>2. OutRows(s) = queued[s] \cup {waiting[s][j] : j \in 1..Len(waiting[s])}
      BY RowsOf DEF Provenance
    <3> QED BY <3>1, <3>2, MailAssumption DEF Slips, Pending
  <2>2. ASSUME NEW s \in Stations, NEW id \in DOMAIN box[s]
        PROVE  id \in 1..last[s] /\ box[s][id].type \in MailTypes
    BY DEF Provenance, BoxOK, MailTyped, BoxTyped
  <2> QED BY <2>1, <2>2 DEF Provenance, MailTyped, AirTyped, TypeOK
<1> QED BY <1>1, <1>2, <1>3, ProvenanceHolds, PTL DEF Spec
===============================================================================
