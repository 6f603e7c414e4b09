--------------------------------- MODULE Mail ---------------------------------
(***************************************************************************)
(* Mail between stations that all run this program: what an operator       *)
(* composes, what the decode handler makes of a frame, the mailbox         *)
(* (store/inbox.py) and the automatic answers (app.py).  A transmitted     *)
(* text reaches any subset of the other stations whole, with its checksum, *)
(* or not at all; Reassembly says what happens in between and TxPipeline   *)
(* what a station does to transmit.                                        *)
(***************************************************************************)
EXTENDS Integers, FiniteSets, Sequences, SequencesExt

CONSTANTS
    Stations,
    Groups,         \* groups the stations have joined in their setup
    AllCall,        \* @ALLCALL
    NoText,         \* an empty body
    Plans,          \* sets of things the operators may set out to do, each once
    QueueDepth,     \* MAX_QUEUE_DEPTH of the outbound queue
    MaxTries,       \* transmissions of a message that gets no ACK
    MaxErrors       \* bound: failing inserts into a mailbox

Addresses == Stations \cup Groups \cup {AllCall}

(* An operator's intent: the station, the command of the compose screen    *)
(* (or of the allcall and inbox screens) and its fields; num is the number *)
(* the text begins with, 0 for none.                                       *)
Commands == {"MSG", "MSG TO", "QUERY MSGS", "QUERY MSG", "SNR?", "FREE",
             "STORE", "READ", "DELETE"}
Intents == UNION Plans
ASSUME MailAssumption ==
    /\ \A i \in Intents : /\ i.by \in Stations /\ i.cmd \in Commands
                          /\ i.to \in Addresses /\ i.for \in Addresses
                          /\ i.num \in Nat
    /\ {QueueDepth, MaxTries} \subseteq Nat \ {0} /\ MaxErrors \in Nat

VARIABLES
    todo,       \* intents not carried out yet
    box,        \* [station -> [row id -> row]], the table inbox_v1
    last,       \* [station -> AUTOINCREMENT: the last row id given]
    queued,     \* [station -> outbound rows in QUEUED]
    waiting,    \* [station -> outbound rows in WAIT_ACK, by last_tx_at]
    air,        \* <<station, text>>: decoded there, not handled yet
    errors,
    accepted,   \* history: <<station, text>> a station stored
    promised    \* history: <<station, text>> a station queued an ACK for

mailVars == <<box, last>>
outVars == <<queued, waiting>>
vars == <<todo, mailVars, outVars, air, errors, accepted, promised>>

(***************************************************************************)
(* Texts on the air.                                                       *)
(***************************************************************************)
Wire(from, to, verb, num, text, for) ==
    [from |-> from, to |-> to, verb |-> verb, num |-> num, text |-> text,
     for |-> for]
Plain(from, to, verb) == Wire(from, to, verb, 0, NoText, from)

Buffered == {"MSG", "MSG TO:", "QUERY MSGS", "QUERY MSG"}

(* The kind grammar.parse gives a frame.  A frame to @ALLCALL is an        *)
(* ALLCALL frame whatever it says.                                         *)
Kind(w) ==
    CASE w.to = AllCall -> "ALLCALL"
      [] w.to # AllCall /\ w.verb = "ACK" -> "ACK"
      [] w.to # AllCall /\ w.verb \in {"MSG TO:", "QUERY MSGS", "QUERY MSG"} -> "COMMAND"
      [] w.to # AllCall /\ w.verb = "SNR?" -> "QUERY"
      [] OTHER -> "DIRECTED"

(* is_for_us: the decode handler gives parse no groups.                    *)
ForUs(s, w) == w.to = s

(* The frames the assembler makes a message of, at once or later.          *)
Assembles(w) == Kind(w) \in {"DIRECTED", "COMMAND", "QUERY"}

(* infer_outbound_kind.                                                    *)
InferKind(w) ==
    IF w.verb \in {"MSG", "MSG TO:"} /\ w.to \in Stations THEN "DIRECTED" ELSE "REPLY"

(* build_compose_wire for the commands that transmit, and when it refuses. *)
Refused(i) ==
    \/ i.to = i.by
    \/ i.cmd \in {"MSG", "MSG TO", "FREE"} /\ i.text = NoText
    \/ i.cmd = "MSG TO" /\ i.for = i.to
    \/ i.cmd = "QUERY MSG" /\ i.num = 0
ComposeWire(i) ==
    CASE i.cmd \in {"MSG", "FREE"} -> Wire(i.by, i.to, i.cmd, i.num, i.text, i.by)
      [] i.cmd = "MSG TO" -> Wire(i.by, i.to, "MSG TO:", i.num, i.text, i.for)
      [] i.cmd = "QUERY MSG" -> Wire(i.by, i.to, i.cmd, i.num, NoText, i.by)
      [] OTHER -> Plain(i.by, i.to, i.cmd)

Init ==
    /\ todo \in Plans
    /\ box = [s \in Stations |-> << >>] /\ last = [s \in Stations |-> 0]
    /\ queued = [s \in Stations |-> {}] /\ waiting = [s \in Stations |-> << >>]
    /\ air = {}
    /\ errors = 0 /\ accepted = {} /\ promised = {}

(***************************************************************************)
(* The outbound queue, as far as mail depends on it.                       *)
(***************************************************************************)
(* active_count: of the states it counts, a row is here in one of two.     *)
Pending(s) == Cardinality(queued[s]) + Len(waiting[s])
OutRows(s) == queued[s] \cup Range(waiting[s])
(* The place of a new row in the order of enqueued_at.                     *)
Row(s, kind, w) == [oid |-> 1 + Max({0} \cup {row.oid : row \in OutRows(s)}),
                    kind |-> kind, wire |-> w, tries |-> 0]

(* enqueue_for_encoding: a full queue refuses, and the callers that answer *)
(* a frame do not notice.                                                  *)
SlipHasRoom(s) == Pending(s) <= QueueDepth
HasRoom(s) == Pending(s) < QueueDepth
Enqueue(s, kind, w) ==
    IF HasRoom(s)
    THEN queued' = [queued EXCEPT ![s] = @ \cup {Row(s, kind, w)}]
    ELSE UNCHANGED queued

(* pick_next takes the oldest row; a text that expects no ACK is done, a   *)
(* DIRECTED one waits.  Frames are handled before the next slot begins.    *)
Transmit(s) ==
    /\ air = {} /\ queued[s] # {}
    /\ \E row \in queued[s] :
          /\ \A other \in queued[s] : row.oid <= other.oid
          /\ queued' = [queued EXCEPT ![s] = @ \ {row}]
          /\ waiting' = IF row.kind = "DIRECTED" /\ InferKind(row.wire) = "DIRECTED"
                        THEN [waiting EXCEPT ![s] = Append(@, [row EXCEPT !.tries = @ + 1])]
                        ELSE waiting
          /\ \E hearing \in SUBSET (Stations \ {s}) :
                air' = {<<r, row.wire>> : r \in hearing}
    /\ UNCHANGED <<todo, mailVars, errors, accepted, promised>>

(* No ACK in time: the row is queued again, or abandoned.                  *)
AckTimeout(s, j) ==
    /\ air = {} /\ j \in 1..Len(waiting[s])
    /\ waiting' = [waiting EXCEPT ![s] = RemoveAt(@, j)]
    /\ queued' = IF waiting[s][j].tries < MaxTries
                 THEN [queued EXCEPT ![s] = @ \cup {waiting[s][j]}]
                 ELSE queued
    /\ UNCHANGED <<todo, mailVars, air, errors, accepted, promised>>

(***************************************************************************)
(* The mailbox.                                                            *)
(***************************************************************************)
Mail(type, from, to, num, text) ==
    [type |-> type, from |-> from, to |-> to, num |-> num, text |-> text]

(* _insert_blob: AUTOINCREMENT never gives an id twice.                    *)
SlipNewId(s) == Cardinality(DOMAIN box[s]) + 1
NewId(s) == last[s] + 1
Insert(s, row) ==
    /\ box' = [box EXCEPT ![s] = [j \in DOMAIN @ \cup {NewId(s)} |->
                                    IF j = NewId(s) THEN row ELSE @[j]]]
    /\ last' = [last EXCEPT ![s] = NewId(s)]

(* _transition_type: an update whose WHERE clause names the old type.      *)
Transition(s, id, old, new) ==
    /\ last' = last
    /\ box' = IF id \in DOMAIN box[s] /\ box[s][id].type = old
              THEN [box EXCEPT ![s][id].type = new]
              ELSE box

(* list_holding_for.                                                       *)
HoldingFor(s, asker) ==
    {id \in DOMAIN box[s] : box[s][id].type = "STORE" /\ box[s][id].to = asker}

(***************************************************************************)
(* The operators.                                                          *)
(***************************************************************************)
(* _compose_send_sync.  A full queue loses the text: the compose screen is *)
(* cleared all the same.                                                   *)
Compose(i) ==
    /\ i.cmd \in Commands \ {"STORE", "READ", "DELETE"} /\ i.to # AllCall
    /\ IF Refused(i) THEN UNCHANGED queued
       ELSE Enqueue(i.by, InferKind(ComposeWire(i)), ComposeWire(i))
    /\ UNCHANGED mailVars

(* _allcall_query_msgs_sync and _allcall_cq_sync, of the allcall screen.   *)
Broadcast(i) ==
    /\ i.to = AllCall
    /\ Enqueue(i.by, "ALLCALL", Plain(i.by, AllCall, i.cmd))
    /\ UNCHANGED mailVars

(* _compose_store_sync: hold a text for a station, never for a group.      *)
Store(i) ==
    /\ i.cmd = "STORE"
    /\ IF i.to \in Stations /\ i.text # NoText
       THEN Insert(i.by, Mail("STORE", i.by, i.to, i.num, i.text))
       ELSE UNCHANGED mailVars
    /\ UNCHANGED queued

(* The inbox screen lists the UNREAD and READ rows, for _refresh_inbox_ui   *)
(* asks for list_inbox and not for list_inbox_with_stored.  Opening a row  *)
(* marks it read (_mark_inbox_read_sync), Delete removes it                *)
(* (_delete_inbox_row_sync); what is not listed can be neither.            *)
Listed(s) == {id \in DOMAIN box[s] : box[s][id].type \in {"UNREAD", "READ"}}
Read(i) ==
    /\ i.cmd = "READ" /\ i.num \in Listed(i.by)
    /\ Transition(i.by, i.num, "UNREAD", "READ")
    /\ UNCHANGED queued
Delete(i) ==
    /\ i.cmd = "DELETE" /\ i.num \in Listed(i.by)
    /\ box' = [box EXCEPT ![i.by] = [j \in DOMAIN @ \ {i.num} |-> @[j]]]
    /\ UNCHANGED <<last, queued>>

Operate(i) ==
    /\ todo' = todo \ {i}
    /\ Compose(i) \/ Broadcast(i) \/ Store(i) \/ Read(i) \/ Delete(i)
    /\ UNCHANGED <<waiting, air, errors, accepted, promised>>

(***************************************************************************)
(* The decode handler (_on_decoded_frame and _dispatch_assembled).         *)
(***************************************************************************)
NoReply == UNCHANGED queued
NoCredit == UNCHANGED waiting
Reply(s, to, verb, num) == Enqueue(s, "REPLY", Wire(s, to, verb, num, NoText, s))

(* _handle_inbound_msg_for_us and _handle_inbound_msg_to: store, then ACK; *)
(* a row that cannot be stored is not acknowledged.                        *)
SlipAccept(s, w, row) ==
    /\ \/ /\ Insert(s, row) /\ accepted' = accepted \cup {<<s, w>>}
          /\ errors' = errors
       \/ /\ errors < MaxErrors /\ errors' = errors + 1
          /\ UNCHANGED <<mailVars, accepted>>
    /\ Reply(s, w.from, "ACK", 0)
    /\ promised' = promised \cup {<<s, w>>}
    /\ NoCredit
Accept(s, w, row) ==
    /\ \/ /\ Insert(s, row) /\ accepted' = accepted \cup {<<s, w>>}
          /\ Reply(s, w.from, "ACK", 0)
          /\ promised' = promised \cup {<<s, w>>}
          /\ errors' = errors
       \/ /\ errors < MaxErrors /\ errors' = errors + 1
          /\ UNCHANGED <<mailVars, accepted, promised>> /\ NoReply
    /\ NoCredit

HandleMsg(s, w) ==
    /\ w.verb = "MSG" /\ ForUs(s, w)
    /\ Accept(s, w, Mail("UNREAD", w.from, s, w.num, w.text))
HandleMsgTo(s, w) ==
    /\ w.verb = "MSG TO:" /\ ForUs(s, w) /\ w.for \in Stations
    /\ Accept(s, w, Mail("STORE", w.from, w.for, w.num, w.text))

Quiet == UNCHANGED <<mailVars, errors, accepted, promised>>

(* _handle_query_msgs: the id of the oldest mail held for the asker; an    *)
(* empty answer only to a direct question.                                 *)
HandleQueryMsgs(s, w) ==
    /\ w.verb = "QUERY MSGS" /\ (ForUs(s, w) \/ w.to = AllCall)
    /\ LET held == HoldingFor(s, w.from)
       IN \/ \E id \in held : /\ \A other \in held : id <= other
                              /\ Reply(s, w.from, "MSG", id)
          \/ held = {} /\ ForUs(s, w) /\ Reply(s, w.from, "NO", 0)
          \/ held = {} /\ ~ForUs(s, w) /\ NoReply
    /\ Quiet /\ NoCredit

(* _handle_query_msg_id: only mail held for the asker is delivered, as a   *)
(* MSG that begins with its id and that the asker will acknowledge.        *)
SlipMayFetch(s, id, asker) == id \in DOMAIN box[s] /\ box[s][id].type = "STORE"
MayFetch(s, id, asker) ==
    /\ id \in DOMAIN box[s]
    /\ box[s][id].type = "STORE"
    /\ box[s][id].to = asker
HandleQueryMsgId(s, w) ==
    /\ w.verb = "QUERY MSG" /\ ForUs(s, w)
    /\ IF MayFetch(s, w.num, w.from)
       THEN Enqueue(s, "DIRECTED",
                    Wire(s, w.from, "MSG", w.num, box[s][w.num].text, s))
       ELSE NoReply
    /\ Quiet /\ NoCredit

(* What a buffered command does once it is assembled.                      *)
Dispatch(s, w) ==
    /\ Assembles(w) /\ w.verb \in Buffered
    /\ \/ HandleMsg(s, w)
       \/ HandleMsgTo(s, w)
       \/ HandleQueryMsgs(s, w)
       \/ HandleQueryMsgId(s, w)

(* record_ack: the waiting row to that call that was sent last.  If its    *)
(* text reads "<call> MSG <number> ...", _maybe_mark_inbox_delivered marks *)
(* the row of that number.                                                 *)
Credited(s, from) ==
    LET to == {j \in 1..Len(waiting[s]) : waiting[s][j].wire.to = from}
    IN {j \in to : \A k \in to : k <= j}
SlipAfterAck(s, w) == Reply(s, w.from, "ACK", 0)
AfterAck(s, w) == NoReply
HandleAck(s, w) ==
    /\ Kind(w) = "ACK" /\ ForUs(s, w)
    /\ IF Credited(s, w.from) = {} THEN NoCredit /\ UNCHANGED mailVars
       ELSE \E j \in Credited(s, w.from) :
              LET sent == waiting[s][j].wire IN
              /\ waiting' = [waiting EXCEPT ![s] = RemoveAt(@, j)]
              /\ IF sent.verb = "MSG" /\ sent.num > 0
                 THEN Transition(s, sent.num, "STORE", "DELIVERED")
                 ELSE UNCHANGED mailVars
    /\ AfterAck(s, w) /\ UNCHANGED <<errors, accepted, promised>>

(* Any other frame is at most shown to the operator.  A query to a group   *)
(* is one: _maybe_auto_respond_to_group_query wants a frame that is for us *)
(* and addressed to a group, and the handler gives parse no groups.        *)
Answered(s, w) ==
    \/ /\ Assembles(w)
       /\ \/ ForUs(s, w) /\ w.verb \in Buffered \ {"MSG TO:"}
          \/ ForUs(s, w) /\ w.verb = "MSG TO:" /\ w.for \in Stations
    \/ Kind(w) = "ACK" /\ ForUs(s, w)
Shown(s, w) == ~Answered(s, w) /\ NoReply /\ NoCredit /\ Quiet

Receive(s, w) ==
    /\ <<s, w>> \in air /\ air' = air \ {<<s, w>>}
    /\ Dispatch(s, w) \/ HandleAck(s, w) \/ Shown(s, w)
    /\ UNCHANGED todo

Next ==
    \/ \E i \in todo : Operate(i)
    \/ \E s \in Stations : Transmit(s)
    \/ \E s \in Stations : \E j \in 1..Len(waiting[s]) : AckTimeout(s, j)
    \/ \E h \in air : Receive(h[1], h[2])

Spec == Init /\ [][Next]_vars
(* A queued text is transmitted, a decoded one handled and an ACK timeout  *)
(* noticed by the scheduler; operators do what they like.                  *)
FairSpec ==
    /\ Spec
    /\ \A s \in Stations :
          /\ WF_vars(Transmit(s))
          /\ WF_vars(\E j \in 1..Len(waiting[s]) : AckTimeout(s, j))
    /\ WF_vars(\E h \in air : Receive(h[1], h[2]))

(***************************************************************************)
(* Properties.                                                             *)
(***************************************************************************)
MailOf(s, id) == [from |-> box[s][id].from, to |-> box[s][id].to,
                  num |-> box[s][id].num, text |-> box[s][id].text]
MailTypes == {"UNREAD", "READ", "STORE", "DELIVERED"}

TypeOK ==
    /\ todo \subseteq Intents /\ errors \in 0..MaxErrors
    /\ \A s \in Stations :
          /\ \A id \in DOMAIN box[s] : /\ id \in 1..last[s]
                                       /\ box[s][id].type \in MailTypes
          /\ Pending(s) <= QueueDepth
          /\ \A row \in OutRows(s) : /\ row.oid \in Nat \ {0}
                                     /\ row.wire.from = s
                                     /\ row.tries \in 0..MaxTries
    /\ \A h \in air : h[1] \in Stations /\ h[2].from # h[1]

(* An ACK tells the sender that its mail is safe: what a station           *)
(* acknowledges it has stored, also when inserts into the mailbox fail     *)
(* (_handle_inbound_msg_for_us stores before it queues the ACK).           *)
AckedIsStored == promised \subseteq accepted

(* An operator had the text held for the station or asked another station  *)
(* to; or the operator sent it to the station.                             *)
HeldFor(text, reader) == \E i \in Intents :
    /\ i.text = text
    /\ \/ i.cmd = "STORE" /\ i.to = reader
       \/ i.cmd = "MSG TO" /\ i.for = reader
MeantFor(text, reader) ==
    \/ HeldFor(text, reader)
    \/ \E i \in Intents : i.text = text /\ i.cmd = "MSG" /\ i.to = reader

(* Mail held for a station is read by nobody else: a text stored for one   *)
(* station arrives nowhere else but where its author sent it, whatever ids *)
(* are asked for (_handle_query_msg_id).                                   *)
PrivateMail ==
    \A h \in accepted :
        h[2].verb = "MSG" /\ h[2].text # NoText => MeantFor(h[2].text, h[1])

(* The lifecycle of store/inbox.py:38-46: a stored mail keeps its id and   *)
(* its content, moves only from UNREAD to READ or from STORE to DELIVERED, *)
(* and disappears, whatever its type, only by the Delete of the operator   *)
(* whose mailbox holds it, never by a frame that comes in.                 *)
Moves(old, new) == \/ old = new
                   \/ old = "UNREAD" /\ new = "READ"
                   \/ old = "STORE" /\ new = "DELIVERED"
Kept(s, id) ==
    /\ id \in DOMAIN box'[s] /\ MailOf(s, id)' = MailOf(s, id)
    /\ Moves(box[s][id].type, box'[s][id].type)
Removed(s, id) ==
    /\ id \notin DOMAIN box'[s]
    /\ \E i \in todo : i.cmd = "DELETE" /\ i.by = s /\ i.num = id
MailLifecycle ==
    [][\A s \in Stations : \A id \in DOMAIN box[s] : Kept(s, id) \/ Removed(s, id)]_vars

(* No echo: the automatic answers of two stations never feed one another,  *)
(* so a channel on which nobody starts anything falls silent               *)
(* (_queue_ack_to: an ACK is not acknowledged).                            *)
FallsSilent == <>[](air = {} /\ \A s \in Stations : Pending(s) = 0)
===============================================================================
