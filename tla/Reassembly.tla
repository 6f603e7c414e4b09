------------------------------ MODULE Reassembly ------------------------------
(***************************************************************************)
(* How frames become messages: MessageAssembler (protocol/reassembly.py),  *)
(* fed by the decode handler and swept every five seconds by               *)
(* _reassembly_sweep_loop (app.py).                                        *)
(*                                                                         *)
(* The stations on the air send the messages of Script, a frame in every   *)
(* slot; the receiver decodes some of them, in any order within a slot.    *)
(* Time is counted in ticks of 5 s.  A decode comes less than one tick     *)
(* late, so a limit of T ticks may have passed at an age of T and has      *)
(* certainly passed at T + 1.  The text of a frame is the token            *)
(* <<message, index>>; a checksum is right when the text is that of one    *)
(* whole checksummed message (CRC collisions are left out).                *)
(***************************************************************************)
EXTENDS Integers, FiniteSets, Sequences, Functions

CONSTANTS
    Script,             \* [message -> what its sender transmits]
    Drift,              \* what the decoder may add to a frame's frequency, Hz
    FrameTimeout,       \* DEFAULT_FRAME_TIMEOUT_S: 30 s
    NonBufferedTimeout, \* NON_BUFFERED_TIMEOUT_S: 20 s
    SlotTicks           \* a JS8 slot: 15 s

Msgs == DOMAIN Script

(* A buffered command with a checksum (mail), without one (bad), the       *)
(* verb-only QUERY MSGS (ask), a QUERY MSG <id> without checksum (get),    *)
(* any other directed text, and frames the assembler does not look at.     *)
Classes == {"mail", "bad", "ask", "get", "text", "other"}

ASSUME ReassemblyAssumption ==
    /\ \A m \in Msgs : /\ Script[m].class \in Classes
                       /\ Script[m].len \in Nat \ {0}
                       /\ Script[m].hz \in Nat
                       /\ Script[m].bare \in BOOLEAN /\ Script[m].eot \in BOOLEAN
                       /\ Script[m].bare => Script[m].len > 1
                       /\ Script[m].class \in {"ask", "get"} => Script[m].len = 1
    /\ Drift \subseteq Nat
    /\ {FrameTimeout, NonBufferedTimeout, SlotTicks} \subseteq Nat \ {0}
    /\ NonBufferedTimeout > SlotTicks /\ FrameTimeout > SlotTicks

VARIABLES
    sent,       \* frames of each message transmitted so far
    air,        \* frames decoded in this slot and not fed yet
    tick,       \* of the slot
    swept,      \* the sweep of this tick is done
    buffers,    \* MessageAssembler._buffers: [key -> buffer]
    starts,     \* buffers started so far, the clock of started_at
    emitted,    \* history: the AssembledMessages returned
    lane        \* history: the bucket of a message received undisturbed so far, or NoLane

airVars == <<sent, air, tick>>
vars == <<airVars, swept, buffers, starts, emitted, lane>>

NoLane == -1
Tokens == UNION {{m} \X (1..Script[m].len) : m \in Msgs}

(* _bucket_offset: Python rounds a tie to the even neighbour.              *)
Bucket(hz) ==
    LET low == hz \div 10
        rest == hz % 10
    IN 10 * (IF rest > 5 \/ (rest = 5 /\ low % 2 = 1) THEN low + 1 ELSE low)

Buckets == {Bucket(Script[m].hz + d) : m \in Msgs, d \in Drift}
Key(m, hz) == <<Script[m].from, Script[m].to, Bucket(hz)>>
Keys == {Key(m, Script[m].hz + d) : m \in Msgs, d \in Drift}

(* What a message puts after its verb; a bare first frame is only a verb.  *)
FirstIndex(m) == IF Script[m].bare THEN 2 ELSE 1
Body(m) == [j \in 1..(Script[m].len - FirstIndex(m) + 1) |->
               <<m, FirstIndex(m) + j - 1>>]
(* verify_checksum16: it looks at the text alone, not at the sender.       *)
Checksummed(body) ==
    \E m \in Msgs : Script[m].class = "mail" /\ body = Body(m)

(* An emitted message and the buffer it comes from.                        *)
Assembled(k, b, valid) == [from |-> k[1], to |-> k[2], head |-> b.head,
                           body |-> b.body, valid |-> valid,
                           buffered |-> b.buffered]

Init == /\ sent = [m \in Msgs |-> 0]
        /\ air = {} /\ tick = 0 /\ swept = FALSE
        /\ buffers = << >> /\ starts = 0
        /\ emitted = {}
        /\ lane = [m \in Msgs |-> NoLane]

(***************************************************************************)
(* The band.                                                               *)
(***************************************************************************)
OnTheAir == {m \in Msgs : sent[m] \in 1..(Script[m].len - 1)}

(* A new slot: a message under way goes on, an idle station may start its  *)
(* next one, and the receiver decodes some of the frames.                  *)
NewSlot ==
    \E first \in SUBSET {m \in Msgs : sent[m] = 0} :
        LET senders == OnTheAir \cup first
            now == {<<m, sent[m] + 1>> : m \in senders}
        IN /\ \A m, n \in senders : Script[m].from = Script[n].from => m = n
           /\ sent' = [m \in Msgs |-> IF m \in senders THEN sent[m] + 1 ELSE sent[m]]
           /\ \E heard \in SUBSET now :
                /\ air' = heard
                /\ lane' = [m \in Msgs |->
                     IF m \in senders /\ <<m, sent[m] + 1>> \notin heard
                     THEN NoLane ELSE lane[m]]

(* Ages stop at FrameTimeout + 1, when every limit has passed.             *)
Tick == /\ swept /\ air = {}
        /\ swept' = FALSE
        /\ tick' = (tick + 1) % SlotTicks
        /\ IF tick' = 0 THEN NewSlot ELSE UNCHANGED <<sent, air, lane>>
        /\ buffers' = [k \in DOMAIN buffers |->
                          [buffers[k] EXCEPT !.age = IF @ > FrameTimeout THEN @ ELSE @ + 1]]
        /\ UNCHANGED <<starts, emitted>>

(***************************************************************************)
(* Timeouts.  _evict_stale_non_buffered, _evict_stale_buffered and         *)
(* _evict_stale drop what is older than its limit.                         *)
(***************************************************************************)
Limit(b) == IF b.buffered THEN FrameTimeout ELSE NonBufferedTimeout
Overdue == {k \in DOMAIN buffers : buffers[k].age > Limit(buffers[k])}
Due == {k \in DOMAIN buffers : buffers[k].age >= Limit(buffers[k])}

Without(bs, ks) == Restrict(bs, DOMAIN bs \ ks)
Texts(gone) == {Assembled(k, buffers[k], TRUE) :
                    k \in {j \in gone : ~buffers[j].buffered}}
Partials(gone) == {Assembled(k, buffers[k], FALSE) :
                    k \in {j \in gone : buffers[j].buffered}}

(* One round of the sweep loop: sweep_completed, then sweep_timeouts.      *)
SlipSweep == \E gone \in SUBSET {k \in Due : ~buffers[k].buffered} :
    /\ ~swept /\ {k \in Overdue : ~buffers[k].buffered} \subseteq gone
    /\ emitted' = emitted \cup Texts(gone)
    /\ buffers' = Without(buffers, gone)
    /\ swept' = TRUE
    /\ UNCHANGED <<airVars, starts, lane>>
Sweep == \E gone \in SUBSET Due :
    /\ ~swept /\ Overdue \subseteq gone
    /\ emitted' = emitted \cup Texts(gone) \cup Partials(gone)
    /\ buffers' = Without(buffers, gone)
    /\ swept' = TRUE
    /\ UNCHANGED <<airVars, starts, lane>>

(***************************************************************************)
(* feed.  First the stale buffers go: texts are emitted, buffered commands *)
(* are dropped.  left is what remains and out what was emitted.            *)
(***************************************************************************)
Started(m, buffered) == [buffered |-> buffered, head |-> m,
                         body |-> IF Script[m].bare THEN << >> ELSE << <<m, 1>> >>,
                         born |-> starts + 1, age |-> 0]
Put(bs, k, b) == [j \in DOMAIN bs \cup {k} |-> IF j = k THEN b ELSE bs[j]]

SlipPopped(bs, k) == bs
Popped(bs, k) == Without(bs, {k})

IsStarter(f, classes) == f[2] = 1 /\ Script[f[1]].class \in classes
AtOnce(m) == \/ Checksummed(Started(m, TRUE).body)      \* a single frame
             \/ Script[m].class \in {"ask", "get"}

(* _on_buffered_starter: a complete command is emitted, another one starts *)
(* a buffer; what the key held before is dropped in both cases.            *)
OnBufferedStarter(f, k, left, out) ==
    LET m == f[1] IN
    /\ IsStarter(f, {"mail", "bad", "ask", "get"})
    /\ IF AtOnce(m)
       THEN /\ buffers' = Popped(left, k)
            /\ emitted' = out \cup {Assembled(k, Started(m, TRUE), TRUE)}
            /\ starts' = starts
       ELSE /\ buffers' = Put(left, k, Started(m, TRUE))
            /\ emitted' = out
            /\ starts' = starts + 1

(* _on_non_buffered_starter: what the key held is emitted as if complete,  *)
(* whatever its kind.                                                      *)
OnNonBufferedStarter(f, k, left, out) ==
    /\ IsStarter(f, {"text"})
    /\ buffers' = Put(left, k, Started(f[1], FALSE))
    /\ emitted' = out \cup
         {Assembled(k, left[j], TRUE) : j \in {k} \cap DOMAIN left}
    /\ starts' = starts + 1

(* The buffer a continuation goes to: of those in its bucket the one that  *)
(* was started last.  Two frequencies of a bucket are at most 10 Hz apart, *)
(* so the raw tolerance of 15 Hz admits them all.                          *)
SlipCandidates(left, bucket) == DOMAIN left
Candidates(left, bucket) == {k \in DOMAIN left : k[3] = bucket}
Target(left, bucket) ==
    CHOOSE k \in Candidates(left, bucket) :
        \A j \in Candidates(left, bucket) : left[j].born <= left[k].born

(* _on_continuation: the text is appended; a command is complete when its  *)
(* checksum is right, and given up at an end-of-transmission mark.         *)
OnContinuation(f, bucket, left, out) ==
    /\ f[2] > 1 /\ Script[f[1]].class # "other"
    /\ starts' = starts
    /\ IF Candidates(left, bucket) # {}
       THEN LET k == Target(left, bucket)
                b == [left[k] EXCEPT !.body = Append(@, f), !.age = 0]
                ends == Script[f[1]].eot /\ f[2] = Script[f[1]].len
            IN IF b.buffered /\ (Checksummed(b.body) \/ ends)
               THEN /\ buffers' = Popped(left, k)
                    /\ emitted' = out \cup {Assembled(k, b, Checksummed(b.body))}
               ELSE buffers' = Put(left, k, b) /\ emitted' = out
       ELSE buffers' = left /\ emitted' = out

Unrelated(f, left, out) ==
    /\ Script[f[1]].class = "other"
    /\ buffers' = left /\ emitted' = out /\ starts' = starts

(* History: a message is undisturbed while its frames arrive in one bucket *)
(* and no other frame does.                                                *)
Fed(m) == sent[m] - Cardinality({f \in air : f[1] = m})
Disturbed(m, f, bucket) ==
    m # f[1] /\ Fed(m) \in 1..(Script[m].len - 1) /\ lane[m] = bucket
LaneAfter(f, bucket) == [m \in Msgs |->
    IF m = f[1] /\ (f[2] = 1 \/ lane[m] = bucket) THEN bucket
    ELSE IF m = f[1] \/ Disturbed(m, f, bucket) THEN NoLane
    ELSE lane[m]]

Feed(f) == \E gone \in SUBSET Due, d \in Drift :
    LET hz == Script[f[1]].hz + d
        left == Without(buffers, gone)
        out == emitted \cup Texts(gone)
    IN /\ Overdue \subseteq gone
       /\ air' = air \ {f}
       /\ \/ OnBufferedStarter(f, Key(f[1], hz), left, out)
          \/ OnNonBufferedStarter(f, Key(f[1], hz), left, out)
          \/ OnContinuation(f, Bucket(hz), left, out)
          \/ Unrelated(f, left, out)
       /\ lane' = LaneAfter(f, Bucket(hz))
       /\ UNCHANGED <<sent, tick, swept>>

FeedAny == \E f \in air : Feed(f)

Next == Tick \/ Sweep \/ FeedAny

Spec == Init /\ [][Next]_vars
(* The sweep task runs every five seconds, time passes, and the decode     *)
(* handler takes what the decoder delivers.                                *)
FairSpec == Spec /\ WF_vars(Tick) /\ WF_vars(Sweep) /\ WF_vars(FeedAny)

(***************************************************************************)
(* Properties.                                                             *)
(***************************************************************************)
FramesOf(body) == Range(body)

(* No text is received twice: a frame is in one buffer or in one emitted   *)
(* message, once.  A buffer that is emitted and kept (a missing pop in     *)
(* reassembly.py) would show the operator a message, or store a mail,      *)
(* again.                                                                  *)
NoFrameTwice ==
    /\ \A e \in emitted : IsInjective(e.body)
    /\ \A e, g \in emitted :
          e # g => FramesOf(e.body) \cap FramesOf(g.body) = {}
    /\ \A k \in DOMAIN buffers :
          /\ IsInjective(buffers[k].body)
          /\ \A e \in emitted : FramesOf(e.body) \cap FramesOf(buffers[k].body) = {}
          /\ \A j \in DOMAIN buffers : j # k =>
                FramesOf(buffers[j].body) \cap FramesOf(buffers[k].body) = {}

(* A checksummed message whose frames were all decoded in one bucket, with *)
(* no other frame between them there, is emitted as verified, from its     *)
(* sender, whatever else the buffers went through: timeouts, messages at   *)
(* other offsets, a half-received message at the same key before it.       *)
HeardWholeIsDelivered ==
    \A m \in Msgs :
        (Script[m].class = "mail" /\ Fed(m) = Script[m].len /\ lane[m] # NoLane)
        => \E e \in emitted : /\ e.head = m /\ e.body = Body(m)
                              /\ e.valid /\ e.buffered

(* "we never ACK an incomplete or checksum-failed message"                 *)
(* (AssembledMessage, reassembly.py:192): a buffered command emitted as    *)
(* verified has a right checksum, or needs none.                           *)
UnverifiedIsMarked ==
    \A e \in emitted : (e.valid /\ e.buffered) =>
        Checksummed(e.body) \/ Script[e.head].class \in {"ask", "get"}

(* Every buffer ends: nothing half-received stays invisible when the       *)
(* channel goes quiet (_reassembly_sweep_loop, app.py:918).                *)
EveryBufferEnds == (buffers # << >>) ~> (buffers = << >>)
===============================================================================
