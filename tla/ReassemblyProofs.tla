--------------------------- MODULE ReassemblyProofs ---------------------------
(***************************************************************************)
(* Proofs about the reassembly of messages, for every script of the band   *)
(* and every decoder: no text is received twice, and what was heard whole  *)
(* and undisturbed is delivered.                                           *)
(***************************************************************************)
EXTENDS Reassembly, SequenceLemmas, FiniteSetTheorems

-------------------------------------------------------------------------------
(* Lemmas about the data.                                                  *)

(* The tick of a slot counts up and wraps.                                 *)
LEMMA TickWraps ==
    ASSUME NEW t \in Nat, t < SlotTicks
    PROVE  (t + 1) % SlotTicks = IF t + 1 = SlotTicks THEN 0 ELSE t + 1
BY ReassemblyAssumption

(* Appending a new element keeps a sequence free of repetitions.           *)
LEMMA AppendOnce ==
    ASSUME NEW S, NEW s \in Seq(S), NEW x \in S
    PROVE  /\ Append(s, x) \in Seq(S)
           /\ Range(Append(s, x)) = Range(s) \cup {x}
           /\ IsInjective(s) /\ x \notin Range(s) => IsInjective(Append(s, x))
<1>1. /\ Append(s, x) \in Seq(S) /\ Len(Append(s, x)) = Len(s) + 1
      /\ \A i \in 1..Len(s) : Append(s, x)[i] = s[i]
      /\ Append(s, x)[Len(s) + 1] = x
      /\ Len(s) \in Nat /\ DOMAIN s = 1..Len(s)
      /\ DOMAIN Append(s, x) = 1..(Len(s) + 1)
  BY AppendProperties, LenProperties
<1>2. 1..(Len(s) + 1) = 1..Len(s) \cup {Len(s) + 1}
  BY <1>1
<1>3. Range(Append(s, x)) = Range(s) \cup {x}
  BY <1>1, <1>2 DEF Range
<1>4. IsInjective(s) /\ x \notin Range(s) => IsInjective(Append(s, x))
  BY <1>1, <1>2 DEF Range, IsInjective
<1> QED BY <1>1, <1>3, <1>4

-------------------------------------------------------------------------------
(* The types of the variables.                                             *)
Buffer == [buffered : BOOLEAN, head : Msgs, body : Seq(Tokens),
           born : Nat, age : Nat]

BandOK ==
    /\ sent \in [Msgs -> Nat] /\ \A m \in Msgs : sent[m] <= Script[m].len
    /\ air \subseteq Tokens /\ \A f \in air : f[2] = sent[f[1]]
    /\ tick \in Nat /\ tick < SlotTicks /\ (air # {} => tick = 0)
    /\ lane \in [Msgs -> Int]

(* A set of buffers at clock n: each was started at a time of its own.      *)
Shelf(bs, n) ==
    /\ DOMAIN bs \subseteq Keys
    /\ \A k \in DOMAIN bs : bs[k] \in Buffer /\ bs[k].born <= n
    /\ \A j, k \in DOMAIN bs : j # k => bs[j].born # bs[k].born

TypeOK == BandOK /\ starts \in Nat /\ Shelf(buffers, starts)

(* No text is in two places of bs and em, and every one is from S.          *)
Apart(a, b) == FramesOf(a.body) \cap FramesOf(b.body) = {}
Whole(a, S) == IsInjective(a.body) /\ FramesOf(a.body) \subseteq S
Once(bs, em, S) ==
    /\ \A e \in em : Whole(e, S)
    /\ \A k \in DOMAIN bs : Whole(bs[k], S)
    /\ \A e, g \in em : e # g => Apart(e, g)
    /\ \A k \in DOMAIN bs, e \in em : Apart(e, bs[k])
    /\ \A j, k \in DOMAIN bs : j # k => Apart(bs[j], bs[k])

(* The texts that were fed: those of the present slot wait in air.          *)
Received == {f \in Tokens : f[2] <= sent[f[1]]} \ air
OnceEach == Once(buffers, emitted, Received)

(* The first n frames of a message, after its verb.                        *)
Prefix(m, n) == [j \in 1..(n - FirstIndex(m) + 1) |-> <<m, FirstIndex(m) + j - 1>>]

(* A mail that is being received undisturbed is in the buffer of its lane   *)
(* that was started last, too young for any timeout.                       *)
UnderWay(m) ==
    Script[m].class = "mail" /\ Fed(m) \in 1..(Script[m].len - 1) /\ lane[m] # NoLane
Latest(bs, k, m, n) ==
    /\ k \in DOMAIN bs
    /\ bs[k].head = m /\ bs[k].buffered /\ bs[k].body = Prefix(m, n)
    /\ \A j \in DOMAIN bs : j[3] = k[3] => bs[j].born <= bs[k].born
Holding(m, k) ==
    /\ Latest(buffers, k, m, Fed(m))
    /\ buffers[k].age = IF <<m, sent[m]>> \in air THEN SlotTicks ELSE tick
LaneKey(m) == <<Script[m].from, Script[m].to, lane[m]>>

-------------------------------------------------------------------------------
(* Lemmas about the operations on a set of buffers.                        *)

(* Removing buffers keeps the types and the start times of the others.      *)
LEMMA ShelfWithout ==
    ASSUME NEW bs, NEW n, Shelf(bs, n), NEW ks
    PROVE  Shelf(Without(bs, ks), n)
<1> DEFINE left == Without(bs, ks)
<1>1. DOMAIN left = DOMAIN bs \ ks /\ \A k \in DOMAIN left : left[k] = bs[k]
  BY DEF Without, Restrict
<1> HIDE DEF left
<1>2. Shelf(left, n)
  BY <1>1 DEF Shelf
<1> QED BY <1>2 DEF left

(* A new buffer takes the next start time.                                 *)
LEMMA ShelfStarted ==
    ASSUME NEW bs, NEW n \in Nat, Shelf(bs, n),
           NEW k \in Keys, NEW b \in Buffer, b.born = n + 1
    PROVE  Shelf(Put(bs, k, b), n + 1)
<1> DEFINE more == Put(bs, k, b)
<1>1. /\ DOMAIN more = DOMAIN bs \cup {k} /\ more[k] = b
      /\ \A j \in DOMAIN bs \ {k} : more[j] = bs[j]
  BY DEF Put
<1> HIDE DEF more
<1>2. \A j \in DOMAIN bs : bs[j].born # n + 1 /\ bs[j].born <= n + 1
  BY DEF Shelf, Buffer
<1>3. Shelf(more, n + 1)
  BY <1>1, <1>2 DEF Shelf
<1> QED BY <1>3 DEF more

(* A buffer that grows keeps its start time.                               *)
LEMMA ShelfGrown ==
    ASSUME NEW bs, NEW n, Shelf(bs, n), NEW k \in DOMAIN bs,
           NEW b \in Buffer, b.born = bs[k].born
    PROVE  Shelf(Put(bs, k, b), n)
<1> DEFINE more == Put(bs, k, b)
<1>1. /\ DOMAIN more = DOMAIN bs /\ more[k] = b
      /\ \A j \in DOMAIN bs \ {k} : more[j] = bs[j]
  BY DEF Put
<1> HIDE DEF more
<1>2. Shelf(more, n)
  BY <1>1 DEF Shelf
<1> QED BY <1>2 DEF more

(* Dropping buffers loses texts but repeats none.                          *)
LEMMA OnceDropped ==
    ASSUME NEW bs, NEW em, NEW S, Once(bs, em, S), NEW ks
    PROVE  Once(Without(bs, ks), em, S)
<1> DEFINE left == Without(bs, ks)
<1>1. DOMAIN left = DOMAIN bs \ ks /\ \A k \in DOMAIN left : left[k] = bs[k]
  BY DEF Without, Restrict
<1> HIDE DEF left
<1>2. Once(left, em, S)
  BY <1>1 DEF Once
<1> QED BY <1>2 DEF left

(* A buffer that is emitted and removed moves its texts.                   *)
LEMMA OnceMoved ==
    ASSUME NEW bs, NEW em, NEW S, Once(bs, em, S),
           NEW ks, ks \subseteq DOMAIN bs, NEW new,
           \A e \in new : \E k \in ks :
              /\ e.body = bs[k].body
              /\ \A g \in new : g # e => \E j \in ks \ {k} : g.body = bs[j].body
    PROVE  Once(Without(bs, ks), em \cup new, S)
<1> DEFINE left == Without(bs, ks)
<1>1. DOMAIN left = DOMAIN bs \ ks /\ \A k \in DOMAIN left : left[k] = bs[k]
  BY DEF Without, Restrict
<1> HIDE DEF left
<1>2. \A e \in new : Whole(e, S) /\ \A g \in em : Apart(e, g) /\ Apart(g, e)
  BY DEF Once, Whole, Apart
<1>3. \A e, g \in new : e # g => Apart(e, g)
  BY DEF Once, Apart
<1>4. \A k \in DOMAIN left, e \in new : Apart(e, left[k])
  BY <1>1 DEF Once, Apart
<1>5. Once(left, em \cup new, S)
  BY <1>1, <1>2, <1>3, <1>4 DEF Once
<1> QED BY <1>5 DEF left

(* A new text goes to a new buffer, or is emitted at once.                  *)
LEMMA OnceStarted ==
    ASSUME NEW bs, NEW em, NEW S, Once(bs, em, S), NEW f, f \notin S,
           NEW b, IsInjective(b.body), FramesOf(b.body) \subseteq {f}
    PROVE  /\ \A k : Once(Put(bs, k, b), em, S \cup {f})
           /\ Once(bs, em \cup {b}, S \cup {f})
<1>1. \A a : Whole(a, S) => Apart(a, b) /\ Apart(b, a) /\ Whole(a, S \cup {f})
  BY DEF Whole, Apart
<1>2. Whole(b, S \cup {f})
  BY DEF Whole
<1>3. ASSUME NEW k PROVE Once(Put(bs, k, b), em, S \cup {f})
  <2> DEFINE more == Put(bs, k, b)
  <2>1. /\ DOMAIN more = DOMAIN bs \cup {k} /\ more[k] = b
        /\ \A j \in DOMAIN bs \ {k} : more[j] = bs[j]
    BY DEF Put
  <2> HIDE DEF more
  <2>2. Once(more, em, S \cup {f})
    BY <1>1, <1>2, <2>1 DEF Once
  <2> QED BY <2>2 DEF more
<1>4. Once(bs, em \cup {b}, S \cup {f})
  BY <1>1, <1>2 DEF Once
<1> QED BY <1>3, <1>4

(* A new text is appended to a buffer, which stays or is emitted.          *)
LEMMA OnceGrown ==
    ASSUME NEW bs, NEW em, NEW S, Once(bs, em, S), NEW f, f \notin S,
           NEW k \in DOMAIN bs, NEW b, IsInjective(b.body),
           FramesOf(b.body) = FramesOf(bs[k].body) \cup {f}
    PROVE  /\ Once(Put(bs, k, b), em, S \cup {f})
           /\ Once(Without(bs, {k}), em \cup {b}, S \cup {f})
<1>1. \A a : Whole(a, S) /\ Apart(a, bs[k]) => Apart(a, b) /\ Apart(b, a)
  BY DEF Whole, Apart
<1>2. Whole(b, S \cup {f}) /\ \A a : Whole(a, S) => Whole(a, S \cup {f})
  BY DEF Once, Whole
<1>3. /\ \A j \in DOMAIN bs \ {k} : Apart(bs[j], b) /\ Apart(b, bs[j])
      /\ \A e \in em : Apart(e, b) /\ Apart(b, e)
  BY <1>1 DEF Once
<1> DEFINE more == Put(bs, k, b)
           left == Without(bs, {k})
<1>4. /\ DOMAIN more = DOMAIN bs /\ more[k] = b
      /\ \A j \in DOMAIN bs \ {k} : more[j] = bs[j]
  BY DEF Put
<1>5. DOMAIN left = DOMAIN bs \ {k} /\ \A j \in DOMAIN left : left[j] = bs[j]
  BY DEF Without, Restrict
<1> HIDE DEF more, left
<1>6. Once(more, em, S \cup {f})
  BY <1>2, <1>3, <1>4 DEF Once
<1>7. Once(left, em \cup {b}, S \cup {f})
  BY <1>2, <1>3, <1>5 DEF Once
<1> QED BY <1>6, <1>7 DEF more, left

-------------------------------------------------------------------------------
(* Type correctness.                                                       *)

(* A token is a pair of a message and an index of one of its frames.       *)
LEMMA TokenIs ==
    /\ \A m \in Msgs : \A n \in 1..Script[m].len : <<m, n>> \in Tokens
    /\ \A f \in Tokens : /\ f = <<f[1], f[2]>> /\ f[1] \in Msgs
                         /\ f[2] \in 1..Script[f[1]].len
    /\ \A m \in Msgs : Script[m].len \in Nat /\ Script[m].len >= 1
BY ReassemblyAssumption DEF Tokens

(* A slot sends the next frame of each of its senders.                     *)
LEMMA SlotSends ==
    ASSUME BandOK, NewSlot
    PROVE  /\ sent' \in [Msgs -> Nat] /\ lane' \in [Msgs -> Int]
           /\ air' \subseteq Tokens
           /\ \A f \in air' : f[2] = sent'[f[1]] /\ sent'[f[1]] = sent[f[1]] + 1
           /\ \A m \in Msgs :
                 /\ sent'[m] <= Script[m].len
                 /\ sent'[m] = sent[m] \/ sent'[m] = sent[m] + 1
                 /\ sent'[m] # sent[m] /\ <<m, sent'[m]>> \notin air' => lane'[m] = NoLane
                 /\ lane'[m] = lane[m] \/ lane'[m] = NoLane
                 /\ sent[m] \in 1..(Script[m].len - 1) => sent'[m] # sent[m]
<1>1. PICK first \in SUBSET {m \in Msgs : sent[m] = 0} :
        /\ sent' = [m \in Msgs |->
                      IF m \in OnTheAir \cup first THEN sent[m] + 1 ELSE sent[m]]
        /\ \E heard \in SUBSET {<<m, sent[m] + 1>> : m \in OnTheAir \cup first} :
              /\ air' = heard
              /\ lane' = [m \in Msgs |->
                   IF m \in OnTheAir \cup first /\ <<m, sent[m] + 1>> \notin heard
                   THEN NoLane ELSE lane[m]]
  BY DEF NewSlot
<1>2. PICK senders \in SUBSET Msgs :
        /\ OnTheAir \subseteq senders
        /\ senders \subseteq OnTheAir \cup {m \in Msgs : sent[m] = 0}
        /\ sent' = [m \in Msgs |-> IF m \in senders THEN sent[m] + 1 ELSE sent[m]]
        /\ air' \subseteq {<<m, sent[m] + 1>> : m \in senders}
        /\ lane' = [m \in Msgs |-> IF m \in senders /\ <<m, sent[m] + 1>> \notin air'
                                   THEN NoLane ELSE lane[m]]
  <2> DEFINE senders == OnTheAir \cup first
  <2>1. senders \in SUBSET Msgs
    BY DEF OnTheAir
  <2> QED BY <1>1, <2>1
<1>3. \A m \in senders : sent[m] + 1 <= Script[m].len
  BY <1>2, TokenIs DEF OnTheAir, BandOK
<1>4. sent' \in [Msgs -> Nat] /\ lane' \in [Msgs -> Int]
  BY <1>2 DEF BandOK, NoLane
<1>5. \A f \in air' : \E m \in senders : f = <<m, sent[m] + 1>>
  BY <1>2
<1>6. air' \subseteq Tokens
  BY <1>3, <1>5, TokenIs DEF BandOK
<1>7. \A f \in air' : f[2] = sent'[f[1]] /\ sent'[f[1]] = sent[f[1]] + 1
  BY <1>2, <1>5
<1>8. \A m \in Msgs : sent'[m] <= Script[m].len
  BY <1>2, <1>3 DEF BandOK
<1>9. \A m \in Msgs :
         /\ sent'[m] = sent[m] \/ sent'[m] = sent[m] + 1
         /\ sent'[m] # sent[m] /\ <<m, sent'[m]>> \notin air' => lane'[m] = NoLane
         /\ lane'[m] = lane[m] \/ lane'[m] = NoLane
  BY <1>2
<1>10. \A m \in Msgs : sent[m] \in 1..(Script[m].len - 1) => sent'[m] # sent[m]
  BY <1>2 DEF OnTheAir, BandOK
<1> QED BY <1>4, <1>6, <1>7, <1>8, <1>9, <1>10

(* The band keeps its types.                                               *)
LEMMA BandStep ==
    ASSUME BandOK, [Next]_vars
    PROVE  BandOK'
<1>1. CASE Tick
  <2>1. tick' \in Nat /\ tick' < SlotTicks
    BY <1>1, TickWraps, ReassemblyAssumption DEF Tick, BandOK
  <2>2. CASE tick' = 0
    <3>1. NewSlot
      BY <1>1, <2>2 DEF Tick
    <3> QED BY <2>1, <2>2, <3>1, SlotSends DEF BandOK
  <2>3. CASE tick' # 0
    BY <1>1, <2>1, <2>3 DEF Tick, BandOK
  <2> QED BY <2>2, <2>3
<1>2. CASE Sweep
  BY <1>2 DEF Sweep, airVars, BandOK
<1>3. ASSUME NEW f \in air, Feed(f) PROVE BandOK'
  <2>1. PICK d \in Drift : lane' = LaneAfter(f, Bucket(Script[f[1]].hz + d))
    BY <1>3 DEF Feed
  <2>2. Bucket(Script[f[1]].hz + d) \in Int
    <3>1. Script[f[1]].hz + d \in Nat
      BY TokenIs, ReassemblyAssumption DEF BandOK
    <3> QED BY <3>1 DEF Bucket
  <2>3. lane' \in [Msgs -> Int]
    BY <2>1, <2>2 DEF LaneAfter, BandOK, NoLane
  <2>4. air' = air \ {f} /\ UNCHANGED <<sent, tick>>
    BY <1>3 DEF Feed
  <2> QED BY <2>3, <2>4 DEF BandOK
<1>4. CASE UNCHANGED vars
  BY <1>4 DEF vars, airVars, BandOK
<1> QED BY <1>1, <1>2, <1>3, <1>4 DEF Next, FeedAny

(* A continuation finds the candidate that was started last.               *)
LEMMA TargetIs ==
    ASSUME NEW bs, NEW n \in Nat, Shelf(bs, n), NEW bucket,
           Candidates(bs, bucket) # {}
    PROVE  /\ Target(bs, bucket) \in Candidates(bs, bucket)
           /\ \A j \in Candidates(bs, bucket) :
                 bs[j].born <= bs[Target(bs, bucket)].born
<1> DEFINE C == Candidates(bs, bucket)
           T == {bs[k].born : k \in C}
<1>1. C \subseteq DOMAIN bs /\ \A k \in C : bs[k].born \in Nat /\ bs[k].born <= n
  BY DEF Shelf, Candidates, Buffer
<1> HIDE DEF C
<1>2. PICK x \in T : \A y \in T : y <= x
  <2>1. T # {} /\ \A y \in T : y \in Nat /\ y <= n
    BY <1>1 DEF C
  <2> HIDE DEF T
  <2> QED BY <2>1, GreatestExists
<1>3. \E k \in C : \A j \in C : bs[j].born <= bs[k].born
  BY <1>2
<1> QED BY <1>3 DEF Target, C

(* A starter puts at most its own text in a new buffer.                    *)
LEMMA StartedIs ==
    ASSUME NEW m \in Msgs, NEW buffered \in BOOLEAN, starts \in Nat
    PROVE  /\ Started(m, buffered) \in Buffer
           /\ Started(m, buffered).born = starts + 1
           /\ Started(m, buffered).buffered = buffered
           /\ Started(m, buffered).head = m /\ Started(m, buffered).age = 0
           /\ Started(m, buffered).body =
                 IF Script[m].bare THEN << >> ELSE << <<m, 1>> >>
           /\ IsInjective(Started(m, buffered).body)
           /\ FramesOf(Started(m, buffered).body) \subseteq {<<m, 1>>}
<1> DEFINE body == IF Script[m].bare THEN << >> ELSE << <<m, 1>> >>
<1>1. <<m, 1>> \in Tokens
  BY TokenIs
<1>2. body \in Seq(Tokens)
  BY <1>1
<1>3. IsInjective(body) /\ FramesOf(body) \subseteq {<<m, 1>>}
  BY DEF IsInjective, FramesOf, Range
<1> HIDE DEF body
<1>4. Started(m, buffered) = [buffered |-> buffered, head |-> m, body |-> body,
                              born |-> starts + 1, age |-> 0]
  BY DEF Started, body
<1>5. Started(m, buffered).body = body
  BY <1>4
<1> QED BY <1>2, <1>3, <1>4, <1>5 DEF Buffer, body

(* What a continuation makes of the buffer it goes to.                     *)
Grown(b, f) == [b EXCEPT !.body = Append(@, f), !.age = 0]
(* It stays a buffer of the same message, longer by that text and young    *)
(* again.                                                                  *)
LEMMA GrownIs ==
    ASSUME NEW b \in Buffer, NEW f \in Tokens
    PROVE  /\ Grown(b, f) \in Buffer
           /\ Grown(b, f).body = Append(b.body, f) /\ Grown(b, f).age = 0
           /\ Grown(b, f).born = b.born /\ Grown(b, f).head = b.head
           /\ Grown(b, f).buffered = b.buffered
           /\ FramesOf(Grown(b, f).body) = FramesOf(b.body) \cup {f}
           /\ IsInjective(b.body) /\ f \notin FramesOf(b.body) =>
                 IsInjective(Grown(b, f).body)
<1>1. /\ b.body \in Seq(Tokens) /\ b.buffered \in BOOLEAN /\ b.head \in Msgs
      /\ b.born \in Nat /\ b.age \in Nat
      /\ b = [buffered |-> b.buffered, head |-> b.head, body |-> b.body,
              born |-> b.born, age |-> b.age]
  BY DEF Buffer
<1> DEFINE more == Append(b.body, f)
<1>2. /\ more \in Seq(Tokens)
      /\ FramesOf(more) = FramesOf(b.body) \cup {f}
      /\ IsInjective(b.body) /\ f \notin FramesOf(b.body) => IsInjective(more)
  BY <1>1, AppendOnce DEF FramesOf
<1>3. Grown(b, f) = [buffered |-> b.buffered, head |-> b.head, body |-> more,
                     born |-> b.born, age |-> 0]
  <2>1. [b EXCEPT !.body = more] = [buffered |-> b.buffered, head |-> b.head,
                                    body |-> more, born |-> b.born, age |-> b.age]
    <3> HIDE DEF more
    <3> QED BY <1>1
  <2>2. Grown(b, f) = [[b EXCEPT !.body = more] EXCEPT !.age = 0]
    <3>1. Grown(b, f) = [b EXCEPT !.body = more, !.age = 0]
      BY DEF Grown
    <3> HIDE DEF more
    <3> QED BY <3>1
  <2> HIDE DEF more
  <2> QED BY <2>1, <2>2
<1> HIDE DEF more
<1>4. Grown(b, f).body = more
  BY <1>3
<1> QED BY <1>1, <1>2, <1>3, <1>4 DEF Buffer, more

(* The buffers keep their types, in every operation of the assembler.      *)
LEMMA ShelfStep ==
    ASSUME TypeOK, [Next]_vars
    PROVE  starts' \in Nat /\ Shelf(buffers', starts')
<1>1. starts \in Nat /\ Shelf(buffers, starts)
  BY DEF TypeOK
<1>2. CASE Tick
  <2> DEFINE Older(b) == [b EXCEPT !.age = IF @ > FrameTimeout THEN @ ELSE @ + 1]
  <2>1. \A b \in Buffer : Older(b) \in Buffer /\ Older(b).born = b.born
    BY DEF Buffer
  <2>2. /\ DOMAIN buffers' = DOMAIN buffers /\ starts' = starts
        /\ \A k \in DOMAIN buffers : buffers'[k] = Older(buffers[k])
    BY <1>2 DEF Tick
  <2> HIDE DEF Older
  <2> QED BY <1>1, <2>1, <2>2 DEF Shelf
<1>3. CASE Sweep
  BY <1>1, <1>3, ShelfWithout DEF Sweep
<1>4. ASSUME NEW f \in air, Feed(f)
      PROVE  starts' \in Nat /\ Shelf(buffers', starts')
  <2>1. PICK gone \in SUBSET Due, d \in Drift :
          LET hz == Script[f[1]].hz + d
              left == Without(buffers, gone)
              out == emitted \cup Texts(gone)
          IN \/ OnBufferedStarter(f, Key(f[1], hz), left, out)
             \/ OnNonBufferedStarter(f, Key(f[1], hz), left, out)
             \/ OnContinuation(f, Bucket(hz), left, out)
             \/ Unrelated(f, left, out)
    BY <1>4 DEF Feed
  <2> DEFINE hz == Script[f[1]].hz + d
             left == Without(buffers, gone)
             out == emitted \cup Texts(gone)
             k == Key(f[1], hz)
  <2>2. Shelf(left, starts)
    BY <1>1, ShelfWithout
  <2>3. f \in Tokens /\ f[1] \in Msgs /\ k \in Keys
    BY TokenIs DEF TypeOK, BandOK, Keys
  <2> HIDE DEF left, out, k
  <2>4. ASSUME NEW kind \in BOOLEAN
        PROVE  Shelf(Put(left, k, Started(f[1], kind)), starts + 1)
    <3>1. /\ Started(f[1], kind) \in Buffer
          /\ Started(f[1], kind).born = starts + 1
      BY <1>1, <2>3, StartedIs
    <3> QED BY <1>1, <2>2, <2>3, <3>1, ShelfStarted
  <2>5. CASE OnBufferedStarter(f, k, left, out)
    <3>1. CASE AtOnce(f[1])
      BY <1>1, <2>2, <2>5, <3>1, ShelfWithout DEF OnBufferedStarter, Popped
    <3>2. CASE ~AtOnce(f[1])
      <4>1. buffers' = Put(left, k, Started(f[1], TRUE)) /\ starts' = starts + 1
        BY <2>5, <3>2 DEF OnBufferedStarter
      <4>2. Shelf(Put(left, k, Started(f[1], TRUE)), starts + 1)
        BY <2>4
      <4>3. Shelf(buffers', starts')
        BY <4>1, <4>2
      <4>4. starts' \in Nat
        BY <1>1, <4>1
      <4> QED BY <4>3, <4>4
    <3> QED BY <3>1, <3>2
  <2>6. CASE OnNonBufferedStarter(f, k, left, out)
    <3>1. buffers' = Put(left, k, Started(f[1], FALSE)) /\ starts' = starts + 1
      BY <2>6 DEF OnNonBufferedStarter
    <3>2. Shelf(Put(left, k, Started(f[1], FALSE)), starts + 1)
      BY <2>4
    <3>3. Shelf(buffers', starts')
      BY <3>1, <3>2
    <3>4. starts' \in Nat
      BY <1>1, <3>1
    <3> QED BY <3>3, <3>4
  <2>7. CASE OnContinuation(f, Bucket(hz), left, out)
    <3>1. CASE Candidates(left, Bucket(hz)) = {}
      BY <1>1, <2>2, <2>7, <3>1 DEF OnContinuation
    <3>2. CASE Candidates(left, Bucket(hz)) # {}
      <4> DEFINE t == Target(left, Bucket(hz))
                 b == Grown(left[t], f)
      <4>1. /\ starts' = starts
            /\ buffers' = Popped(left, t) \/ buffers' = Put(left, t, b)
        BY <2>7, <3>2 DEF OnContinuation, Grown
      <4>2. t \in DOMAIN left /\ left[t] \in Buffer
        BY <1>1, <2>2, <3>2, TargetIs DEF Candidates, Shelf
      <4>3. b \in Buffer /\ b.born = left[t].born
        BY <2>3, <4>2, GrownIs
      <4> HIDE DEF t, b
      <4> QED BY <1>1, <2>2, <4>1, <4>2, <4>3, ShelfWithout, ShelfGrown DEF Popped
    <3> QED BY <3>1, <3>2
  <2>8. CASE Unrelated(f, left, out)
    BY <1>1, <2>2, <2>8 DEF Unrelated
  <2> QED BY <2>1, <2>5, <2>6, <2>7, <2>8 DEF k, left, out
<1>5. CASE UNCHANGED vars
  BY <1>1, <1>5 DEF vars
<1> QED BY <1>2, <1>3, <1>4, <1>5 DEF Next, FeedAny

(* The types hold at first.                                                *)
LEMMA TypeInit ==
    ASSUME Init
    PROVE  TypeOK
<1>1. BandOK
  BY ReassemblyAssumption DEF Init, BandOK, NoLane
<1>2. starts \in Nat /\ Shelf(buffers, starts)
  BY DEF Init, Shelf
<1> QED BY <1>1, <1>2 DEF TypeOK

(* The types are invariant.                                                *)
LEMMA TypeStep ==
    ASSUME TypeOK, [Next]_vars
    PROVE  TypeOK'
<1>1. BandOK'
  BY BandStep DEF TypeOK
<1>2. starts' \in Nat /\ Shelf(buffers, starts)'
  BY ShelfStep DEF Shelf
<1> QED BY <1>1, <1>2 DEF TypeOK

(* Every variable of the assembler has its type: buffers are kept under     *)
(* keys of the band, and no two were started at the same time, so that the  *)
(* one a continuation goes to is always determined.                        *)
THEOREM TypeCorrect == Spec => []TypeOK
<1>1. Init => TypeOK
  BY TypeInit
<1>2. TypeOK /\ [Next]_vars => TypeOK'
  BY TypeStep
<1> QED BY <1>1, <1>2, PTL DEF Spec

-------------------------------------------------------------------------------
(* No text is received twice.                                              *)

(* More texts may have been received.                                      *)
LEMMA OnceMore ==
    ASSUME NEW bs, NEW em, NEW S, Once(bs, em, S), NEW T, S \subseteq T
    PROVE  Once(bs, em, T)
BY DEF Once, Whole

(* What is emitted has the text of its buffer.                             *)
LEMMA AssembledIs ==
    ASSUME NEW k, NEW b, NEW valid
    PROVE  /\ Assembled(k, b, valid).body = b.body
           /\ Assembled(k, b, valid).head = b.head
           /\ Assembled(k, b, valid).valid = valid
           /\ Assembled(k, b, valid).buffered = b.buffered
BY DEF Assembled

(* Timeouts move the texts of buffers to what is emitted, or lose them.    *)
LEMMA OnceEvicted ==
    ASSUME NEW S, Once(buffers, emitted, S), NEW gone \in SUBSET Due,
           NEW new \in SUBSET (Texts(gone) \cup Partials(gone))
    PROVE  Once(Without(buffers, gone), emitted \cup new, S)
<1> DEFINE Of(k) == Assembled(k, buffers[k], ~buffers[k].buffered)
<1>1. \A e \in new : \E k \in gone : e = Of(k)
  BY DEF Texts, Partials
<1>2. \A k : Of(k).body = buffers[k].body
  BY AssembledIs
<1> HIDE DEF Of
<1>3. \A e \in new : \E k \in gone :
        /\ e.body = buffers[k].body
        /\ \A g \in new : g # e => \E j \in gone \ {k} : g.body = buffers[j].body
  BY <1>1, <1>2
<1>4. gone \subseteq DOMAIN buffers
  BY DEF Due
<1> QED BY <1>3, <1>4, OnceMoved

(* A slot takes nothing back: what was fed before it stays received.       *)
LEMMA ReceivedTick ==
    ASSUME BandOK, Tick
    PROVE  Received \subseteq Received'
<1>1. CASE tick' = 0
  <2>1. NewSlot
    BY <1>1 DEF Tick
  <2>2. /\ \A m \in Msgs : sent'[m] \in Nat /\ sent[m] \in Nat
                           /\ (sent'[m] = sent[m] \/ sent'[m] = sent[m] + 1)
        /\ \A f \in air' : f[2] = sent[f[1]] + 1 /\ f \in Tokens
    BY <2>1, SlotSends DEF BandOK
  <2>3. \A f \in Tokens : f[1] \in Msgs /\ f[2] \in Nat
    BY TokenIs
  <2> QED BY <2>2, <2>3 DEF Received
<1>2. CASE tick' # 0
  BY <1>2 DEF Tick, Received
<1> QED BY <1>1, <1>2

(* A frame that is fed is received now and was not before.                 *)
LEMMA ReceivedFeed ==
    ASSUME BandOK, NEW f \in air, Feed(f)
    PROVE  Received' = Received \cup {f} /\ f \notin Received
<1>1. air' = air \ {f} /\ sent' = sent
  BY DEF Feed
<1>2. f \in Tokens /\ f[2] <= sent[f[1]]
  BY TokenIs DEF BandOK
<1> QED BY <1>1, <1>2 DEF Received

(* A new buffer replaces what its key held.                                *)
LEMMA PutReplaces ==
    ASSUME NEW bs, NEW k, NEW b
    PROVE  Put(Without(bs, {k}), k, b) = Put(bs, k, b)
<1> DEFINE left == Without(bs, {k})
<1>1. DOMAIN left = DOMAIN bs \ {k} /\ \A j \in DOMAIN left : left[j] = bs[j]
  BY DEF Without, Restrict
<1> HIDE DEF left
<1>2. DOMAIN left \cup {k} = DOMAIN bs \cup {k}
  BY <1>1
<1>3. Put(left, k, b) = Put(bs, k, b)
  BY <1>1, <1>2 DEF Put
<1> QED BY <1>3 DEF left

(* The handlers of feed, on the buffers that remain and what was emitted.  *)
LEMMA OnceBufferedStarter ==
    ASSUME starts \in Nat, NEW f \in Tokens, NEW k, NEW left, NEW out,
           NEW S, f \notin S, Once(left, out, S),
           OnBufferedStarter(f, k, left, out)
    PROVE  Once(buffers', emitted', S \cup {f})
<1> DEFINE b == Started(f[1], TRUE)
<1>1. f = <<f[1], 1>> /\ f[1] \in Msgs
  BY TokenIs DEF OnBufferedStarter, IsStarter
<1>2. IsInjective(b.body) /\ FramesOf(b.body) \subseteq {f}
  BY <1>1, StartedIs
<1> HIDE DEF b
<1>3. CASE AtOnce(f[1])
  <2> DEFINE e == Assembled(k, b, TRUE)
             less == Without(left, {k})
  <2>1. buffers' = less /\ emitted' = out \cup {e}
    BY <1>3 DEF OnBufferedStarter, Popped, b
  <2>2. IsInjective(e.body) /\ FramesOf(e.body) \subseteq {f}
    BY <1>2 DEF Assembled
  <2>3. Once(less, out, S)
    BY OnceDropped
  <2> HIDE DEF e, less
  <2>4. Once(less, out \cup {e}, S \cup {f})
    BY <2>2, <2>3, OnceStarted
  <2> QED BY <2>1, <2>4
<1>4. CASE ~AtOnce(f[1])
  <2>1. buffers' = Put(left, k, b) /\ emitted' = out
    BY <1>4 DEF OnBufferedStarter, b
  <2>2. Once(Put(left, k, b), out, S \cup {f})
    BY <1>2, OnceStarted
  <2> QED BY <2>1, <2>2
<1> QED BY <1>3, <1>4

(* So does a starter of a message that is shown at once: the buffer it     *)
(* finds in its lane is given out.                                         *)
LEMMA OnceNonBufferedStarter ==
    ASSUME starts \in Nat, NEW f \in Tokens, NEW k, NEW left, NEW out,
           NEW S, f \notin S, Once(left, out, S),
           OnNonBufferedStarter(f, k, left, out)
    PROVE  Once(buffers', emitted', S \cup {f})
<1> DEFINE b == Started(f[1], FALSE)
<1>1. f = <<f[1], 1>> /\ f[1] \in Msgs
  BY TokenIs DEF OnNonBufferedStarter, IsStarter
<1>2. IsInjective(b.body) /\ FramesOf(b.body) \subseteq {f}
  BY <1>1, StartedIs
<1>3. /\ buffers' = Put(left, k, b)
      /\ emitted' = out \cup {Assembled(k, left[j], TRUE) : j \in {k} \cap DOMAIN left}
  BY DEF OnNonBufferedStarter
<1> HIDE DEF b
<1>4. CASE k \in DOMAIN left
  <2> DEFINE e == Assembled(k, left[k], TRUE)
             less == Without(left, {k})
  <2>1. emitted' = out \cup {e}
    BY <1>3, <1>4
  <2>2. e.body = left[k].body
    BY DEF Assembled
  <2> HIDE DEF e
  <2>3. Once(less, out \cup {e}, S)
    BY <1>4, <2>2, OnceMoved
  <2>4. Put(less, k, b) = buffers'
    BY <1>3, PutReplaces
  <2> HIDE DEF less
  <2>5. Once(Put(less, k, b), out \cup {e}, S \cup {f})
    BY <1>2, <2>3, OnceStarted
  <2> QED BY <2>1, <2>4, <2>5
<1>5. CASE k \notin DOMAIN left
  <2>1. emitted' = out
    BY <1>3, <1>5
  <2>2. Once(Put(left, k, b), out, S \cup {f})
    BY <1>2, OnceStarted
  <2> QED BY <1>3, <2>1, <2>2
<1> QED BY <1>4, <1>5

(* A continuation is added to one buffer, which it may complete, or is     *)
(* dropped.                                                                *)
LEMMA OnceContinuation ==
    ASSUME NEW f \in Tokens, NEW bucket, NEW left, NEW out, NEW n \in Nat,
           Shelf(left, n), NEW S, f \notin S, Once(left, out, S),
           OnContinuation(f, bucket, left, out)
    PROVE  Once(buffers', emitted', S \cup {f})
<1>1. CASE Candidates(left, bucket) = {}
  <2>1. buffers' = left /\ emitted' = out
    BY <1>1 DEF OnContinuation
  <2>2. Once(left, out, S \cup {f})
    BY OnceMore
  <2> QED BY <2>1, <2>2
<1>2. CASE Candidates(left, bucket) # {}
  <2> DEFINE k == Target(left, bucket)
             b == Grown(left[k], f)
             e == Assembled(k, b, Checksummed(b.body))
  <2>1. \/ buffers' = Without(left, {k}) /\ emitted' = out \cup {e}
        \/ buffers' = Put(left, k, b) /\ emitted' = out
    BY <1>2 DEF OnContinuation, Grown, Popped
  <2>2. k \in DOMAIN left /\ left[k] \in Buffer
    BY <1>2, TargetIs DEF Candidates, Shelf
  <2>3. IsInjective(left[k].body) /\ f \notin FramesOf(left[k].body)
    BY <2>2 DEF Once, Whole
  <2>4. /\ FramesOf(b.body) = FramesOf(left[k].body) \cup {f}
        /\ IsInjective(b.body)
    BY <2>2, <2>3, GrownIs
  <2>5. e.body = b.body
    BY AssembledIs
  <2> HIDE DEF k, b, e
  <2>6. Once(Put(left, k, b), out, S \cup {f})
    BY <2>2, <2>4, OnceGrown
  <2>7. Once(Without(left, {k}), out \cup {e}, S \cup {f})
    BY <2>2, <2>4, <2>5, OnceGrown
  <2>8. CASE buffers' = Without(left, {k}) /\ emitted' = out \cup {e}
    BY <2>7, <2>8
  <2>9. CASE buffers' = Put(left, k, b) /\ emitted' = out
    BY <2>6, <2>9
  <2> QED BY <2>1, <2>8, <2>9
<1> QED BY <1>1, <1>2

(* Every step keeps each text in one place.                                *)
LEMMA OnceStep ==
    ASSUME TypeOK, OnceEach, [Next]_vars
    PROVE  OnceEach'
<1>1. CASE Tick
  <2> DEFINE Older(b) == [b EXCEPT !.age = IF @ > FrameTimeout THEN @ ELSE @ + 1]
  <2>1. \A b \in Buffer : Older(b).body = b.body
    BY DEF Buffer
  <2>2. /\ DOMAIN buffers' = DOMAIN buffers /\ emitted' = emitted
        /\ \A k \in DOMAIN buffers : buffers'[k] = Older(buffers[k])
    BY <1>1 DEF Tick
  <2> HIDE DEF Older
  <2>3. \A k \in DOMAIN buffers : buffers'[k].body = buffers[k].body
    BY <2>1, <2>2 DEF TypeOK, Shelf
  <2>4. Once(buffers', emitted', Received)
    BY <2>2, <2>3 DEF OnceEach, Once, Whole, Apart
  <2>5. Received \subseteq Received'
    BY <1>1, ReceivedTick DEF TypeOK
  <2>6. Once(buffers', emitted', Received')
    BY <2>4, <2>5, OnceMore
  <2> QED BY <2>6 DEF OnceEach, Once, Whole, Apart
<1>2. CASE Sweep
  <2>1. PICK gone \in SUBSET Due :
          /\ emitted' = emitted \cup Texts(gone) \cup Partials(gone)
          /\ buffers' = Without(buffers, gone)
    BY <1>2 DEF Sweep
  <2> DEFINE new == Texts(gone) \cup Partials(gone)
  <2>2. Once(Without(buffers, gone), emitted \cup new, Received)
    BY OnceEvicted DEF OnceEach
  <2>3. emitted' = emitted \cup new /\ Received' = Received
    BY <1>2, <2>1 DEF Sweep, airVars, Received
  <2> HIDE DEF new
  <2>4. Once(buffers', emitted', Received')
    BY <2>1, <2>2, <2>3
  <2> QED BY <2>4 DEF OnceEach, Once, Whole, Apart
<1>3. ASSUME NEW f \in air, Feed(f) PROVE OnceEach'
  <2>1. PICK gone \in SUBSET Due, d \in Drift :
          LET hz == Script[f[1]].hz + d
              left == Without(buffers, gone)
              out == emitted \cup Texts(gone)
          IN \/ OnBufferedStarter(f, Key(f[1], hz), left, out)
             \/ OnNonBufferedStarter(f, Key(f[1], hz), left, out)
             \/ OnContinuation(f, Bucket(hz), left, out)
             \/ Unrelated(f, left, out)
    BY <1>3 DEF Feed
  <2> DEFINE hz == Script[f[1]].hz + d
             left == Without(buffers, gone)
             out == emitted \cup Texts(gone)
             k == Key(f[1], hz)
             bucket == Bucket(hz)
  <2>2. Shelf(left, starts) /\ starts \in Nat
    BY ShelfWithout DEF TypeOK
  <2>3. Once(left, out, Received)
    BY OnceEvicted DEF OnceEach
  <2>4. f \in Tokens /\ Received' = Received \cup {f} /\ f \notin Received
    BY <1>3, ReceivedFeed DEF TypeOK, BandOK
  <2>5. \/ OnBufferedStarter(f, k, left, out)
        \/ OnNonBufferedStarter(f, k, left, out)
        \/ OnContinuation(f, bucket, left, out)
        \/ Unrelated(f, left, out)
    BY <2>1
  <2> DEFINE S == Received
  <2> HIDE DEF left, out, k, bucket, S
  <2>6. Once(left, out, S) /\ f \notin S
    BY <2>3, <2>4 DEF S
  <2> SUFFICES Once(buffers', emitted', S \cup {f})
    BY <2>4 DEF OnceEach, Once, Whole, Apart, S
  <2>7. CASE OnBufferedStarter(f, k, left, out)
    BY <2>2, <2>4, <2>6, <2>7, OnceBufferedStarter
  <2>8. CASE OnNonBufferedStarter(f, k, left, out)
    BY <2>2, <2>4, <2>6, <2>8, OnceNonBufferedStarter
  <2>9. CASE OnContinuation(f, bucket, left, out)
    BY <2>2, <2>4, <2>6, <2>9, OnceContinuation
  <2>10. CASE Unrelated(f, left, out)
    <3>1. buffers' = left /\ emitted' = out
      BY <2>10 DEF Unrelated
    <3>2. Once(left, out, S \cup {f})
      BY <2>6, OnceMore
    <3> QED BY <3>1, <3>2
  <2> QED BY <2>5, <2>7, <2>8, <2>9, <2>10
<1>4. CASE UNCHANGED vars
  BY <1>4 DEF vars, airVars, OnceEach, Once, Whole, Apart, Received
<1> QED BY <1>1, <1>2, <1>3, <1>4 DEF Next, FeedAny

(* No text is received twice: in every state each frame that was decoded    *)
(* is at one place of one buffer or one emitted message, or was dropped.   *)
THEOREM NoTextTwice == Spec => []NoFrameTwice
<1>1. Init => OnceEach
  BY DEF Init, OnceEach, Once
<1>2. TypeOK /\ OnceEach /\ [Next]_vars => OnceEach'
  BY OnceStep
<1>3. OnceEach => NoFrameTwice
  BY DEF OnceEach, Once, Whole, Apart, NoFrameTwice
<1> QED BY <1>1, <1>2, <1>3, TypeCorrect, PTL DEF Spec

-------------------------------------------------------------------------------
(* What is heard whole and undisturbed is delivered.                       *)

(* Of a message at most the frame of the present slot waits to be fed.     *)
LEMMA FedIs ==
    ASSUME BandOK, NEW m \in Msgs
    PROVE  Fed(m) = IF <<m, sent[m]>> \in air THEN sent[m] - 1 ELSE sent[m]
<1> DEFINE W == {f \in air : f[1] = m}
<1>1. \A f \in W : f = <<m, sent[m]>>
  BY TokenIs DEF BandOK
<1>2. CASE <<m, sent[m]>> \in air
  <2>1. W = {<<m, sent[m]>>}
    BY <1>1, <1>2
  <2>2. Cardinality(W) = 1
    BY <2>1, FS_Singleton
  <2> QED BY <1>2, <2>2 DEF Fed
<1>3. CASE <<m, sent[m]>> \notin air
  <2>1. W = {}
    BY <1>1, <1>3
  <2>2. Cardinality(W) = 0
    BY <2>1, FS_EmptySet
  <2> HIDE DEF W
  <2>3. sent[m] \in Nat
    BY DEF BandOK
  <2> QED BY <1>3, <2>2, <2>3 DEF Fed, W
<1> QED BY <1>2, <1>3

(* The same after a step.                                                  *)
LEMMA FedNext ==
    ASSUME BandOK', NEW m \in Msgs
    PROVE  Fed(m)' = IF <<m, sent'[m]>> \in air' THEN sent'[m] - 1 ELSE sent'[m]
<1> DEFINE W == {f \in air' : f[1] = m}
<1>1. \A f \in W : f = <<m, sent'[m]>>
  BY TokenIs DEF BandOK
<1>2. CASE <<m, sent'[m]>> \in air'
  <2>1. W = {<<m, sent'[m]>>}
    BY <1>1, <1>2
  <2>2. Cardinality(W) = 1
    BY <2>1, FS_Singleton
  <2> QED BY <1>2, <2>2 DEF Fed
<1>3. CASE <<m, sent'[m]>> \notin air'
  <2>1. W = {}
    BY <1>1, <1>3
  <2>2. Cardinality(W) = 0
    BY <2>1, FS_EmptySet
  <2> HIDE DEF W
  <2>3. sent'[m] \in Nat
    BY DEF BandOK
  <2> QED BY <1>3, <2>2, <2>3 DEF Fed, W
<1> QED BY <1>2, <1>3

(* Consecutive frames of a message.                                        *)
Run(m, c, l) == [j \in 1..l |-> <<m, c + j - 1>>]
(* A run is a text of its length.                                          *)
LEMMA RunIs ==
    ASSUME NEW m \in Msgs, NEW c \in Nat, c >= 1, NEW l \in Nat,
           c + l - 1 <= Script[m].len
    PROVE  /\ Run(m, c, l) \in Seq(Tokens) /\ Len(Run(m, c, l)) = l
           /\ \A j \in 1..l : Run(m, c, l)[j] = <<m, c + j - 1>>
<1> DEFINE s == Run(m, c, l)
<1>1. \A j \in 1..l : <<m, c + j - 1>> \in Tokens
  BY TokenIs
<1>2. s \in [1..l -> Tokens] /\ \A j \in 1..l : s[j] = <<m, c + j - 1>>
  BY <1>1 DEF Run
<1> HIDE DEF s
<1>3. s \in Seq(Tokens) /\ Len(s) = l
  BY <1>2, LenProperties
<1> QED BY <1>2, <1>3 DEF s

(* The next frame of the message makes a run longer by one.                *)
LEMMA RunGrows ==
    ASSUME NEW m \in Msgs, NEW c \in Nat, c >= 1, NEW l \in Nat,
           c + l <= Script[m].len
    PROVE  Append(Run(m, c, l), <<m, c + l>>) = Run(m, c, l + 1)
<1> DEFINE s == Run(m, c, l)
           t == Run(m, c, l + 1)
<1>1. Script[m].len \in Nat
  BY TokenIs
<1>2. /\ s \in Seq(Tokens) /\ Len(s) = l
      /\ \A j \in 1..l : s[j] = <<m, c + j - 1>>
  <2>1. c + l - 1 <= Script[m].len
    BY <1>1
  <2> QED BY <2>1, RunIs
<1>3. /\ t \in Seq(Tokens) /\ Len(t) = l + 1
      /\ \A j \in 1..(l + 1) : t[j] = <<m, c + j - 1>>
  <2>1. l + 1 \in Nat /\ c + (l + 1) - 1 <= Script[m].len
    BY <1>1
  <2> QED BY <2>1, RunIs
<1>4. <<m, c + l>> \in Tokens
  BY <1>1, TokenIs
<1> HIDE DEF s, t
<1> DEFINE u == Append(s, <<m, c + l>>)
<1>5. /\ u \in Seq(Tokens) /\ Len(u) = l + 1
      /\ \A j \in 1..l : u[j] = s[j]
      /\ u[l + 1] = <<m, c + l>>
  BY <1>2, <1>4, AppendProperties
<1> HIDE DEF u
<1>6. t[l + 1] = <<m, c + l>>
  <2>1. l + 1 \in 1..(l + 1) /\ c + (l + 1) - 1 = c + l
    OBVIOUS
  <2> QED BY <1>3, <2>1
<1>7. \A j \in 1..(l + 1) : u[j] = t[j]
  <2>1. \A j \in 1..(l + 1) : j \in 1..l \/ j = l + 1
    OBVIOUS
  <2> QED BY <1>2, <1>3, <1>5, <1>6, <2>1
<1>8. u = t
  BY <1>3, <1>5, <1>7, SeqEqual
<1> QED BY <1>8 DEF u, s, t

(* A prefix grows with the next frame, and only the whole of a mail has a   *)
(* right checksum.                                                         *)
LEMMA PrefixIs ==
    ASSUME NEW m \in Msgs, NEW n \in 1..Script[m].len
    PROVE  /\ n > 1 => Append(Prefix(m, n - 1), <<m, n>>) = Prefix(m, n)
           /\ n = Script[m].len => Prefix(m, n) = Body(m)
           /\ n < Script[m].len => ~Checksummed(Prefix(m, n))
<1> DEFINE c(i) == FirstIndex(i)
           l == n - c(m) + 1
<1>1. \A i \in Msgs : /\ c(i) \in Nat /\ c(i) >= 1 /\ c(i) <= 2
                      /\ Script[i].len \in Nat /\ c(i) <= Script[i].len
  BY ReassemblyAssumption DEF FirstIndex
<1>2. \A i \in Msgs : Body(i) = Run(i, c(i), Script[i].len - c(i) + 1)
  BY DEF Body, Run
<1>3. \A i : Prefix(m, i) = Run(m, c(m), i - c(m) + 1)
  BY DEF Prefix, Run
<1> HIDE DEF c
<1>4. n \in Nat /\ n >= 1 /\ n <= Script[m].len /\ l \in Nat
  BY <1>1
<1>5. n > 1 => Append(Prefix(m, n - 1), <<m, n>>) = Prefix(m, n)
  <2> SUFFICES ASSUME n > 1 PROVE Append(Prefix(m, n - 1), <<m, n>>) = Prefix(m, n)
    OBVIOUS
  <2> DEFINE l1 == n - 1 - c(m) + 1
  <2>1. l1 \in Nat /\ c(m) + l1 = n /\ l1 + 1 = l
    BY <1>1, <1>4
  <2>2. Prefix(m, n - 1) = Run(m, c(m), l1) /\ Prefix(m, n) = Run(m, c(m), l)
    BY <1>3
  <2> HIDE DEF l, l1
  <2>3. Append(Run(m, c(m), l1), <<m, c(m) + l1>>) = Run(m, c(m), l1 + 1)
    BY <1>1, <1>4, <2>1, RunGrows
  <2> QED BY <2>1, <2>2, <2>3
<1>6. n = Script[m].len => Prefix(m, n) = Body(m)
  BY DEF Prefix, Body
<1>7. n < Script[m].len => ~Checksummed(Prefix(m, n))
  <2> SUFFICES ASSUME n < Script[m].len, NEW i \in Msgs, Prefix(m, n) = Body(i)
               PROVE  FALSE
    BY DEF Checksummed
  <2> DEFINE k == Script[i].len - c(i) + 1
  <2>1. k \in Nat /\ k >= 1 /\ c(i) + k - 1 <= Script[i].len
    BY <1>1
  <2>2. /\ Run(i, c(i), k) = Run(m, c(m), l)
        /\ c(m) + l - 1 = n
    BY <1>1, <1>2, <1>3, <1>4
  <2> HIDE DEF k, l
  <2>3. /\ Len(Run(i, c(i), k)) = k
        /\ \A j \in 1..k : Run(i, c(i), k)[j] = <<i, c(i) + j - 1>>
    BY <1>1, <2>1, RunIs
  <2>4. /\ Len(Run(m, c(m), l)) = l
        /\ \A j \in 1..l : Run(m, c(m), l)[j] = <<m, c(m) + j - 1>>
    BY <1>1, <1>4, <2>2, RunIs
  <2>5. k = l /\ 1 \in 1..l
    BY <2>1, <2>2, <2>3, <2>4
  <2>6. i = m
    BY <2>2, <2>3, <2>4, <2>5
  <2> QED BY <1>1, <1>4, <2>5, <2>6 DEF k, l
<1> QED BY <1>5, <1>6, <1>7

(* The handlers of feed touch the buffers of the frame's bucket only, and   *)
(* nothing that was emitted is taken back.                                 *)
LEMMA FeedTouches ==
    ASSUME NEW f, NEW hz, NEW left, NEW n \in Nat, Shelf(left, n), NEW out,
           \/ OnBufferedStarter(f, Key(f[1], hz), left, out)
           \/ OnNonBufferedStarter(f, Key(f[1], hz), left, out)
           \/ OnContinuation(f, Bucket(hz), left, out)
           \/ Unrelated(f, left, out)
    PROVE  /\ out \subseteq emitted'
           /\ DOMAIN buffers' \subseteq DOMAIN left \cup {Key(f[1], hz)}
           /\ \A j : j[3] # Bucket(hz) =>
                 /\ j \in DOMAIN buffers' <=> j \in DOMAIN left
                 /\ j \in DOMAIN left => buffers'[j] = left[j]
<1> DEFINE k == Key(f[1], hz)
<1>1. k[3] = Bucket(hz)
  BY DEF Key
<1>2. \A b, i : /\ DOMAIN Put(left, i, b) = DOMAIN left \cup {i}
                /\ \A j \in DOMAIN left \ {i} : Put(left, i, b)[j] = left[j]
  BY DEF Put
<1>3. \A i : /\ DOMAIN Popped(left, i) = DOMAIN left \ {i}
             /\ \A j \in DOMAIN left \ {i} : Popped(left, i)[j] = left[j]
  BY DEF Popped, Without, Restrict
<1> HIDE DEF k
<1>4. /\ out \subseteq emitted'
      /\ \/ buffers' = left
         \/ \E i, b : /\ i[3] = Bucket(hz) /\ i \in DOMAIN left \cup {k}
                      /\ buffers' = Popped(left, i) \/ buffers' = Put(left, i, b)
  <2>1. CASE OnBufferedStarter(f, k, left, out)
    BY <1>1, <2>1 DEF OnBufferedStarter
  <2>2. CASE OnNonBufferedStarter(f, k, left, out)
    BY <1>1, <2>2 DEF OnNonBufferedStarter
  <2>3. CASE OnContinuation(f, Bucket(hz), left, out)
    <3>1. CASE Candidates(left, Bucket(hz)) = {}
      BY <2>3, <3>1 DEF OnContinuation
    <3>2. CASE Candidates(left, Bucket(hz)) # {}
      <4> DEFINE i == Target(left, Bucket(hz))
                 b == Grown(left[i], f)
      <4>1. i[3] = Bucket(hz) /\ i \in DOMAIN left
        BY <3>2, TargetIs DEF Candidates
      <4>2. /\ out \subseteq emitted'
            /\ buffers' = Popped(left, i) \/ buffers' = Put(left, i, b)
        BY <2>3, <3>2 DEF OnContinuation, Grown
      <4> HIDE DEF i, b
      <4> QED BY <4>1, <4>2
    <3> QED BY <3>1, <3>2
  <2>4. CASE Unrelated(f, left, out)
    BY <2>4 DEF Unrelated
  <2> QED BY <2>1, <2>2, <2>3, <2>4 DEF k
<1>5. CASE buffers' = left
  BY <1>4, <1>5 DEF k
<1>6. ASSUME NEW i, NEW b, i[3] = Bucket(hz), i \in DOMAIN left \cup {k},
             buffers' = Popped(left, i) \/ buffers' = Put(left, i, b)
      PROVE  /\ DOMAIN buffers' \subseteq DOMAIN left \cup {k}
             /\ \A j : j[3] # Bucket(hz) =>
                   /\ j \in DOMAIN buffers' <=> j \in DOMAIN left
                   /\ j \in DOMAIN left => buffers'[j] = left[j]
  <2>1. \A j : j[3] # Bucket(hz) => j # i
    BY <1>6
  <2>2. CASE buffers' = Popped(left, i)
    BY <1>3, <1>6, <2>1, <2>2
  <2>3. CASE buffers' = Put(left, i, b)
    <3>1. /\ DOMAIN buffers' = DOMAIN left \cup {i}
          /\ \A j \in DOMAIN left \ {i} : buffers'[j] = left[j]
      BY <1>2, <2>3
    <3> QED BY <1>6, <2>1, <3>1
  <2> QED BY <1>6, <2>2, <2>3
<1> QED BY <1>4, <1>5, <1>6 DEF k

(* A step of time changes neither what was fed of a message nor its lane,   *)
(* unless a frame of it is missed.                                         *)
LEMMA FedTick ==
    ASSUME BandOK, Tick, NEW m \in Msgs, lane'[m] # NoLane
    PROVE  /\ Fed(m) = sent[m] /\ Fed(m)' = Fed(m) /\ lane'[m] = lane[m]
           /\ Fed(m) \in 1..(Script[m].len - 1) =>
                 IF tick' = 0 THEN <<m, sent'[m]>> \in air' ELSE air' = {}
<1>1. BandOK' /\ sent[m] \in Nat /\ air = {}
  <2>1. BandOK'
    BY BandStep DEF Next
  <2> QED BY <2>1 DEF Tick, BandOK
<1>2. Fed(m) = sent[m]
  BY <1>1, FedIs
<1>3. CASE tick' = 0
  <2>1. NewSlot
    BY <1>3 DEF Tick
  <2>2. /\ sent'[m] = sent[m] \/ sent'[m] = sent[m] + 1
        /\ sent'[m] # sent[m] => <<m, sent'[m]>> \in air'
        /\ lane'[m] = lane[m]
        /\ sent[m] \in 1..(Script[m].len - 1) => sent'[m] # sent[m]
        /\ <<m, sent'[m]>> \in air' => sent'[m] = sent[m] + 1
    BY <2>1, SlotSends
  <2>3. Fed(m)' = sent[m]
    BY <1>1, <2>2, FedNext
  <2> QED BY <1>2, <1>3, <2>2, <2>3
<1>4. CASE tick' # 0
  <2>1. UNCHANGED <<sent, air, lane>>
    BY <1>4 DEF Tick
  <2> QED BY <1>1, <1>2, <1>4, <2>1, FedNext
<1> QED BY <1>3, <1>4

(* Feeding a frame counts for its own message only.                        *)
LEMMA FedFeed ==
    ASSUME BandOK, NEW f \in air, Feed(f), NEW m \in Msgs
    PROVE  IF m = f[1] THEN /\ f = <<m, sent[m]>> /\ Fed(m)' = sent[m]
                            /\ Fed(m) = sent[m] - 1
                       ELSE /\ Fed(m)' = Fed(m)
                            /\ <<m, sent[m]>> \in air' <=> <<m, sent[m]>> \in air
<1>1. BandOK' /\ air' = air \ {f} /\ sent' = sent /\ sent[m] \in Nat
  <2>1. BandOK'
    BY BandStep DEF Next, FeedAny
  <2> QED BY <2>1 DEF Feed, BandOK
<1>2. f = <<f[1], f[2]>> /\ f[2] = sent[f[1]]
  BY TokenIs DEF BandOK
<1>3. /\ Fed(m) = IF <<m, sent[m]>> \in air THEN sent[m] - 1 ELSE sent[m]
      /\ Fed(m)' = IF <<m, sent[m]>> \in air' THEN sent[m] - 1 ELSE sent[m]
  BY <1>1, FedIs, FedNext
<1>4. CASE m = f[1]
  BY <1>1, <1>2, <1>3, <1>4
<1>5. CASE m # f[1]
  <2>1. <<m, sent[m]>> \in air' <=> <<m, sent[m]>> \in air
    BY <1>1, <1>2, <1>5
  <2> QED BY <1>3, <1>5, <2>1
<1> QED BY <1>4, <1>5

(* The buffer of a message under way is too young for any timeout.         *)
LEMMA HoldingIsYoung ==
    ASSUME BandOK, NEW m, NEW k, Holding(m, k), NEW gone \in SUBSET Due,
           NEW left, left = Without(buffers, gone)
    PROVE  /\ k \in DOMAIN left /\ left[k] = buffers[k]
           /\ DOMAIN left \subseteq DOMAIN buffers
           /\ \A j \in DOMAIN left : left[j] = buffers[j]
<1>1. DOMAIN left = DOMAIN buffers \ gone /\ \A j \in DOMAIN left : left[j] = buffers[j]
  BY DEF Without, Restrict
<1>2. buffers[k].age <= SlotTicks /\ Limit(buffers[k]) = FrameTimeout
  BY ReassemblyAssumption DEF Holding, Latest, BandOK, Limit
<1>3. buffers[k].age \in Nat
  BY ReassemblyAssumption DEF Holding, BandOK
<1>4. k \notin Due
  BY <1>2, <1>3, ReassemblyAssumption DEF Due
<1> QED BY <1>1, <1>4 DEF Holding, Latest

(* A mail whose frames were all fed is among what was emitted.             *)
Delivery(m, em) == \E e \in em : /\ e.head = m /\ e.body = Body(m)
                                 /\ e.valid /\ e.buffered
Heard(m) ==
    /\ UnderWay(m) => Holding(m, LaneKey(m))
    /\ (Script[m].class = "mail" /\ Fed(m) = Script[m].len /\ lane[m] # NoLane)
          => Delivery(m, emitted)

(* Time passes: a message under way gets older with its slot.              *)
LEMMA HeardTick ==
    ASSUME TypeOK, Tick, NEW m \in Msgs, Heard(m)
    PROVE  Heard(m)'
<1> SUFFICES ASSUME Script[m].class = "mail", lane'[m] # NoLane
             PROVE  Heard(m)'
  BY DEF Heard, UnderWay
<1>1. /\ Fed(m) = sent[m] /\ Fed(m)' = Fed(m) /\ lane'[m] = lane[m]
      /\ Fed(m) \in 1..(Script[m].len - 1) =>
            IF tick' = 0 THEN <<m, sent'[m]>> \in air' ELSE air' = {}
  BY FedTick DEF TypeOK
<1>2. Fed(m)' = Script[m].len => Delivery(m, emitted')
  BY <1>1 DEF Heard, Tick
<1>3. ASSUME UnderWay(m)' PROVE Holding(m, LaneKey(m))'
  <2> DEFINE k == LaneKey(m)
             Older(b) == [b EXCEPT !.age = IF @ > FrameTimeout THEN @ ELSE @ + 1]
  <2>1. Holding(m, k) /\ k' = k
    BY <1>1, <1>3 DEF Heard, UnderWay, LaneKey
  <2>2. \A b \in Buffer : /\ Older(b).head = b.head /\ Older(b).buffered = b.buffered
                          /\ Older(b).body = b.body /\ Older(b).born = b.born
                          /\ b.age < FrameTimeout => Older(b).age = b.age + 1
    BY ReassemblyAssumption DEF Buffer
  <2>3. /\ DOMAIN buffers' = DOMAIN buffers
        /\ \A j \in DOMAIN buffers : buffers'[j] = Older(buffers[j])
        /\ \A j \in DOMAIN buffers : buffers[j] \in Buffer
    BY DEF Tick, TypeOK, Shelf
  <2> HIDE DEF Older, k
  <2>4. \A j \in DOMAIN buffers : buffers'[j].born = buffers[j].born
    BY <2>2, <2>3
  <2>5. /\ k \in DOMAIN buffers'
        /\ buffers'[k].head = m /\ buffers'[k].buffered
        /\ buffers'[k].body = Prefix(m, Fed(m)')
        /\ \A j \in DOMAIN buffers' :
              j[3] = k[3] => buffers'[j].born <= buffers'[k].born
    BY <1>1, <2>1, <2>2, <2>3, <2>4 DEF Holding, Latest
  <2>6. buffers'[k].age = IF <<m, sent'[m]>> \in air' THEN SlotTicks ELSE tick'
    <3>1. buffers[k].age = tick /\ tick \in Nat /\ tick < SlotTicks
      BY <2>1 DEF Holding, Tick, TypeOK, BandOK
    <3>2. buffers'[k].age = tick + 1
      BY <2>1, <2>2, <2>3, <3>1, ReassemblyAssumption DEF Holding, Latest
    <3>3. tick' = IF tick + 1 = SlotTicks THEN 0 ELSE tick + 1
      BY <3>1, TickWraps DEF Tick
    <3>4. IF tick' = 0 THEN <<m, sent'[m]>> \in air' ELSE air' = {}
      BY <1>1, <1>3 DEF UnderWay
    <3> QED BY <3>1, <3>2, <3>3, <3>4
  <2> QED BY <2>1, <2>5, <2>6 DEF Holding, Latest, k
<1> QED BY <1>2, <1>3 DEF Heard

(* The sweep leaves a message under way alone.                             *)
LEMMA HeardSweep ==
    ASSUME TypeOK, Sweep, NEW m \in Msgs, Heard(m)
    PROVE  Heard(m)'
<1>1. PICK gone \in SUBSET Due :
        /\ buffers' = Without(buffers, gone)
        /\ emitted \subseteq emitted'
  BY DEF Sweep
<1>2. UNCHANGED <<sent, air, tick, lane>>
  BY DEF Sweep, airVars
<1>3. Fed(m)' = Fed(m)
  BY <1>2 DEF Fed
<1>4. UnderWay(m)' = UnderWay(m) /\ LaneKey(m)' = LaneKey(m)
  BY <1>2, <1>3 DEF UnderWay, LaneKey
<1>5. ASSUME UnderWay(m) PROVE Holding(m, LaneKey(m))'
  <2> DEFINE k == LaneKey(m)
  <2>1. Holding(m, k)
    BY <1>5 DEF Heard
  <2> HIDE DEF k
  <2>2. /\ k \in DOMAIN buffers' /\ buffers'[k] = buffers[k]
        /\ DOMAIN buffers' \subseteq DOMAIN buffers
        /\ \A j \in DOMAIN buffers' : buffers'[j] = buffers[j]
    BY <1>1, <2>1, HoldingIsYoung DEF TypeOK
  <2> QED BY <1>2, <1>3, <1>4, <2>1, <2>2 DEF Holding, Latest, k
<1> QED BY <1>1, <1>2, <1>3, <1>4, <1>5 DEF Heard, Delivery

(* A frame of another message leaves it alone, or disturbs it.             *)
LEMMA HeardOther ==
    ASSUME TypeOK, NEW f \in air, Feed(f), NEW m \in Msgs, m # f[1], Heard(m)
    PROVE  Heard(m)'
<1> SUFFICES ASSUME Script[m].class = "mail", lane'[m] # NoLane
             PROVE  Heard(m)'
  BY DEF Heard, UnderWay
<1>1. PICK gone \in SUBSET Due, d \in Drift :
        LET hz == Script[f[1]].hz + d
            left == Without(buffers, gone)
            out == emitted \cup Texts(gone)
        IN /\ \/ OnBufferedStarter(f, Key(f[1], hz), left, out)
              \/ OnNonBufferedStarter(f, Key(f[1], hz), left, out)
              \/ OnContinuation(f, Bucket(hz), left, out)
              \/ Unrelated(f, left, out)
           /\ lane' = LaneAfter(f, Bucket(hz))
  BY DEF Feed
<1> DEFINE hz == Script[f[1]].hz + d
           left == Without(buffers, gone)
           out == emitted \cup Texts(gone)
<1>2. lane'[m] = lane[m] /\ ~Disturbed(m, f, Bucket(hz))
  BY <1>1 DEF LaneAfter
<1>3. /\ Fed(m)' = Fed(m)
      /\ <<m, sent[m]>> \in air' <=> <<m, sent[m]>> \in air
      /\ sent' = sent /\ tick' = tick
  BY FedFeed DEF Feed, TypeOK
<1>4. Shelf(left, starts) /\ starts \in Nat
  BY ShelfWithout DEF TypeOK
<1>5. /\ out \subseteq emitted'
      /\ DOMAIN buffers' \subseteq DOMAIN left \cup {Key(f[1], hz)}
      /\ \A j : j[3] # Bucket(hz) =>
            /\ j \in DOMAIN buffers' <=> j \in DOMAIN left
            /\ j \in DOMAIN left => buffers'[j] = left[j]
  BY <1>1, <1>4, FeedTouches
<1>6. Fed(m)' = Script[m].len => Delivery(m, emitted')
  BY <1>2, <1>3, <1>5 DEF Heard, Delivery
<1>7. ASSUME UnderWay(m)' PROVE Holding(m, LaneKey(m))'
  <2> DEFINE k == LaneKey(m)
  <2>1. UnderWay(m) /\ Holding(m, k) /\ k' = k /\ k[3] = lane[m]
    BY <1>2, <1>3, <1>7 DEF Heard, UnderWay, LaneKey
  <2>2. lane[m] # Bucket(hz)
    BY <1>2, <2>1 DEF Disturbed, UnderWay
  <2> HIDE DEF k
  <2>3. /\ k \in DOMAIN left /\ left[k] = buffers[k]
        /\ DOMAIN left \subseteq DOMAIN buffers
        /\ \A j \in DOMAIN left : left[j] = buffers[j]
    BY <2>1, HoldingIsYoung DEF TypeOK
  <2> HIDE DEF left, hz
  <2>4. /\ k \in DOMAIN buffers' /\ buffers'[k] = buffers[k]
        /\ \A j \in DOMAIN buffers' : j[3] = lane[m] =>
              j \in DOMAIN buffers /\ buffers'[j] = buffers[j]
    BY <1>5, <2>1, <2>2, <2>3
  <2> QED BY <1>2, <1>3, <2>1, <2>4 DEF Holding, Latest, k
<1> QED BY <1>6, <1>7 DEF Heard

(* The first prefix is what a starter puts in a new buffer.                *)
LEMMA FirstPrefix ==
    ASSUME NEW m \in Msgs
    PROVE  Prefix(m, 1) = IF Script[m].bare THEN << >> ELSE << <<m, 1>> >>
<1>1. Script[m].len \in Nat /\ Script[m].len >= 1 /\ <<m, 1>> \in Tokens
      /\ (Script[m].bare => Script[m].len > 1)
  BY TokenIs, ReassemblyAssumption
<1>2. CASE Script[m].bare
  <2>1. Prefix(m, 1) = Run(m, 2, 0)
    BY <1>2 DEF Prefix, Run, FirstIndex
  <2>2. Run(m, 2, 0) \in Seq(Tokens) /\ Len(Run(m, 2, 0)) = 0
    BY <1>1, <1>2, RunIs
  <2>3. Run(m, 2, 0) = << >>
    BY <2>2, EmptySeq
  <2> QED BY <1>2, <2>1, <2>3
<1>3. CASE ~Script[m].bare
  <2>0. PICK c \in Nat : c = 1
    OBVIOUS
  <2> DEFINE s == Run(m, c, c)
             t == << <<m, 1>> >>
  <2>1. Prefix(m, 1) = s
    BY <1>3, <2>0 DEF Prefix, Run, FirstIndex
  <2>2. s \in Seq(Tokens) /\ Len(s) = 1 /\ s[1] = <<m, 1>>
    <3>1. s \in Seq(Tokens) /\ Len(s) = 1
      <4>1. c >= 1 /\ c + c - 1 <= Script[m].len
        BY <1>1, <2>0
      <4>2. Run(m, c, c) \in Seq(Tokens) /\ Len(Run(m, c, c)) = c
        BY <4>1, RunIs
      <4> QED BY <2>0, <4>2
    <3> QED BY <2>0, <3>1 DEF Run
  <2>3. t \in Seq(Tokens) /\ Len(t) = 1 /\ t[1] = <<m, 1>>
    BY <1>1
  <2> HIDE DEF s, t
  <2>4. \A j \in 1..1 : s[j] = t[j]
    BY <2>2, <2>3
  <2>5. s = t
    BY <2>2, <2>3, <2>4, SeqEqual
  <2> QED BY <1>3, <2>1, <2>5 DEF t
<1> QED BY <1>2, <1>3

(* Its own first frame starts a buffer, or is the whole message.           *)
LEMMA HeardFirst ==
    ASSUME TypeOK, NEW m \in Msgs, Script[m].class = "mail",
           NEW f, f = <<m, 1>>, NEW k, NEW left, Shelf(left, starts), NEW out,
           OnBufferedStarter(f, k, left, out)
    PROVE  IF Script[m].len = 1
           THEN Delivery(m, emitted')
           ELSE Latest(buffers', k, m, 1) /\ buffers'[k].age = 0
<1> DEFINE b == Started(m, TRUE)
<1>1. /\ b.born = starts + 1 /\ b.buffered /\ b.head = m /\ b.age = 0
      /\ b.body = IF Script[m].bare THEN << >> ELSE << <<m, 1>> >>
  BY StartedIs DEF TypeOK
<1>2. b.body = Prefix(m, 1)
  BY <1>1, FirstPrefix
<1>3. Script[m].len \in Nat /\ 1 \in 1..Script[m].len
  BY TokenIs
<1>4. AtOnce(m) <=> Checksummed(b.body)
  BY DEF AtOnce
<1> HIDE DEF b
<1>5. CASE Script[m].len = 1
  <2> DEFINE e == Assembled(k, b, TRUE)
  <2>1. Prefix(m, 1) = Body(m)
    BY <1>3, <1>5, PrefixIs
  <2>2. AtOnce(m)
    BY <1>2, <1>4, <2>1 DEF Checksummed
  <2>3. e \in emitted'
    BY <2>2 DEF OnBufferedStarter, b
  <2>4. e.head = m /\ e.body = Body(m) /\ e.valid /\ e.buffered
    BY <1>1, <1>2, <2>1 DEF Assembled
  <2> HIDE DEF e
  <2> QED BY <1>5, <2>3, <2>4 DEF Delivery
<1>6. CASE Script[m].len # 1
  <2>1. ~AtOnce(m)
    BY <1>2, <1>3, <1>4, <1>6, PrefixIs
  <2>2. buffers' = Put(left, k, b)
    BY <2>1 DEF OnBufferedStarter, b
  <2>3. b.born \in Nat /\ \A j \in DOMAIN left : left[j].born <= b.born
    BY <1>1 DEF Shelf, Buffer, TypeOK
  <2>4. /\ DOMAIN buffers' = DOMAIN left \cup {k} /\ buffers'[k] = b
        /\ \A j \in DOMAIN left \ {k} : buffers'[j] = left[j]
    BY <2>2 DEF Put
  <2> QED BY <1>1, <1>2, <1>6, <2>3, <2>4 DEF Latest
<1> QED BY <1>5, <1>6

(* A later frame goes to the buffer its message has in the lane.           *)
LEMMA HeardNext ==
    ASSUME TypeOK, NEW m \in Msgs, Script[m].class = "mail",
           NEW n \in 2..Script[m].len, NEW f, f = <<m, n>>,
           NEW k, NEW left, Shelf(left, starts), NEW out,
           Latest(left, k, m, n - 1),
           OnContinuation(f, k[3], left, out)
    PROVE  IF n = Script[m].len
           THEN Delivery(m, emitted')
           ELSE Latest(buffers', k, m, n) /\ buffers'[k].age = 0
<1> DEFINE b == Grown(left[k], f)
<1>1. /\ Script[m].len \in Nat /\ n \in 1..Script[m].len /\ n > 1
      /\ f \in Tokens /\ f[1] = m /\ f[2] = n
  BY TokenIs
<1>2. /\ k \in DOMAIN left /\ left[k] \in Buffer
      /\ left[k].head = m /\ left[k].buffered /\ left[k].body = Prefix(m, n - 1)
      /\ \A j \in DOMAIN left : j[3] = k[3] => left[j].born <= left[k].born
  BY DEF Shelf, Latest
<1>3. /\ b.head = m /\ b.buffered /\ b.age = 0 /\ b.born = left[k].born
      /\ b.body = Append(left[k].body, f)
  BY <1>1, <1>2, GrownIs
<1>4. b.body = Prefix(m, n)
  <2>1. Append(Prefix(m, n - 1), <<m, n>>) = Prefix(m, n)
    BY <1>1, PrefixIs
  <2>2. b.body = Append(Prefix(m, n - 1), <<m, n>>)
    BY <1>2, <1>3
  <2> QED BY <2>1, <2>2
<1>5. k \in Candidates(left, k[3])
  BY <1>2 DEF Candidates
<1>6. Target(left, k[3]) = k
  <2> DEFINE t == Target(left, k[3])
  <2>1. t \in Candidates(left, k[3]) /\ left[k].born <= left[t].born
    BY <1>5, TargetIs DEF TypeOK
  <2> HIDE DEF t
  <2>2. t \in DOMAIN left /\ left[t].born <= left[k].born
    BY <1>2, <2>1 DEF Candidates
  <2>3. left[t].born = left[k].born
    BY <1>2, <2>1, <2>2 DEF Shelf, Buffer
  <2> QED BY <1>2, <2>2, <2>3 DEF Shelf, t
<1>7. LET ends == Script[f[1]].eot /\ f[2] = Script[f[1]].len
      IN IF b.buffered /\ (Checksummed(b.body) \/ ends)
         THEN /\ buffers' = Popped(left, k)
              /\ emitted' = out \cup {Assembled(k, b, Checksummed(b.body))}
         ELSE buffers' = Put(left, k, b) /\ emitted' = out
  BY <1>5, <1>6 DEF OnContinuation, Grown
<1>8. b.born \in Nat
  BY <1>2, <1>3 DEF Buffer
<1> HIDE DEF b
<1>9. CASE n = Script[m].len
  <2>1. b.body = Body(m)
    BY <1>1, <1>4, <1>9, PrefixIs
  <2>2. Checksummed(b.body)
    BY <2>1 DEF Checksummed
  <2> DEFINE e == Assembled(k, b, Checksummed(b.body))
  <2>3. e \in emitted'
    BY <1>3, <1>7, <2>2
  <2>4. e.head = m /\ e.body = Body(m) /\ e.valid /\ e.buffered
    BY <1>3, <2>1, <2>2 DEF Assembled
  <2> HIDE DEF e
  <2> QED BY <1>9, <2>3, <2>4 DEF Delivery
<1>10. CASE n # Script[m].len
  <2>1. ~Checksummed(b.body)
    BY <1>1, <1>4, <1>10, PrefixIs
  <2>2. buffers' = Put(left, k, b)
    BY <1>1, <1>7, <1>10, <2>1
  <2>3. /\ DOMAIN buffers' = DOMAIN left \cup {k} /\ buffers'[k] = b
        /\ \A j \in DOMAIN left \ {k} : buffers'[j] = left[j]
    BY <2>2 DEF Put
  <2>4. \A j \in DOMAIN buffers' : j[3] = k[3] => buffers'[j].born <= b.born
    BY <1>2, <1>3, <1>8, <2>3
  <2> QED BY <1>3, <1>4, <1>10, <2>3, <2>4 DEF Latest
<1> QED BY <1>9, <1>10

(* Its own frames let the message grow to the whole.                       *)
LEMMA HeardOwn ==
    ASSUME TypeOK, NEW f \in air, Feed(f), NEW m \in Msgs, m = f[1], Heard(m)
    PROVE  Heard(m)'
<1> SUFFICES ASSUME Script[m].class = "mail", lane'[m] # NoLane
             PROVE  Heard(m)'
  BY DEF Heard, UnderWay
<1>1. PICK gone \in SUBSET Due, d \in Drift :
        LET hz == Script[f[1]].hz + d
            left == Without(buffers, gone)
            out == emitted \cup Texts(gone)
        IN /\ \/ OnBufferedStarter(f, Key(f[1], hz), left, out)
              \/ OnNonBufferedStarter(f, Key(f[1], hz), left, out)
              \/ OnContinuation(f, Bucket(hz), left, out)
              \/ Unrelated(f, left, out)
           /\ lane' = LaneAfter(f, Bucket(hz))
  BY DEF Feed
<1> DEFINE hz == Script[f[1]].hz + d
           left == Without(buffers, gone)
           out == emitted \cup Texts(gone)
           bucket == Bucket(hz)
           k == Key(m, hz)
           n == sent[m]
<1>2. /\ f = <<m, n>> /\ Fed(m)' = n /\ Fed(m) = n - 1
      /\ sent' = sent /\ tick' = tick /\ tick = 0 /\ air' = air \ {f}
      /\ n \in 1..Script[m].len /\ Script[m].len \in Nat
  <2>1. f \in Tokens /\ BandOK /\ sent' = sent /\ tick' = tick /\ tick = 0
        /\ air' = air \ {f}
    BY DEF Feed, TypeOK, BandOK
  <2>2. f = <<m, n>> /\ Fed(m)' = n /\ Fed(m) = n - 1
    BY <2>1, FedFeed
  <2> QED BY <2>1, <2>2, TokenIs
<1>3. /\ lane'[m] = bucket /\ (n = 1 \/ lane[m] = bucket)
      /\ k = LaneKey(m)' /\ k[3] = bucket
  BY <1>1, <1>2 DEF LaneAfter, LaneKey, Key
<1>4. Shelf(left, starts)
  BY ShelfWithout DEF TypeOK
<1>5. IF n = 1 THEN OnBufferedStarter(f, k, left, out)
               ELSE OnContinuation(f, bucket, left, out)
  <2>1. f[1] = m /\ f[2] = n
    BY <1>2
  <2>2. /\ ~OnNonBufferedStarter(f, k, left, out) /\ ~Unrelated(f, left, out)
        /\ OnBufferedStarter(f, k, left, out) => n = 1
        /\ OnContinuation(f, bucket, left, out) => n > 1
    BY <2>1 DEF OnBufferedStarter, OnNonBufferedStarter, OnContinuation,
                Unrelated, IsStarter
  <2>3. \/ OnBufferedStarter(f, k, left, out)
        \/ OnNonBufferedStarter(f, k, left, out)
        \/ OnContinuation(f, bucket, left, out)
        \/ Unrelated(f, left, out)
    BY <1>1
  <2> QED BY <1>2, <2>2, <2>3
<1>6. SUFFICES IF n = Script[m].len THEN Delivery(m, emitted')
               ELSE Latest(buffers', k, m, n) /\ buffers'[k].age = 0
  <2>1. CASE n = Script[m].len
    BY <1>2, <1>6, <2>1 DEF Heard, UnderWay
  <2>2. CASE n # Script[m].len
    <3> HIDE DEF k
    <3>1. <<m, sent'[m]>> \notin air'
      BY <1>2
    <3>2. Holding(m, LaneKey(m))'
      BY <1>2, <1>3, <1>6, <2>2, <3>1 DEF Holding, Latest
    <3> QED BY <1>2, <2>2, <3>2 DEF Heard
  <2> QED BY <2>1, <2>2
<1>7. CASE n = 1
  <2> HIDE DEF left, out, bucket, k, hz
  <2>1. OnBufferedStarter(f, k, left, out) /\ f = <<m, 1>>
    BY <1>2, <1>5, <1>7
  <2>2. IF Script[m].len = 1
        THEN Delivery(m, emitted')
        ELSE Latest(buffers', k, m, 1) /\ buffers'[k].age = 0
    BY <1>4, <2>1, HeardFirst
  <2> QED BY <1>7, <2>2
<1>8. CASE n # 1
  <2>1. UnderWay(m) /\ Holding(m, k)
    <3>1. UnderWay(m)
      BY <1>2, <1>3, <1>8 DEF UnderWay, n
    <3>2. LaneKey(m) = k
      BY <1>3, <1>8 DEF LaneKey, Key
    <3> HIDE DEF k
    <3> QED BY <3>1, <3>2 DEF Heard
  <2>2. /\ k \in DOMAIN left /\ left[k] = buffers[k]
        /\ DOMAIN left \subseteq DOMAIN buffers
        /\ \A j \in DOMAIN left : left[j] = buffers[j]
    <3> HIDE DEF k
    <3> QED BY <2>1, HoldingIsYoung DEF TypeOK
  <2>3. n \in 2..Script[m].len /\ f = <<m, n>> /\ OnContinuation(f, bucket, left, out)
    BY <1>2, <1>5, <1>8
  <2> HIDE DEF left, out, bucket, k, hz, n
  <2>4. Latest(left, k, m, n - 1)
    BY <1>2, <2>1, <2>2 DEF Holding, Latest
  <2>5. OnContinuation(f, k[3], left, out)
    BY <1>3, <2>3
  <2> QED BY <1>4, <2>3, <2>4, <2>5, HeardNext
<1> QED BY <1>7, <1>8

(* Every step keeps what is known of every message.                        *)
LEMMA HeardStep ==
    ASSUME TypeOK, [Next]_vars, NEW m \in Msgs, Heard(m)
    PROVE  Heard(m)'
<1>1. CASE Tick
  BY <1>1, HeardTick
<1>2. CASE Sweep
  BY <1>2, HeardSweep
<1>3. ASSUME NEW f \in air, Feed(f) PROVE Heard(m)'
  BY <1>3, HeardOwn, HeardOther
<1>4. CASE UNCHANGED vars
  BY <1>4 DEF vars, airVars, Heard, UnderWay, Holding, Latest, LaneKey, Fed
<1> QED BY <1>1, <1>2, <1>3, <1>4 DEF Next, FeedAny

(* A checksummed message whose frames were all decoded in one bucket, with  *)
(* no frame of another between them there, is delivered as verified from   *)
(* its sender, whatever the timeouts drop meanwhile.                       *)
THEOREM WholeIsDelivered == Spec => []HeardWholeIsDelivered
<1>1. Init => \A m \in Msgs : Heard(m)
  BY DEF Init, Heard, UnderWay
<1>2. TypeOK /\ (\A m \in Msgs : Heard(m)) /\ [Next]_vars
         => (\A m \in Msgs : Heard(m))'
  <2> SUFFICES ASSUME TypeOK, [Next]_vars, \A m \in Msgs : Heard(m),
                      NEW m \in Msgs
               PROVE  Heard(m)'
    OBVIOUS
  <2> QED BY HeardStep
<1>3. (\A m \in Msgs : Heard(m)) => HeardWholeIsDelivered
  BY DEF Heard, Delivery, HeardWholeIsDelivered
<1> QED BY <1>1, <1>2, <1>3, TypeCorrect, PTL DEF Spec

===============================================================================
