----------------------------- MODULE AudioProofs -----------------------------
(***************************************************************************)
(* Whole frames go out and whole slots are decoded, for every size of      *)
(* block, silence, frame and ring, and however often the devices fail.     *)
(***************************************************************************)
EXTENDS SlotAudio, SequenceTheorems, TLAPS

FrameTyped ==
    /\ now \in Nat /\ latency \in Nat
    /\ fpc \in {"none", "idle", "start", "wait", "stop"}
    /\ asked \in Nat /\ silence \in Nat /\ cursor \in 0..Length
    /\ armed \in BOOLEAN /\ done \in BOOLEAN
    /\ out \in Seq(Nat)

(* While the frame is armed, what is left of it and what went out of it    *)
(* add up; no modulation went out before the last of the silence.          *)
Balance ==
    fpc \in {"start", "wait", "stop"} =>
       /\ armed => /\ Len(out) + silence = asked + cursor
                   /\ cursor > 0 => silence = 0
       /\ ~armed => Len(out) >= asked + Length
       /\ done => ~armed
NoneArmed == fpc = "none" => ~armed

OutAsWanted == \A i \in 1..Len(out) : out[i] = Wanted(i)
OutAtRest == fpc \in {"none", "idle"} => out = << >>

frameVars == <<fpc, asked, silence, cursor, armed, done, out>>
FrameInv == FrameTyped /\ Balance /\ NoneArmed /\ OutAsWanted /\ OutAtRest

(* The silence is a number of samples.                                     *)
LEMMA SilenceIsNat == \A t, l \in Nat : SilenceFor(t, l) \in Nat
<1> SUFFICES ASSUME NEW t \in Nat, NEW l \in Nat PROVE SilenceFor(t, l) \in Nat
  OBVIOUS
<1>1. Period \in Nat \ {0} BY AudioAssumption
<1>2. \A k \in Int : k % Period \in 0..Period - 1 BY <1>1
<1>3. Period - (t % Period) - l \in Int BY <1>1, <1>2
<1> QED BY <1>1, <1>2, <1>3 DEF SilenceFor

(* A block continues what went out as the frame goes on.                   *)
LEMMA CallbackContinues == FrameInv /\ Callback => FrameInv'
<1> SUFFICES ASSUME FrameInv, Callback PROVE FrameInv'
  OBVIOUS
<1> USE DEF FrameInv
<1> DEFINE s == IF armed THEN Least(Block, silence) ELSE 0
           m == IF armed THEN Least(Block - s, Length - cursor) ELSE 0
           block == [i \in 1..Block |-> IF i \in s + 1..s + m THEN cursor + i - s ELSE 0]
<1>0. Block \in Nat \ {0} /\ Length \in Nat \ {0} BY AudioAssumption
<1>1. /\ silence' = silence - s /\ cursor' = cursor + m
      /\ armed' = (armed /\ ~Ends(s, m)) /\ done' = (done \/ Ends(s, m))
      /\ out' = IF armed /\ fpc # "idle" THEN out \o block ELSE out
      /\ UNCHANGED <<now, latency, fpc, asked>>
  BY DEF Callback
<1>2. /\ s \in 0..Block /\ s <= silence /\ s \in Nat
      /\ m \in 0..Block - s /\ m <= Length - cursor /\ m \in Nat
      /\ armed => (s = Block \/ s = silence) /\ (m = Block - s \/ m = Length - cursor)
  BY <1>0 DEF Least, FrameTyped
<1> HIDE DEF s, m
<1>3. block \in Seq(Nat) /\ Len(block) = Block
      /\ \A i \in 1..Block :
            block[i] = IF i \in s + 1..s + m THEN cursor + i - s ELSE 0
  <2>1. \A i \in 1..Block : (IF i \in s + 1..s + m THEN cursor + i - s ELSE 0) \in Nat
    BY <1>0, <1>2 DEF FrameTyped
  <2>2. block \in [1..Block -> Nat] BY <2>1
  <2> QED BY <2>2, <1>0
<1> HIDE DEF block
<1>4. FrameTyped'
  <2>1. out' \in Seq(Nat) BY <1>1, <1>3 DEF FrameTyped
  <2> QED BY <2>1, <1>0, <1>1, <1>2 DEF FrameTyped
<1>5. armed => silence - s = 0 \/ m = 0
  BY <1>0, <1>2 DEF FrameTyped
<1>6. CASE armed /\ fpc # "idle"
  <2>1. out' = out \o block /\ out \in Seq(Nat)
    BY <1>1, <1>6 DEF FrameTyped
  <2>2. /\ Len(out') = Len(out) + Block
        /\ \A i \in 1..Len(out) + Block :
              out'[i] = IF i <= Len(out) THEN out[i] ELSE block[i - Len(out)]
    BY <2>1, <1>3, ConcatProperties
  <2>3. /\ fpc \in {"start", "wait", "stop"}
        /\ Len(out) \in Nat
        /\ Len(out) + silence = asked + cursor
        /\ cursor > 0 => silence = 0
        /\ ~done
    BY <2>1, <1>6 DEF FrameTyped, NoneArmed, Balance
  <2>4. Balance'
    <3>1. CASE Ends(s, m)
      <4>1. s = silence /\ cursor + m = Length /\ s + m < Block
        BY <3>1, <1>0, <1>2, <1>6 DEF Ends, FrameTyped
      <4>2. Len(out') >= asked + Length
        <5>1. Len(out') = asked + cursor - silence + Block
          BY <2>2, <2>3 DEF FrameTyped
        <5> QED BY <5>1, <4>1, <2>3, <1>0, <1>2 DEF FrameTyped
      <4> QED BY <4>2, <3>1, <1>1 DEF Balance, Ends
    <3>2. CASE ~Ends(s, m)
      <4>1. s + m = Block
        BY <3>2, <1>0, <1>2, <1>6 DEF Ends, FrameTyped
      <4>2. Len(out') + silence' = asked + cursor'
        <5>1. silence' = silence - s /\ cursor' = cursor + m /\ Len(out') = Len(out) + Block
          BY <1>1, <2>2
        <5>2. /\ asked \in Int /\ silence \in Int /\ cursor \in Int
              /\ s \in Int /\ m \in Int /\ Len(out) \in Int
          BY <2>3, <1>0, <1>2 DEF FrameTyped
        <5> QED BY <5>1, <5>2, <4>1, <2>3
      <4>3. cursor' > 0 => silence' = 0
        BY <2>3, <1>0, <1>1, <1>2, <1>5, <1>6 DEF FrameTyped
      <4> QED BY <4>2, <4>3, <3>2, <1>1, <1>6, <2>3 DEF Balance
    <3> QED BY <3>1, <3>2
  <2>5. OutAsWanted'
    <3> SUFFICES ASSUME NEW i \in 1..Len(out) + Block PROVE out'[i] = Wanted(i)'
      BY <2>2 DEF OutAsWanted
    <3>1. CASE i <= Len(out)
      BY <3>1, <2>2, <2>3, <1>1 DEF OutAsWanted, Wanted
    <3>2. CASE i > Len(out)
      <4>1. i - Len(out) \in 1..Block /\ out'[i] = block[i - Len(out)]
        BY <3>2, <2>2, <2>3, <1>0
      <4>2. out'[i] = IF i - Len(out) \in s + 1..s + m
                      THEN cursor + (i - Len(out)) - s ELSE 0
        BY <4>1, <1>3
      <4>3. Wanted(i)' = IF i \in asked + 1..asked + Length THEN i - asked ELSE 0
        BY <1>1 DEF Wanted
      <4> QED BY <4>1, <4>2, <4>3, <2>3, <1>0, <1>2, <1>5, <1>6 DEF FrameTyped
    <3> QED BY <3>1, <3>2, <2>3
  <2>6. NoneArmed' /\ OutAtRest'
    BY <2>3, <1>1, <1>6 DEF NoneArmed, OutAtRest
  <2> QED BY <1>4, <2>4, <2>5, <2>6
<1>7. CASE ~(armed /\ fpc # "idle")
  <2> QED BY <1>0, <1>1, <1>2, <1>4, <1>7 DEF FrameTyped, Balance, NoneArmed, OutAsWanted, OutAtRest, Wanted, Ends
<1> QED BY <1>6, <1>7

(* No step of playback, capture, decoding or shutdown breaks a frame.       *)
LEMMA FrameStep == FrameInv /\ [Next]_vars => FrameInv'
<1> SUFFICES ASSUME FrameInv, [Next]_vars PROVE FrameInv'
  OBVIOUS
<1>0. Cycle \in Nat \ {0} /\ Slot \in Nat \ {0} /\ Length \in Nat \ {0}
  BY AudioAssumption
<1>n. now' \in Nat
  <2>1. now' = now \/ now' = Stamp(now + 1)
    BY DEF Next, Transmit, Device, Decode, Cleanup, PlayFrame, StartStream, StartFails,
           FrameWaited, StopStream, Callback, Stall, Resume, Capture, Plan, Snapshot,
           WakesToStop, DecodeEnds, CloseOutput, TellDecoder, CloseInput, Tick, vars
  <2>2. now \in Nat BY DEF FrameInv, FrameTyped
  <2> QED BY <2>1, <2>2, <1>0 DEF Stamp
<1>1. CASE PlayFrame
  <2>1. now % Slot \in Nat /\ latency \in Nat
    BY <1>0 DEF FrameInv, FrameTyped
  <2>2. SilenceFor(now % Slot, latency) \in Nat
    BY <2>1, SilenceIsNat
  <2>3. /\ asked' \in Nat /\ silence' = asked' /\ cursor' = 0 /\ armed' = TRUE
        /\ done' = FALSE /\ fpc' = "start" /\ latency' = latency
    BY <1>1, <2>2 DEF PlayFrame
  <2>4. out' \in Seq(Nat) /\ Len(out') = 0
    BY <1>1 DEF PlayFrame
  <2>5. FrameTyped'
    <3>1. armed' \in BOOLEAN /\ done' \in BOOLEAN
      BY <2>3
    <3>2. asked' \in Nat /\ silence' \in Nat /\ cursor' \in 0..Length
      BY <2>3, <1>0
    <3> QED BY <3>1, <3>2, <2>1, <2>3, <2>4, <1>n DEF FrameTyped
  <2>6. Balance'
    BY <2>3, <2>4 DEF Balance
  <2>7. NoneArmed' /\ OutAsWanted' /\ OutAtRest'
    BY <2>3, <2>4 DEF NoneArmed, OutAsWanted, OutAtRest
  <2> QED BY <2>5, <2>6, <2>7 DEF FrameInv
<1>2. CASE StartStream
  BY <1>2, <1>n DEF StartStream, FrameInv, FrameTyped, Balance, NoneArmed, OutAsWanted,
                    OutAtRest, Wanted
<1>3. CASE StartFails \/ StopStream
  <2>1. /\ fpc' = "idle" /\ asked' = 0 /\ out' = << >>
        /\ UNCHANGED <<latency, silence, cursor, armed, done>>
    BY <1>3 DEF StartFails, StopStream, Forgotten
  <2> QED BY <2>1, <1>n DEF FrameInv, FrameTyped, Balance, NoneArmed, OutAsWanted, OutAtRest
<1>4. CASE FrameWaited
  BY <1>4, <1>n DEF FrameWaited, FrameInv, FrameTyped, Balance, NoneArmed, OutAsWanted,
                    OutAtRest, Wanted
<1>5. CASE Callback
  BY <1>5, CallbackContinues
<1>6. CASE UNCHANGED <<latency, frameVars>>
  BY <1>6, <1>n DEF frameVars, FrameInv, FrameTyped, Balance, NoneArmed, OutAsWanted,
                    OutAtRest, Wanted
<1>7. \/ PlayFrame \/ StartStream \/ StartFails \/ StopStream \/ FrameWaited \/ Callback
      \/ UNCHANGED <<latency, frameVars>>
  BY DEF Next, Transmit, Device, Decode, Cleanup, Stall, Resume, Capture, Plan, Snapshot,
         WakesToStop, DecodeEnds, CloseOutput, TellDecoder, CloseInput, Tick, vars,
         txVars, frameVars
<1> QED BY <1>1, <1>2, <1>3, <1>4, <1>5, <1>6, <1>7

(* Before the first frame nothing is armed and nothing went out.           *)
LEMMA InitFrameInv == Init => FrameInv
<1> SUFFICES ASSUME Init PROVE FrameInv
  OBVIOUS
<1>1. PICK setup \in Setups :
        /\ fpc = IF "play" \in setup.parts THEN "idle" ELSE "none"
        /\ latency = setup.latency
  BY DEF Init
<1>2. latency \in Nat /\ fpc \in {"none", "idle"} /\ Length \in Nat
  BY <1>1, AudioAssumption
<1>3. /\ now = 0 /\ asked = 0 /\ silence = 0 /\ cursor = 0 /\ armed = FALSE
      /\ done = FALSE
  BY DEF Init
<1>4. out = << >> /\ out \in Seq(Nat) /\ Len(out) = 0
  BY DEF Init
<1>5. FrameTyped
  <2>1. out \in Seq(Nat)
    BY <1>4
  <2>2. armed \in BOOLEAN /\ done \in BOOLEAN
    BY <1>3
  <2>3. now \in Nat /\ asked \in Nat /\ silence \in Nat /\ cursor \in 0..Length
    BY <1>2, <1>3
  <2> QED BY <2>1, <2>2, <2>3, <1>2 DEF FrameTyped
<1>6. Balance /\ NoneArmed /\ OutAsWanted /\ OutAtRest
  BY <1>2, <1>3, <1>4 DEF Balance, NoneArmed, OutAsWanted, OutAtRest
<1> QED BY <1>5, <1>6 DEF FrameInv

(* When play_frame is content, the whole frame has gone out, in order and  *)
(* once; nothing else goes out for it (tx/tx_backend.py, playback.py).     *)
THEOREM FramesAreWhole == Spec => []WholeFrame
<1>1. Init => FrameInv BY InitFrameInv
<1>2. FrameInv => WholeFrame
  BY DEF FrameInv, Balance, OutAsWanted, WholeFrame
<1> QED BY <1>1, <1>2, FrameStep, PTL DEF Spec

(* Wherever in a slot a frame begins and whatever the latency of the radio, *)
(* the silence before it takes it to a boundary.                           *)
THEOREM SilenceAligns ==
    \A t, l \in Nat : (t + SilenceFor(t, l) + l) % Period = 0
<1> SUFFICES ASSUME NEW t \in Nat, NEW l \in Nat
             PROVE  (t + SilenceFor(t, l) + l) % Period = 0
  OBVIOUS
<1>1. Period \in Nat \ {0} BY AudioAssumption
<1>2. \A k \in Int : k % Period \in 0..Period - 1
  BY <1>1
<1>3. \A k \in Int : k \div Period \in Int
  BY <1>1
<1>4. \A k \in Int : k = Period * (k \div Period) + (k % Period)
  BY <1>1
<1>5. \A k \in Int : (Period * k) % Period = 0
  BY <1>1
<1>d. \A p, k, j \in Int : /\ p * k \in Int /\ p * k + p = p * (k + 1)
                          /\ p * k + p - p * j = p * (k + 1 - j)
  OBVIOUS
<1> DEFINE a == Period - (t % Period) - l
<1>6. a \in Int /\ t \in Int /\ l \in Int
  BY <1>1, <1>2
<1>7. PICK j \in Int : t + SilenceFor(t, l) + l = Period * j
  <2>1. t = Period * (t \div Period) + (t % Period)
    BY <1>4
  <2>2. CASE a >= 0
    <3>1. SilenceFor(t, l) = a
      BY <2>2 DEF SilenceFor
    <3>2. t + SilenceFor(t, l) + l = Period * (t \div Period) + Period
      <4> DEFINE q == Period * (t \div Period)
      <4>1. q \in Int /\ t % Period \in Int /\ Period \in Int
        BY <1>1, <1>2, <1>3, <1>6, <1>d
      <4>2. t = q + (t % Period) /\ SilenceFor(t, l) = Period - (t % Period) - l
        BY <2>1, <3>1
      <4> HIDE DEF q
      <4>3. t + SilenceFor(t, l) + l = q + Period
        BY <4>1, <4>2, <1>6
      <4> QED BY <4>3 DEF q
    <3>3. Period * (t \div Period) + Period = Period * ((t \div Period) + 1)
      BY <1>1, <1>3, <1>6, <1>d
    <3>4. (t \div Period) + 1 \in Int
      BY <1>3, <1>6
    <3> QED BY <3>2, <3>3, <3>4
  <2>3. CASE a < 0
    <3>1. SilenceFor(t, l) = a % Period
      BY <2>3, <1>6 DEF SilenceFor
    <3>2. a % Period = a - Period * (a \div Period)
      <4>1. a = Period * (a \div Period) + (a % Period)
        BY <1>4, <1>6
      <4>2. Period * (a \div Period) \in Int /\ a % Period \in Int
        BY <1>1, <1>2, <1>3, <1>6, <1>d
      <4> QED BY <4>1, <4>2, <1>6
    <3>3. t + SilenceFor(t, l) + l
             = Period * (t \div Period) + Period - Period * (a \div Period)
      <4> DEFINE q == Period * (t \div Period)
                 b == Period * (a \div Period)
      <4>1. q \in Int /\ b \in Int /\ t % Period \in Int /\ Period \in Int
        BY <1>1, <1>2, <1>3, <1>6, <1>d
      <4>2. t = q + (t % Period) /\ SilenceFor(t, l) = a - b
        BY <2>1, <3>1, <3>2
      <4> HIDE DEF q, b
      <4>3. t + SilenceFor(t, l) + l = q + Period - b
        BY <4>1, <4>2, <1>6
      <4> QED BY <4>3 DEF q, b
    <3>4. Period * (t \div Period) + Period - Period * (a \div Period)
             = Period * ((t \div Period) + 1 - (a \div Period))
      BY <1>1, <1>3, <1>6, <1>d
    <3> QED BY <3>3, <3>4, <1>3, <1>6
  <2> QED BY <2>2, <2>3, <1>6
<1> QED BY <1>5, <1>7

(***************************************************************************)
(* From the silence to what arrives at the radio.                          *)
(***************************************************************************)
Multiple(x) == \E k \in Int : x = Period * k

(* What division of integers means, for a divisor that is not a literal.   *)
LEMMA Division ==
    ASSUME NEW c \in Nat \ {0}, NEW x \in Int
    PROVE  /\ x % c \in 0..c - 1 /\ x \div c \in Int
           /\ x = c * (x \div c) + (x % c)
<1>1. x % c \in 0..c - 1
  OBVIOUS
<1>2. x \div c \in Int
  OBVIOUS
<1>3. x = c * (x \div c) + (x % c)
  OBVIOUS
<1> QED BY <1>1, <1>2, <1>3

(* A multiple of the period is what has no remainder.                      *)
LEMMA MultipleIsDivisible == \A x \in Int : Multiple(x) <=> x % Period = 0
<1> SUFFICES ASSUME NEW x \in Int PROVE Multiple(x) <=> x % Period = 0
  OBVIOUS
<1>1. Period \in Nat \ {0} BY AudioAssumption
<1>2. \A k \in Int : (Period * k) % Period = 0
  BY <1>1
<1>3. /\ x % Period \in 0..Period - 1 /\ x \div Period \in Int
      /\ x = Period * (x \div Period) + (x % Period)
  BY <1>1, Division
<1>4. ASSUME x % Period = 0 PROVE Multiple(x)
  <2> DEFINE k == x \div Period
  <2>1. k \in Int /\ Period * k \in Int BY <1>1, <1>3
  <2>2. x = Period * k + 0 BY <1>3, <1>4
  <2> HIDE DEF k
  <2> QED BY <2>1, <2>2 DEF Multiple
<1> QED BY <1>2, <1>4 DEF Multiple

(* Sums and differences of multiples of the period are multiples.          *)
LEMMA MultiplesAdd ==
    \A k, j \in Int : Multiple(Period * k) /\ Multiple(Period * k + Period * j)
                     /\ Multiple(Period * k - Period * j)
<1> SUFFICES ASSUME NEW k \in Int, NEW j \in Int
             PROVE  /\ Multiple(Period * k) /\ Multiple(Period * k + Period * j)
                    /\ Multiple(Period * k - Period * j)
  OBVIOUS
<1>1. Period \in Int BY AudioAssumption
<1>2. /\ Period * k + Period * j = Period * (k + j)
      /\ Period * k - Period * j = Period * (k - j)
  BY <1>1
<1>3. k + j \in Int /\ k - j \in Int
  OBVIOUS
<1> QED BY <1>2, <1>3 DEF Multiple

(* Time may wrap at a multiple of the period without anybody noticing.     *)
LEMMA WrapsUnnoticed ==
    ASSUME NEW c \in Nat \ {0}, Multiple(c), NEW x \in Int, NEW y \in Int
    PROVE  Multiple((x % c) + y) <=> Multiple(x + y)
<1>0. Period \in Int BY AudioAssumption
<1>1. PICK n \in Int : c = Period * n BY DEF Multiple
<1> DEFINE q == x \div c
           r == x % c
           j == n * q
<1>2. r \in Int /\ q \in Int /\ x = c * q + r
  BY Division
<1> HIDE DEF q, r
<1>3. j \in Int /\ c * q = Period * j
  BY <1>0, <1>1, <1>2
<1>4. Period * j \in Int
  BY <1>0, <1>3
<1> HIDE DEF j
<1>5. x + y = (r + y) + Period * j /\ r + y = (x + y) - Period * j
  BY <1>2, <1>3, <1>4
<1>6. ASSUME Multiple(r + y) PROVE Multiple(x + y)
  <2>1. PICK k \in Int : r + y = Period * k BY <1>6 DEF Multiple
  <2> QED BY <2>1, <1>3, <1>5, MultiplesAdd
<1>7. ASSUME Multiple(x + y) PROVE Multiple(r + y)
  <2>1. PICK k \in Int : x + y = Period * k BY <1>7 DEF Multiple
  <2> QED BY <2>1, <1>3, <1>5, MultiplesAdd
<1> QED BY <1>6, <1>7 DEF r

(* A slot and the cycle of time hold whole periods.                        *)
LEMMA CycleIsMultiple == Multiple(Slot) /\ Multiple(Cycle)
<1>0. /\ Period \in Nat \ {0} /\ Slot \in Nat \ {0} /\ Day \in Nat \ {0} /\ Cycle \in Nat \ {0}
      /\ Slot % Period = 0 /\ Day % Slot = 0 /\ Cycle % Day = 0
  BY AudioAssumption
<1>m. Multiple(Slot)
  BY <1>0, MultipleIsDivisible
<1>1. PICK i \in Int : Slot = Period * i
  BY <1>m DEF Multiple
<1>2. PICK j \in Int : Day = Slot * j
  <2> DEFINE j == Day \div Slot
  <2>1. j \in Int /\ Slot * j \in Int /\ Day = Slot * j + 0
    BY <1>0, Division
  <2> HIDE DEF j
  <2> QED BY <2>1
<1>3. PICK k \in Int : Cycle = Day * k
  <2> DEFINE k == Cycle \div Day
  <2>1. k \in Int /\ Day * k \in Int /\ Cycle = Day * k + 0
    BY <1>0, Division
  <2> HIDE DEF k
  <2> QED BY <2>1
<1>4. \A p, a, b \in Int : (p * a) * b = p * (a * b) /\ a * b \in Int
  OBVIOUS
<1>5. i * j \in Int /\ Day = Period * (i * j)
  BY <1>0, <1>1, <1>2, <1>4
<1>6. (i * j) * k \in Int /\ Cycle = Period * ((i * j) * k)
  BY <1>0, <1>3, <1>4, <1>5
<1> QED BY <1>1, <1>6 DEF Multiple

-------------------------------------------------------------------------------
(* In a frame the device leaves alone, the callback to come, what is left  *)
(* of the silence and the latency add up to a boundary.                    *)
DeviceTyped == due \in Int /\ landed \in Int /\ running \in BOOLEAN
Quiet == (stuck => running) /\ (fpc = "none" => ~running)
Undisturbed == fpc \in {"start", "wait", "stop"} /\ ~disturbed
OnCourse ==
    Undisturbed =>
       /\ ~stuck
       /\ fpc = "start" => ~running /\ armed /\ Multiple(now + silence + latency)
       /\ fpc # "start" /\ running /\ armed /\ cursor = 0 =>
             Multiple(now + due + silence + latency)
Landed == landed # None /\ ~disturbed => Multiple(landed)

BoundaryInv == FrameInv /\ DeviceTyped /\ Quiet /\ OnCourse /\ Landed

(* The callback to come, the silence left and the latency always add up to *)
(* a boundary: no step of the stream disturbs that unless it stalls.       *)
LEMMA BoundaryStep == BoundaryInv /\ FrameInv' /\ [Next]_vars => BoundaryInv'
<1> SUFFICES ASSUME BoundaryInv, FrameInv', [Next]_vars PROVE BoundaryInv'
  OBVIOUS
<1>0. /\ Period \in Nat \ {0} /\ Cycle \in Nat \ {0} /\ Slot \in Nat \ {0}
      /\ Length \in Nat \ {0} /\ Block \in Nat \ {0}
  BY AudioAssumption
<1>t. /\ now \in Nat /\ latency \in Nat /\ silence \in Nat /\ cursor \in 0..Length
      /\ due \in Int /\ landed \in Int
  BY DEF BoundaryInv, FrameInv, FrameTyped, DeviceTyped
<1>1. CASE PlayFrame
  <2>1. now % Slot \in Nat /\ latency \in Nat
    BY <1>0, <1>t
  <2>2. SilenceFor(now % Slot, latency) \in Nat
    BY <2>1, SilenceIsNat
  <2>3. /\ silence' = SilenceFor(now % Slot, latency) /\ armed' = TRUE
        /\ fpc' = "start" /\ landed' = None /\ disturbed' = running
        /\ UNCHANGED <<now, latency, running, due, stuck>>
    BY <1>1 DEF PlayFrame, ringVars
  <2>4. Multiple((now % Slot) + (silence' + latency))
    <3>1. ((now % Slot) + SilenceFor(now % Slot, latency) + latency) % Period = 0
      BY <2>1, SilenceAligns
    <3>2. (now % Slot) + SilenceFor(now % Slot, latency) + latency
             = (now % Slot) + (silence' + latency)
      BY <2>1, <2>2, <2>3
    <3>3. (now % Slot) + (silence' + latency) \in Int
      BY <2>1, <2>2, <2>3
    <3> QED BY <3>1, <3>2, <3>3, MultipleIsDivisible
  <2>5. Multiple(now + (silence' + latency))
    <3>1. Multiple(Slot) /\ Slot \in Nat \ {0} /\ now \in Int
      BY <1>0, <1>t, CycleIsMultiple
    <3>2. silence' + latency \in Int
      BY <2>1, <2>2, <2>3
    <3> QED BY <2>4, <3>1, <3>2, WrapsUnnoticed
  <2>6. now + (silence' + latency) = now' + silence' + latency'
    BY <2>1, <2>2, <2>3, <1>t
  <2>7. DeviceTyped' /\ Quiet' /\ Landed'
    BY <2>3 DEF BoundaryInv, DeviceTyped, Quiet, Landed, None
  <2>8. OnCourse'
    BY <2>3, <2>5, <2>6 DEF BoundaryInv, DeviceTyped, Quiet, OnCourse, Undisturbed
  <2> QED BY <2>7, <2>8 DEF BoundaryInv
<1>2. CASE StartStream
  <2>1. /\ running' = TRUE /\ due' = IF running THEN due ELSE 0
        /\ fpc = "start" /\ fpc' = "wait"
        /\ UNCHANGED <<now, latency, silence, cursor, armed, stuck, landed, disturbed>>
    BY <1>2 DEF StartStream
  <2>2. OnCourse'
    <3>1. CASE Undisturbed
      <4>1. ~stuck /\ ~running /\ Multiple(now + silence + latency)
        BY <3>1, <2>1 DEF BoundaryInv, OnCourse
      <4>2. now' + due' + silence' + latency' = now + silence + latency
        BY <4>1, <2>1, <1>t
      <4> QED BY <4>1, <4>2, <2>1 DEF OnCourse
    <3> QED BY <3>1, <2>1 DEF OnCourse, Undisturbed
  <2> QED BY <2>1, <2>2, <1>t DEF BoundaryInv, DeviceTyped, Quiet, Landed
<1>3. CASE StartFails \/ StopStream
  <2>1. /\ fpc' = "idle" /\ landed' = None /\ due' = due
        /\ \/ UNCHANGED <<running, stuck>>
           \/ running' = FALSE /\ stuck' = FALSE
    BY <1>3 DEF StartFails, StopStream, Forgotten
  <2>2. None \in Int BY DEF None
  <2>3. DeviceTyped' BY <2>1, <2>2 DEF BoundaryInv, DeviceTyped
  <2>4. Quiet' /\ OnCourse' /\ Landed'
    BY <2>1 DEF BoundaryInv, Quiet, OnCourse, Undisturbed, Landed
  <2> QED BY <2>3, <2>4 DEF BoundaryInv
<1>4. CASE FrameWaited
  <2>1. /\ fpc = "wait" /\ fpc' = "stop"
        /\ UNCHANGED <<now, latency, silence, cursor, armed, running, due, stuck, landed,
                       disturbed>>
    BY <1>4 DEF FrameWaited
  <2> QED BY <2>1 DEF BoundaryInv, DeviceTyped, Quiet, OnCourse, Undisturbed, Landed
<1>6. CASE Stall
  <2>1. /\ running /\ disturbed' = TRUE
        /\ UNCHANGED <<fpc, running, due, landed>>
    BY <1>6 DEF Stall
  <2> QED BY <2>1 DEF BoundaryInv, DeviceTyped, Quiet, OnCourse, Undisturbed, Landed
<1>7. CASE Resume
  <2>1. /\ stuck' = FALSE
        /\ UNCHANGED <<now, latency, fpc, silence, cursor, armed, running, due, landed,
                       disturbed>>
    BY <1>7 DEF Resume
  <2> QED BY <2>1 DEF BoundaryInv, DeviceTyped, Quiet, OnCourse, Undisturbed, Landed
<1>8. CASE CloseOutput
  <2>1. /\ running' = FALSE /\ stuck' = FALSE
        /\ UNCHANGED <<now, latency, fpc, silence, cursor, armed, due, landed, disturbed>>
    BY <1>8 DEF CloseOutput
  <2> QED BY <2>1 DEF BoundaryInv, DeviceTyped, Quiet, OnCourse, Undisturbed, Landed
<1>9. CASE UNCHANGED <<now, txVars>>
  BY <1>9 DEF txVars, BoundaryInv, DeviceTyped, Quiet, OnCourse, Undisturbed, Landed
<1>10. CASE Tick
  <2>1. /\ now' = (now + 1) % Cycle /\ due' = (IF running /\ ~stuck THEN due - 1 ELSE due)
        /\ fpc # "start"
        /\ UNCHANGED <<latency, fpc, silence, cursor, armed, running, stuck, landed,
                       disturbed>>
    BY <1>10 DEF Tick, Stamp
  <2>2. OnCourse'
    <3>1. CASE Undisturbed /\ running /\ armed /\ cursor = 0
      <4>1. ~stuck /\ Multiple(now + due + silence + latency)
        BY <3>1, <2>1 DEF BoundaryInv, OnCourse, Undisturbed
      <4>2. /\ (now + 1) + ((due - 1) + silence + latency) = now + due + silence + latency
            /\ now + 1 \in Int /\ (due - 1) + silence + latency \in Int
        BY <1>t
      <4>3. Multiple(((now + 1) % Cycle) + ((due - 1) + silence + latency))
        BY <4>1, <4>2, <1>0, CycleIsMultiple, WrapsUnnoticed
      <4>4. (now + 1) % Cycle \in Int
        BY <1>0, <1>t
      <4>5. now' + due' + silence' + latency'
               = ((now + 1) % Cycle) + ((due - 1) + silence + latency)
        BY <4>1, <4>4, <3>1, <2>1, <1>t
      <4> QED BY <4>1, <4>3, <4>5, <2>1 DEF OnCourse
    <3> QED BY <3>1, <2>1 DEF BoundaryInv, OnCourse, Undisturbed
  <2> QED BY <2>1, <2>2, <1>t DEF BoundaryInv, DeviceTyped, Quiet, Landed
<1>5. CASE Callback
  <2> DEFINE s == IF armed THEN Least(Block, silence) ELSE 0
             m == IF armed THEN Least(Block - s, Length - cursor) ELSE 0
  <2>1. /\ running /\ ~stuck /\ due = 0 /\ due' = Block
        /\ silence' = silence - s /\ cursor' = cursor + m
        /\ armed' = (armed /\ ~Ends(s, m))
        /\ landed' = IF cursor = 0 /\ m > 0 /\ fpc # "idle"
                     THEN (now + s + latency) % Cycle ELSE landed
        /\ UNCHANGED <<now, latency, fpc, running, stuck, disturbed>>
    BY <1>5 DEF Callback, Stamp
  <2>2. /\ s \in 0..Block /\ s <= silence /\ s \in Nat
        /\ m \in 0..Block - s /\ m <= Length - cursor /\ m \in Nat
        /\ armed => (s = Block \/ s = silence) /\ (m = Block - s \/ m = Length - cursor)
        /\ ~armed => m = 0
    BY <1>0, <1>t DEF Least
  <2> HIDE DEF s, m
  <2>3. CASE Undisturbed /\ armed /\ cursor = 0
    <3>1. Multiple(now + silence + latency) /\ fpc \in {"wait", "stop"}
      <4>1. fpc \in {"wait", "stop"} /\ Multiple(now + due + silence + latency)
        BY <2>1, <2>3 DEF BoundaryInv, OnCourse, Undisturbed
      <4>2. now + due + silence + latency = now + silence + latency
        BY <2>1, <1>t
      <4> QED BY <4>1, <4>2
    <3>2. CASE m > 0
      <4>1. s = silence
        BY <3>2, <2>2, <2>3, <1>0, <1>t
      <4>2. landed' = ((now + s + latency) % Cycle) + 0
        BY <3>1, <3>2, <2>1, <2>3, <2>2, <1>0, <1>t
      <4>3. Multiple((now + s + latency) + 0) /\ now + s + latency \in Int
        BY <3>1, <4>1, <1>t
      <4>4. Multiple(landed')
        BY <4>2, <4>3, <1>0, CycleIsMultiple, WrapsUnnoticed
      <4>5. cursor' # 0
        BY <3>2, <2>1, <2>2, <1>t
      <4>6. landed' \in Int
        BY <4>2, <4>3, <1>0
      <4> QED BY <4>4, <4>5, <4>6, <3>1, <2>1, <1>0
              DEF BoundaryInv, DeviceTyped, Quiet, OnCourse, Undisturbed, Landed
    <3>3. CASE ~(m > 0)
      <4>1. m = 0 /\ s = Block
        BY <3>3, <2>2, <2>3, <1>0, <1>t
      <4>2. now' + due' + silence' + latency' = now + silence + latency
        BY <4>1, <2>1, <2>2, <1>0, <1>t
      <4>3. landed' = landed
        BY <3>3, <2>1
      <4> QED BY <4>2, <4>3, <3>1, <2>1, <1>0
              DEF BoundaryInv, DeviceTyped, Quiet, OnCourse, Undisturbed, Landed
    <3> QED BY <3>2, <3>3
  <2>4. CASE ~(Undisturbed /\ armed /\ cursor = 0)
    <3>1. armed' /\ cursor' = 0 => armed /\ cursor = 0
      <4>1. armed' => armed
        BY <2>1
      <4>2. cursor' = 0 => cursor = 0
        <5>1. cursor' = cursor + m /\ cursor \in Nat /\ m \in Nat
          BY <2>1, <2>2, <1>t, <1>0
        <5> QED BY <5>1
      <4> QED BY <4>1, <4>2
    <3>2. landed' \in Int
      BY <2>1, <2>2, <1>0, <1>t
    <3>3. landed' = landed \/ disturbed
      BY <2>1, <2>2, <2>4 DEF Undisturbed, BoundaryInv, FrameInv, FrameTyped, Quiet
    <3>4. DeviceTyped' /\ Quiet'
      BY <3>2, <2>1, <1>0 DEF BoundaryInv, DeviceTyped, Quiet
    <3>5. OnCourse'
      BY <3>1, <2>1, <2>4 DEF BoundaryInv, OnCourse, Undisturbed
    <3>6. Landed'
      BY <3>3, <2>1 DEF BoundaryInv, Landed
    <3> QED BY <3>4, <3>5, <3>6 DEF BoundaryInv
  <2> QED BY <2>3, <2>4
<1>11. \/ PlayFrame \/ StartStream \/ StartFails \/ StopStream \/ FrameWaited \/ Callback
       \/ Stall \/ Resume \/ CloseOutput \/ Tick \/ UNCHANGED <<now, txVars>>
  BY DEF Next, Transmit, Device, Decode, Cleanup, Capture, Plan, Snapshot,
         WakesToStop, DecodeEnds, TellDecoder, CloseInput, vars
<1> QED BY <1>1, <1>2, <1>3, <1>4, <1>5, <1>6, <1>7, <1>8, <1>9, <1>10, <1>11

(* The modulation of a frame reaches the radio on a boundary, for every    *)
(* latency, period and size of block, whenever in a slot the frame begins, *)
(* unless its device stalled or ran on (tx/tx_backend.py:transmit_frame).  *)
THEOREM FramesLandOnBoundaries == Spec => []OnBoundary
<1>1. Init => FrameInv /\ BoundaryInv
  <2> SUFFICES ASSUME Init PROVE BoundaryInv
    BY DEF BoundaryInv
  <2>1. FrameInv BY InitFrameInv
  <2>2. /\ due = 0 /\ landed = None /\ running = FALSE /\ stuck = FALSE
        /\ fpc \in {"none", "idle"}
    BY DEF Init
  <2>3. None \in Int BY DEF None
  <2>4. DeviceTyped
    <3>1. due \in Int /\ landed \in Int BY <2>2, <2>3
    <3>2. running \in BOOLEAN BY <2>2
    <3> QED BY <3>1, <3>2 DEF DeviceTyped
  <2>5. Quiet /\ OnCourse /\ Landed BY <2>2 DEF Quiet, OnCourse, Undisturbed, Landed
  <2> QED BY <2>1, <2>4, <2>5 DEF BoundaryInv
<1>2. BoundaryInv /\ [Next]_vars => BoundaryInv'
  BY FrameStep, BoundaryStep DEF BoundaryInv
<1>3. BoundaryInv => OnBoundary
  BY MultipleIsDivisible DEF BoundaryInv, DeviceTyped, Landed, OnBoundary
<1> QED BY <1>1, <1>2, <1>3, PTL DEF Spec

(***************************************************************************)
(* Reception: every slot that ends is decoded whole.                       *)
(***************************************************************************)
(* Lemmas about remainders, for divisors that are constants of the model.  *)

(* Quotient and remainder are unique.                                      *)
LEMMA Quotient ==
    ASSUME NEW c \in Nat \ {0}, NEW q \in Int, NEW r \in 0..c - 1
    PROVE  (c * q + r) % c = r /\ (c * q + r) \div c = q
<1> DEFINE x == c * q + r
           p == x \div c
           s == x % c
<1>1. x \in Int
  OBVIOUS
<1>2. s \in 0..c - 1 /\ p \in Int /\ x = c * p + s
  BY <1>1, Division
<1>3. x = c * q + r
  OBVIOUS
<1> HIDE DEF x, p, s
<1>4. \A k \in Int : k >= 1 => c * k >= c
  OBVIOUS
<1>5. c * (p - q) = r - s /\ c * (q - p) = s - r
  BY <1>2, <1>3
<1>6. ~(p - q >= 1)
  BY <1>2, <1>4, <1>5
<1>7. ~(q - p >= 1)
  BY <1>2, <1>4, <1>5
<1>8. p = q
  BY <1>2, <1>6, <1>7
<1> QED BY <1>2, <1>3, <1>8 DEF x, p, s

(* Multiples of the divisor leave the remainder.                           *)
LEMMA SameRest ==
    ASSUME NEW c \in Nat \ {0}, NEW x \in Int, NEW k \in Int
    PROVE  (x + c * k) % c = x % c
<1> DEFINE q == x \div c
           r == x % c
<1>1. r \in 0..c - 1 /\ q \in Int /\ x = c * q + r
  BY Division
<1> HIDE DEF q, r
<1>2. x + c * k = c * (q + k) + r
  BY <1>1
<1>3. q + k \in Int
  BY <1>1
<1>4. (c * (q + k) + r) % c = r
  BY <1>1, <1>3, Quotient
<1> QED BY <1>2, <1>4 DEF r

(* The remainder of a small number.                                        *)
LEMMA SmallRest ==
    ASSUME NEW c \in Nat \ {0}, NEW x \in Int
    PROVE  /\ x \in 0..c - 1 => x % c = x
           /\ x \in (-c)..(-1) => x % c = x + c
<1>1. ASSUME x \in 0..c - 1 PROVE x % c = x
  <2>1. (c * 0 + x) % c = x
    BY <1>1, Quotient
  <2>2. c * 0 + x = x
    OBVIOUS
  <2> QED BY <2>1, <2>2
<1>2. ASSUME x \in (-c)..(-1) PROVE x % c = x + c
  <2>1. x + c \in 0..c - 1 /\ x = c * (-1) + (x + c)
    BY <1>2
  <2>2. (c * (-1) + (x + c)) % c = x + c
    BY <2>1, Quotient
  <2> QED BY <2>1, <2>2
<1> QED BY <1>1, <1>2

(* A remainder may stand for the number in a sum or difference.            *)
LEMMA RestOfSum ==
    ASSUME NEW c \in Nat \ {0}, NEW x \in Int, NEW y \in Int
    PROVE  ((x % c) + y) % c = (x + y) % c /\ (y - (x % c)) % c = (y - x) % c
<1> DEFINE q == x \div c
           r == x % c
<1>1. r \in Int /\ q \in Int /\ x = c * q + r
  BY Division
<1> HIDE DEF q, r
<1>2. -q \in Int /\ r + y \in Int /\ y - r \in Int
  BY <1>1
<1>3. x + y = (r + y) + c * q
  BY <1>1
<1>4. y - x = (y - r) + c * (-q)
  BY <1>1
<1>5. ((r + y) + c * q) % c = (r + y) % c
  BY <1>1, <1>2, SameRest
<1>6. ((y - r) + c * (-q)) % c = (y - r) % c
  BY <1>2, SameRest
<1> QED BY <1>3, <1>4, <1>5, <1>6 DEF r

(* A small step changes the remainder by as much.                          *)
LEMMA RestMoves ==
    ASSUME NEW c \in Nat \ {0}, NEW x \in Int, NEW d \in Int,
           (x % c) + d \in 0..c - 1
    PROVE  (x + d) % c = (x % c) + d
<1>1. (x % c) + d \in Int
  OBVIOUS
<1>2. ((x % c) + d) % c = (x % c) + d
  BY <1>1, SmallRest
<1>3. ((x % c) + d) % c = (x + d) % c
  BY RestOfSum
<1> QED BY <1>2, <1>3

(* A remainder of a multiple of the divisor has the same remainder.        *)
LEMMA RestOfRest ==
    ASSUME NEW d \in Nat \ {0}, NEW c \in Nat \ {0}, c % d = 0, NEW x \in Int
    PROVE  (x % c) % d = x % d
<1> DEFINE n == c \div d
           q == x \div c
           r == x % c
<1>1. n \in Int /\ d * n \in Int /\ c = d * n + 0
  BY Division
<1>2. r \in Int /\ q \in Int /\ x = c * q + r
  BY Division
<1> HIDE DEF n, q, r
<1>3. n * (-q) \in Int /\ d * (n * (-q)) \in Int
  BY <1>1, <1>2
<1>4. (d * n) * (-q) = d * (n * (-q)) /\ c * (-q) = -(c * q)
  BY <1>1, <1>2
<1>5. c = d * n
  BY <1>1
<1>6. r = x + d * (n * (-q))
  <2>1. c * (-q) = d * (n * (-q))
    BY <1>4, <1>5
  <2>2. r = x - c * q /\ c * q \in Int
    BY <1>2
  <2> QED BY <1>3, <1>4, <2>1, <2>2
<1>7. (x + d * (n * (-q))) % d = x % d
  BY <1>3, SameRest
<1> QED BY <1>6, <1>7 DEF r

(* What the constants are.                                                 *)
LEMMA Sizes ==
    /\ Slot \in Nat \ {0} /\ Second \in Nat \ {0} /\ Day \in Nat \ {0}
    /\ Cycle \in Nat \ {0} /\ Ring \in Nat \ {0} /\ CaptureBlock \in Nat \ {0}
    /\ Lag \in Nat /\ MaxLate \in Nat /\ MaxDecode \in Nat /\ MaxFaults \in Nat
    /\ Day % Slot = 0 /\ Slot % Second = 0 /\ Cycle % Day = 0 /\ Cycle % Slot = 0
    /\ CaptureBlock <= Lag /\ Lag + MaxLate < Slot /\ Slot + Lag + MaxLate <= Ring
    /\ Cycle > Ring + CaptureBlock + MaxLate + MaxDecode
<1>1. /\ Slot \in Nat \ {0} /\ Second \in Nat \ {0} /\ Day \in Nat \ {0}
      /\ Cycle \in Nat \ {0} /\ Ring \in Nat \ {0} /\ CaptureBlock \in Nat \ {0}
      /\ Lag \in Nat /\ MaxLate \in Nat /\ MaxDecode \in Nat /\ MaxFaults \in Nat
      /\ Day % Slot = 0 /\ Slot % Second = 0 /\ Cycle % Day = 0
      /\ CaptureBlock <= Lag /\ Lag + MaxLate < Slot /\ Slot + Lag + MaxLate <= Ring
      /\ Cycle > Ring + CaptureBlock + MaxLate + MaxDecode
  BY AudioAssumption
<1>2. (Cycle % Day) % Slot = Cycle % Slot
  <2>1. Cycle \in Int
    BY <1>1
  <2> QED BY <1>1, <2>1, RestOfRest, Zenon
<1>3. 0 % Slot = 0
  BY <1>1, SmallRest
<1> QED BY <1>1, <1>2, <1>3

(* Time, and the ring as the decode thread reads it: how old a sample is,  *)
(* and the k-th before the place where the next block goes.                *)
Into == now % Slot
Age(x) == (now - x) % Cycle
Nth(k) == ring[(pos - k) % Ring]
Listening == dpc # "none" /\ main # "exited"

(* How much older than their place in the ring dropped blocks make the     *)
(* samples.                                                                *)
Slack == faults * CaptureBlock

(* The ring holds samples from young to old.                               *)
Dated ==
    \A k \in 1..Ring : Nth(k) # None =>
        Age(Nth(k)) \in behind + k..behind + k + Slack
InOrder ==
    \A k, l \in 1..Ring : k < l /\ Nth(k) # None /\ Nth(l) # None =>
        Age(Nth(k)) < Age(Nth(l))

(* The samples handed over that are not older than n are there, or lost.   *)
Kept(x) == Stamp(now - x) \in lost \/ \E k \in 1..Ring : Nth(k) = Stamp(now - x)
Complete(n) == \A x \in behind + 1..n : Kept(x)

(* The thread sleeps until the lag after the slot that passes, or after    *)
(* the one that has just ended; then it needs all of that one.             *)
Ahead == wake = Stamp(now - Into + Slot + Lag)
Due == wake = Stamp(now - Into + Lag) /\ Into <= Lag + MaxLate
Asleep == dpc = "sleep" => \/ Ahead
                           \/ Due /\ (Listening => Complete(Into + Slot))

(* From the copy until the thread plans again, time tells the age of the   *)
(* slot; then the thread sleeps until the first slot that ends thereafter. *)
Whole(t) == t - (t % Slot)
Aged == (dpc = "decode" \/ (dpc = "plan" /\ last # None)) =>
           last # None /\ last % Slot = 0 /\ Age(last) = Slot + Lag + spent
Planned == dpc = "sleep" /\ last # None =>
              /\ last % Slot = 0
              /\ wake = Stamp(last + Slot + Whole(Lag + spent) + Slot + Lag)

RxTyped ==
    /\ now \in 0..Cycle - 1 /\ faults \in 0..MaxFaults
    /\ dpc \in {"none", "plan", "sleep", "decode", "gone"}
    /\ wake \in 0..Cycle - 1 /\ spent \in 0..MaxLate + MaxDecode
    /\ last \in {None} \cup 0..Cycle - 1
    /\ ring \in [0..Ring - 1 -> {None} \cup 0..Cycle - 1] /\ pos \in 0..Ring - 1
    /\ behind \in 0..CaptureBlock
Heeded == Listening => Dated /\ InOrder /\ Complete(Into)

HearInv == RxTyped /\ Heeded /\ Asleep /\ Aged /\ Planned /\ SlotIsHeard

(* Dropped blocks do not make samples so old that time wraps.              *)
LEMMA SlackIs ==
    ASSUME faults \in 0..MaxFaults, faults' \in 0..MaxFaults
    PROVE  /\ Slack \in Nat /\ Slack' \in Nat
           /\ Slack + CaptureBlock + Ring + Slot <= Cycle
           /\ faults' >= faults => Slack' >= Slack
           /\ faults' = faults + 1 => Slack' = Slack + CaptureBlock
<1>1. /\ Cycle \in Nat /\ Ring \in Nat /\ Slot \in Nat /\ CaptureBlock \in Nat
      /\ MaxFaults \in Nat
  BY Sizes
<1>2. Cycle >= Ring + Slot + (MaxFaults + 1) * CaptureBlock
  BY AudioAssumption
<1>3. faults * CaptureBlock \in Nat /\ faults' * CaptureBlock \in Nat
  <2>1. \A a, b \in Nat : a * b \in Nat
    OBVIOUS
  <2>2. faults \in Nat /\ faults' \in Nat
    BY <1>1
  <2> QED BY <1>1, <2>1, <2>2, Zenon
<1>4. \A a, b, c \in Nat : a >= b => a * c >= b * c
  OBVIOUS
<1>5. (MaxFaults + 1) * CaptureBlock = MaxFaults * CaptureBlock + CaptureBlock
  BY <1>1
<1>6. (faults + 1) * CaptureBlock = faults * CaptureBlock + CaptureBlock
  BY <1>1
<1>7. MaxFaults * CaptureBlock >= faults * CaptureBlock /\ MaxFaults * CaptureBlock \in Nat
  <2>1. \A a, c \in Nat : a * c \in Nat
    OBVIOUS
  <2>2. faults \in Nat /\ MaxFaults >= faults
    BY <1>1
  <2> QED BY <1>1, <1>4, <2>1, <2>2, Zenon
<1>8. faults' >= faults => faults' * CaptureBlock >= faults * CaptureBlock
  <2>1. faults \in Nat /\ faults' \in Nat
    BY <1>1
  <2> QED BY <1>1, <1>4, <2>1, Zenon
<1>9. Slack + CaptureBlock + Ring + Slot <= Cycle
  BY <1>1, <1>2, <1>3, <1>5, <1>7 DEF Slack
<1> QED BY <1>3, <1>6, <1>8, <1>9 DEF Slack

(* A time and the age it has now say the same.                             *)
LEMMA AgeAndStamp ==
    ASSUME now \in Int
    PROVE  /\ \A x \in Int : Stamp(x) \in 0..Cycle - 1
           /\ \A x \in 0..Cycle - 1 : Age(Stamp(now - x)) = x
           /\ \A y \in 0..Cycle - 1 : /\ Age(y) \in 0..Cycle - 1
                                      /\ Stamp(now - Age(y)) = y
<1>0. Cycle \in Nat \ {0}
  BY Sizes
<1>1. \A x \in Int : Stamp(x) \in 0..Cycle - 1
  BY <1>0, Division DEF Stamp
<1>2. ASSUME NEW x \in 0..Cycle - 1 PROVE Age(Stamp(now - x)) = x
  <2>1. now - x \in Int
    OBVIOUS
  <2>2. (now - ((now - x) % Cycle)) % Cycle = (now - (now - x)) % Cycle
    BY <1>0, <2>1, RestOfSum
  <2>3. now - (now - x) = x
    OBVIOUS
  <2>4. x % Cycle = x
    BY <1>0, SmallRest
  <2> QED BY <2>2, <2>3, <2>4 DEF Age, Stamp
<1>3. ASSUME NEW y \in 0..Cycle - 1
      PROVE  Age(y) \in 0..Cycle - 1 /\ Stamp(now - Age(y)) = y
  <2>1. now - y \in Int
    OBVIOUS
  <2>2. (now - ((now - y) % Cycle)) % Cycle = (now - (now - y)) % Cycle
    BY <1>0, <2>1, RestOfSum
  <2>3. now - (now - y) = y
    OBVIOUS
  <2>4. y % Cycle = y
    BY <1>0, SmallRest
  <2>5. (now - y) % Cycle \in 0..Cycle - 1
    BY <1>0, <2>1, Division
  <2> QED BY <2>2, <2>3, <2>4, <2>5 DEF Age, Stamp
<1> QED BY <1>1, <1>2, <1>3

(* When time passes, everything is older by one.                           *)
LEMMA TimePasses ==
    ASSUME now \in Int, now' = Stamp(now + 1)
    PROVE  /\ \A y \in Int : Age(y) + 1 < Cycle => Age(y)' = Age(y) + 1
           /\ \A x \in Int : Stamp(now' - x) = Stamp(now - (x - 1))
           /\ Into + 1 < Slot => Into' = Into + 1
           /\ Into + 1 = Slot => Into' = 0
           /\ \A x \in Int : Stamp(now' - Into + x) = Stamp(now - Into + x + 1)
<1>0. Cycle \in Nat \ {0} /\ Slot \in Nat \ {0} /\ Cycle % Slot = 0
  BY Sizes
<1>1. \A y \in Int : (now' + y) % Cycle = (now + 1 + y) % Cycle
  <2>1. now + 1 \in Int
    OBVIOUS
  <2>2. \A y \in Int : (((now + 1) % Cycle) + y) % Cycle = (now + 1 + y) % Cycle
    BY <1>0, <2>1, RestOfSum, Zenon
  <2> QED BY <2>2, Zenon DEF Stamp
<1>2. ASSUME NEW y \in Int, Age(y) + 1 < Cycle PROVE Age(y)' = Age(y) + 1
  <2>1. (now' + -y) % Cycle = (now + 1 + -y) % Cycle
    BY <1>1
  <2>2. now' + -y = now' - y /\ now + 1 + -y = (now - y) + 1 /\ now - y \in Int /\ 1 \in Int
    BY <1>0 DEF Stamp
  <2>3. (now - y) % Cycle \in 0..Cycle - 1
    BY <1>0, <2>2, Division
  <2>4. ((now - y) % Cycle) + 1 \in 0..Cycle - 1
    BY <1>0, <1>2, <2>3 DEF Age
  <2>5. ((now - y) + 1) % Cycle = ((now - y) % Cycle) + 1
    BY <1>0, <2>2, <2>4, RestMoves, Zenon
  <2> QED BY <2>1, <2>2, <2>5 DEF Age
<1>3. ASSUME NEW x \in Int PROVE Stamp(now' - x) = Stamp(now - (x - 1))
  <2>1. (now' + -x) % Cycle = (now + 1 + -x) % Cycle
    BY <1>1
  <2>2. now' + -x = now' - x /\ now + 1 + -x = now - (x - 1)
    BY <1>0 DEF Stamp
  <2> QED BY <2>1, <2>2 DEF Stamp
<1>4. Into' = (now + 1) % Slot
  <2>0. now + 1 \in Int
    OBVIOUS
  <2>1. ((now + 1) % Cycle) % Slot = (now + 1) % Slot
    BY <1>0, <2>0, RestOfRest, Zenon
  <2> QED BY <2>1 DEF Into, Stamp
<1>5. Into \in 0..Slot - 1
  BY <1>0, Division DEF Into
<1>6. Into + 1 < Slot => Into' = Into + 1
  <2>1. ASSUME Into + 1 < Slot PROVE (now + 1) % Slot = Into + 1
    <3>1. (now % Slot) + 1 \in 0..Slot - 1 /\ 1 \in Int
      BY <1>0, <1>5, <2>1 DEF Into
    <3> QED BY <1>0, <3>1, RestMoves, Zenon DEF Into
  <2> QED BY <1>4, <2>1
<1>7. Into + 1 = Slot => Into' = 0
  <2>1. ASSUME Into + 1 = Slot PROVE (now + 1) % Slot = 0
    <3>0. 1 \in Int
      OBVIOUS
    <3>1. ((now % Slot) + 1) % Slot = (now + 1) % Slot
      BY <1>0, <3>0, RestOfSum, Zenon
    <3>2. Slot = 0 + Slot * 1 /\ (0 + Slot * 1) % Slot = 0 % Slot /\ 0 % Slot = 0
      BY <1>0, SameRest, SmallRest
    <3> QED BY <2>1, <3>1, <3>2 DEF Into
  <2> QED BY <1>4, <2>1
<1>8. ASSUME NEW x \in Int PROVE Stamp(now' - Into + x) = Stamp(now - Into + x + 1)
  <2>1. x - Into \in Int
    BY <1>5
  <2>2. (now' + (x - Into)) % Cycle = (now + 1 + (x - Into)) % Cycle
    BY <1>1, <2>1
  <2>3. now' \in Int
    BY <1>0, Division DEF Stamp
  <2>4. now' + (x - Into) = now' - Into + x /\ now + 1 + (x - Into) = now - Into + x + 1
    BY <1>5, <2>3
  <2> QED BY <2>2, <2>4 DEF Stamp
<1> QED BY <1>2, <1>3, <1>6, <1>7, <1>8

(* Every place of the ring holds a time or nothing.                        *)
LEMMA NthIs ==
    ASSUME RxTyped
    PROVE  /\ \A k \in Int : (pos - k) % Ring \in 0..Ring - 1
           /\ \A k \in Int : Nth(k) \in {None} \cup 0..Cycle - 1
<1>1. \A k \in Int : (pos - k) % Ring \in 0..Ring - 1
  <2>1. Ring \in Nat \ {0} /\ pos \in Int
    BY Sizes DEF RxTyped
  <2>2. \A x \in Int : x % Ring \in 0..Ring - 1
    BY <2>1, Division, Zenon
  <2>3. \A k \in Int : pos - k \in Int
    BY <2>1
  <2> QED BY <2>2, <2>3, Zenon
<1>2. \A i \in 0..Ring - 1 : ring[i] \in {None} \cup 0..Cycle - 1
  BY DEF RxTyped
<1> QED BY <1>1, <1>2, Zenon DEF Nth

(* What a moment is: the clock goes on, and the samples of the moment wait *)
(* for their block to be whole.                                            *)
Moment == /\ now' = Stamp(now + 1) /\ behind' = behind + 1 /\ behind < CaptureBlock
          /\ lost' = lost \ {Stamp(now - Remembered)}
          /\ UNCHANGED <<ring, pos, faults>>

(* In a moment the samples of the ring age together.                       *)
LEMMA RingAges ==
    ASSUME RxTyped, Dated, InOrder, Moment
    PROVE  Dated' /\ InOrder'
<1>0. /\ now \in Int /\ Cycle \in Nat /\ Ring \in Nat /\ Slot \in Nat \ {0}
      /\ CaptureBlock \in Nat /\ behind \in Nat
  BY Sizes DEF RxTyped
<1>1. Slack \in Nat /\ Slack' = Slack /\ Slack + CaptureBlock + Ring + Slot <= Cycle
  <2>1. faults \in 0..MaxFaults /\ faults' \in 0..MaxFaults
    BY DEF RxTyped, Moment
  <2>2. Slack' = Slack
    BY DEF Moment, Slack
  <2> QED BY <2>1, <2>2, SlackIs
<1>2. \A k \in 1..Ring : Nth(k)' = Nth(k)
  BY DEF Moment, Nth
<1>3. ASSUME NEW k \in 1..Ring, Nth(k) # None
      PROVE  Nth(k) \in Int /\ Age(Nth(k))' = Age(Nth(k)) + 1
  <2>1. Nth(k) \in 0..Cycle - 1
    BY <1>3, NthIs
  <2>2. Age(Nth(k)) \in behind + k..behind + k + Slack
    BY <1>3 DEF Dated
  <2>3. Age(Nth(k)) + 1 < Cycle
    BY <1>0, <1>1, <2>2 DEF Moment
  <2> DEFINE y == Nth(k)
  <2>4. y \in Int /\ Age(y) + 1 < Cycle
    BY <2>1, <2>3
  <2>5. y' = y
    BY <1>2
  <2>6. (Stamp(now + 1) - y) % Cycle = Age(y) + 1
    <3> HIDE DEF y
    <3>1. \A z \in Int : Age(z) + 1 < Cycle => (now' - z) % Cycle = Age(z) + 1
      BY <1>0, TimePasses DEF Moment, Age
    <3> QED BY <2>4, <3>1 DEF Moment
  <2>7. Age(y)' = (now' - y) % Cycle
    BY <2>5, Zenon DEF Age
  <2> QED BY <2>4, <2>6, <2>7 DEF Moment
<1>4. Dated'
  <2>1. ASSUME NEW k \in 1..Ring, Nth(k)' # None
        PROVE  Age(Nth(k))' \in behind' + k..behind' + k + Slack'
    <3>1. Nth(k) # None
      BY <1>2, <2>1
    <3>2. Age(Nth(k)) \in behind + k..behind + k + Slack
      BY <3>1 DEF Dated
    <3>3. Age(Nth(k))' = Age(Nth(k)) + 1
      BY <1>3, <3>1
    <3> QED BY <1>0, <1>1, <3>2, <3>3 DEF Moment
  <2> QED BY <2>1 DEF Dated
<1>5. InOrder'
  <2>1. ASSUME NEW k \in 1..Ring, NEW l \in 1..Ring, k < l,
               Nth(k)' # None, Nth(l)' # None
        PROVE  Age(Nth(k))' < Age(Nth(l))'
    <3>1. Nth(k) # None /\ Nth(l) # None
      BY <1>2, <2>1
    <3>2. Age(Nth(k)) < Age(Nth(l))
      BY <2>1, <3>1 DEF InOrder
    <3>3. Age(Nth(k)) \in Int /\ Age(Nth(l)) \in Int
      BY <1>0, <1>1, <3>1 DEF Dated
    <3>4. Age(Nth(k))' = Age(Nth(k)) + 1 /\ Age(Nth(l))' = Age(Nth(l)) + 1
      BY <1>3, <3>1
    <3> QED BY <3>2, <3>3, <3>4
  <2> QED BY <2>1 DEF InOrder
<1> QED BY <1>4, <1>5

(* In a moment, what was handed over stays, and is older by one.           *)
LEMMA MomentKeeps ==
    ASSUME RxTyped, NEW n \in Nat, Complete(n), n < Ring, Moment
    PROVE  \A x \in behind' + 1..n + 1 : Kept(x)'
<1>0. /\ now \in Int /\ Cycle \in Nat \ {0} /\ Ring \in Nat /\ CaptureBlock \in Nat \ {0}
      /\ behind \in Nat /\ MaxLate \in Nat /\ MaxDecode \in Nat
      /\ Cycle > Ring + CaptureBlock + MaxLate + MaxDecode
  BY Sizes DEF RxTyped
<1> SUFFICES ASSUME NEW x \in behind' + 1..n + 1 PROVE Kept(x)'
  OBVIOUS
<1>1. x - 1 \in behind + 1..n /\ x - 1 \in 0..Cycle - 1 /\ x \in Int /\ x - 1 < Ring
  BY <1>0 DEF Moment
<1>2. Kept(x - 1)
  BY <1>1 DEF Complete
<1>3. Stamp(now' - x) = Stamp(now - (x - 1))
  BY <1>0, <1>1, TimePasses DEF Moment
<1>4. Stamp(now - (x - 1)) # Stamp(now - Remembered)
  <2>1. Remembered \in 0..Cycle - 1 /\ Remembered # x - 1
    BY <1>0, <1>1 DEF Remembered
  <2>2. /\ Age(Stamp(now - (x - 1))) = x - 1
        /\ Age(Stamp(now - Remembered)) = Remembered
    BY <1>0, <1>1, <2>1, AgeAndStamp
  <2> QED BY <2>1, <2>2
<1>5. \A k \in 1..Ring : Nth(k)' = Nth(k)
  BY DEF Moment, Nth
<1>6. CASE Stamp(now - (x - 1)) \in lost
  BY <1>3, <1>4, <1>6 DEF Kept, Moment
<1>7. CASE \E k \in 1..Ring : Nth(k) = Stamp(now - (x - 1))
  <2>1. PICK k \in 1..Ring : Nth(k) = Stamp(now - (x - 1))
    BY <1>7
  <2>2. Nth(k)' = Stamp(now' - x)
    BY <1>3, <1>5, <2>1
  <2>3. \E j \in 1..Ring : Nth(j)' = Stamp(now' - x)
    BY <2>2
  <2> QED BY <2>3 DEF Kept
<1> QED BY <1>2, <1>6, <1>7 DEF Kept

(* The samples of a block, and a block that is written.                    *)
Fresh == [i \in 1..CaptureBlock |-> Stamp(now - CaptureBlock - 1 + i)]
Writes == ring' = Written(Fresh) /\ pos' = (pos + CaptureBlock) % Ring

(* A block that is written pushes the others on by its length.             *)
LEMMA RingTurns ==
    ASSUME RxTyped, Writes
    PROVE  /\ ring' \in [0..Ring - 1 -> {None} \cup 0..Cycle - 1] /\ pos' \in 0..Ring - 1
           /\ \A k \in 1..CaptureBlock : Nth(k)' = Stamp(now - k)
           /\ \A k \in CaptureBlock + 1..Ring : Nth(k)' = Nth(k - CaptureBlock)
<1>0. /\ now \in Int /\ Ring \in Nat \ {0} /\ CaptureBlock \in Nat \ {0} /\ pos \in 0..Ring - 1
      /\ CaptureBlock < Ring /\ Cycle \in Nat \ {0}
  BY Sizes DEF RxTyped
<1>1. /\ \A x \in Int : x % Ring \in 0..Ring - 1
      /\ \A x \in Int : x \in 0..Ring - 1 => x % Ring = x
      /\ \A x \in Int : x \in (-Ring)..(-1) => x % Ring = x + Ring
      /\ \A x, y \in Int : ((x % Ring) + y) % Ring = (x + y) % Ring
  <2>1. \A x \in Int : x % Ring \in 0..Ring - 1
    BY <1>0, Division, Zenon
  <2>2. \A x \in Int : x \in 0..Ring - 1 => x % Ring = x
    BY <1>0, SmallRest
  <2>3. \A x \in Int : x \in (-Ring)..(-1) => x % Ring = x + Ring
    BY <1>0, SmallRest
  <2>4. \A x, y \in Int : ((x % Ring) + y) % Ring = (x + y) % Ring
    BY <1>0, RestOfSum, Zenon
  <2> QED BY <2>1, <2>2, <2>3, <2>4, Zenon
<1>2. Len(Fresh) = CaptureBlock /\ DOMAIN Fresh = 1..CaptureBlock
  <2>1. Fresh \in [1..CaptureBlock -> 0..Cycle - 1]
    <3>1. \A i \in 1..CaptureBlock : Stamp(now - CaptureBlock - 1 + i) \in 0..Cycle - 1
      BY <1>0, AgeAndStamp
    <3> QED BY <3>1 DEF Fresh
  <2>2. Fresh \in Seq(0..Cycle - 1)
    BY <1>0, <2>1
  <2>3. DOMAIN Fresh = 1..CaptureBlock /\ DOMAIN Fresh = 1..Len(Fresh) /\ Len(Fresh) \in Nat
    BY <2>1, <2>2, LenProperties
  <2> QED BY <1>0, <2>3
<1>3. ring' = [i \in 0..Ring - 1 |-> IF (i - pos) % Ring < CaptureBlock
                                     THEN Fresh[((i - pos) % Ring) + 1] ELSE ring[i]]
  BY <1>2, Zenon DEF Writes, Written
<1>4. pos' = (pos + CaptureBlock) % Ring
  BY DEF Writes
<1>5. pos' \in 0..Ring - 1
  <2>1. pos + CaptureBlock \in Int
    BY <1>0
  <2> QED BY <1>1, <1>4, <2>1
<1>6. ASSUME NEW k \in 1..Ring
      PROVE  Nth(k)' = IF k <= CaptureBlock THEN Stamp(now - k) ELSE Nth(k - CaptureBlock)
  <2> DEFINE i == (pos + CaptureBlock - k) % Ring
  <2>1. (pos' - k) % Ring = i
    <3>1. pos + CaptureBlock \in Int /\ -k \in Int
      BY <1>0
    <3>2. (((pos + CaptureBlock) % Ring) + -k) % Ring = (pos + CaptureBlock + -k) % Ring
      BY <1>1, <3>1
    <3>3. pos' + -k = pos' - k /\ pos + CaptureBlock + -k = pos + CaptureBlock - k
      BY <1>0, <1>5
    <3> QED BY <1>4, <3>2, <3>3
  <2>2. i \in 0..Ring - 1
    <3>1. pos + CaptureBlock - k \in Int
      BY <1>0
    <3> QED BY <1>1, <3>1
  <2>3. (i - pos) % Ring = (CaptureBlock - k) % Ring
    <3>1. pos + CaptureBlock - k \in Int /\ -pos \in Int
      BY <1>0
    <3>2. (((pos + CaptureBlock - k) % Ring) + -pos) % Ring
             = (pos + CaptureBlock - k + -pos) % Ring
      BY <1>1, <3>1
    <3>3. i + -pos = i - pos /\ pos + CaptureBlock - k + -pos = CaptureBlock - k
      BY <1>0, <2>2
    <3> QED BY <3>2, <3>3
  <2>4. Nth(k)' = ring'[i]
    BY <2>1 DEF Nth
  <2> HIDE DEF i
  <2>5. ring'[i] = IF (i - pos) % Ring < CaptureBlock
                   THEN Fresh[((i - pos) % Ring) + 1] ELSE ring[i]
    BY <1>3, <2>2, Zenon
  <2>6. CASE k <= CaptureBlock
    <3>1. CaptureBlock - k \in 0..Ring - 1
      BY <1>0, <2>6
    <3>2. (i - pos) % Ring = CaptureBlock - k
      BY <1>1, <2>3, <3>1
    <3>3. Nth(k)' = Fresh[(CaptureBlock - k) + 1]
      BY <1>0, <2>4, <2>5, <3>2
    <3>4. (CaptureBlock - k) + 1 \in 1..CaptureBlock
      BY <1>0, <2>6
    <3>5. now - CaptureBlock - 1 + ((CaptureBlock - k) + 1) = now - k
      BY <1>0
    <3>6. Fresh[(CaptureBlock - k) + 1] = Stamp(now - k)
      BY <3>4, <3>5 DEF Fresh
    <3> QED BY <2>6, <3>3, <3>6
  <2>7. CASE ~(k <= CaptureBlock)
    <3>1. CaptureBlock - k \in (-Ring)..(-1) /\ CaptureBlock - k \in Int
      BY <1>0, <2>7
    <3>2. (i - pos) % Ring = CaptureBlock - k + Ring
      BY <1>1, <2>3, <3>1
    <3>3. Nth(k)' = ring[i]
      BY <1>0, <2>4, <2>5, <3>2
    <3>4. pos - (k - CaptureBlock) = pos + CaptureBlock - k
      BY <1>0
    <3>5. ring[i] = Nth(k - CaptureBlock)
      BY <3>4 DEF Nth, i
    <3> QED BY <2>7, <3>3, <3>5
  <2> QED BY <2>6, <2>7
<1>7. ring' \in [0..Ring - 1 -> {None} \cup 0..Cycle - 1]
  <2>1. ASSUME NEW i \in 0..Ring - 1 PROVE ring'[i] \in {None} \cup 0..Cycle - 1
    <3>1. ring[i] \in {None} \cup 0..Cycle - 1
      BY <2>1 DEF RxTyped
    <3>2. i - pos \in Int
      BY <1>0
    <3>3. (i - pos) % Ring \in 0..Ring - 1
      BY <1>1, <3>2
    <3> DEFINE o == (i - pos) % Ring
    <3>4. o < CaptureBlock => o + 1 \in 1..CaptureBlock
      BY <1>0, <3>3
    <3> HIDE DEF o
    <3>5. o < CaptureBlock => Fresh[o + 1] \in 0..Cycle - 1
      <4>1. ASSUME o < CaptureBlock PROVE Fresh[o + 1] \in 0..Cycle - 1
        <5>1. o + 1 \in 1..CaptureBlock
          BY <3>4, <4>1
        <5>2. now - CaptureBlock - 1 + (o + 1) \in Int
          BY <1>0, <5>1
        <5> QED BY <1>0, <5>1, <5>2, AgeAndStamp DEF Fresh
      <4> QED BY <4>1
    <3>6. ring'[i] = IF o < CaptureBlock THEN Fresh[o + 1] ELSE ring[i]
      BY <1>3, Zenon DEF o
    <3> QED BY <3>1, <3>5, <3>6
  <2>2. ring' = [i \in 0..Ring - 1 |-> ring'[i]]
    BY <1>3
  <2> QED BY <2>1, <2>2
<1>8. \A k \in 1..CaptureBlock : k \in 1..Ring /\ k <= CaptureBlock
  BY <1>0
<1>9. \A k \in CaptureBlock + 1..Ring : k \in 1..Ring /\ ~(k <= CaptureBlock)
  BY <1>0
<1> QED BY <1>5, <1>6, <1>7, <1>8, <1>9

(* A block that is handed over, or dropped: what the ring holds stays in   *)
(* order, and what is asked for is there or known to be lost.              *)
LEMMA CaptureKeepsRing ==
    ASSUME RxTyped, Capture, Dated, InOrder
    PROVE  /\ Dated' /\ InOrder'
           /\ \A n \in Nat : n <= Ring /\ Complete(n) =>
                 \A x \in behind' + 1..n : Kept(x)'
<1>0. /\ now \in Int /\ Cycle \in Nat \ {0} /\ Ring \in Nat \ {0} /\ Slot \in Nat \ {0}
      /\ CaptureBlock \in Nat \ {0} /\ behind = CaptureBlock /\ behind' = 0
      /\ CaptureBlock < Ring /\ now' = now /\ faults \in 0..MaxFaults /\ Ring < Cycle
      /\ MaxFaults \in Nat
  BY Sizes DEF RxTyped, Capture
<1>1. \A y : Age(y)' = (now - y') % Cycle
  BY <1>0, Zenon DEF Age
<1>2. \A k \in 1..Ring : Nth(k) # None => Age(Nth(k)) \in CaptureBlock + k..CaptureBlock + k + Slack
  BY <1>0 DEF Dated
<1>3. CASE Writes /\ UNCHANGED <<lost, faults>>
  <2>1. Slack' = Slack /\ Slack \in Nat
    <3>1. faults' \in 0..MaxFaults
      BY <1>0, <1>3
    <3>2. Slack' = Slack
      BY <1>3 DEF Slack
    <3> QED BY <1>0, <3>1, <3>2, SlackIs
  <2>2. /\ \A k \in 1..CaptureBlock : Nth(k)' = Stamp(now - k)
        /\ \A k \in CaptureBlock + 1..Ring : Nth(k)' = Nth(k - CaptureBlock)
    BY <1>3, RingTurns
  <2>3. ASSUME NEW k \in 1..CaptureBlock
        PROVE  Nth(k)' # None /\ Age(Nth(k))' = k
    <3>1. k \in 0..Cycle - 1 /\ now - k \in Int
      BY <1>0
    <3>2. Stamp(now - k) \in 0..Cycle - 1 /\ Age(Stamp(now - k)) = k
      BY <1>0, <3>1, AgeAndStamp
    <3>3. Age(Nth(k))' = (now - Nth(k)') % Cycle
      BY <1>0, Zenon DEF Age
    <3> QED BY <1>0, <2>2, <3>2, <3>3 DEF None, Age
  <2>4. ASSUME NEW k \in CaptureBlock + 1..Ring, Nth(k)' # None
        PROVE  /\ k - CaptureBlock \in 1..Ring /\ Nth(k - CaptureBlock) # None
               /\ Age(Nth(k))' = Age(Nth(k - CaptureBlock))
               /\ Age(Nth(k))' \in k..k + Slack
    <3>1. k - CaptureBlock \in 1..Ring
      BY <1>0
    <3>2. Nth(k)' = Nth(k - CaptureBlock)
      BY <2>2
    <3>3. Age(Nth(k))' = (now - Nth(k)') % Cycle
      BY <1>0, Zenon DEF Age
    <3>4. Age(Nth(k))' = Age(Nth(k - CaptureBlock))
      BY <3>2, <3>3 DEF Age
    <3>5. Age(Nth(k - CaptureBlock))
             \in CaptureBlock + (k - CaptureBlock)..CaptureBlock + (k - CaptureBlock) + Slack
      BY <1>2, <2>4, <3>1, <3>2
    <3>6. CaptureBlock + (k - CaptureBlock) = k
      BY <1>0
    <3> QED BY <2>4, <3>1, <3>2, <3>4, <3>5, <3>6
  <2>5. Dated'
    <3>1. ASSUME NEW k \in 1..Ring, Nth(k)' # None
          PROVE  Age(Nth(k))' \in behind' + k..behind' + k + Slack'
      <4>1. CASE k <= CaptureBlock
        BY <1>0, <2>1, <2>3, <4>1
      <4>2. CASE ~(k <= CaptureBlock)
        BY <1>0, <2>1, <2>4, <3>1, <4>2
      <4> QED BY <4>1, <4>2
    <3> QED BY <3>1 DEF Dated
  <2>6. InOrder'
    <3>1. ASSUME NEW k \in 1..Ring, NEW l \in 1..Ring, k < l,
                 Nth(k)' # None, Nth(l)' # None
          PROVE  Age(Nth(k))' < Age(Nth(l))'
      <4>1. CASE l <= CaptureBlock
        BY <1>0, <2>3, <3>1, <4>1
      <4>2. CASE k <= CaptureBlock /\ ~(l <= CaptureBlock)
        <5>1. Age(Nth(k))' = k
          BY <2>3, <4>2
        <5>2. Age(Nth(l))' \in l..l + Slack
          BY <1>0, <2>4, <3>1, <4>2
        <5> QED BY <2>1, <3>1, <5>1, <5>2
      <4>3. CASE ~(k <= CaptureBlock)
        <5>1. k \in CaptureBlock + 1..Ring /\ l \in CaptureBlock + 1..Ring
          BY <1>0, <3>1, <4>3
        <5>2. /\ Nth(k - CaptureBlock) # None /\ Nth(l - CaptureBlock) # None
              /\ k - CaptureBlock \in 1..Ring /\ l - CaptureBlock \in 1..Ring
              /\ Age(Nth(k))' = Age(Nth(k - CaptureBlock))
              /\ Age(Nth(l))' = Age(Nth(l - CaptureBlock))
          BY <2>4, <3>1, <5>1
        <5>3. k - CaptureBlock < l - CaptureBlock
          BY <1>0, <3>1
        <5> QED BY <5>2, <5>3 DEF InOrder
      <4> QED BY <4>1, <4>2, <4>3
    <3> QED BY <3>1 DEF InOrder
  <2>7. ASSUME NEW n \in Nat, n <= Ring, Complete(n), NEW x \in 1..n
        PROVE  Kept(x)'
    <3>1. x \in 1..Ring /\ x \in 0..Cycle - 1
      BY <1>0, <2>7
    <3>2. ASSUME NEW j \in 1..Ring, Nth(j)' = Stamp(now - x) PROVE Kept(x)'
      <4>1. \E k \in 1..Ring : Nth(k)' = Stamp(now' - x)
        BY <1>0, <3>2
      <4> QED BY <4>1 DEF Kept
    <3>3. CASE x <= CaptureBlock
      BY <2>2, <3>1, <3>2, <3>3
    <3>4. CASE ~(x <= CaptureBlock)
      <4>1. Kept(x)
        BY <1>0, <2>7, <3>4 DEF Complete
      <4>2. CASE Stamp(now - x) \in lost
        BY <1>0, <1>3, <4>2 DEF Kept
      <4>3. CASE \E k \in 1..Ring : Nth(k) = Stamp(now - x)
        <5>1. PICK k \in 1..Ring : Nth(k) = Stamp(now - x)
          BY <4>3
        <5>2. Stamp(now - x) \in 0..Cycle - 1 /\ Age(Stamp(now - x)) = x
          BY <1>0, <3>1, AgeAndStamp
        <5>3. x \in CaptureBlock + k..CaptureBlock + k + Slack
          BY <1>2, <5>1, <5>2 DEF None
        <5>4. /\ k + CaptureBlock \in CaptureBlock + 1..Ring /\ k + CaptureBlock \in 1..Ring
              /\ (k + CaptureBlock) - CaptureBlock = k
          BY <1>0, <2>1, <3>1, <5>3
        <5>5. Nth(k + CaptureBlock)' = Stamp(now - x)
          BY <2>2, <5>1, <5>4
        <5> QED BY <3>2, <5>4, <5>5
      <4> QED BY <4>1, <4>2, <4>3 DEF Kept
    <3> QED BY <3>3, <3>4
  <2> QED BY <1>0, <2>5, <2>6, <2>7
<1>4. CASE /\ faults' = faults + 1 /\ faults < MaxFaults /\ UNCHANGED <<ring, pos>>
           /\ lost' = lost \union {Fresh[i] : i \in 1..CaptureBlock}
  <2>1. Slack' = Slack + CaptureBlock /\ Slack \in Nat
    <3>1. faults' \in 0..MaxFaults
      BY <1>0, <1>4
    <3> QED BY <1>0, <1>4, <3>1, SlackIs
  <2>2. \A k \in Int : Nth(k)' = Nth(k) /\ Age(Nth(k))' = Age(Nth(k))
    BY <1>0, <1>4, Zenon DEF Nth, Age
  <2>3. Dated'
    <3>1. ASSUME NEW k \in 1..Ring, Nth(k)' # None
          PROVE  Age(Nth(k))' \in behind' + k..behind' + k + Slack'
      <4>1. Age(Nth(k)) \in CaptureBlock + k..CaptureBlock + k + Slack
        BY <1>2, <2>2, <3>1
      <4> QED BY <1>0, <2>1, <2>2, <4>1
    <3> QED BY <3>1 DEF Dated
  <2>4. InOrder'
    BY <2>2 DEF InOrder
  <2>5. ASSUME NEW n \in Nat, n <= Ring, Complete(n), NEW x \in 1..n
        PROVE  Kept(x)'
    <3>1. CASE x <= CaptureBlock
      <4>1. CaptureBlock + 1 - x \in 1..CaptureBlock
        BY <1>0, <3>1
      <4>2. now - CaptureBlock - 1 + (CaptureBlock + 1 - x) = now - x
        BY <1>0
      <4>3. Fresh[CaptureBlock + 1 - x] = Stamp(now - x)
        BY <4>1, <4>2 DEF Fresh
      <4>4. Stamp(now' - x) \in lost'
        BY <1>0, <1>4, <4>1, <4>3
      <4> QED BY <4>4 DEF Kept
    <3>2. CASE ~(x <= CaptureBlock)
      <4>1. Kept(x)
        BY <1>0, <2>5, <3>2 DEF Complete
      <4>2. CASE Stamp(now - x) \in lost
        BY <1>0, <1>4, <4>2 DEF Kept
      <4>3. CASE \E k \in 1..Ring : Nth(k) = Stamp(now - x)
        <5>1. \E k \in 1..Ring : Nth(k)' = Stamp(now' - x)
          BY <1>0, <2>2, <4>3
        <5> QED BY <5>1 DEF Kept
      <4> QED BY <4>1, <4>2, <4>3 DEF Kept
    <3> QED BY <3>1, <3>2
  <2> QED BY <1>0, <2>3, <2>4, <2>5
<1> QED BY <1>3, <1>4, Zenon DEF Capture, Writes, Fresh, Fault

(* What was heard of a slot stays heard as long as no lost sample is       *)
(* forgotten that the slot has.                                            *)
LEMMA HeardStays ==
    ASSUME SlotIsHeard, UNCHANGED <<dpc, snap, nutc, last>>, spent' >= spent,
           spent \in Nat, spent' \in Nat,
           dpc = "decode" => lost \cap SlotOf(last) \subseteq lost'
    PROVE  SlotIsHeard'
<1> SUFFICES ASSUME dpc' = "decode"
             PROVE  /\ SlotOf(last') \ lost' \subseteq Heard'
                    /\ \A i, j \in 1..Ring :
                          i < j /\ snap'[j] \in SlotOf(last') /\ snap'[i] # None =>
                             (snap'[j] - snap'[i]) % Cycle \in 1..Cycle - Slot
                    /\ spent' + Lag < Second /\ last' % Day # Day - Slot =>
                          nutc' = last' % Day
  BY DEF SlotIsHeard, SlotOf, Stamp
<1>1. Heard' = Heard
  BY DEF Heard
<1>2. /\ SlotOf(last) \ lost \subseteq Heard
      /\ \A i, j \in 1..Ring : i < j /\ snap[j] \in SlotOf(last) /\ snap[i] # None =>
            (snap[j] - snap[i]) % Cycle \in 1..Cycle - Slot
      /\ spent + Lag < Second /\ last % Day # Day - Slot => nutc = last % Day
  BY DEF SlotIsHeard
<1>3. SlotOf(last') \ lost' \subseteq Heard'
  BY <1>1, <1>2
<1>4. spent' + Lag < Second => spent + Lag < Second
  <2>1. Lag \in Nat /\ Second \in Nat
    BY Sizes
  <2>2. \A a, b, c, d \in Nat : a >= b /\ a + c < d => b + c < d
    OBVIOUS
  <2> QED BY <2>1, <2>2, Zenon
<1> HIDE DEF Heard
<1> QED BY <1>2, <1>3, <1>4

(* A block handed over leaves the invariant true.                          *)
LEMMA CaptureHeard == HearInv /\ Capture => HearInv'
<1> SUFFICES ASSUME HearInv, Capture PROVE HearInv'
  OBVIOUS
<1>0. RxTyped /\ Heeded /\ Asleep /\ Aged /\ Planned /\ SlotIsHeard
  BY DEF HearInv
<1>1. /\ UNCHANGED <<now, dpc, wake, spent, snap, nutc, last, main>> /\ lost \subseteq lost'
      /\ behind' = 0 /\ faults' \in 0..MaxFaults
  <2>1. UNCHANGED <<now, dpc, wake, spent, snap, nutc, last, main>> /\ behind' = 0
    BY DEF Capture, rxVars
  <2>2. lost \subseteq lost' /\ faults' \in 0..MaxFaults
    BY <1>0, Sizes DEF Capture, Fault, RxTyped
  <2> QED BY <2>1, <2>2
<1>2. /\ Into \in 0..Slot - 1 /\ Slot \in Nat /\ Ring \in Nat /\ Lag \in Nat /\ MaxLate \in Nat
      /\ Slot + Lag + MaxLate <= Ring /\ CaptureBlock \in Nat
  <2>1. now \in Int
    BY <1>0 DEF RxTyped
  <2> QED BY <2>1, Sizes, Division DEF Into
<1>3. RxTyped'
  <2>1. ring' \in [0..Ring - 1 -> {None} \cup 0..Cycle - 1] /\ pos' \in 0..Ring - 1
    <3>1. CASE Writes
      BY <1>0, <3>1, RingTurns
    <3>2. CASE UNCHANGED <<ring, pos>>
      BY <1>0, <3>2 DEF RxTyped
    <3> QED BY <3>1, <3>2, Zenon DEF Capture, Writes, Fresh
  <2> QED BY <1>0, <1>1, <1>2, <2>1 DEF RxTyped
<1>4. Listening' = Listening /\ Into' = Into
  BY <1>1 DEF Listening, Into
<1>5. Heeded'
  <2>1. ASSUME Listening PROVE Dated' /\ InOrder' /\ Complete(Into)'
    <3>1. Dated /\ InOrder /\ Complete(Into)
      BY <1>0, <2>1 DEF Heeded
    <3>2. Dated' /\ InOrder'
      BY <1>0, <3>1, CaptureKeepsRing
    <3>3. \A x \in behind' + 1..Into : Kept(x)'
      BY <1>0, <1>2, <3>1, CaptureKeepsRing
    <3> QED BY <1>4, <3>2, <3>3 DEF Complete
  <2> QED BY <1>4, <2>1 DEF Heeded
<1>6. Asleep'
  <2>1. ASSUME dpc = "sleep", Ahead PROVE Asleep'
    BY <1>1, <2>1 DEF Asleep, Ahead, Into
  <2>2. ASSUME dpc = "sleep", Due, Listening => Complete(Into + Slot) PROVE Asleep'
    <3>1. Due'
      BY <1>1, <2>2 DEF Due, Into
    <3>2. ASSUME Listening PROVE Complete(Into + Slot)'
      <4>1. Dated /\ InOrder
        BY <1>0, <3>2 DEF Heeded
      <4>2. Into + Slot \in Nat /\ Into + Slot <= Ring
        BY <1>2, <2>2 DEF Due
      <4>3. \A x \in behind' + 1..Into + Slot : Kept(x)'
        BY <1>0, <2>2, <3>2, <4>1, <4>2, CaptureKeepsRing
      <4> QED BY <1>4, <4>3 DEF Complete
    <3> QED BY <1>4, <3>1, <3>2 DEF Asleep
  <2>3. ASSUME dpc # "sleep" PROVE Asleep'
    BY <1>1, <2>3 DEF Asleep
  <2> QED BY <1>0, <2>1, <2>2, <2>3 DEF Asleep
<1>7. Aged' /\ Planned'
  <2>1. Aged'
    BY <1>0, <1>1, Zenon DEF Aged, Age
  <2>2. Planned'
    BY <1>0, <1>1, Zenon DEF Planned, Stamp, Whole
  <2> QED BY <2>1, <2>2
<1>8. SlotIsHeard'
  BY <1>0, <1>1, <1>2, HeardStays DEF RxTyped
<1> QED BY <1>3, <1>5, <1>6, <1>7, <1>8 DEF HearInv

(* A moment in which the thread sleeps.                                    *)
LEMMA SleepGoesOn ==
    ASSUME HearInv, Tick, dpc = "sleep"
    PROVE  Asleep'
<1>0. RxTyped /\ Heeded /\ Asleep
  BY DEF HearInv
<1>1. /\ now' = Stamp(now + 1) /\ now \in Int /\ wake' = wake /\ dpc' = dpc /\ main' = main
      /\ (now - wake) % Cycle # MaxLate
      /\ Listening' = Listening /\ (Listening => Moment)
  BY <1>0 DEF RxTyped, Tick, Listening, Moment
<1>2. /\ Into \in 0..Slot - 1 /\ Slot \in Nat \ {0} /\ Ring \in Nat /\ Lag \in Nat
      /\ MaxLate \in Nat /\ Slot + Lag + MaxLate <= Ring /\ Lag + MaxLate < Slot
      /\ MaxLate \in 0..Cycle - 1
  <2>1. Into \in 0..Slot - 1
    BY <1>1, Sizes, Division DEF Into
  <2> QED BY <2>1, Sizes
<1>3. \A x \in Int : Stamp(now' - Into + x) = Stamp(now - Into + x + 1)
  BY <1>1, TimePasses
<1>4. now' \in Int
  BY <1>1, AgeAndStamp
<1>5. ASSUME Into + 1 < Slot
      PROVE  \A x \in Int : Stamp(now' - Into' + x) = Stamp(now - Into + x)
  <2>1. Into' = Into + 1
    BY <1>1, <1>5, TimePasses
  <2> SUFFICES ASSUME NEW x \in Int PROVE Stamp(now' - Into' + x) = Stamp(now - Into + x)
    OBVIOUS
  <2>2. Stamp(now' - Into + (x - 1)) = Stamp(now - Into + (x - 1) + 1)
    BY <1>3
  <2>3. now' - Into + (x - 1) = now' - Into' + x /\ now - Into + (x - 1) + 1 = now - Into + x
    BY <1>1, <1>2, <1>4, <2>1
  <2> QED BY <2>2, <2>3
<1>6. CASE Ahead /\ Into + 1 < Slot
  <2>1. now' - Into' + (Slot + Lag) = now' - Into' + Slot + Lag
    BY <1>2, <1>4, <1>6, <1>1, TimePasses
  <2>2. now - Into + (Slot + Lag) = now - Into + Slot + Lag
    BY <1>1, <1>2
  <2>3. Slot + Lag \in Int
    BY <1>2
  <2>4. Stamp(now' - Into' + (Slot + Lag)) = Stamp(now - Into + (Slot + Lag))
    BY <1>5, <1>6, <2>3
  <2>5. Ahead'
    BY <1>1, <1>6, <2>1, <2>2, <2>4 DEF Ahead
  <2> QED BY <2>5 DEF Asleep
<1>7. CASE Ahead /\ Into + 1 = Slot
  <2>1. Into' = 0
    BY <1>1, <1>7, TimePasses
  <2>2. Stamp(now' - Into + (Into + Lag)) = Stamp(now - Into + (Into + Lag) + 1)
    <3>1. Into + Lag \in Int
      BY <1>2
    <3> QED BY <1>3, <3>1
  <2>3. /\ now' - Into + (Into + Lag) = now' - 0 + Lag
        /\ now - Into + (Into + Lag) + 1 = now - Into + Slot + Lag
    BY <1>1, <1>2, <1>4, <1>7
  <2>4. Due'
    BY <1>1, <1>2, <1>7, <2>1, <2>2, <2>3 DEF Due, Ahead
  <2>5. ASSUME Listening PROVE Complete(Into + Slot)'
    <3>1. Complete(Into) /\ Into \in Nat /\ Into < Ring
      BY <1>0, <1>2, <2>5 DEF Heeded
    <3>2. \A x \in behind' + 1..Into + 1 : Kept(x)'
      BY <1>0, <1>1, <2>5, <3>1, MomentKeeps
    <3>3. (Into + Slot)' = Into + 1
      BY <1>2, <1>7, <2>1
    <3> QED BY <3>2, <3>3 DEF Complete
  <2> QED BY <1>1, <2>4, <2>5 DEF Asleep
<1>8. CASE Due /\ (Listening => Complete(Into + Slot))
  <2>1. Into # Lag + MaxLate
    <3> SUFFICES ASSUME Into = Lag + MaxLate PROVE FALSE
      OBVIOUS
    <3>1. now - Into + Lag = now - MaxLate
      BY <1>1, <1>2
    <3>2. wake = Stamp(now - MaxLate)
      BY <1>8, <3>1 DEF Due
    <3>3. Age(wake) = MaxLate
      BY <1>1, <1>2, <3>2, AgeAndStamp
    <3> QED BY <1>1, <3>3 DEF Age
  <2>2. Into + 1 < Slot /\ Into + 1 <= Lag + MaxLate
    BY <1>2, <1>8, <2>1 DEF Due
  <2>3. Into' = Into + 1
    BY <1>1, <2>2, TimePasses
  <2>4. Due'
    <3>1. Stamp(now' - Into' + Lag) = Stamp(now - Into + Lag)
      BY <1>2, <1>5, <2>2
    <3> QED BY <1>1, <1>8, <2>2, <2>3, <3>1 DEF Due
  <2>5. ASSUME Listening PROVE Complete(Into + Slot)'
    <3>1. Complete(Into + Slot) /\ Into + Slot \in Nat /\ Into + Slot < Ring
      BY <1>2, <1>8, <2>2, <2>5
    <3>2. \A x \in behind' + 1..Into + Slot + 1 : Kept(x)'
      BY <1>0, <1>1, <2>5, <3>1, MomentKeeps
    <3>3. (Into + Slot)' = Into + Slot + 1
      BY <1>2, <2>3
    <3> QED BY <3>2, <3>3 DEF Complete
  <2> QED BY <1>1, <2>4, <2>5 DEF Asleep
<1>9. Into + 1 < Slot \/ Into + 1 = Slot
  BY <1>2
<1> QED BY <1>0, <1>6, <1>7, <1>8, <1>9 DEF Asleep

(* The slot a decode is about: how old its samples are.                    *)
LEMMA SlotSamples ==
    ASSUME now \in Int, NEW b \in Int, NEW n \in Nat, Age(b) = n, Slot <= n, n < Cycle,
           NEW z \in SlotOf(b)
    PROVE  Age(z) \in n - Slot + 1..n /\ z \in 0..Cycle - 1
<1>0. Cycle \in Nat \ {0} /\ Slot \in Nat \ {0}
  BY Sizes
<1>1. PICK i \in 0..Slot - 1 : z = Stamp(b + i)
  BY DEF SlotOf
<1>2. b + i \in Int /\ now - b \in Int /\ -i \in Int
  BY <1>0
<1>3. Age(z) = (now - (b + i)) % Cycle
  <2>1. (now - ((b + i) % Cycle)) % Cycle = (now - (b + i)) % Cycle
    BY <1>0, <1>2, RestOfSum, Zenon
  <2> QED BY <1>1, <2>1 DEF Age, Stamp
<1>4. ((now - b) % Cycle) + -i \in 0..Cycle - 1 /\ n + -i \in n - Slot + 1..n
  BY <1>0 DEF Age
<1>5. ((now - b) + -i) % Cycle = ((now - b) % Cycle) + -i
  BY <1>0, <1>2, <1>4, RestMoves, Zenon
<1>6. (now - b) + -i = now - (b + i)
  BY <1>0
<1>7. Age(z) = n + -i
  BY <1>3, <1>5, <1>6 DEF Age
<1>8. z \in 0..Cycle - 1
  BY <1>1, <1>2, AgeAndStamp
<1> QED BY <1>4, <1>7, <1>8

(* A moment passes.                                                        *)
LEMMA TickHeard == HearInv /\ Tick => HearInv'
<1> SUFFICES ASSUME HearInv, Tick PROVE HearInv'
  OBVIOUS
<1>0. RxTyped /\ Heeded /\ Asleep /\ Aged /\ Planned /\ SlotIsHeard
  BY DEF HearInv
<1>1. /\ now' = Stamp(now + 1) /\ now \in Int /\ UNCHANGED <<dpc, wake, snap, nutc, last>>
      /\ UNCHANGED <<main, faults, ring, pos>>
      /\ dpc # "plan" /\ lost' = lost \ {Stamp(now - Remembered)}
      /\ Listening' = Listening /\ (Listening => Moment)
  BY <1>0 DEF RxTyped, Tick, Listening, Moment
<1>2. /\ Into \in 0..Slot - 1 /\ Slot \in Nat \ {0} /\ Ring \in Nat /\ Lag \in Nat
      /\ MaxLate \in Nat /\ Slot + Lag + MaxLate <= Ring /\ MaxDecode \in Nat
      /\ CaptureBlock \in Nat \ {0} /\ Cycle \in Nat
      /\ Cycle > Ring + CaptureBlock + MaxLate + MaxDecode
  BY <1>1, Sizes, Division DEF Into
<1>3. /\ dpc = "decode" => spent < MaxDecode /\ spent' = spent + 1
      /\ dpc # "decode" => spent' = spent
      /\ spent \in Nat /\ spent <= MaxLate + MaxDecode
  BY <1>0, <1>2 DEF RxTyped, Tick
<1>4. RxTyped'
  <2>1. behind' \in 0..CaptureBlock
    BY <1>0, <1>2 DEF Tick, RxTyped
  <2>2. now' \in 0..Cycle - 1
    BY <1>1, AgeAndStamp
  <2>3. spent' \in 0..MaxLate + MaxDecode
    BY <1>2, <1>3
  <2> QED BY <1>0, <1>1, <2>1, <2>2, <2>3 DEF RxTyped
<1>5. Heeded'
  <2>1. ASSUME Listening PROVE Dated' /\ InOrder' /\ Complete(Into)'
    <3>1. Dated /\ InOrder /\ Complete(Into) /\ Moment
      BY <1>0, <1>1, <2>1 DEF Heeded
    <3>2. Dated' /\ InOrder'
      BY <1>0, <3>1, RingAges
    <3>3. CASE Into + 1 < Slot
      <4>1. Into' = Into + 1
        BY <1>1, <3>3, TimePasses
      <4>2. \A x \in behind' + 1..Into + 1 : Kept(x)'
        <5>1. Into \in Nat /\ Into < Ring
          BY <1>2
        <5> QED BY <1>0, <3>1, <5>1, MomentKeeps
      <4> QED BY <3>2, <4>1, <4>2 DEF Complete
    <3>4. CASE Into + 1 = Slot
      <4>1. Into' = 0
        BY <1>1, <3>4, TimePasses
      <4>2. behind' \in Nat
        BY <1>4 DEF RxTyped
      <4>3. behind' + 1..0 = {}
        <5>1. \A b \in Nat : b + 1..0 = {}
          OBVIOUS
        <5> QED BY <4>2, <5>1, Zenon
      <4> QED BY <3>2, <4>1, <4>3 DEF Complete
    <3>5. Into + 1 < Slot \/ Into + 1 = Slot
      BY <1>2
    <3> QED BY <3>3, <3>4, <3>5
  <2> QED BY <1>1, <2>1 DEF Heeded
<1>6. Asleep'
  <2>1. CASE dpc = "sleep"
    BY <2>1, SleepGoesOn
  <2>2. CASE dpc # "sleep"
    BY <1>1, <2>2 DEF Asleep
  <2> QED BY <2>1, <2>2
<1>7. Aged'
  <2> SUFFICES ASSUME dpc = "decode" PROVE Aged'
    BY <1>1 DEF Aged
  <2>1. last # None /\ last % Slot = 0 /\ Age(last) = Slot + Lag + spent /\ last \in Int
    BY <1>0 DEF Aged, RxTyped, None
  <2>2. Age(last) + 1 < Cycle
    BY <1>2, <1>3, <2>1
  <2>3. \A z \in Int : Age(z) + 1 < Cycle => (now' - z) % Cycle = Age(z) + 1
    BY <1>1, TimePasses DEF Age
  <2>4. Age(last)' = (now' - last) % Cycle
    BY <1>1, Zenon DEF Age
  <2>5. Age(last)' = Slot + Lag + spent'
    BY <1>2, <1>3, <2>1, <2>2, <2>3, <2>4
  <2> QED BY <1>1, <2>1, <2>5 DEF Aged
<1>8. Planned'
  <2>1. CASE dpc = "sleep"
    <3>1. spent' = spent
      BY <1>3, <2>1
    <3> QED BY <1>0, <1>1, <3>1, Zenon DEF Planned, Stamp, Whole
  <2>2. CASE dpc # "sleep"
    BY <1>1, <2>2 DEF Planned
  <2> QED BY <2>1, <2>2
<1>9. SlotIsHeard'
  <2>1. ASSUME dpc = "decode" PROVE Stamp(now - Remembered) \notin SlotOf(last)
    <3>1. last \in Int /\ Age(last) = Slot + Lag + spent
      BY <1>0, <2>1 DEF Aged, RxTyped, None
    <3>2. /\ Slot + Lag + spent \in Nat /\ Slot <= Slot + Lag + spent
          /\ Slot + Lag + spent < Cycle /\ Slot + Lag + spent < Remembered
          /\ Remembered \in 0..Cycle - 1
      BY <1>2, <1>3, <2>1 DEF Remembered
    <3>3. Age(Stamp(now - Remembered)) = Remembered
      BY <1>1, <3>2, AgeAndStamp
    <3> DEFINE n == Slot + Lag + spent
    <3>4. n \in Nat /\ Age(last) = n /\ Slot <= n /\ n < Cycle /\ ~(Remembered <= n)
      BY <3>1, <3>2
    <3> HIDE DEF n
    <3>5. \A z \in SlotOf(last) : Age(z) \in n - Slot + 1..n
      BY <1>1, <3>1, <3>4, SlotSamples
    <3>6. \A y \in n - Slot + 1..n : y <= n
      BY <1>2, <3>4
    <3> QED BY <3>3, <3>4, <3>5, <3>6
  <2>2. dpc = "decode" => lost \cap SlotOf(last) \subseteq lost'
    BY <1>1, <2>1
  <2>3. spent' >= spent /\ spent' \in Nat
    BY <1>3
  <2> QED BY <1>0, <1>1, <1>3, <2>2, <2>3, HeardStays
<1> QED BY <1>4, <1>5, <1>6, <1>7, <1>8, <1>9 DEF HearInv

(* The thread plans: the slot that passes is the one it will sleep for.    *)
LEMMA PlanHeard == HearInv /\ Plan => HearInv'
<1> SUFFICES ASSUME HearInv, Plan PROVE HearInv'
  OBVIOUS
<1>0. RxTyped /\ Heeded /\ Aged
  BY DEF HearInv
<1>1. /\ UNCHANGED <<now, ring, pos, behind, lost, spent, snap, nutc, last, main, faults>>
      /\ dpc = "plan" /\ dpc' \in {"gone", "sleep"} /\ wake' = Stamp(WakeTime)
  BY DEF Plan, ringVars
<1>2. /\ Into \in 0..Slot - 1 /\ Slot \in Nat \ {0} /\ Lag \in Nat /\ Cycle \in Nat \ {0}
      /\ now \in Int /\ spent \in Nat /\ Cycle % Slot = 0
  <2>1. now \in Int
    BY <1>0 DEF RxTyped
  <2>2. Into \in 0..Slot - 1
    BY <2>1, Sizes, Division DEF Into
  <2>3. MaxLate \in Nat /\ MaxDecode \in Nat
    BY Sizes
  <2>4. spent \in Nat
    BY <1>0, <2>3 DEF RxTyped
  <2> QED BY <2>1, <2>2, <2>4, Sizes
<1>3. WakeTime = now - Into + Slot + Lag
  BY <1>2 DEF WakeTime, Into
<1>4. RxTyped'
  <2>1. wake' \in 0..Cycle - 1
    BY <1>1, <1>2, <1>3, AgeAndStamp
  <2> QED BY <1>0, <1>1, <2>1 DEF RxTyped
<1>5. Heeded'
  BY <1>0, <1>1, Zenon DEF Heeded, Listening, Dated, InOrder, Complete, Kept, Nth, Age, Into,
     Slack, Stamp
<1>6. Asleep'
  BY <1>1, <1>3 DEF Asleep, Ahead, Into
<1>7. Aged' /\ SlotIsHeard'
  BY <1>1 DEF Aged, SlotIsHeard
<1>8. ASSUME last # None
      PROVE  last % Slot = 0 /\ wake' = Stamp(last + Slot + Whole(Lag + spent) + Slot + Lag)
  <2> DEFINE t == Lag + spent
             r == t % Slot
             q == last \div Slot
  <2>1. /\ last \in 0..Cycle - 1 /\ last % Slot = 0 /\ Age(last) = Slot + Lag + spent
        /\ last \in Int /\ now - last \in Int
    BY <1>0, <1>1, <1>2, <1>8 DEF Aged, RxTyped
  <2>2. q \in Int /\ last = Slot * q + 0
    BY <1>2, <2>1, Division
  <2>3. t \in Int /\ r \in 0..Slot - 1
    BY <1>2, Division
  <2>4. Into = r
    <3>1. (now - last) % Slot = now % Slot
      <4>1. -q \in Int /\ now - last = now + Slot * (-q)
        <5> HIDE DEF q
        <5>1. Slot * (-q) = -(Slot * q)
          BY <1>2, <2>2
        <5> QED BY <1>2, <2>2, <5>1
      <4>2. (now + Slot * (-q)) % Slot = now % Slot
        BY <1>2, <4>1, SameRest, Zenon
      <4> QED BY <4>1, <4>2
    <3>2. ((now - last) % Cycle) % Slot = (now - last) % Slot
      BY <1>2, <2>1, RestOfRest, Zenon
    <3>3. (t + Slot * 1) % Slot = t % Slot
      <4>1. 1 \in Int
        OBVIOUS
      <4> QED BY <1>2, <2>3, <4>1, SameRest, Zenon
    <3>4. t + Slot * 1 = Age(last)
      BY <1>2, <2>1
    <3> QED BY <3>1, <3>2, <3>3, <3>4 DEF Into, Age
  <2>5. last = Stamp(now - (Slot + t))
    <3>1. Stamp(now - Age(last)) = last
      BY <1>2, <2>1, AgeAndStamp
    <3>2. Slot + t = Age(last)
      BY <1>2, <2>1
    <3> QED BY <3>1, <3>2
  <2> HIDE DEF r, q
  <2>6. now - (Slot + t) \in Int /\ Slot + (t - r) + Slot + Lag \in Int
    BY <1>2, <2>3
  <2>7. (((now - (Slot + t)) % Cycle) + (Slot + (t - r) + Slot + Lag)) % Cycle
           = ((now - (Slot + t)) + (Slot + (t - r) + Slot + Lag)) % Cycle
    <3> HIDE DEF t
    <3> QED BY <1>2, <2>6, RestOfSum, Zenon
  <2>8. (now - (Slot + t)) + (Slot + (t - r) + Slot + Lag) = WakeTime
    BY <1>2, <1>3, <2>3, <2>4
  <2>9. last + (Slot + (t - r) + Slot + Lag) = last + Slot + Whole(Lag + spent) + Slot + Lag
    BY <1>2, <2>1, <2>3 DEF Whole, r
  <2> HIDE DEF t
  <2>10. Stamp(last + (Slot + (t - r) + Slot + Lag)) = Stamp(WakeTime)
    BY <2>5, <2>7, <2>8 DEF Stamp
  <2> QED BY <1>1, <2>1, <2>9, <2>10
<1>9. Planned'
  <2>1. last' = last /\ spent' = spent
    BY <1>1
  <2> QED BY <1>8, <2>1, Zenon DEF Planned, Stamp, Whole
<1> QED BY <1>4, <1>5, <1>6, <1>7, <1>9 DEF HearInv

(* The thread wakes after the slot that has just ended, and not before.    *)
LEMMA SnapshotIsDue ==
    ASSUME HearInv, Snapshot
    PROVE  /\ Listening /\ Due /\ Complete(Into + Slot)
           /\ Lag <= Into /\ spent' = Into - Lag
           /\ last' = Stamp(now - Into - Slot)
<1>0. RxTyped /\ Asleep
  BY DEF HearInv
<1>1. /\ dpc = "sleep" /\ main \in {"run", "closed"} /\ (now - wake) % Cycle <= MaxLate
      /\ spent' = (now - wake) % Cycle /\ last' = Stamp(now - (now % Slot) - Slot)
  BY DEF Snapshot
<1>2. /\ Into \in 0..Slot - 1 /\ Slot \in Nat \ {0} /\ Lag \in Nat /\ Cycle \in Nat \ {0}
      /\ MaxLate \in Nat /\ Ring \in Nat /\ now \in Int
      /\ Slot + Lag + MaxLate <= Ring /\ Ring < Cycle
  <2>1. CaptureBlock \in Nat /\ MaxDecode \in Nat
    BY Sizes
  <2>2. now \in Int
    BY <1>0 DEF RxTyped
  <2>3. Into \in 0..Slot - 1
    BY <2>2, Sizes, Division DEF Into
  <2> QED BY <2>1, <2>2, <2>3, Sizes
<1>3. Listening
  BY <1>1 DEF Listening
<1>4. ASSUME NEW x \in Int, wake = Stamp(now - x) PROVE Age(wake) = x % Cycle
  <2>1. now - x \in Int
    BY <1>2
  <2>2. (now - ((now - x) % Cycle)) % Cycle = (now - (now - x)) % Cycle
    BY <1>2, <2>1, RestOfSum, Zenon
  <2>3. now - (now - x) = x
    BY <1>2
  <2> QED BY <1>4, <2>2, <2>3 DEF Age, Stamp
<1>5. ~Ahead
  <2> SUFFICES ASSUME Ahead PROVE FALSE
    OBVIOUS
  <2> DEFINE x == Into - Slot - Lag
  <2>1. x \in Int /\ x \in (-Cycle)..(-1)
    BY <1>2
  <2>2. now - Into + Slot + Lag = now - x
    BY <1>2
  <2>3. wake = Stamp(now - x)
    BY <2>2 DEF Ahead
  <2> HIDE DEF x
  <2>4. Age(wake) = x % Cycle
    BY <1>4, <2>1, <2>3
  <2>5. x % Cycle = x + Cycle
    BY <1>2, <2>1, SmallRest
  <2> QED BY <1>1, <1>2, <2>4, <2>5 DEF Age, x
<1>6. Due /\ Complete(Into + Slot)
  BY <1>0, <1>1, <1>3, <1>5 DEF Asleep
<1>7. Lag <= Into /\ spent' = Into - Lag
  <2> DEFINE x == Into - Lag
  <2>1. x \in Int /\ x \in (-Cycle)..Cycle - 1
    BY <1>2
  <2>2. now - Into + Lag = now - x
    BY <1>2
  <2>3. wake = Stamp(now - x)
    BY <1>6, <2>2 DEF Due
  <2> HIDE DEF x
  <2>4. Age(wake) = x % Cycle
    BY <1>4, <2>1, <2>3
  <2>5. x \in (-Cycle)..(-1) => x % Cycle = x + Cycle
    BY <1>2, <2>1, SmallRest
  <2>6. x \in 0..Cycle - 1 => x % Cycle = x
    BY <1>2, <2>1, SmallRest
  <2>7. x \in (-Cycle)..(-1) \/ x \in 0..Cycle - 1
    BY <1>2, <2>1
  <2>8. ~(x \in (-Cycle)..(-1))
    BY <1>1, <1>2, <2>4, <2>5 DEF Age, x
  <2> QED BY <1>1, <1>2, <2>4, <2>6, <2>7, <2>8 DEF Age, x
<1>8. last' = Stamp(now - Into - Slot)
  BY <1>1 DEF Into
<1> QED BY <1>3, <1>6, <1>7, <1>8

(* The slot that has just ended, and how long ago it began.                *)
LEMMA SlotJustEnded ==
    ASSUME now \in Int
    PROVE  LET b == Stamp(now - Into - Slot)
           IN  b \in 0..Cycle - 1 /\ b % Slot = 0 /\ Age(b) = Into + Slot
<1>1. /\ Into \in 0..Slot - 1 /\ Slot \in Nat \ {0} /\ Cycle \in Nat \ {0} /\ Cycle % Slot = 0
      /\ Into + Slot \in 0..Cycle - 1
  <2>1. Into \in 0..Slot - 1
    BY Sizes, Division DEF Into
  <2>2. CaptureBlock \in Nat /\ MaxFaults \in Nat /\ Ring \in Nat /\ Slot \in Nat
        /\ Cycle \in Nat
    BY Sizes
  <2>3. Slot + Lag + MaxLate <= Ring /\ Lag \in Nat /\ MaxLate \in Nat
    BY Sizes
  <2>4. \A a, b \in Nat : (a + 1) * b \in Nat
    OBVIOUS
  <2>5. (MaxFaults + 1) * CaptureBlock \in Nat
    BY <2>2, <2>4, Zenon
  <2>6. Cycle >= Ring + Slot + (MaxFaults + 1) * CaptureBlock
    BY AudioAssumption
  <2>7. Cycle >= Ring + Slot /\ Ring >= Slot
    BY <2>2, <2>3, <2>5, <2>6
  <2>8. Slot \in Nat \ {0} /\ Cycle \in Nat \ {0} /\ Cycle % Slot = 0
    BY Sizes
  <2> QED BY <2>1, <2>2, <2>7, <2>8
<1>2. now - Into - Slot \in Int /\ now - Into - Slot = now - (Into + Slot)
  BY <1>1
<1>3. Stamp(now - Into - Slot) \in 0..Cycle - 1
  BY <1>2, AgeAndStamp
<1>4. Age(Stamp(now - Into - Slot)) = Into + Slot
  BY <1>1, <1>2, AgeAndStamp
<1>5. Stamp(now - Into - Slot) % Slot = 0
  <2> DEFINE q == now \div Slot
  <2>1. q \in Int /\ now = Slot * q + Into
    BY <1>1, Division DEF Into
  <2> HIDE DEF q
  <2>2. now - Into - Slot = 0 + Slot * (q - 1) /\ q - 1 \in Int
    BY <1>1, <2>1
  <2>3. (0 + Slot * (q - 1)) % Slot = 0 % Slot /\ 0 % Slot = 0
    <3>1. 0 \in Int
      OBVIOUS
    <3>2. (0 + Slot * (q - 1)) % Slot = 0 % Slot
      BY <1>1, <2>2, <3>1, SameRest, Zenon
    <3> QED BY <1>1, <3>2, SmallRest
  <2>4. ((now - Into - Slot) % Cycle) % Slot = (now - Into - Slot) % Slot
    BY <1>1, <1>2, RestOfRest, Zenon
  <2> QED BY <2>2, <2>3, <2>4 DEF Stamp
<1> QED BY <1>3, <1>4, <1>5

(* The copy holds the samples of the slot, whatever else was lost.         *)
LEMMA CopyCovers ==
    ASSUME HearInv, Snapshot
    PROVE  /\ SlotOf(last') \ lost \subseteq {snap'[i] : i \in 1..Len(snap')}
           /\ \A i, j \in 1..Ring : i < j /\ snap'[j] \in SlotOf(last') /\ snap'[i] # None =>
                 (snap'[j] - snap'[i]) % Cycle \in 1..Cycle - Slot
<1>0. RxTyped /\ Heeded /\ Listening /\ Due /\ Complete(Into + Slot) /\ Lag <= Into
      /\ last' = Stamp(now - Into - Slot) /\ Dated /\ InOrder
  BY SnapshotIsDue DEF HearInv, Heeded
<1>1. /\ Into \in 0..Slot - 1 /\ Slot \in Nat \ {0} /\ Lag \in Nat /\ Cycle \in Nat \ {0}
      /\ Ring \in Nat \ {0} /\ now \in Int /\ behind \in 0..CaptureBlock /\ pos \in Int
      /\ CaptureBlock \in Nat /\ CaptureBlock <= Lag
  <2>1. now \in Int /\ behind \in 0..CaptureBlock /\ pos \in 0..Ring - 1
    BY <1>0 DEF RxTyped
  <2>2. Into \in 0..Slot - 1
    BY <2>1, Sizes, Division DEF Into
  <2> QED BY <2>1, <2>2, Sizes
<1>2. /\ Slack \in Nat /\ Slack + CaptureBlock + Ring + Slot <= Cycle
  <2>1. faults \in 0..MaxFaults /\ faults' = faults
    BY <1>0 DEF RxTyped, Snapshot
  <2> QED BY <2>1, SlackIs
<1>3. snap' = [i \in 1..Ring |-> ring[(pos + i - 1) % Ring]]
  BY DEF Snapshot
<1>4. Len(snap') = Ring
  BY <1>1, <1>3
<1>5. ASSUME NEW i \in 1..Ring PROVE snap'[i] = Nth(Ring + 1 - i)
  <2>1. (pos + i - 1) + Ring * (-1) = pos - (Ring + 1 - i)
    BY <1>1
  <2>2. pos + i - 1 \in Int /\ -1 \in Int
    BY <1>1
  <2>3. ((pos + i - 1) + Ring * (-1)) % Ring = (pos + i - 1) % Ring
    BY <1>1, <2>2, SameRest, Zenon
  <2> QED BY <1>3, <2>1, <2>3 DEF Nth
<1>6. Age(last') = Into + Slot /\ last' \in Int
  <2>1. last' \in 0..Cycle - 1 /\ Age(last') = Into + Slot
    BY <1>0, <1>1, SlotJustEnded, Zenon
  <2> QED BY <2>1
<1>7. Into + Slot \in Nat /\ Slot <= Into + Slot /\ Into + Slot < Cycle
  <2>1. last' \in Int /\ now - last' \in Int
    BY <1>1, <1>6
  <2>2. (now - last') % Cycle \in 0..Cycle - 1
    BY <1>1, <2>1, Division
  <2> QED BY <1>1, <1>6, <2>2 DEF Age
<1>8. ASSUME NEW z \in SlotOf(last')
      PROVE  z \in 0..Cycle - 1 /\ Age(z) \in Into + 1..Into + Slot /\ Stamp(now - Age(z)) = z
  <2>1. Age(z) \in (Into + Slot) - Slot + 1..Into + Slot /\ z \in 0..Cycle - 1
    <3> DEFINE n == Into + Slot
    <3>1. n \in Nat /\ Slot <= n /\ n < Cycle /\ Age(last') = n
      BY <1>6, <1>7
    <3> HIDE DEF n
    <3>2. Age(z) \in n - Slot + 1..n /\ z \in 0..Cycle - 1
      BY <1>1, <1>6, <3>1, SlotSamples
    <3> QED BY <3>2 DEF n
  <2>2. Stamp(now - Age(z)) = z
    BY <1>1, <2>1, AgeAndStamp
  <2>3. (Into + Slot) - Slot + 1 = Into + 1
    BY <1>1
  <2> QED BY <2>1, <2>2, <2>3
<1>9. ASSUME NEW z \in SlotOf(last'), z \notin lost
      PROVE  \E i \in 1..Len(snap') : z = snap'[i]
  <2>1. Age(z) \in behind + 1..Into + Slot
    BY <1>0, <1>1, <1>8
  <2>2. Kept(Age(z))
    BY <1>0, <2>1 DEF Complete
  <2>3. PICK k \in 1..Ring : Nth(k) = z
    BY <1>8, <1>9, <2>2 DEF Kept
  <2>4. Ring + 1 - k \in 1..Ring /\ Ring + 1 - (Ring + 1 - k) = k
    BY <1>1
  <2>5. snap'[Ring + 1 - k] = z
    BY <1>5, <2>3, <2>4
  <2> QED BY <1>4, <2>4, <2>5
<1>10. ASSUME NEW i \in 1..Ring, NEW j \in 1..Ring, i < j,
              snap'[j] \in SlotOf(last'), snap'[i] # None
       PROVE  (snap'[j] - snap'[i]) % Cycle \in 1..Cycle - Slot
  <2> DEFINE k == Ring + 1 - i
             l == Ring + 1 - j
             a == Age(Nth(k))
             b == Age(Nth(l))
  <2>1. k \in 1..Ring /\ l \in 1..Ring /\ l < k
    BY <1>1, <1>10
  <2>2. snap'[i] = Nth(k) /\ snap'[j] = Nth(l)
    BY <1>5
  <2>3. Nth(k) # None /\ Nth(l) # None
    BY <1>8, <1>10, <2>2 DEF None
  <2>4. Nth(k) \in 0..Cycle - 1 /\ Nth(l) \in 0..Cycle - 1
    BY <1>0, <2>1, <2>3, NthIs
  <2> HIDE DEF k, l
  <2>5. b < a
    BY <1>0, <2>1, <2>3 DEF InOrder
  <2>6. a \in behind + k..behind + k + Slack
    BY <1>0, <2>1, <2>3 DEF Dated
  <2>7. /\ a \in 0..Cycle - 1 /\ b \in 0..Cycle - 1
        /\ Stamp(now - a) = Nth(k) /\ Stamp(now - b) = Nth(l)
    BY <1>1, <2>4, AgeAndStamp
  <2>8. b \in Into + 1..Into + Slot
    BY <1>8, <1>10, <2>2
  <2> HIDE DEF a, b
  <2>9. a - b \in 1..Cycle - Slot /\ a - b \in 0..Cycle - 1 /\ a - b \in Int
    BY <1>1, <1>2, <2>1, <2>5, <2>6, <2>7, <2>8
  <2>10. (Nth(l) - Nth(k)) % Cycle = a - b
    <3>1. now - b \in Int /\ now - a \in Int /\ Nth(l) \in Int
      BY <1>1, <2>4, <2>7
    <3>2. (Nth(l) - ((now - a) % Cycle)) % Cycle = (Nth(l) - (now - a)) % Cycle
      BY <1>1, <3>1, RestOfSum, Zenon
    <3>3. -(now - a) \in Int /\ Nth(l) + -(now - a) = Nth(l) - (now - a)
      BY <1>1, <2>7, <3>1
    <3>4. (((now - b) % Cycle) + -(now - a)) % Cycle = ((now - b) + -(now - a)) % Cycle
      BY <1>1, <3>1, <3>3, RestOfSum, Zenon
    <3>5. (now - b) + -(now - a) = a - b
      BY <1>1, <2>7
    <3>6. (a - b) % Cycle = a - b
      BY <1>1, <2>9, SmallRest
    <3> QED BY <2>7, <3>2, <3>3, <3>4, <3>5, <3>6 DEF Stamp
  <2> QED BY <2>2, <2>9, <2>10
<1> QED BY <1>9, <1>10

(* A slot is named by its beginning, if the second is that of its end.     *)
LEMMA LabelNames ==
    ASSUME now \in Int, Into < Second, NEW b, b = Stamp(now - Into - Slot),
           b % Day # Day - Slot
    PROVE  Label((now % Day) \div Second) = b % Day
<1> DEFINE D == now % Day
           h == D \div Slot
           n == Slot \div Second
<1>0. /\ Slot \in Nat \ {0} /\ Second \in Nat \ {0} /\ Day \in Nat \ {0} /\ Cycle \in Nat \ {0}
      /\ Day % Slot = 0 /\ Slot % Second = 0 /\ Cycle % Day = 0
  BY Sizes
<1>1. Into \in 0..Slot - 1
  BY <1>0, Division DEF Into
<1>2. D \in 0..Day - 1 /\ D \in Int
  BY <1>0, Division
<1>3. D % Slot = Into
  BY <1>0, RestOfRest, Zenon DEF Into
<1>4. h \in Int /\ D = Slot * h + Into
  <2> HIDE DEF D
  <2> QED BY <1>0, <1>2, <1>3, Division
<1>5. n \in Int /\ Slot = Second * n + 0
  BY <1>0, Division
<1> HIDE DEF D, h, n
<1>6. n \in Nat \ {0}
  <2>1. \A x \in Int : x <= 0 => Second * x <= 0
    BY <1>0
  <2> QED BY <1>0, <1>5, <2>1
<1>7. h >= 0
  <2>1. \A x \in Int : x <= -1 => Slot * x <= -Slot
    BY <1>0
  <2> QED BY <1>0, <1>1, <1>2, <1>4, <2>1
<1>8. D \div Second = n * h
  <2>1. \A x, y, z \in Int : (x * y) * z = x * (y * z) /\ y * z \in Int
    OBVIOUS
  <2>2. Second * n = Slot /\ Second \in Int /\ n \in Int /\ h \in Int
    BY <1>0, <1>4, <1>5
  <2>3. Slot * h = Second * (n * h) /\ n * h \in Int
    BY <2>1, <2>2, Zenon
  <2>4. D = Second * (n * h) + Into /\ Into \in 0..Second - 1
    BY <1>0, <1>1, <1>4, <2>3
  <2>5. (Second * (n * h) + Into) \div Second = n * h
    BY <1>0, <2>3, <2>4, Quotient, Zenon
  <2> QED BY <2>4, <2>5
<1>9. (n * h - 1) \div n = h - 1
  <2>1. n * h - 1 = n * (h - 1) + (n - 1) /\ n - 1 \in 0..n - 1 /\ h - 1 \in Int
    BY <1>4, <1>6
  <2>2. (n * (h - 1) + (n - 1)) \div n = h - 1
    BY <1>6, <2>1, Quotient, Zenon
  <2> QED BY <2>1, <2>2
<1>10. b % Day = (Slot * (h - 1)) % Day
  <2> DEFINE q == now \div Day
             s == Slot * (h - 1)
  <2>1. q \in Int /\ now = Day * q + D
    BY <1>0, Division DEF D
  <2>2. s \in Int /\ s = D - Into - Slot
    BY <1>0, <1>1, <1>2, <1>4
  <2> HIDE DEF q, s
  <2>3. now - Into - Slot \in Int /\ now - Into - Slot = s + Day * q
    BY <1>0, <1>1, <1>2, <2>1, <2>2
  <2>4. (s + Day * q) % Day = s % Day
    BY <1>0, <2>1, <2>2, SameRest, Zenon
  <2>5. ((now - Into - Slot) % Cycle) % Day = (now - Into - Slot) % Day
    BY <1>0, <2>3, RestOfRest, Zenon
  <2> QED BY <2>3, <2>4, <2>5 DEF Stamp, s
<1>11. h # 0
  <2> SUFFICES ASSUME h = 0 PROVE FALSE
    OBVIOUS
  <2>1. Slot * (h - 1) = -Slot /\ Slot <= Day
    <3>1. Day % Slot = 0 /\ Slot > Day => FALSE
      <4>1. ASSUME Slot > Day PROVE Day % Slot = Day
        <5>1. Day \in Int /\ Day \in 0..Slot - 1
          BY <1>0, <4>1
        <5> QED BY <1>0, <5>1, SmallRest, Zenon
      <4> QED BY <1>0, <4>1
    <3> QED BY <1>0, <3>1
  <2>2. -Slot \in Int /\ -Slot \in (-Day)..(-1)
    BY <1>0, <2>1
  <2>3. (-Slot) % Day = (-Slot) + Day
    BY <1>0, <2>2, SmallRest, Zenon
  <2> QED BY <1>0, <1>10, <2>1, <2>3
<1>12. (Slot * (h - 1)) % Day = Slot * (h - 1) /\ Slot * (h - 1) >= 0
  <2> DEFINE s == Slot * (h - 1)
  <2>1. s \in Int /\ s = D - Into - Slot
    BY <1>0, <1>1, <1>2, <1>4
  <2>2. s >= 0
    <3>1. \A x \in Int : x >= 0 => Slot * x >= 0
      BY <1>0
    <3> QED BY <1>4, <1>7, <1>11, <3>1
  <2> HIDE DEF s
  <2>3. s \in 0..Day - 1
    BY <1>0, <1>1, <1>2, <2>1, <2>2
  <2>4. s % Day = s
    BY <1>0, <2>1, <2>3, SmallRest
  <2> QED BY <2>2, <2>4 DEF s
<1>13. Label((now % Day) \div Second) = Slot * (h - 1)
  <2>1. ((((now % Day) \div Second) - 1) \div (Slot \div Second)) * Slot = (h - 1) * Slot
    BY <1>8, <1>9 DEF D, n
  <2>2. (h - 1) * Slot = Slot * (h - 1)
    BY <1>0, <1>4
  <2>3. ~((h - 1) * Slot < 0)
    BY <1>0, <1>4, <1>12, <2>2
  <2> QED BY <2>1, <2>2, <2>3 DEF Label
<1> QED BY <1>10, <1>12, <1>13

(* The copy is made.                                                       *)
LEMMA SnapshotHeard == HearInv /\ Snapshot => HearInv'
<1> SUFFICES ASSUME HearInv, Snapshot PROVE HearInv'
  OBVIOUS
<1>0. /\ RxTyped /\ Heeded /\ Lag <= Into /\ spent' = Into - Lag
      /\ Due /\ last' = Stamp(now - Into - Slot)
  BY SnapshotIsDue DEF HearInv
<1>1. /\ UNCHANGED <<now, ring, pos, behind, lost, wake, main, faults>>
      /\ dpc = "sleep" /\ dpc' = "decode" /\ nutc' = Label((now % Day) \div Second)
  BY DEF Snapshot, ringVars
<1>2. /\ now \in Int /\ Into \in 0..Slot - 1 /\ Lag \in Nat /\ MaxLate \in Nat
      /\ MaxDecode \in Nat /\ Slot \in Nat /\ Into <= Lag + MaxLate
  <2>1. now \in Int
    BY <1>0 DEF RxTyped
  <2>2. Into \in 0..Slot - 1
    BY <2>1, Sizes, Division DEF Into
  <2> QED BY <1>0, <2>1, <2>2, Sizes DEF Due
<1>3. last' \in 0..Cycle - 1 /\ last' % Slot = 0 /\ Age(last') = Into + Slot
  BY <1>0, <1>2, SlotJustEnded, Zenon
<1>4. RxTyped'
  <2>1. spent' \in 0..MaxLate + MaxDecode
    BY <1>0, <1>2
  <2> QED BY <1>0, <1>1, <1>3, <2>1 DEF RxTyped
<1>5. Heeded'
  BY <1>0, <1>1, Zenon DEF Heeded, Listening, Dated, InOrder, Complete, Kept, Nth, Age, Into,
     Slack, Stamp
<1>6. Asleep' /\ Planned'
  BY <1>1 DEF Asleep, Planned
<1>7. Aged'
  <2>1. last' # None
    BY <1>3 DEF None
  <2>2. Age(last)' = Slot + Lag + spent'
    <3>1. Age(last') = Slot + Lag + spent'
      BY <1>0, <1>2, <1>3
    <3> QED BY <1>1, <3>1 DEF Age
  <2> QED BY <1>3, <2>1, <2>2 DEF Aged
<1>8. SlotIsHeard'
  <2>1. (SlotOf(last) \ lost \subseteq Heard)'
    BY <1>1, CopyCovers DEF Heard, SlotOf, Stamp
  <2>2. ASSUME spent' + Lag < Second, last' % Day # Day - Slot PROVE nutc' = last' % Day
    <3>1. Into < Second
      BY <1>0, <1>2, <2>2
    <3> QED BY <1>0, <1>1, <1>2, <2>2, <3>1, LabelNames
  <2>3. \A i, j \in 1..Ring : i < j /\ snap'[j] \in SlotOf(last') /\ snap'[i] # None =>
           (snap'[j] - snap'[i]) % Cycle \in 1..Cycle - Slot
    BY CopyCovers
  <2> QED BY <2>1, <2>2, <2>3 DEF SlotIsHeard, SlotOf, Stamp
<1> QED BY <1>4, <1>5, <1>6, <1>7, <1>8 DEF HearInv

(* What leaves the clock, the ring and the thread alone.                   *)
LEMMA ElsewhereHeard ==
    ASSUME HearInv, UNCHANGED <<now, ring, pos, lost, rxVars>>,
           behind' \in 0..CaptureBlock, Listening' => Listening /\ behind' = behind,
           faults' \in 0..MaxFaults, faults' >= faults
    PROVE  HearInv'
<1>0. RxTyped /\ Heeded /\ Asleep /\ Aged /\ Planned /\ SlotIsHeard
  BY DEF HearInv
<1>1. UNCHANGED <<now, ring, pos, lost, dpc, wake, spent, snap, nutc, last>>
  BY DEF rxVars
<1>2. Slack \in Nat /\ Slack' \in Nat /\ Slack' >= Slack
  BY <1>0, SlackIs DEF RxTyped
<1>3. RxTyped'
  BY <1>0, <1>1 DEF RxTyped
<1>4. (\A k \in Int : Nth(k)' = Nth(k)) /\ Into' = Into /\ (\A x \in Int : Age(x)' = Age(x))
  BY <1>1 DEF Nth, Into, Age
<1>5. ASSUME NEW n \in Int, behind' = behind, Complete(n) PROVE Complete(n)'
  <2>1. \A x : Kept(x)' = Kept(x)
    BY <1>1, Zenon DEF Kept, Nth, Stamp
  <2> QED BY <1>5, <2>1, Zenon DEF Complete
<1>6. Into \in Int /\ Slot \in Int
  <2>1. now \in Int
    BY <1>0 DEF RxTyped
  <2> QED BY <2>1, Sizes, Division DEF Into
<1>7. Heeded'
  <2>1. ASSUME Listening' PROVE (Dated /\ InOrder /\ Complete(Into))'
    <3>1. Dated /\ InOrder /\ Complete(Into) /\ behind' = behind
      BY <1>0, <2>1 DEF Heeded
    <3>2. InOrder'
      BY <1>1, <3>1, Zenon DEF InOrder, Nth, Age
    <3>3. Dated'
      <4>1. ASSUME NEW k \in 1..Ring, Nth(k)' # None
            PROVE  Age(Nth(k))' \in behind' + k..behind' + k + Slack'
        <5>1. Age(Nth(k))' = Age(Nth(k)) /\ Nth(k) # None
          BY <1>1, <4>1, Zenon DEF Nth, Age
        <5>2. Age(Nth(k)) \in behind + k..behind + k + Slack
          BY <3>1, <5>1 DEF Dated
        <5>3. \A b, s, t, a, m \in Nat : a \in b + m..b + m + s /\ t >= s => a \in b + m..b + m + t
          OBVIOUS
        <5>4. behind \in Nat /\ k \in Nat
          BY <1>0, Sizes DEF RxTyped
        <5>5. Age(Nth(k)) \in Nat
          BY <1>2, <5>2, <5>4
        <5>6. Age(Nth(k)) \in behind + k..behind + k + Slack'
          BY <1>2, <5>2, <5>3, <5>4, <5>5, Zenon
        <5> QED BY <3>1, <5>1, <5>6
      <4> QED BY <4>1, Zenon DEF Dated
    <3>4. Complete(Into)'
      <4>1. Complete(Into)' = (\A x \in behind' + 1..Into' : Kept(x)')
        BY DEF Complete
      <4> QED BY <1>1, <3>1, Zenon DEF Complete, Into, Kept, Nth, Stamp
    <3> QED BY <3>2, <3>3, <3>4
  <2> QED BY <2>1, Zenon DEF Heeded
<1>8. Asleep'
  <2>1. Ahead' = Ahead /\ Due' = Due
    BY <1>1, Zenon DEF Ahead, Due, Into, Stamp
  <2>2. ASSUME Listening', Complete(Into + Slot) PROVE Complete(Into + Slot)'
    <3>1. behind' = behind
      BY <2>2
    <3> QED BY <1>1, <2>2, <3>1, Zenon DEF Complete, Into, Kept, Nth, Stamp
  <2> QED BY <1>0, <1>1, <2>1, <2>2, Zenon DEF Asleep
<1>9. Aged' /\ Planned'
  BY <1>0, <1>1, Zenon DEF Aged, Planned, Age, Stamp, Whole
<1>10. SlotIsHeard'
  BY <1>0, <1>1, Zenon DEF SlotIsHeard, SlotOf, Heard, Stamp
<1> QED BY <1>3, <1>7, <1>8, <1>9, <1>10 DEF HearInv

(* The decode thread when it is told to stop, or has decoded.              *)
LEMMA RestHeard == HearInv /\ (WakesToStop \/ DecodeEnds) => HearInv'
<1> SUFFICES ASSUME HearInv, WakesToStop \/ DecodeEnds PROVE HearInv'
  OBVIOUS
<1>0. RxTyped /\ Heeded /\ Aged
  BY DEF HearInv
<1>1. /\ UNCHANGED <<now, ring, pos, behind, lost, wake, spent, nutc, last, main, faults>>
      /\ \/ dpc = "sleep" /\ dpc' = "gone"
         \/ dpc = "decode" /\ dpc' = "plan"
  BY DEF WakesToStop, DecodeEnds, ringVars
<1>2. RxTyped'
  BY <1>0, <1>1 DEF RxTyped
<1>3. Listening' => Listening
  BY <1>1 DEF Listening
<1>4. Heeded'
  BY <1>0, <1>1, <1>3, Zenon DEF Heeded, Dated, InOrder, Complete, Kept, Nth, Age, Into,
     Slack, Stamp
<1>5. Asleep' /\ Planned' /\ SlotIsHeard'
  BY <1>1 DEF Asleep, Planned, SlotIsHeard
<1>6. Aged'
  BY <1>0, <1>1 DEF Aged, Age
<1> QED BY <1>2, <1>4, <1>5, <1>6 DEF HearInv

LEMMA InitHearInv == Init => HearInv
<1> SUFFICES ASSUME Init PROVE HearInv
  OBVIOUS
<1>0. /\ now = 0 /\ faults = 0 /\ dpc \in {"none", "plan"} /\ wake = 0 /\ spent = 0
      /\ last = None /\ pos = 0 /\ behind = 0 /\ ring = [i \in 0..Ring - 1 |-> None]
  BY DEF Init
<1>1. /\ Cycle \in Nat \ {0} /\ Ring \in Nat \ {0} /\ CaptureBlock \in Nat
      /\ MaxLate \in Nat /\ MaxDecode \in Nat /\ MaxFaults \in Nat /\ Slot \in Nat \ {0}
  BY Sizes
<1>2. RxTyped
  BY <1>0, <1>1 DEF RxTyped
<1>3. \A k \in Int : Nth(k) = None
  BY <1>0, <1>2, NthIs DEF Nth
<1>4. Into = 0
  BY <1>0, <1>1, SmallRest DEF Into
<1>5. Heeded
  <2>1. Dated /\ InOrder
    BY <1>1, <1>3 DEF Dated, InOrder
  <2>2. Complete(Into)
    BY <1>0, <1>4 DEF Complete
  <2> QED BY <2>1, <2>2 DEF Heeded
<1>6. Asleep /\ Aged /\ Planned /\ SlotIsHeard
  BY <1>0 DEF Asleep, Aged, Planned, SlotIsHeard
<1> QED BY <1>2, <1>5, <1>6 DEF HearInv

LEMMA HearStep == HearInv /\ [Next]_vars => HearInv'
<1> SUFFICES ASSUME HearInv, [Next]_vars PROVE HearInv'
  OBVIOUS
<1>0. behind \in 0..CaptureBlock /\ faults \in 0..MaxFaults /\ MaxFaults \in Nat
      /\ CaptureBlock \in Nat
  BY Sizes DEF HearInv, RxTyped
<1>1. ASSUME UNCHANGED <<now, ringVars, rxVars, faults>>, Listening' => Listening
      PROVE  HearInv'
  BY <1>0, <1>1, ElsewhereHeard DEF ringVars
<1>2. ASSUME UNCHANGED <<now, ringVars, rxVars, main>>, Fault \/ faults' = faults
      PROVE  HearInv'
  <2>1. Listening' = Listening
    BY <1>2 DEF Listening, rxVars
  <2>2. faults' \in 0..MaxFaults /\ faults' >= faults
    BY <1>0, <1>2 DEF Fault
  <2> QED BY <1>0, <1>2, <2>1, <2>2, ElsewhereHeard DEF ringVars
<1>3. CASE Transmit
  <2>1. CASE PlayFrame BY <1>2, <2>1 DEF PlayFrame
  <2>2. CASE StartStream BY <1>2, <2>2 DEF StartStream
  <2>3. CASE StartFails BY <1>2, <2>3 DEF StartFails
  <2>4. CASE FrameWaited BY <1>2, <2>4 DEF FrameWaited
  <2>5. CASE StopStream BY <1>2, <2>5 DEF StopStream
  <2> QED BY <1>3, <2>1, <2>2, <2>3, <2>4, <2>5 DEF Transmit
<1>4. CASE Device
  <2>1. CASE Callback BY <1>2, <2>1 DEF Callback
  <2>2. CASE Stall BY <1>2, <2>2 DEF Stall
  <2>3. CASE Resume BY <1>2, <2>3 DEF Resume
  <2>4. CASE Capture BY <2>4, CaptureHeard
  <2> QED BY <1>4, <2>1, <2>2, <2>3, <2>4 DEF Device
<1>5. CASE Decode
  BY <1>5, PlanHeard, SnapshotHeard, RestHeard DEF Decode
<1>6. CASE Cleanup
  <2>1. CASE CloseOutput \/ TellDecoder
    <3>1. UNCHANGED <<now, ringVars, rxVars, faults>> /\ (Listening' => Listening)
      BY <2>1 DEF CloseOutput, TellDecoder, Listening, rxVars
    <3> QED BY <1>1, <3>1
  <2>2. CASE CloseInput
    <3>1. UNCHANGED <<now, ring, pos, lost, rxVars, faults>> /\ ~Listening' /\ behind' = 0
      BY <2>2 DEF CloseInput, Listening
    <3> QED BY <1>0, <3>1, ElsewhereHeard
  <2> QED BY <1>6, <2>1, <2>2 DEF Cleanup
<1>7. CASE Tick
  BY <1>7, TickHeard
<1>8. CASE UNCHANGED vars
  BY <1>2, <1>8 DEF vars
<1> QED BY <1>3, <1>4, <1>5, <1>6, <1>7, <1>8 DEF Next

(* A decode gets every sample of the slot that has just ended that was     *)
(* handed over, oldest first, and names the slot by its beginning.         *)
THEOREM SlotsAreHeard == Spec => []SlotIsHeard
<1>1. HearInv => SlotIsHeard
  BY DEF HearInv
<1> QED BY InitHearInv, HearStep, <1>1, PTL DEF Spec

(* No slot is decoded twice, and one is passed over only when the decode   *)
(* before it lasted as long as a slot, less the lag.                       *)
THEOREM SlotsFollowEachOther == Spec => NoSlotSkipped
<1>1. ASSUME HearInv, [Next]_vars, dpc = "sleep", dpc' = "decode", last # None
      PROVE  last' # last /\ (spent < Slot - Lag => last' = Stamp(last + Slot))
  <2> DEFINE t == Lag + spent
             w == Slot + Whole(t)
  <2>1. Snapshot
    BY <1>1 DEF Next, Transmit, Device, Decode, Cleanup, PlayFrame, StartStream, StartFails,
       FrameWaited, StopStream, Callback, Stall, Resume, Capture, Plan, WakesToStop, DecodeEnds,
       CloseOutput, TellDecoder, CloseInput, Tick, rxVars, vars
  <2>2. Due /\ last' = Stamp(now - Into - Slot) /\ RxTyped
    BY <1>1, <2>1, SnapshotIsDue DEF HearInv
  <2>3. /\ Slot \in Nat \ {0} /\ Lag \in Nat /\ Cycle \in Nat \ {0} /\ MaxLate \in Nat
        /\ MaxDecode \in Nat /\ Ring \in Nat /\ CaptureBlock \in Nat
        /\ Slot + Lag + MaxLate <= Ring /\ Cycle > Ring + CaptureBlock + MaxLate + MaxDecode
    BY Sizes
  <2>4. now \in Int /\ last \in 0..Cycle - 1 /\ spent \in 0..MaxLate + MaxDecode /\ last \in Int
    BY <1>1, <2>2, <2>3 DEF RxTyped
  <2>5. Into \in 0..Slot - 1
    BY <2>3, <2>4, Division DEF Into
  <2>6. wake = Stamp(last + w + Slot + Lag)
    <3>1. wake = Stamp(last + Slot + Whole(Lag + spent) + Slot + Lag)
      BY <1>1 DEF HearInv, Planned
    <3>2. t % Slot \in 0..Slot - 1 /\ t \in Int
      BY <2>3, <2>4, Division
    <3>3. Whole(t) \in Int
      BY <3>2 DEF Whole
    <3>4. last + Slot + Whole(t) + Slot + Lag = last + w + Slot + Lag
      BY <2>3, <2>4, <3>3
    <3> QED BY <3>1, <3>4
  <2>7. w \in Slot..Slot + t
    <3>1. t % Slot \in 0..Slot - 1 /\ t \in Nat
      BY <2>3, <2>4, Division
    <3>2. t % Slot <= t
      <4>1. t < Slot => t % Slot = t
        BY <2>3, <3>1, SmallRest
      <4> QED BY <2>3, <3>1, <4>1
    <3> QED BY <2>3, <3>1, <3>2 DEF Whole
  <2>8. spent < Slot - Lag => w = Slot
    <3>1. ASSUME spent < Slot - Lag PROVE t % Slot = t /\ t \in Nat
      <4>1. t \in 0..Slot - 1 /\ t \in Int
        BY <2>3, <2>4, <3>1
      <4> QED BY <2>3, <4>1, SmallRest
    <3> QED BY <2>3, <3>1 DEF Whole
  <2>9. w \in Int /\ w \in 1..Cycle - 1
    BY <2>3, <2>4, <2>7
  <2> HIDE DEF w, t
  <2>10. last' = Stamp(last + w)
    <3> DEFINE e == -(Slot + Lag)
               x == now - Into + Lag
               y == last + w + Slot + Lag
    <3>1. e \in Int /\ x \in Int /\ y \in Int
      BY <2>3, <2>4, <2>5, <2>9
    <3>2. x + e = now - Into - Slot /\ y + e = last + w
      BY <2>3, <2>4, <2>5, <2>9
    <3>3. x % Cycle = wake /\ y % Cycle = wake
      BY <2>2, <2>6 DEF Due, Stamp
    <3> HIDE DEF e, x, y
    <3>4. ((x % Cycle) + e) % Cycle = (x + e) % Cycle /\ ((y % Cycle) + e) % Cycle = (y + e) % Cycle
      BY <2>3, <3>1, RestOfSum, Zenon
    <3> QED BY <2>2, <3>2, <3>3, <3>4 DEF Stamp
  <2>11. last' # last
    <3> SUFFICES ASSUME last' = last PROVE FALSE
      OBVIOUS
    <3>1. last + w \in Int /\ -last \in Int /\ (last + w) + -last = w /\ last + -last = 0
      BY <2>4, <2>9
    <3>2. (((last + w) % Cycle) + -last) % Cycle = ((last + w) + -last) % Cycle
      BY <2>3, <3>1, RestOfSum, Zenon
    <3>3. 0 % Cycle = 0 /\ w % Cycle = w
      BY <2>3, <2>9, SmallRest
    <3>4. (last + w) % Cycle = last
      BY <2>10 DEF Stamp
    <3> QED BY <2>9, <3>1, <3>2, <3>3, <3>4
  <2> QED BY <2>8, <2>10, <2>11
<1>2. HearInv /\ [Next]_vars =>
         [dpc = "sleep" /\ dpc' = "decode" /\ last # None =>
             last' # last /\ (spent < Slot - Lag => last' = Stamp(last + Slot))]_vars
  BY <1>1
<1> QED BY InitHearInv, HearStep, <1>2, PTL DEF Spec, NoSlotSkipped
=============================================================================
