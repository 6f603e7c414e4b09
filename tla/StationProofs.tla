------------------------------ MODULE StationProofs ------------------------------
(***************************************************************************)
(* Proofs about who speaks on the air, for every value of the constants.   *)
(***************************************************************************)
EXTENDS Station, SequenceLemmas, FiniteSetTheorems

(***************************************************************************)
(* The position.                                                           *)
(***************************************************************************)
(* The fixes that wait in the asyncio loop carry positions as old as the   *)
(* losses before them: spell[i] is the number of losses the user interface *)
(* will have been told of when it comes to the i-th of them.               *)
Spells(spell) ==
    /\ spell \in [1..(Len(posted) + 1) -> 0..losses]
    /\ spell[1] = shownLosses /\ spell[Len(posted) + 1] = losses
    /\ \A i \in 1..Len(posted) :
          /\ spell[i + 1] = IF posted[i].kind = "NO_FIX" THEN spell[i] + 1
                            ELSE spell[i]
          /\ posted[i].kind = "FIX" => posted[i].at \in {NoPosition, spell[i]}
GpsInv ==
    /\ link \in BOOLEAN /\ losses \in 0..MaxLosses
    /\ cached \in {NoPosition, losses}
    /\ posted \in Seq(Fixes) /\ Len(posted) <= MaxPosted
    /\ fix \in Fixes /\ shownLosses \in Nat /\ PositionIsFresh
    /\ \E spell \in [1..(Len(posted) + 1) -> 0..losses] : Spells(spell)

(* A posted report keeps the invariant, if it is as recent as the losses.  *)
LEMMA PostKeepsGpsInv ==
    ASSUME GpsInv, NEW f \in Fixes, Post(f),
           losses' = IF f.kind = "NO_FIX" THEN losses + 1 ELSE losses,
           losses' \in 0..MaxLosses,
           f.kind = "FIX" => f.at \in {NoPosition, losses},
           cached' \in {NoPosition, losses'}, link' \in BOOLEAN,
           UNCHANGED <<fix, shownLosses>>
    PROVE  GpsInv'
<1>1. PICK spell \in [1..(Len(posted) + 1) -> 0..losses] : Spells(spell)
  BY DEF GpsInv
<1> DEFINE n == Len(posted)
<1>2. /\ posted \in Seq(Fixes) /\ n \in Nat
      /\ posted' \in Seq(Fixes) /\ Len(posted') = n + 1
      /\ \A i \in 1..n : posted'[i] = posted[i]
      /\ posted'[n + 1] = f
      /\ n + 1 <= MaxPosted
  BY SensorsAssumption DEF GpsInv, Post
<1>3. losses \in Nat /\ losses' \in Nat /\ losses <= losses'
  BY SensorsAssumption DEF GpsInv
<1>4. PICK longer \in [1..(Len(posted') + 1) -> 0..losses'] :
         \A i \in 1..(n + 2) : longer[i] = IF i = n + 2 THEN losses' ELSE spell[i]
  <2> DEFINE l == [i \in 1..(n + 2) |-> IF i = n + 2 THEN losses' ELSE spell[i]]
  <2>1. l \in [1..(Len(posted') + 1) -> 0..losses']
    BY <1>1, <1>2, <1>3
  <2> QED BY <2>1
<1>5. Spells(longer)'
  <2>1. longer[1] = shownLosses' /\ longer[Len(posted') + 1] = losses'
    BY <1>1, <1>2, <1>3, <1>4 DEF Spells
  <2>2. ASSUME NEW i \in 1..Len(posted')
        PROVE  /\ longer[i + 1] = IF posted'[i].kind = "NO_FIX" THEN longer[i] + 1
                                  ELSE longer[i]
               /\ posted'[i].kind = "FIX" => posted'[i].at \in {NoPosition, longer[i]}
    <3>1. CASE i \in 1..n
      BY <3>1, <1>1, <1>2, <1>4 DEF Spells
    <3>2. CASE i = n + 1
      BY <3>2, <1>1, <1>2, <1>3, <1>4 DEF Spells
    <3> QED BY <3>1, <3>2, <1>2
  <2> QED BY <1>4, <2>1, <2>2 DEF Spells
<1>6. /\ link' \in BOOLEAN /\ losses' \in 0..MaxLosses
      /\ cached' \in {NoPosition, losses'}
      /\ posted' \in Seq(Fixes) /\ Len(posted') <= MaxPosted
      /\ fix' \in Fixes /\ shownLosses' \in Nat /\ PositionIsFresh'
  BY <1>2, SensorsAssumption DEF GpsInv, PositionIsFresh, HasPosition
<1>7. (\E l \in [1..(Len(posted) + 1) -> 0..losses] : Spells(l))'
  BY <1>4, <1>5
<1> QED BY <1>6, <1>7 DEF GpsInv

(* A report of gpsd keeps the client's account of positions.               *)
LEMMA ReportKeepsGpsInv ==
    ASSUME GpsInv, NEW kind \in {"UNKNOWN", "NO_FIX", "FIX"}, NEW located \in BOOLEAN,
           Report(kind, located)
    PROVE  GpsInv'
<1>0. losses' \in 0..MaxLosses
  <2>1. /\ losses' <= MaxLosses
        /\ losses' = IF kind = "NO_FIX" THEN losses + 1 ELSE losses
    BY Zenon DEF Report
  <2> QED BY <2>1, SensorsAssumption DEF GpsInv
<1> DEFINE f == [kind |-> kind, at |-> IF located THEN losses ELSE NoPosition]
<1>1. /\ losses \in Nat /\ losses <= MaxLosses /\ cached \in {NoPosition, losses}
      /\ located => kind = "FIX" /\ losses' <= MaxLosses
      /\ losses' = IF kind = "NO_FIX" THEN losses + 1 ELSE losses
      /\ cached' = Remembered(f) /\ Post(Filled(f))
      /\ UNCHANGED <<link, fix, shownLosses>> /\ link \in BOOLEAN
  BY SensorsAssumption DEF GpsInv, Report
<1>2. /\ Filled(f) \in Fixes /\ Filled(f).kind = kind
      /\ kind = "FIX" => Filled(f).at \in {NoPosition, losses}
  <2>1. CASE kind = "FIX" /\ ~located
    <3>1. Filled(f) = [kind |-> kind, at |-> cached]
      BY <2>1, <1>1 DEF Filled
    <3> QED BY <2>1, <3>1, <1>1, SensorsAssumption DEF Fixes
  <2>2. CASE ~(kind = "FIX" /\ ~located)
    <3>1. Filled(f) = f
      BY <2>2, <1>1 DEF Filled, NoPosition
    <3> QED BY <2>2, <3>1, <1>1, SensorsAssumption DEF Fixes
  <2> QED BY <2>1, <2>2
<1>3. cached' \in {NoPosition, losses'}
  BY <1>1 DEF Remembered, NoPosition
<1> HIDE DEF f
<1> QED BY <1>0, <1>1, <1>2, <1>3, PostKeepsGpsInv

(* So does handing a report to the user interface.                         *)
LEMMA OnGpsFixKeepsGpsInv == GpsInv /\ OnGpsFix => GpsInv'
<1> SUFFICES ASSUME GpsInv, OnGpsFix PROVE GpsInv'
  OBVIOUS
<1>1. PICK spell \in [1..(Len(posted) + 1) -> 0..losses] : Spells(spell)
  BY DEF GpsInv
<1> DEFINE n == Len(posted)
<1>2. /\ n \in Nat \ {0} /\ fix' = posted[1] /\ fix' \in Fixes
      /\ posted' \in Seq(Fixes) /\ Len(posted') = n - 1
      /\ \A i \in 1..(n - 1) : posted'[i] = posted[i + 1]
      /\ losses \in Nat /\ UNCHANGED <<link, cached, losses>>
      /\ shownLosses' = IF fix'.kind = "NO_FIX" THEN shownLosses + 1 ELSE shownLosses
  BY SensorsAssumption DEF GpsInv, OnGpsFix
<1>3. PICK shorter \in [1..(Len(posted') + 1) -> 0..losses'] :
         \A i \in 1..n : shorter[i] = spell[i + 1]
  <2> DEFINE l == [i \in 1..n |-> spell[i + 1]]
  <2>1. l \in [1..(Len(posted') + 1) -> 0..losses']
    BY <1>1, <1>2
  <2> QED BY <2>1
<1>4. spell[2] = shownLosses'
  BY <1>1, <1>2 DEF Spells
<1>5. Spells(shorter)'
  <2>1. shorter[1] = shownLosses' /\ shorter[Len(posted') + 1] = losses'
    BY <1>1, <1>2, <1>3, <1>4 DEF Spells
  <2>2. ASSUME NEW i \in 1..Len(posted')
        PROVE  /\ shorter[i + 1] = IF posted'[i].kind = "NO_FIX" THEN shorter[i] + 1
                                   ELSE shorter[i]
               /\ posted'[i].kind = "FIX" => posted'[i].at \in {NoPosition, shorter[i]}
    <3>1. i + 1 \in 1..n /\ i \in 1..n /\ posted'[i] = posted[i + 1]
      BY <1>2
    <3>2. shorter[i] = spell[i + 1] /\ shorter[i + 1] = spell[(i + 1) + 1]
      BY <1>3, <3>1
    <3> QED BY <1>1, <3>1, <3>2 DEF Spells
  <2> QED BY <1>3, <2>1, <2>2 DEF Spells
<1>6. PositionIsFresh'
  BY <1>1, <1>2 DEF Spells, PositionIsFresh, HasPosition
<1>7. /\ link' \in BOOLEAN /\ losses' \in 0..MaxLosses
      /\ cached' \in {NoPosition, losses'}
      /\ posted' \in Seq(Fixes) /\ Len(posted') <= MaxPosted
      /\ fix' \in Fixes /\ shownLosses' \in Nat
  BY <1>2, SensorsAssumption DEF GpsInv
<1>8. (\E l \in [1..(Len(posted) + 1) -> 0..losses] : Spells(l))'
  BY <1>3, <1>5
<1> QED BY <1>6, <1>7, <1>8 DEF GpsInv

(* Without a connection and with nothing waiting, nothing is known.        *)
Blank == /\ posted = << >> /\ losses = 0 /\ shownLosses = 0 /\ cached = NoPosition
         /\ fix = NoFix /\ link = FALSE
(* Then the positions are in order.                                        *)
LEMMA NothingKnown == Blank => GpsInv
<1> SUFFICES ASSUME Blank PROVE GpsInv
  OBVIOUS
<1> DEFINE l == [i \in 1..1 |-> 0]
<1>1. /\ Len(posted) = 0 /\ posted \in Seq(Fixes)
      /\ Len(posted) <= MaxPosted /\ losses \in 0..MaxLosses
  BY SensorsAssumption DEF Blank
<1>2. l \in [1..(Len(posted) + 1) -> 0..losses] /\ Spells(l)
  BY <1>1 DEF Spells, Blank
<1>3. fix \in Fixes /\ PositionIsFresh
  BY DEF Fixes, NoFix, PositionIsFresh, HasPosition, Blank
<1>4. /\ link \in BOOLEAN /\ cached \in {NoPosition, losses} /\ shownLosses \in Nat
  BY DEF Blank
<1> HIDE DEF l
<1> QED BY <1>1, <1>2, <1>3, <1>4 DEF GpsInv

(* The account holds in every reachable state.                             *)
LEMMA GpsInvHolds == Spec => []GpsInv
<1>1. Init => GpsInv
  BY NothingKnown DEF Init, InitGps, Blank
<1>2. GpsInv /\ [Next]_vars => GpsInv'
  <2> SUFFICES ASSUME GpsInv, [Next]_vars PROVE GpsInv'
    OBVIOUS
  <2>1. ASSUME UNCHANGED gpsVars PROVE GpsInv'
    BY <2>1 DEF GpsInv, Spells, PositionIsFresh, HasPosition, gpsVars
  <2>2. CASE Saving
    BY <2>1, <2>2 DEF Saving, sensorVars
  <2>3. CASE PowerLoss
    <3>1. Blank'
      BY <2>3 DEF PowerLoss, Blank, NoFix, NoPosition
    <3>2. (Blank => GpsInv)'
      BY NothingKnown, PTL
    <3> QED BY <3>1, <3>2
  <2>4. CASE Operator
    BY <2>1, <2>4 DEF Operator, sensorVars
  <2>5. CASE Encode
    BY <2>1, <2>5 DEF Encode, sensorVars
  <2>6. CASE Transmit
    BY <2>1, <2>6 DEF Transmit
  <2>7. CASE Surroundings
    <3>1. CASE Connect
      BY <3>1 DEF Connect, GpsInv, Spells, PositionIsFresh, HasPosition
    <3>2. CASE LinkLost
      <4>1. losses' = losses + 1 /\ losses' \in 0..MaxLosses
        BY <3>2, SensorsAssumption DEF LinkLost, GpsInv
      <4>2. NoFix \in Fixes /\ NoFix.kind = "NO_FIX"
        BY DEF NoFix, Fixes
      <4>3. /\ cached' = NoPosition /\ link' = FALSE /\ Post(NoFix)
            /\ UNCHANGED <<fix, shownLosses>>
        BY <3>2 DEF LinkLost
      <4> QED BY <4>1, <4>2, <4>3, PostKeepsGpsInv
    <3>3. ASSUME NEW kind \in {"UNKNOWN", "NO_FIX", "FIX"}, NEW located \in BOOLEAN,
                 Report(kind, located)
          PROVE  GpsInv'
      BY <3>3, ReportKeepsGpsInv
    <3> QED BY <2>1, <2>7, <3>1, <3>2, <3>3 DEF Surroundings, GpsNext
  <2>8. CASE LearnPosition
    BY <2>8, OnGpsFixKeepsGpsInv DEF LearnPosition
  <2>9. ASSUME NEW t \in Tids, BeaconStep(t) PROVE GpsInv'
    BY <2>1, <2>9 DEF BeaconStep, sensorVars
  <2>10. CASE UNCHANGED vars
    BY <2>1, <2>10 DEF vars, sensorVars
  <2> QED BY <2>2, <2>3, <2>4, <2>5, <2>6, <2>7, <2>8, <2>9, <2>10 DEF Next
<1> QED BY <1>1, <1>2, PTL DEF Spec

(* The position that the station announces, in an SOS or to the gate, was  *)
(* measured after every loss of the fix it was told of, for any number of  *)
(* losses, reconnections and fixes waiting in the asyncio loop             *)
(* (gpsd_client.py, _parse_line).                                          *)
THEOREM PositionStaysFresh == Spec => []PositionIsFresh
<1>1. GpsInv => PositionIsFresh
  BY DEF GpsInv
<1> QED BY <1>1, GpsInvHolds, PTL

(***************************************************************************)
(* The identity.                                                           *)
(***************************************************************************)
(* Names that may go on the air: config.toml has held them, and they are   *)
(* complete.                                                               *)
Speakable == {id \in saved : Configured(id)}
Mains == {Idle, [doing |-> "join SOS"]}
         \cup [doing : {"sync", "rename", "adopt", "show"}, id : Identities]
         \cup [doing : {"join HB"}, mode : HbModes]
Rows == [kind : {"HB", "SOS"}, audio : {Nothing} \cup Speakable]

FilesOK ==
    /\ saved \subseteq Identities /\ disk \in saved
    /\ live \in [text : saved, synced : {TRUE}]
    /\ {config, ui} \subseteq saved
    /\ main \in Mains
    /\ main.doing = "rename" => tmp = File(main.id, TRUE)
    /\ main.doing \in {"adopt", "show"} => main.id \in saved
AirOK ==
    /\ rows \in Seq(Rows) /\ Len(rows) <= QueueDepth
    /\ onAir \in {Nothing} \cup [kind : {"HB", "SOS"}, identity : Speakable]
ThreadsOK == threads \in Seq(Thread)
HeldOK == hbBeacon \in Tids \cup {None} /\ sosBeacon \in Tids \cup {None}
WishesOK == hbMode \in HbModes /\ armed \in BOOLEAN /\ override \in BOOLEAN
CountsOK == reverts \in Nat /\ strays \in Nat /\ stalls \in Nat
NamesInv ==
    /\ session \in Sessions
    /\ FilesOK /\ AirOK /\ ThreadsOK /\ HeldOK /\ WishesOK /\ CountsOK

(* What a session is made of.                                              *)
LEMMA SessionFields ==
    ASSUME NEW s \in Sessions
    PROVE  /\ s.identity \in Identities /\ s.edits \subseteq Identities
           /\ s.modes \subseteq HbModes /\ s.pipeline \in BOOLEAN
           /\ s.stalls \in Nat
BY StationAssumption

(* Updates of a thread, and what they leave.                               *)
LEMMA ThreadMoves ==
    ASSUME ThreadsOK, NEW t \in Tids,
           NEW where \in {"fire", "put", "complete", "wait", "ended"}, Move(t, where)
    PROVE  /\ ThreadsOK' /\ Len(threads') = Len(threads) /\ Tids' = Tids
           /\ threads'[t] = [kind |-> threads[t].kind, single |-> threads[t].single,
                             stopped |-> threads[t].stopped, at |-> where]
           /\ \A u \in Tids \ {t} : threads'[u] = threads[u]
<1> DEFINE moved == [threads[t] EXCEPT !.at = where]
<1>1. threads' = [threads EXCEPT ![t] = moved]
  BY Zenon DEF Move
<1>2. threads[t] \in Thread /\ t \in 1..Len(threads)
  BY LenProperties, ElementOfSeq DEF ThreadsOK, Tids
<1>3. moved = [kind |-> threads[t].kind, single |-> threads[t].single,
               stopped |-> threads[t].stopped, at |-> where]
  <2>1. ASSUME NEW r \in Thread
        PROVE  [r EXCEPT !.at = where] = [kind |-> r.kind, single |-> r.single,
                                        stopped |-> r.stopped, at |-> where]
    <3>1. r = [kind |-> r.kind, single |-> r.single, stopped |-> r.stopped, at |-> r.at]
      BY DEF Thread
    <3> QED BY <3>1
  <2> QED BY <1>2, <2>1
<1> HIDE DEF moved
<1>4. moved \in Thread
  BY <1>2, <1>3 DEF Thread
<1> QED BY <1>1, <1>2, <1>3, <1>4, ExceptSeq, LenProperties DEF ThreadsOK, Tids

(* Telling a thread to stop leaves it where it is and the others alone.    *)
LEMMA ThreadStops ==
    ASSUME ThreadsOK, NEW t \in Tids,
           Stop(t)
    PROVE  /\ ThreadsOK' /\ Len(threads') = Len(threads) /\ Tids' = Tids
           /\ threads'[t] = [kind |-> threads[t].kind, single |-> threads[t].single,
                             stopped |-> TRUE, at |-> threads[t].at]
           /\ \A u \in Tids \ {t} : threads'[u] = threads[u]
<1> DEFINE halted == [threads[t] EXCEPT !.stopped = TRUE]
<1>1. threads' = [threads EXCEPT ![t] = halted]
  BY Zenon DEF Stop
<1>2. threads[t] \in Thread /\ t \in 1..Len(threads)
  BY LenProperties, ElementOfSeq DEF ThreadsOK, Tids
<1>3. halted = [kind |-> threads[t].kind, single |-> threads[t].single,
                stopped |-> TRUE, at |-> threads[t].at]
  <2>1. ASSUME NEW r \in Thread, NEW value
        PROVE  [r EXCEPT !.stopped = value] = [kind |-> r.kind, single |-> r.single,
                                              stopped |-> value, at |-> r.at]
    <3>1. r = [kind |-> r.kind, single |-> r.single, stopped |-> r.stopped, at |-> r.at]
      BY DEF Thread
    <3> QED BY <3>1
  <2> QED BY <1>2, <2>1, Zenon
<1> HIDE DEF halted
<1>4. halted \in Thread
  BY <1>2, <1>3 DEF Thread
<1> QED BY <1>1, <1>2, <1>3, <1>4, ExceptSeq, LenProperties DEF ThreadsOK, Tids

(* Starting a thread adds one with a new number.                           *)
LEMMA ThreadStarts ==
    ASSUME ThreadsOK, NEW kind \in {"HB", "SOS"}, NEW single \in BOOLEAN,
           threads' = Started(Beacon(kind, single))
    PROVE  /\ ThreadsOK' /\ Len(threads') = Len(threads) + 1
           /\ Tids = 1..Len(threads) /\ Tids' = 1..(Len(threads) + 1)
           /\ threads'[Len(threads) + 1] = Beacon(kind, single)
           /\ \A u \in Tids : threads'[u] = threads[u]
<1>1. Beacon(kind, single) \in Thread
  BY DEF Beacon, Thread
<1> QED BY <1>1, LenProperties DEF ThreadsOK, Tids, Started

(* What an action leaves alone keeps its part.                             *)
LEMMA NamesFrames ==
    ASSUME NamesInv
    PROVE  /\ UNCHANGED session => session' \in Sessions
           /\ UNCHANGED <<files, names, main, saved>> => FilesOK'
           /\ UNCHANGED <<rows, onAir, saved>> => AirOK'
           /\ UNCHANGED threads => ThreadsOK'
           /\ UNCHANGED <<threads, hbBeacon, sosBeacon>> => HeldOK'
           /\ UNCHANGED <<hbMode, armed, override>> => WishesOK'
           /\ UNCHANGED <<reverts, strays, stalls>> => CountsOK'
<1>1. UNCHANGED session => session' \in Sessions
  BY DEF NamesInv
<1>2. UNCHANGED <<files, names, main, saved>> => FilesOK'
  BY DEF NamesInv, FilesOK, files, names
<1>3. UNCHANGED <<rows, onAir, saved>> => AirOK'
  BY DEF NamesInv, AirOK, Rows, Speakable
<1>4. UNCHANGED threads => ThreadsOK'
  BY DEF NamesInv, ThreadsOK
<1>5. UNCHANGED <<threads, hbBeacon, sosBeacon>> => HeldOK'
  BY DEF NamesInv, HeldOK, Tids
<1>6. UNCHANGED <<hbMode, armed, override>> => WishesOK'
  BY DEF NamesInv, WishesOK
<1>7. UNCHANGED <<reverts, strays, stalls>> => CountsOK'
  BY DEF NamesInv, CountsOK
<1> QED BY <1>1, <1>2, <1>3, <1>4, <1>5, <1>6, <1>7

(* Every step of a save knows the identity it saves.                       *)
LEMMA SavesAreTyped ==
    ASSUME FilesOK, main.doing \in {"sync", "rename", "adopt", "show"}
    PROVE  main.id \in Identities
<1>1. main # Idle /\ main # [doing |-> "join SOS"]
  <2>1. Idle.doing = "nothing" /\ [doing |-> "join SOS"].doing = "join SOS"
    BY DEF Idle
  <2> QED BY <2>1, Zenon
<1>2. main \notin [doing : {"join HB"}, mode : HbModes]
  OBVIOUS
<1>3. main \in [doing : {"sync", "rename", "adopt", "show"}, id : Identities]
  BY <1>1, <1>2 DEF FilesOK, Mains
<1> QED BY <1>3

(* No step of a save spoils the names, failing or not.                     *)
LEMMA SavingKeepsNames ==
    ASSUME NamesInv, Saving
    PROVE  NamesInv'
<1>1. /\ FilesOK /\ AirOK /\ session \in Sessions
      /\ UNCHANGED <<session, wishes, beacons, air>>
  BY DEF NamesInv, Saving
<1>2. /\ session' \in Sessions /\ ThreadsOK' /\ HeldOK' /\ WishesOK' 
      /\ reverts' \in Nat /\ strays' \in Nat
  BY <1>1, NamesFrames DEF wishes, beacons, air, NamesInv, CountsOK
<1>3. UNCHANGED <<rows, onAir>>
  BY <1>1 DEF air
<1> SUFFICES FilesOK' /\ AirOK' /\ stalls' = stalls
  BY <1>2 DEF NamesInv, CountsOK
<1>4. CASE Write
  <2>1. PICK id \in Identities : main' = Save("sync", id)
    BY <1>1, <1>4, SessionFields DEF Write
  <2>2. UNCHANGED <<disk, live, config, ui, saved, stalls>>
    BY <1>4 DEF Write, names, counts
  <2> QED BY <1>1, <1>3, <2>1, <2>2, NamesFrames DEF FilesOK, Mains, Save
<1>5. CASE Sync
  <2>1. main.id \in Identities
    BY <1>1, <1>5, SavesAreTyped DEF Sync
  <2>2. /\ main' = Save("rename", main.id) /\ tmp' = File(main.id, TRUE)
        /\ UNCHANGED <<disk, live, config, ui, saved, stalls>>
    BY <1>5 DEF Sync, names, counts
  <2> QED BY <1>1, <1>3, <2>1, <2>2, NamesFrames DEF FilesOK, Mains, Save
<1>6. CASE Rename
  <2>1. main.doing = "rename" /\ main.id \in Identities /\ tmp = File(main.id, TRUE)
    BY <1>1, <1>6, SavesAreTyped DEF Rename, FilesOK
  <2>2. /\ main' = Save("adopt", main.id)
        /\ live' = File(main.id, TRUE) /\ saved' = saved \cup {main.id}
        /\ UNCHANGED <<disk, config, ui, stalls>>
    BY <1>6, <2>1 DEF Rename, names, counts
  <2>3. FilesOK'
    BY <1>1, <2>1, <2>2 DEF FilesOK, Mains, File, Save
  <2>4. AirOK'
    <3>1. Speakable \subseteq Speakable'
      BY <2>2 DEF Speakable
    <3>2. Rows \subseteq Rows'
      BY <3>1 DEF Rows
    <3>3. rows \in Seq(Rows')
      BY <1>1, <3>2, SeqMonotonic DEF AirOK
    <3> QED BY <1>1, <1>3, <3>1, <3>3 DEF AirOK
  <2> QED BY <2>2, <2>3, <2>4
<1>7. CASE WriteFails
  BY <1>1, <1>3, <1>7, NamesFrames DEF WriteFails, FilesOK, Mains, Idle, names
<1>8. CASE Adopt
  <2>1. CASE main.doing = "adopt"
    <3>1. /\ main' = Save("show", main.id) /\ config' = main.id
          /\ UNCHANGED <<disk, live, ui, saved, stalls>>
      BY <1>8, <2>1 DEF Adopt, files, counts
    <3>2. main.id \in Identities
      BY <1>1, <2>1, SavesAreTyped
    <3> QED BY <1>1, <1>3, <2>1, <3>1, <3>2, NamesFrames DEF FilesOK, Mains, Save
  <2>2. CASE main.doing = "show"
    <3>1. main' = Idle /\ ui' = main.id /\ UNCHANGED <<disk, live, config, saved, stalls>>
      BY <1>8, <2>2 DEF Adopt, files, counts
    <3> QED BY <1>1, <1>3, <2>2, <3>1, NamesFrames DEF FilesOK, Mains, Idle
  <2> QED BY <1>8, <2>1, <2>2 DEF Adopt
<1>9. CASE Settle
  <2>1. disk' = live.text /\ UNCHANGED <<live, tmp, config, ui, main, saved, stalls>>
    BY <1>1, <1>9 DEF Settle, names, counts, FilesOK
  <2> QED BY <1>1, <1>3, <2>1, NamesFrames DEF FilesOK
<1> QED BY <1>4, <1>5, <1>6, <1>7, <1>8, <1>9 DEF Saving

(* Nor does a loss of power: what is on disk is whole.                     *)
LEMMA PowerLossKeepsNames ==
    ASSUME NamesInv, PowerLoss
    PROVE  NamesInv'
<1>1. FilesOK /\ AirOK /\ CountsOK /\ session \in Sessions
  BY DEF NamesInv
<1>2. PICK text \in {disk, IF live.synced THEN live.text ELSE Half} :
        disk' = text /\ live' = File(text, TRUE) /\ Boot(text)
  BY DEF PowerLoss
<1>3. text \in saved /\ text \in Identities
  BY <1>1, <1>2 DEF FilesOK
<1>4. UNCHANGED <<session, onAir, saved, strays, stalls>>
  BY DEF PowerLoss
<1>5. FilesOK'
  BY <1>1, <1>2, <1>3, <1>4 DEF FilesOK, File, Boot, Mains, Idle
<1>6. AirOK'
  <2>1. rows' = << >> /\ << >> \in Seq(Rows') /\ Len(<< >>) = 0
    BY <1>2 DEF Boot
  <2> QED BY <1>1, <1>4, <2>1, StationAssumption DEF AirOK, Speakable
<1>7. ThreadsOK' /\ HeldOK'
  BY <1>2 DEF Boot, ThreadsOK, HeldOK
<1>8. WishesOK'
  BY <1>2 DEF Boot, WishesOK, HbModes
<1>9. CountsOK'
  BY <1>1, <1>2, <1>4 DEF Boot, CountsOK
<1> QED BY <1>1, <1>4, <1>5, <1>6, <1>7, <1>8, <1>9 DEF NamesInv

(* Nor does a beacon thread.                                               *)
LEMMA BeaconStepKeepsNames ==
    ASSUME NamesInv, NEW t \in Tids, BeaconStep(t)
    PROVE  NamesInv'
<1>1. AirOK /\ ThreadsOK /\ HeldOK /\ CountsOK
  BY DEF NamesInv
<1>2. /\ UNCHANGED <<session, hbBeacon, sosBeacon, onAir, saved, stalls>>
      /\ session' \in Sessions /\ FilesOK' /\ WishesOK'
  BY NamesFrames DEF BeaconStep, NamesInv, wishes, counts
<1>3. \E where \in {"fire", "put", "complete", "wait", "ended"} : Move(t, where)
  BY DEF BeaconStep, Fire, Put, Complete, Wake, AfterFire
<1>4. ThreadsOK' /\ Tids' = Tids
  BY <1>1, <1>3, ThreadMoves
<1>5. HeldOK'
  BY <1>1, <1>2, <1>4 DEF HeldOK
<1>6. threads[t].kind \in {"HB", "SOS"}
  <2>1. threads[t] \in Thread
    BY <1>1, LenProperties, ElementOfSeq DEF ThreadsOK, Tids
  <2> QED BY <2>1 DEF Thread
<1>7. AirOK'
  <2>1. CASE UNCHANGED rows
    BY <1>2, <2>1, NamesFrames
  <2>2. CASE /\ Len(rows) < QueueDepth
             /\ rows' = Append(rows, [kind |-> threads[t].kind, audio |-> Nothing])
    <3>1. [kind |-> threads[t].kind, audio |-> Nothing] \in Rows
      BY <1>6 DEF Rows
    <3>2. Rows' = Rows /\ Speakable' = Speakable
      BY <1>2 DEF Rows, Speakable
    <3> QED BY <1>1, <1>2, <2>2, <3>1, <3>2, StationAssumption DEF AirOK
  <2> QED BY <2>1, <2>2 DEF BeaconStep, Fire, Put, Complete, Wake
<1>8. CountsOK'
  BY <1>1, <1>2 DEF BeaconStep, Fire, Put, Complete, Wake, CountsOK
<1> QED BY <1>2, <1>4, <1>5, <1>7, <1>8 DEF NamesInv

(* Nor does the encode worker, whose audio carries a name that was in use. *)
LEMMA EncodeKeepsNames ==
    ASSUME NamesInv, Encode
    PROVE  NamesInv'
<1>1. /\ session' \in Sessions /\ FilesOK' /\ ThreadsOK' /\ HeldOK' /\ WishesOK'
      /\ CountsOK' /\ UNCHANGED <<saved, onAir>>
  BY NamesFrames DEF Encode, NamesInv, wishes, beacons, counts
<1>2. AirOK /\ FilesOK
  BY DEF NamesInv
<1>3. PICK i \in DOMAIN rows :
        rows' = IF Configured(ui) THEN [rows EXCEPT ![i].audio = ui] ELSE RemoveAt(rows, i)
  BY DEF Encode, Uncoded, Firsts
<1>4. i \in 1..Len(rows) /\ rows[i] \in Rows /\ rows \in Seq(Rows)
  BY <1>2, LenProperties, ElementOfSeq DEF AirOK
<1>5. rows' \in Seq(Rows) /\ Len(rows') <= QueueDepth
  <2>1. CASE Configured(ui)
    <3> DEFINE spoken == [rows[i] EXCEPT !.audio = ui]
    <3>1. rows' = [rows EXCEPT ![i] = spoken]
      BY <1>3, <2>1, Zenon
    <3>2. ui \in Speakable
      BY <1>2, <2>1 DEF FilesOK, Speakable
    <3>3. spoken \in Rows
      <4>1. ASSUME NEW r \in Rows PROVE [r EXCEPT !.audio = ui] \in Rows
        BY <3>2 DEF Rows
      <4> QED BY <1>4, <4>1
    <3> HIDE DEF spoken
    <3> QED BY <1>2, <1>4, <3>1, <3>3, ExceptSeq DEF AirOK
  <2>2. CASE ~Configured(ui)
    BY <1>2, <1>3, <1>4, <2>2, RemoveAtKeepsSeq, LenProperties, StationAssumption DEF AirOK
  <2> QED BY <2>1, <2>2
<1>6. AirOK'
  BY <1>1, <1>2, <1>5 DEF AirOK, Rows, Speakable
<1> QED BY <1>1, <1>6 DEF NamesInv

(* Nor does the transmission of that audio.                                *)
LEMMA TransmitKeepsNames ==
    ASSUME NamesInv, Transmit
    PROVE  NamesInv'
<1>1. /\ session' \in Sessions /\ FilesOK' /\ ThreadsOK' /\ HeldOK' /\ WishesOK'
      /\ CountsOK' /\ UNCHANGED saved
  BY NamesFrames DEF Transmit, NamesInv, wishes, beacons, counts
<1>2. AirOK
  BY DEF NamesInv
<1>3. PICK i \in DOMAIN rows :
        /\ rows[i].audio # Nothing /\ rows' = RemoveAt(rows, i)
        /\ onAir' = [kind |-> rows[i].kind, identity |-> rows[i].audio]
  BY DEF Transmit, Coded, Firsts
<1>4. i \in 1..Len(rows) /\ rows[i] \in Rows /\ rows \in Seq(Rows)
  BY <1>2, LenProperties, ElementOfSeq DEF AirOK
<1>5. rows' \in Seq(Rows) /\ Len(rows') <= QueueDepth
  BY <1>2, <1>3, <1>4, RemoveAtKeepsSeq, LenProperties, StationAssumption DEF AirOK
<1>6. onAir' \in [kind : {"HB", "SOS"}, identity : Speakable]
  BY <1>3, <1>4 DEF Rows
<1>7. AirOK'
  BY <1>1, <1>5, <1>6 DEF AirOK, Rows, Speakable
<1> QED BY <1>1, <1>7 DEF NamesInv

(* Starting the heartbeat keeps the table of threads well formed.          *)
LEMMA StartHbKeepsThreads ==
    ASSUME ThreadsOK, HeldOK, NEW mode \in HbModes, StartHb(mode), UNCHANGED sosBeacon
    PROVE  ThreadsOK' /\ HeldOK'
<1>1. CASE hbBeacon' = None /\ UNCHANGED threads
  BY <1>1 DEF ThreadsOK, HeldOK, Tids
<1>2. CASE /\ threads' = Started(Beacon("HB", mode = "SINGLE"))
           /\ hbBeacon' = Len(threads')
  <2> DEFINE single == mode = "SINGLE"
  <2>1. single \in BOOLEAN
    OBVIOUS
  <2> HIDE DEF single
  <2>2. /\ ThreadsOK' /\ Len(threads') = Len(threads) + 1
        /\ Tids = 1..Len(threads) /\ Tids' = 1..(Len(threads) + 1)
    BY <1>2, <2>1, ThreadStarts DEF single
  <2>3. Len(threads) \in Nat
    BY LenProperties DEF ThreadsOK
  <2>4. hbBeacon' \in Tids' /\ Tids \subseteq Tids'
    BY <1>2, <2>2, <2>3
  <2> QED BY <2>2, <2>4 DEF HeldOK
<1> QED BY <1>1, <1>2 DEF StartHb

(* A join of the heartbeat knows the mode to go on with.                   *)
LEMMA JoinIsTyped ==
    ASSUME FilesOK, main.doing = "join HB"
    PROVE  main.mode \in HbModes
<1>1. main # Idle /\ main # [doing |-> "join SOS"]
  <2>1. Idle.doing = "nothing" /\ [doing |-> "join SOS"].doing = "join SOS"
    BY DEF Idle
  <2> QED BY <2>1, Zenon
<1>2. main \notin [doing : {"sync", "rename", "adopt", "show"}, id : Identities]
  OBVIOUS
<1>3. main \in [doing : {"join HB"}, mode : HbModes]
  BY <1>1, <1>2 DEF FilesOK, Mains
<1> QED BY <1>3

(* A change of the heartbeat mode touches no name.                         *)
LEMMA SetHbModeKeepsNames ==
    ASSUME NamesInv, NEW mode \in HbModes, SetHbMode(mode), UNCHANGED sosBeacon
    PROVE  /\ ThreadsOK' /\ HeldOK' /\ hbMode' \in HbModes
           /\ main' \in {main} \cup [doing : {"join HB"}, mode : HbModes]
<1>1. ThreadsOK /\ HeldOK
  BY DEF NamesInv
<1>2. CASE hbBeacon = None
  BY <1>1, <1>2, StartHbKeepsThreads DEF SetHbMode
<1>3. CASE hbBeacon # None
  <2>1. hbBeacon \in Tids /\ Stop(hbBeacon) /\ UNCHANGED hbBeacon
    BY <1>1, <1>3 DEF SetHbMode, HeldOK
  <2>2. ThreadsOK' /\ Tids' = Tids
    BY <1>1, <2>1, ThreadStops
  <2>3. hbMode' = mode /\ main' = [doing |-> "join HB", mode |-> mode]
    BY <1>3 DEF SetHbMode
  <2> QED BY <1>1, <2>1, <2>2, <2>3 DEF HeldOK
<1> QED BY <1>2, <1>3

(* Nothing the operator does makes half a name.                            *)
LEMMA OperatorKeepsNames ==
    ASSUME NamesInv, Operator
    PROVE  NamesInv'
<1>1. /\ FilesOK /\ ThreadsOK /\ HeldOK /\ WishesOK /\ CountsOK /\ session \in Sessions
      /\ main \in Mains
  BY DEF NamesInv, FilesOK
<1>2. /\ session' \in Sessions /\ AirOK' /\ strays' = strays
      /\ UNCHANGED <<disk, live, tmp, config, ui, saved>>
  BY NamesFrames DEF Operator, air, files, names
<1>3. ASSUME main' \in {main, Idle, [doing |-> "join SOS"]}
                       \cup [doing : {"join HB"}, mode : HbModes]
      PROVE  FilesOK'
  <2>1. CASE main' = main
    BY <1>1, <1>2, <2>1 DEF FilesOK, Mains
  <2>2. CASE main' \in {Idle, [doing |-> "join SOS"]}
    <3>1. Idle.doing = "nothing" /\ [doing |-> "join SOS"].doing = "join SOS"
      BY DEF Idle
    <3>2. main'.doing \in {"nothing", "join SOS"}
      BY <2>2, <3>1, Zenon
    <3> QED BY <1>1, <1>2, <2>2, <3>2 DEF FilesOK, Mains
  <2>3. CASE main' \in [doing : {"join HB"}, mode : HbModes]
    <3>1. main'.doing = "join HB"
      BY <2>3
    <3> QED BY <1>1, <1>2, <2>3, <3>1 DEF FilesOK, Mains
  <2> QED BY <1>3, <2>1, <2>2, <2>3
<1> SUFFICES /\ main' \in {main, Idle, [doing |-> "join SOS"]}
                          \cup [doing : {"join HB"}, mode : HbModes]
             /\ ThreadsOK' /\ HeldOK' /\ WishesOK' /\ reverts' \in Nat /\ stalls' \in Nat
  BY <1>1, <1>2, <1>3 DEF NamesInv, CountsOK
<1>4. CASE SelectHbMode
  <2>1. PICK mode \in HbModes : SetHbMode(mode) /\ UNCHANGED sosBeacon
    BY <1>1, <1>4, SessionFields DEF SelectHbMode
  <2>2. /\ ThreadsOK' /\ HeldOK' /\ hbMode' \in HbModes
        /\ main' \in {main} \cup [doing : {"join HB"}, mode : HbModes]
    BY <2>1, SetHbModeKeepsNames
  <2>3. UNCHANGED <<override, armed, reverts, stalls>>
    BY <1>4 DEF SelectHbMode
  <2> QED BY <1>1, <2>2, <2>3 DEF WishesOK, CountsOK
<1>5. CASE Revert
  <2>1. reverts' \in Nat /\ stalls' \in Nat /\ UNCHANGED <<override, armed, sosBeacon>>
    BY <1>1, <1>5 DEF Revert, CountsOK
  <2>2. CASE UNCHANGED <<hbMode, hbBeacon, threads, main>>
    BY <1>1, <2>1, <2>2, NamesFrames DEF WishesOK
  <2>3. CASE SetHbMode("OFF")
    <3>1. "OFF" \in HbModes
      BY DEF HbModes
    <3>2. /\ ThreadsOK' /\ HeldOK' /\ hbMode' \in HbModes
          /\ main' \in {main} \cup [doing : {"join HB"}, mode : HbModes]
      BY <2>1, <2>3, <3>1, SetHbModeKeepsNames
    <3> QED BY <1>1, <2>1, <3>2 DEF WishesOK
  <2> QED BY <1>5, <2>2, <2>3 DEF Revert
<1>6. ASSUME NEW t, Joined(t) PROVE stalls' \in Nat
  BY <1>1, <1>6 DEF Joined, CountsOK
<1>7. CASE JoinHb
  <2>1. main.mode \in HbModes
    BY <1>1, <1>7, JoinIsTyped DEF JoinHb
  <2>2. ThreadsOK' /\ HeldOK'
    BY <1>1, <1>7, <2>1, StartHbKeepsThreads DEF JoinHb
  <2> QED BY <1>1, <1>6, <1>7, <2>2 DEF JoinHb, wishes, WishesOK, CountsOK
<1>8. CASE Arm
  <2>1. CASE UNCHANGED <<threads, sosBeacon>>
    BY <1>1, <1>8, <2>1, NamesFrames DEF Arm, WishesOK, CountsOK
  <2>2. CASE threads' = Started(Beacon("SOS", FALSE)) /\ sosBeacon' = Len(threads')
    <3>1. /\ ThreadsOK' /\ Len(threads') = Len(threads) + 1
          /\ Tids = 1..Len(threads) /\ Tids' = 1..(Len(threads) + 1)
      BY <1>1, <2>2, ThreadStarts
    <3>2. Len(threads) \in Nat
      BY <1>1, LenProperties DEF ThreadsOK
    <3>3. HeldOK'
      <4>1. UNCHANGED hbBeacon
        BY <1>8 DEF Arm, beacons
      <4>2. sosBeacon' \in Tids' /\ Tids \subseteq Tids'
        <5>1. sosBeacon' = Len(threads')
          BY <2>2, Zenon
        <5> QED BY <3>1, <3>2, <5>1
      <4> QED BY <1>1, <4>1, <4>2 DEF HeldOK
    <3> QED BY <1>1, <1>8, <3>1, <3>3 DEF Arm, WishesOK, CountsOK
  <2> QED BY <1>8, <2>1, <2>2 DEF Arm
<1>9. CASE Disarm
  <2>1. CASE UNCHANGED <<threads, main>>
    BY <1>1, <1>9, <2>1, NamesFrames DEF Disarm, WishesOK, CountsOK
  <2>2. CASE sosBeacon # None /\ Stop(sosBeacon) /\ main' = [doing |-> "join SOS"]
    <3>1. ThreadsOK' /\ Tids' = Tids
      BY <1>1, <2>2, ThreadStops DEF HeldOK
    <3> QED BY <1>1, <1>9, <2>2, <3>1 DEF Disarm, HeldOK, WishesOK, CountsOK
  <2> QED BY <1>9, <2>1, <2>2 DEF Disarm
<1>10. CASE JoinSos
  <2>1. ThreadsOK' /\ HeldOK'
    BY <1>1, <1>10 DEF JoinSos, ThreadsOK, HeldOK, Tids
  <2> QED BY <1>1, <1>6, <1>10, <2>1 DEF JoinSos, wishes, WishesOK, CountsOK
<1>11. CASE Bypass
  BY <1>1, <1>11, NamesFrames DEF Bypass, beacons, WishesOK, CountsOK
<1> QED BY <1>4, <1>5, <1>7, <1>8, <1>9, <1>10, <1>11 DEF Operator

(* The names are right in every reachable state.                           *)
LEMMA NamesInvHolds == Spec => []NamesInv
<1>1. Init => NamesInv
  <2> SUFFICES ASSUME Init PROVE NamesInv
    OBVIOUS
  <2>1. session \in Sessions /\ session.identity \in Identities
    BY SessionFields DEF Init
  <2>2. FilesOK
    BY <2>1 DEF Init, FilesOK, Mains, Idle
  <2>3. AirOK
    BY StationAssumption DEF Init, AirOK
  <2>4. ThreadsOK /\ HeldOK
    BY DEF Init, ThreadsOK, HeldOK
  <2>5. WishesOK /\ CountsOK
    BY DEF Init, WishesOK, CountsOK, HbModes
  <2> QED BY <2>1, <2>2, <2>3, <2>4, <2>5 DEF NamesInv
<1>2. NamesInv /\ [Next]_vars => NamesInv'
  <2> SUFFICES ASSUME NamesInv, [Next]_vars PROVE NamesInv'
    OBVIOUS
  <2>1. ASSUME UNCHANGED <<session, files, names, main, saved, rows, onAir, threads, hbBeacon,
                           sosBeacon, hbMode, armed, override, reverts, strays, stalls>>
        PROVE  NamesInv'
    BY <2>1, NamesFrames DEF NamesInv
  <2>2. CASE Surroundings
    BY <2>1, <2>2 DEF Surroundings, wishes, beacons, air, counts
  <2>3. CASE LearnPosition
    BY <2>1, <2>3 DEF LearnPosition, wishes, beacons, air, counts
  <2>4. CASE UNCHANGED vars
    BY <2>1, <2>4 DEF vars, wishes, beacons, air, counts
  <2> QED BY <2>2, <2>3, <2>4, SavingKeepsNames, PowerLossKeepsNames, OperatorKeepsNames,
             EncodeKeepsNames, TransmitKeepsNames, BeaconStepKeepsNames DEF Next
<1> QED BY <1>1, <1>2, PTL DEF Spec

(* Nobody else's name goes on the air: a burst carries a call sign and a   *)
(* grid that config.toml has held together and that are complete, however  *)
(* edits, failing writes, losses of power, beacons and the encode worker   *)
(* interleave (_save_config_sync, _tx_identity).                           *)
THEOREM BurstsAreSaved == Spec => []AirIsSaved
<1>1. NamesInv => AirIsSaved
  BY DEF NamesInv, AirOK, Speakable, AirIsSaved
<1> QED BY <1>1, NamesInvHolds, PTL

(* A loss of power leaves a whole configuration, the old one or the new    *)
(* one (save_atomic).                                                      *)
THEOREM ConfigIsNeverHalf == Spec => []ConfigSurvives
<1>1. NamesInv => ConfigSurvives
  BY StationAssumption DEF NamesInv, FilesOK, ConfigSurvives
<1> QED BY <1>1, NamesInvHolds, PTL

(***************************************************************************)
(* The beacons.                                                            *)
(***************************************************************************)
(* A thread that nobody holds has been told to stop and will not fire      *)
(* again; the thread that is held has been told to stop exactly while the  *)
(* asyncio thread waits for it.                                            *)
WindsUp(t) == \/ threads[t].at = "ended"
              \/ threads[t].stopped /\ threads[t].at # "fire"
LooseEnds == \A t \in Tids :
    /\ threads[t].at = "complete" => threads[t].single
    /\ ~threads[t].single /\ ~threads[t].stopped => threads[t].at # "ended"
    /\ ~Held(t) => WindsUp(t)
HbHeld ==
    /\ hbBeacon # None => /\ threads[hbBeacon].kind = "HB"
                          /\ threads[hbBeacon].stopped <=> main.doing = "join HB"
    /\ main.doing = "join HB" => hbBeacon # None /\ main.mode = hbMode
    /\ session.pipeline /\ main.doing # "join HB" =>
          /\ hbMode = "OFF" <=> hbBeacon = None
          /\ hbBeacon # None => (threads[hbBeacon].single <=> hbMode = "SINGLE")
SosHeld ==
    /\ sosBeacon # None => /\ threads[sosBeacon].kind = "SOS"
                           /\ ~threads[sosBeacon].single
                           /\ threads[sosBeacon].stopped <=> main.doing = "join SOS"
    /\ main.doing = "join SOS" => sosBeacon # None /\ ~armed
    /\ session.pipeline /\ main.doing # "join SOS" => (armed <=> sosBeacon # None)
BeaconInv == LooseEnds /\ HbHeld /\ SosHeld

(* The inductive invariant of the beacons says what was promised of them.  *)
LEMMA BeaconInvSuffices ==
    ASSUME NamesInv, BeaconInv
    PROVE  BeaconsAsWanted
<1>1. /\ ThreadsOK /\ hbBeacon \in Tids \cup {None} /\ sosBeacon \in Tids \cup {None}
      /\ hbMode \in HbModes /\ LooseEnds /\ HbHeld /\ SosHeld
  BY DEF NamesInv, HeldOK, WishesOK, BeaconInv
<1>2. Running("HB") \subseteq {hbBeacon} /\ Running("SOS") \subseteq {sosBeacon}
  <2>1. ASSUME NEW t \in Tids, ~threads[t].stopped, threads[t].at # "ended"
        PROVE  t = hbBeacon \/ t = sosBeacon
    BY <1>1, <2>1 DEF LooseEnds, Held, WindsUp
  <2>2. 0 \notin Tids
    BY <1>1, LenProperties DEF ThreadsOK, Tids
  <2> QED BY <1>1, <2>1, <2>2 DEF Running, HbHeld, SosHeld, None
<1>3. ASSUME main = Idle, session.pipeline
      PROVE  /\ armed <=> Running("SOS") # {}
             /\ hbMode \in {"20 MIN", "1 HR"} <=> \E t \in Running("HB") : ~threads[t].single
  <2>1. main.doing = "nothing"
    BY <1>3 DEF Idle
  <2>2. 0 \notin Tids
    BY <1>1, LenProperties DEF ThreadsOK, Tids
  <2>3. armed <=> Running("SOS") # {}
    <3>1. CASE sosBeacon = None
      BY <1>1, <1>2, <1>3, <2>1, <2>2, <3>1 DEF SosHeld, Running, None
    <3>2. CASE sosBeacon # None
      <4>1. sosBeacon \in Running("SOS")
        BY <1>1, <2>1, <3>2 DEF SosHeld, LooseEnds, Running
      <4> QED BY <1>1, <1>3, <2>1, <3>2, <4>1 DEF SosHeld
    <3> QED BY <3>1, <3>2
  <2>4. ASSUME hbMode \in {"20 MIN", "1 HR"}
        PROVE  hbBeacon \in Running("HB") /\ ~threads[hbBeacon].single
    BY <1>1, <1>3, <2>1, <2>4 DEF HbHeld, LooseEnds, Running
  <2>5. ASSUME NEW t \in Running("HB"), ~threads[t].single
        PROVE  hbMode \in {"20 MIN", "1 HR"}
    <3>1. t = hbBeacon /\ t \in Tids
      BY <1>2 DEF Running
    <3> QED BY <1>1, <1>3, <2>1, <2>2, <2>5, <3>1 DEF HbHeld, HbModes, None
  <2> QED BY <2>3, <2>4, <2>5
<1> QED BY <1>2, <1>3 DEF BeaconsAsWanted

(* Nothing a beacon's life depends on changes.                             *)
LEMMA BeaconFrames ==
    ASSUME BeaconInv,
           UNCHANGED <<session, threads, hbBeacon, sosBeacon, hbMode, armed>>,
           \/ main' = main
           \/ /\ main.doing \notin {"join HB", "join SOS"}
              /\ main'.doing \notin {"join HB", "join SOS"}
    PROVE  BeaconInv'
<1>1. LooseEnds'
  BY DEF BeaconInv, LooseEnds, Held, Tids, WindsUp
<1>2. HbHeld'
  BY DEF BeaconInv, HbHeld
<1>3. SosHeld'
  BY DEF BeaconInv, SosHeld
<1> QED BY <1>1, <1>2, <1>3 DEF BeaconInv

(* A save leaves the beacons alone.                                        *)
LEMMA SavingKeepsBeacons ==
    ASSUME BeaconInv, Saving
    PROVE  BeaconInv'
<1>1. Idle.doing = "nothing"
  BY DEF Idle
<1>2. \/ main' = main
      \/ /\ main.doing \notin {"join HB", "join SOS"}
         /\ main'.doing \notin {"join HB", "join SOS"}
  <2>1. \A step, id : Save(step, id).doing = step
    BY DEF Save
  <2>2. CASE Write
    <3>1. main.doing = "nothing"
      BY <1>1, <2>2 DEF Write
    <3>2. main'.doing = "sync"
      BY <2>1, <2>2 DEF Write
    <3> QED BY <3>1, <3>2
  <2>3. CASE Sync \/ Rename \/ WriteFails \/ Adopt
    <3>1. main.doing \in {"sync", "rename", "adopt", "show"}
      BY <2>3 DEF Sync, Rename, WriteFails, Adopt
    <3>2. main' = Idle \/ \E step \in {"rename", "adopt", "show"} : main' = Save(step, main.id)
      BY <2>3 DEF Sync, Rename, WriteFails, Adopt
    <3>3. main'.doing \in {"nothing", "rename", "adopt", "show"}
      BY <1>1, <2>1, <3>2
    <3> QED BY <3>1, <3>3
  <2>4. CASE Settle
    BY <2>4 DEF Settle
  <2> QED BY <2>2, <2>3, <2>4 DEF Saving
<1>3. UNCHANGED <<session, threads, hbBeacon, sosBeacon, hbMode, armed>>
  BY DEF Saving, wishes, beacons
<1> QED BY <1>2, <1>3, BeaconFrames

(* Nobody wants a beacon and there is none.                                *)
Quiet == /\ threads = << >> /\ hbBeacon = None /\ sosBeacon = None /\ main = Idle
         /\ hbMode = "OFF" /\ armed = FALSE
(* Then what runs is what is wanted.                                       *)
LEMMA BootStartsBeacons == Quiet => BeaconInv
<1> SUFFICES ASSUME Quiet PROVE BeaconInv
  OBVIOUS
<1>1. main.doing = "nothing"
  BY DEF Quiet, Idle
<1>2. LooseEnds
  BY DEF Quiet, LooseEnds, Tids
<1>3. HbHeld /\ SosHeld
  BY <1>1 DEF Quiet, HbHeld, SosHeld
<1> QED BY <1>2, <1>3 DEF BeaconInv

(* What a step of a beacon does to its thread.                             *)
LEMMA StepOfThread ==
    ASSUME ThreadsOK, NEW t \in Tids, BeaconStep(t)
    PROVE  /\ Tids' = Tids /\ \A u \in Tids \ {t} : threads'[u] = threads[u]
           /\ threads'[t].kind = threads[t].kind
           /\ threads'[t].single = threads[t].single
           /\ threads'[t].stopped = threads[t].stopped
           /\ \/ /\ threads[t].at \in {"fire", "put"}
                 /\ threads'[t].at \in {"put", AfterFire(t)}
                 /\ threads'[t].at = "put" => threads[t].at = "fire"
              \/ threads[t].at = "complete" /\ threads'[t].at = "ended"
              \/ /\ threads[t].at = "wait"
                 /\ threads'[t].at = IF threads[t].stopped THEN "ended" ELSE "fire"
<1>1. AfterFire(t) \in {"complete", "wait"}
  BY DEF AfterFire
<1>2. ASSUME NEW where \in {"fire", "put", "complete", "wait", "ended"}, Move(t, where)
      PROVE  /\ Tids' = Tids /\ \A u \in Tids \ {t} : threads'[u] = threads[u]
             /\ threads'[t].kind = threads[t].kind
             /\ threads'[t].single = threads[t].single
             /\ threads'[t].stopped = threads[t].stopped
             /\ threads'[t].at = where
  <2>1. threads'[t] = [kind |-> threads[t].kind, single |-> threads[t].single,
                       stopped |-> threads[t].stopped, at |-> where]
    BY <1>2, ThreadMoves, Zenon
  <2>2. Tids' = Tids /\ \A u \in Tids \ {t} : threads'[u] = threads[u]
    BY <1>2, ThreadMoves
  <2> QED BY <2>1, <2>2
<1>3. CASE Fire(t)
  BY <1>1, <1>2, <1>3 DEF Fire
<1>4. CASE Put(t)
  BY <1>1, <1>2, <1>4 DEF Put
<1>5. CASE Complete(t)
  BY <1>2, <1>5 DEF Complete
<1>6. CASE Wake(t)
  BY <1>2, <1>6 DEF Wake
<1> QED BY <1>3, <1>4, <1>5, <1>6 DEF BeaconStep

(* A beacon that fires, puts, completes or waits is as wanted as before.   *)
LEMMA BeaconStepKeepsBeacons ==
    ASSUME NamesInv, BeaconInv, NEW t \in Tids, BeaconStep(t)
    PROVE  BeaconInv'
<1>1. /\ ThreadsOK /\ HeldOK /\ LooseEnds /\ HbHeld /\ SosHeld
      /\ UNCHANGED <<hbBeacon, sosBeacon, session, main, hbMode, armed>>
  BY DEF NamesInv, BeaconInv, BeaconStep, wishes
<1>2. /\ Tids' = Tids
      /\ \A u \in Tids : /\ threads'[u].kind = threads[u].kind
                          /\ threads'[u].single = threads[u].single
                          /\ threads'[u].stopped = threads[u].stopped
  BY <1>1, StepOfThread
<1>5. \A u : Held(u)' <=> Held(u)
  BY <1>1 DEF Held
<1>3. LooseEnds'
  <2>1. ASSUME NEW u \in Tids
        PROVE  /\ threads'[u].at = "complete" => threads'[u].single
               /\ ~threads'[u].single /\ ~threads'[u].stopped => threads'[u].at # "ended"
               /\ ~Held(u)' => WindsUp(u)'
    <3>1. CASE u # t
      BY <1>1, <1>2, <1>5, <3>1, StepOfThread DEF LooseEnds, WindsUp
    <3>2. CASE u = t
      <4>1. /\ threads[t].at = "complete" => threads[t].single
            /\ ~Held(t) => \/ threads[t].at = "ended"
                           \/ threads[t].stopped /\ threads[t].at # "fire"
        BY <1>1 DEF LooseEnds, WindsUp
      <4> QED BY <1>1, <1>2, <1>5, <3>2, <4>1, StepOfThread DEF AfterFire, WindsUp
    <3> QED BY <3>1, <3>2
  <2> QED BY <1>2, <2>1 DEF LooseEnds
<1>4. HbHeld' /\ SosHeld'
  <2>1. HbHeld'
    <3>1. CASE hbBeacon \in Tids
      <4>1. /\ threads'[hbBeacon].kind = threads[hbBeacon].kind
            /\ threads'[hbBeacon].single = threads[hbBeacon].single
            /\ threads'[hbBeacon].stopped = threads[hbBeacon].stopped
        BY <1>2, <3>1
      <4> QED BY <1>1, <4>1 DEF HbHeld
    <3>2. CASE hbBeacon = None
      BY <1>1, <3>2 DEF HbHeld
    <3> QED BY <1>1, <3>1, <3>2 DEF HeldOK
  <2>2. SosHeld'
    <3>1. CASE sosBeacon \in Tids
      <4>1. /\ threads'[sosBeacon].kind = threads[sosBeacon].kind
            /\ threads'[sosBeacon].single = threads[sosBeacon].single
            /\ threads'[sosBeacon].stopped = threads[sosBeacon].stopped
        BY <1>2, <3>1
      <4> QED BY <1>1, <4>1 DEF SosHeld
    <3>2. CASE sosBeacon = None
      BY <1>1, <3>2 DEF SosHeld
    <3> QED BY <1>1, <3>1, <3>2 DEF HeldOK
  <2> QED BY <2>1, <2>2
<1> QED BY <1>3, <1>4 DEF BeaconInv

(* No thread has the number that stands for no thread.                     *)
LEMMA ThreadsAreNumbered == ThreadsOK => None \notin Tids
<1>1. ThreadsOK => Len(threads) \in Nat /\ Tids = 1..Len(threads)
  BY LenProperties DEF ThreadsOK, Tids
<1>2. ThreadsOK => 0 \notin Tids
  BY <1>1
<1> QED BY <1>2 DEF None

(* A new beacon thread is held, and the old one, if any, is a loose end.   *)
LEMMA NewThread ==
    ASSUME ThreadsOK, LooseEnds, NEW kind \in {"HB", "SOS"}, NEW single \in BOOLEAN,
           NEW n, n = Len(threads) + 1, n \in {hbBeacon', sosBeacon'},
           threads' = Started(Beacon(kind, single)),
           \A t \in Tids : Held(t) /\ ~Held(t)' => WindsUp(t)
    PROVE  /\ LooseEnds'
           /\ n # None /\ None \notin Tids
           /\ \A t \in Tids : t # n /\ threads'[t] = threads[t]
           /\ threads'[n].kind = kind /\ threads'[n].single = single
           /\ threads'[n].stopped = FALSE
<1>1. Len(threads) \in Nat
  BY LenProperties DEF ThreadsOK
<1>2. /\ threads'[n] = Beacon(kind, single) /\ \A t \in Tids : threads'[t] = threads[t]
      /\ Tids = 1..Len(threads) /\ Tids' = 1..(Len(threads) + 1)
  BY ThreadStarts
<1>3. n # None /\ None \notin Tids /\ Tids' = Tids \cup {n} /\ n \notin Tids
  BY <1>1, <1>2 DEF None
<1>4. /\ threads'[n].kind = kind /\ threads'[n].single = single
      /\ threads'[n].stopped = FALSE /\ threads'[n].at = "fire"
  <2>1. \A k, s : /\ Beacon(k, s).kind = k /\ Beacon(k, s).single = s
                  /\ Beacon(k, s).stopped = FALSE /\ Beacon(k, s).at = "fire"
    BY DEF Beacon
  <2>2. /\ Beacon(kind, single).kind = kind /\ Beacon(kind, single).single = single
        /\ Beacon(kind, single).stopped = FALSE /\ Beacon(kind, single).at = "fire"
    BY <2>1, Zenon
  <2> QED BY <1>2, <2>2, Zenon
<1>5. LooseEnds'
  <2>1. ASSUME NEW t \in Tids'
        PROVE  /\ threads'[t].at = "complete" => threads'[t].single
               /\ ~threads'[t].single /\ ~threads'[t].stopped => threads'[t].at # "ended"
               /\ ~Held(t)' => WindsUp(t)'
    <3>1. CASE t = n
      <4>1. Held(t)'
        BY <3>1 DEF Held
      <4>2. threads'[t].at = "fire"
        BY <1>4, <3>1
      <4> QED BY <4>1, <4>2
    <3>2. CASE t \in Tids
      <4>1. /\ threads[t].at = "complete" => threads[t].single
            /\ ~threads[t].single /\ ~threads[t].stopped => threads[t].at # "ended"
            /\ ~Held(t) => WindsUp(t)
        BY <3>2 DEF LooseEnds
      <4>2. threads'[t] = threads[t]
        BY <1>2, <3>2
      <4>3. WindsUp(t)' <=> WindsUp(t)
        BY <4>2 DEF WindsUp
      <4> QED BY <3>2, <4>1, <4>2, <4>3
    <3> QED BY <1>3, <2>1, <3>1, <3>2
  <2> QED BY <2>1 DEF LooseEnds
<1> QED BY <1>2, <1>3, <1>4, <1>5

(* The heartbeat thread of the new mode takes the place of the old one,    *)
(* which has ended or will.                                                *)
LEMMA StartHbKeepsBeacons ==
    ASSUME ThreadsOK, HeldOK, BeaconInv, NEW mode \in HbModes, StartHb(mode),
           main'.doing = "nothing", hbMode' = mode, UNCHANGED <<session, armed, sosBeacon>>,
           main.doing # "join SOS",
           hbBeacon # None => WindsUp(hbBeacon)
    PROVE  BeaconInv'
<1>1. LooseEnds /\ HbHeld /\ SosHeld
  BY DEF BeaconInv
<1>2. None \notin Tids
  BY ThreadsAreNumbered
<1>3. \A t \in Tids : Held(t) /\ ~Held(t)' => WindsUp(t)
  BY <1>2 DEF Held
<1>4. CASE hbBeacon' = None /\ threads' = threads /\ (mode = "OFF" \/ ~session.pipeline)
  <2>1. LooseEnds'
    BY <1>1, <1>3, <1>4 DEF LooseEnds, Held, Tids, WindsUp
  <2>2. HbHeld'
    BY <1>1, <1>4 DEF HbHeld
  <2>3. SosHeld'
    BY <1>1, <1>4 DEF SosHeld
  <2> QED BY <2>1, <2>2, <2>3 DEF BeaconInv
<1>5. CASE /\ threads' = Started(Beacon("HB", mode = "SINGLE"))
           /\ hbBeacon' = Len(threads') /\ mode # "OFF"
  <2>1. PICK single \in BOOLEAN : single = (mode = "SINGLE")
    OBVIOUS
  <2>2. threads' = Started(Beacon("HB", single))
    BY <1>5, <2>1, Zenon
  <2>3. hbBeacon' = Len(threads) + 1
    <3>1. Len(threads') = Len(threads) + 1
      BY <2>2, ThreadStarts
    <3> QED BY <1>5, <3>1, Zenon
  <2>4. PICK n : n = Len(threads) + 1 /\ n = hbBeacon'
    BY <2>3
  <2>5. /\ LooseEnds' /\ n # None
        /\ \A t \in Tids : t # n /\ threads'[t] = threads[t]
        /\ threads'[n].kind = "HB" /\ threads'[n].single = single
        /\ threads'[n].stopped = FALSE
    <3>1. n \in {hbBeacon', sosBeacon'}
      BY <2>4
    <3> QED BY <1>1, <1>3, <2>2, <2>4, <3>1, NewThread
  <2>6. HbHeld'
    BY <1>5, <2>1, <2>4, <2>5 DEF HbHeld, None
  <2>7. SosHeld'
    <3>1. sosBeacon # None => sosBeacon \in Tids /\ threads'[sosBeacon] = threads[sosBeacon]
      BY <2>5 DEF HeldOK
    <3> QED BY <1>1, <3>1 DEF SosHeld
  <2> QED BY <2>5, <2>6, <2>7 DEF BeaconInv
<1> QED BY <1>4, <1>5 DEF StartHb

(* A thread that is held is told to stop.                                  *)
LEMMA HeldThreadStops ==
    ASSUME ThreadsOK, LooseEnds, NEW t \in Tids, Stop(t), UNCHANGED <<hbBeacon, sosBeacon>>
    PROVE  /\ LooseEnds'
           /\ threads'[t].kind = threads[t].kind /\ threads'[t].single = threads[t].single
           /\ threads'[t].stopped = TRUE
           /\ \A u \in Tids \ {t} : threads'[u] = threads[u]
<1>1. Tids' = Tids /\ \A u \in Tids \ {t} : threads'[u] = threads[u]
  BY ThreadStops
<1>2. /\ threads'[t].kind = threads[t].kind /\ threads'[t].single = threads[t].single
      /\ threads'[t].stopped = TRUE /\ threads'[t].at = threads[t].at
  <2>1. threads'[t] = [kind |-> threads[t].kind, single |-> threads[t].single,
                       stopped |-> TRUE, at |-> threads[t].at]
    BY ThreadStops
  <2> QED BY <2>1
<1>3. LooseEnds'
  <2>1. ASSUME NEW u \in Tids
        PROVE  /\ threads'[u].at = "complete" => threads'[u].single
               /\ ~threads'[u].single /\ ~threads'[u].stopped => threads'[u].at # "ended"
               /\ ~Held(u)' => WindsUp(u)'
    <3>1. Held(u)' <=> Held(u)
      BY DEF Held
    <3>2. CASE u = t
      <4>1. (threads[t].at = "complete" => threads[t].single) /\ (~Held(t) => WindsUp(t))
        BY DEF LooseEnds
      <4>2. WindsUp(t) => WindsUp(t)'
        BY <1>2 DEF WindsUp
      <4> QED BY <1>2, <3>1, <3>2, <4>1, <4>2
    <3>3. CASE u # t
      <4>1. threads'[u] = threads[u]
        BY <1>1, <3>3
      <4>2. WindsUp(u)' <=> WindsUp(u)
        BY <4>1 DEF WindsUp
      <4> QED BY <3>1, <4>1, <4>2 DEF LooseEnds
    <3> QED BY <3>2, <3>3
  <2> QED BY <1>1, <2>1 DEF LooseEnds
<1> QED BY <1>1, <1>2, <1>3

(* After a change of mode no thread runs but the one that the mode wants.  *)
LEMMA SetHbModeKeepsBeacons ==
    ASSUME ThreadsOK, HeldOK, BeaconInv, NEW mode \in HbModes, main.doing = "nothing",
           SetHbMode(mode), UNCHANGED <<session, armed, sosBeacon>>
    PROVE  BeaconInv'
<1>1. LooseEnds /\ HbHeld /\ SosHeld
  BY DEF BeaconInv
<1>2. CASE hbBeacon = None
  <2>1. StartHb(mode) /\ main' = main /\ hbMode' = mode
    BY <1>2 DEF SetHbMode
  <2>2. main'.doing = "nothing"
    BY <2>1
  <2> QED BY <1>2, <2>1, <2>2, StartHbKeepsBeacons
<1>3. CASE hbBeacon # None
  <2>1. /\ Stop(hbBeacon) /\ hbBeacon' = hbBeacon /\ hbBeacon \in Tids
        /\ hbMode' = mode /\ main' = [doing |-> "join HB", mode |-> mode]
    BY <1>3 DEF SetHbMode, HeldOK
  <2>2. main'.doing = "join HB" /\ main'.mode = mode
    BY <2>1
  <2>3. /\ LooseEnds'
        /\ threads'[hbBeacon].kind = threads[hbBeacon].kind
        /\ threads'[hbBeacon].stopped = TRUE
        /\ \A u \in Tids \ {hbBeacon} : threads'[u] = threads[u]
    BY <1>1, <2>1, HeldThreadStops
  <2>4. HbHeld'
    BY <1>1, <1>3, <2>1, <2>2, <2>3 DEF HbHeld
  <2>5. SosHeld'
    <3>1. sosBeacon # None => threads'[sosBeacon] = threads[sosBeacon]
      BY <1>1, <1>3, <2>3 DEF HeldOK, HbHeld, SosHeld
    <3> QED BY <1>1, <2>2, <3>1 DEF SosHeld
  <2> QED BY <2>3, <2>4, <2>5 DEF BeaconInv
<1> QED BY <1>2, <1>3

(* Nothing the operator does parts the beacons from what is wanted.        *)
LEMMA OperatorKeepsBeacons ==
    ASSUME NamesInv, BeaconInv, Operator
    PROVE  BeaconInv'
<1>1. /\ ThreadsOK /\ HeldOK /\ WishesOK /\ FilesOK /\ session \in Sessions
      /\ LooseEnds /\ HbHeld /\ SosHeld /\ session' = session
  BY DEF NamesInv, BeaconInv, Operator
<1>2. None \notin Tids /\ Idle.doing = "nothing"
  BY <1>1, ThreadsAreNumbered DEF Idle
<1>3. ASSUME NEW t, Joined(t), threads[t].stopped
      PROVE  WindsUp(t)
  BY <1>3 DEF Joined, WindsUp
<1>4. CASE SelectHbMode
  <2>1. PICK mode \in HbModes : SetHbMode(mode) /\ UNCHANGED <<armed, sosBeacon>>
    BY <1>1, <1>4, SessionFields DEF SelectHbMode
  <2>2. main.doing = "nothing"
    BY <1>2, <1>4 DEF SelectHbMode
  <2> QED BY <1>1, <2>1, <2>2, SetHbModeKeepsBeacons
<1>5. CASE Revert
  <2>1. main.doing = "nothing" /\ UNCHANGED <<armed, sosBeacon>>
    BY <1>2, <1>5 DEF Revert
  <2>2. CASE UNCHANGED <<hbMode, hbBeacon, threads, main>>
    BY <1>1, <2>1, <2>2, BeaconFrames
  <2>3. CASE SetHbMode("OFF")
    BY <1>1, <2>1, <2>3, SetHbModeKeepsBeacons DEF HbModes
  <2> QED BY <1>5, <2>2, <2>3 DEF Revert
<1>6. CASE JoinHb
  <2>1. /\ main.doing = "join HB" /\ Joined(hbBeacon) /\ StartHb(main.mode) /\ main' = Idle
        /\ hbMode' = hbMode /\ UNCHANGED <<armed, sosBeacon>>
    BY <1>6 DEF JoinHb, wishes
  <2>2. main.mode \in HbModes /\ main.mode = hbMode /\ hbBeacon # None
    BY <1>1, <2>1, JoinIsTyped DEF HbHeld
  <2>3. threads[hbBeacon].stopped
    BY <1>1, <2>1, <2>2 DEF HbHeld
  <2>4. WindsUp(hbBeacon)
    BY <1>3, <2>1, <2>3
  <2>5. main'.doing = "nothing" /\ main.doing # "join SOS" /\ hbMode' = main.mode
    BY <1>2, <2>1, <2>2
  <2> QED BY <1>1, <2>1, <2>2, <2>4, <2>5, StartHbKeepsBeacons
<1>7. CASE Arm
  <2>1. /\ main.doing = "nothing" /\ main' = main /\ ~armed /\ armed' = TRUE
        /\ UNCHANGED <<hbMode, hbBeacon>>
    BY <1>2, <1>7 DEF Arm
  <2>2. CASE ~session.pipeline /\ UNCHANGED <<threads, sosBeacon>>
    <3>1. LooseEnds'
      BY <1>1, <2>1, <2>2 DEF LooseEnds, Held, Tids, WindsUp
    <3>2. HbHeld' /\ SosHeld'
      BY <1>1, <2>1, <2>2 DEF HbHeld, SosHeld
    <3> QED BY <3>1, <3>2 DEF BeaconInv
  <2>3. CASE /\ session.pipeline /\ threads' = Started(Beacon("SOS", FALSE))
             /\ sosBeacon' = Len(threads')
    <3>1. sosBeacon = None
      BY <1>1, <2>1, <2>3 DEF SosHeld
    <3>2. sosBeacon' = Len(threads) + 1
      <4>1. Len(threads') = Len(threads) + 1
        BY <1>1, <2>3, ThreadStarts
      <4> QED BY <2>3, <4>1, Zenon
    <3>3. PICK n : n = Len(threads) + 1 /\ n = sosBeacon'
      BY <3>2
    <3>4. \A t \in Tids : Held(t) /\ ~Held(t)' => WindsUp(t)
      BY <1>2, <2>1, <3>1 DEF Held
    <3>5. /\ LooseEnds' /\ n # None
          /\ \A t \in Tids : t # n /\ threads'[t] = threads[t]
          /\ threads'[n].kind = "SOS" /\ threads'[n].single = FALSE
          /\ threads'[n].stopped = FALSE
      <4>1. n \in {hbBeacon', sosBeacon'}
        BY <3>3
      <4> QED BY <1>1, <2>3, <3>3, <3>4, <4>1, NewThread
    <3>6. SosHeld'
      BY <2>1, <3>3, <3>5 DEF SosHeld, None
    <3>7. HbHeld'
      <4>1. hbBeacon # None => threads'[hbBeacon] = threads[hbBeacon]
        BY <1>1, <3>5 DEF HeldOK
      <4> QED BY <1>1, <2>1, <4>1 DEF HbHeld
    <3> QED BY <3>5, <3>6, <3>7 DEF BeaconInv
  <2> QED BY <1>7, <2>2, <2>3 DEF Arm
<1>8. CASE Disarm
  <2>1. /\ main.doing = "nothing" /\ armed /\ armed' = FALSE
        /\ UNCHANGED <<hbMode, hbBeacon, sosBeacon>>
    BY <1>2, <1>8 DEF Disarm
  <2>2. CASE sosBeacon = None /\ UNCHANGED <<threads, main>>
    <3>1. LooseEnds'
      BY <1>1, <2>1, <2>2 DEF LooseEnds, Held, Tids, WindsUp
    <3>2. HbHeld' /\ SosHeld'
      BY <1>1, <2>1, <2>2 DEF HbHeld, SosHeld
    <3> QED BY <3>1, <3>2 DEF BeaconInv
  <2>3. CASE sosBeacon # None /\ Stop(sosBeacon) /\ main' = [doing |-> "join SOS"]
    <3>1. main'.doing = "join SOS" /\ sosBeacon \in Tids
      BY <1>1, <2>3 DEF HeldOK
    <3>2. /\ LooseEnds'
          /\ threads'[sosBeacon].kind = threads[sosBeacon].kind
          /\ threads'[sosBeacon].single = threads[sosBeacon].single
          /\ threads'[sosBeacon].stopped = TRUE
          /\ \A u \in Tids \ {sosBeacon} : threads'[u] = threads[u]
      BY <1>1, <2>1, <2>3, <3>1, HeldThreadStops
    <3>3. SosHeld'
      BY <1>1, <2>1, <2>3, <3>1, <3>2 DEF SosHeld
    <3>4. HbHeld'
      <4>1. hbBeacon # None => threads'[hbBeacon] = threads[hbBeacon]
        BY <1>1, <2>3, <3>2 DEF HeldOK, HbHeld, SosHeld
      <4> QED BY <1>1, <2>1, <3>1, <4>1 DEF HbHeld
    <3> QED BY <3>2, <3>3, <3>4 DEF BeaconInv
  <2> QED BY <1>8, <2>2, <2>3 DEF Disarm
<1>9. CASE JoinSos
  <2>1. /\ main.doing = "join SOS" /\ Joined(sosBeacon) /\ sosBeacon' = None /\ main' = Idle
        /\ UNCHANGED <<hbMode, armed, hbBeacon, threads>>
    BY <1>9 DEF JoinSos, wishes
  <2>2. sosBeacon # None /\ threads[sosBeacon].stopped /\ ~armed
    BY <1>1, <2>1 DEF SosHeld
  <2>3. WindsUp(sosBeacon)
    BY <1>3, <2>1, <2>2
  <2>4. main'.doing = "nothing"
    BY <1>2, <2>1
  <2>5. LooseEnds'
    <3>1. \A t \in Tids : Held(t) /\ ~Held(t)' => WindsUp(t)
      BY <2>1, <2>3 DEF Held
    <3> QED BY <1>1, <2>1, <3>1 DEF LooseEnds, Tids, WindsUp
  <2>6. HbHeld' /\ SosHeld'
    BY <1>1, <2>1, <2>2, <2>4 DEF HbHeld, SosHeld
  <2> QED BY <2>5, <2>6 DEF BeaconInv
<1>10. CASE Bypass
  BY <1>1, <1>10, BeaconFrames DEF Bypass, beacons
<1> QED BY <1>4, <1>5, <1>6, <1>7, <1>8, <1>9, <1>10 DEF Operator

(* The beacons are as wanted in every reachable state.                     *)
LEMMA BeaconInvHolds == Spec => []BeaconInv
<1>1. Init => BeaconInv
  BY BootStartsBeacons DEF Init, Quiet
<1>2. NamesInv /\ BeaconInv /\ [Next]_vars => BeaconInv'
  <2> SUFFICES ASSUME NamesInv, BeaconInv, [Next]_vars PROVE BeaconInv'
    OBVIOUS
  <2>1. CASE PowerLoss
    <3>1. Quiet'
      BY <2>1 DEF PowerLoss, Boot, Quiet, None, Idle
    <3>2. (Quiet => BeaconInv)'
      BY BootStartsBeacons, PTL
    <3> QED BY <3>1, <3>2
  <2>2. ASSUME UNCHANGED <<session, threads, hbBeacon, sosBeacon, hbMode, armed, main>>
        PROVE  BeaconInv'
    BY <2>2, BeaconFrames
  <2>3. CASE Encode \/ Transmit \/ Surroundings \/ LearnPosition \/ UNCHANGED vars
    BY <2>2, <2>3 DEF Encode, Transmit, Surroundings, LearnPosition, vars, wishes, beacons
  <2> QED BY <2>1, <2>3, SavingKeepsBeacons, OperatorKeepsBeacons, BeaconStepKeepsBeacons
          DEF Next
<1> QED BY <1>1, <1>2, NamesInvHolds, PTL DEF Spec

(* A beacon runs when, and only when, the operator wants it, however his   *)
(* commands, the ends of single shots, the threads themselves and losses   *)
(* of power interleave (_on_hb_mode_change, _on_emergency_arm_change).     *)
THEOREM BeaconsRunAsWanted == Spec => []BeaconsAsWanted
<1>1. NamesInv /\ BeaconInv => BeaconsAsWanted
  BY BeaconInvSuffices
<1> QED BY <1>1, NamesInvHolds, BeaconInvHolds, PTL

(***************************************************************************)
(* Silence.                                                                *)
(***************************************************************************)
(* Threads that nobody holds and that still write a row: each was let go   *)
(* by a join that ran out of its time, and writes one row.                 *)
Loose == {t \in Tids : ~Held(t) /\ threads[t].at = "put"}
SilenceInv == Cardinality(Loose) + strays <= stalls

(* The threads at large can be counted.                                    *)
LEMMA LooseIsFinite == ThreadsOK => IsFiniteSet(Loose) /\ Cardinality(Loose) \in Nat
<1> SUFFICES ASSUME ThreadsOK PROVE IsFiniteSet(Loose) /\ Cardinality(Loose) \in Nat
  OBVIOUS
<1>1. Len(threads) \in Nat /\ Tids = 1..Len(threads)
  BY LenProperties DEF ThreadsOK, Tids
<1>2. IsFiniteSet(Tids)
  BY <1>1, FS_Interval
<1>3. IsFiniteSet(Loose)
  BY <1>2, FS_Subset DEF Loose
<1> QED BY <1>3, FS_CardinalityType

(* No thread is let go.                                                    *)
LEMMA NoMoreLoose ==
    ASSUME ThreadsOK, ThreadsOK', CountsOK, SilenceInv, Loose' \subseteq Loose,
           strays' = strays, stalls' = stalls
    PROVE  SilenceInv'
<1>1. IsFiniteSet(Loose) /\ Cardinality(Loose) \in Nat
  BY LooseIsFinite
<1>2. Cardinality(Loose') <= Cardinality(Loose) /\ Cardinality(Loose') \in Nat
  BY <1>1, FS_Subset, FS_CardinalityType
<1> QED BY <1>1, <1>2 DEF SilenceInv, CountsOK

(* One thread is let go, by a join that stalled.                           *)
LEMMA OneMoreLoose ==
    ASSUME ThreadsOK, ThreadsOK', CountsOK, SilenceInv, NEW t, Loose' \subseteq Loose \cup {t},
           strays' = strays, stalls' = stalls + 1
    PROVE  SilenceInv'
<1>1. IsFiniteSet(Loose) /\ Cardinality(Loose) \in Nat
  BY LooseIsFinite
<1>2. /\ IsFiniteSet(Loose \cup {t})
      /\ Cardinality(Loose \cup {t}) \in {Cardinality(Loose), Cardinality(Loose) + 1}
  BY <1>1, FS_AddElement
<1>3. Cardinality(Loose') <= Cardinality(Loose \cup {t}) /\ Cardinality(Loose') \in Nat
  BY <1>2, FS_Subset, FS_CardinalityType
<1> QED BY <1>1, <1>2, <1>3 DEF SilenceInv, CountsOK

(* One of them has written its row.                                        *)
LEMMA OneLessLoose ==
    ASSUME ThreadsOK, ThreadsOK', CountsOK, SilenceInv, NEW t \in Loose,
           Loose' \subseteq Loose \ {t}, strays' \in {strays, strays + 1}, stalls' = stalls
    PROVE  SilenceInv'
<1>1. IsFiniteSet(Loose) /\ Cardinality(Loose) \in Nat
  BY LooseIsFinite
<1>2. IsFiniteSet(Loose \ {t}) /\ Cardinality(Loose \ {t}) = Cardinality(Loose) - 1
  BY <1>1, FS_RemoveElement
<1>3. Cardinality(Loose') <= Cardinality(Loose \ {t}) /\ Cardinality(Loose') \in Nat
  BY <1>2, FS_Subset, FS_CardinalityType
<1> QED BY <1>1, <1>2, <1>3 DEF SilenceInv, CountsOK

(* A thread at large that writes a row is at large no more.                *)
LEMMA BeaconStepKeepsSilence ==
    ASSUME ThreadsOK, ThreadsOK', CountsOK, LooseEnds, SilenceInv, NEW t \in Tids, BeaconStep(t)
    PROVE  SilenceInv'
<1>1. /\ Tids' = Tids /\ \A u \in Tids \ {t} : threads'[u] = threads[u]
      /\ threads'[t].at = "put" => threads[t].at = "fire"
  BY StepOfThread DEF AfterFire
<1>2. stalls' = stalls /\ \A u : Held(u)' <=> Held(u)
  BY DEF BeaconStep, counts, Held
<1>3. Loose' \subseteq Loose \ {t}
  <2>1. ASSUME NEW u \in Loose' PROVE u \in Loose \ {t}
    <3>1. u \in Tids /\ ~Held(u) /\ threads'[u].at = "put"
      BY <1>1, <1>2 DEF Loose
    <3>2. CASE u = t
      <4>1. threads[t].at = "fire" /\ WindsUp(t)
        BY <1>1, <3>1, <3>2 DEF LooseEnds
      <4> QED BY <4>1 DEF WindsUp
    <3>3. CASE u # t
      BY <1>1, <3>1, <3>3 DEF Loose
    <3> QED BY <3>2, <3>3
  <2> QED BY <2>1
<1>4. CASE t \in Loose
  <2>1. strays' \in {strays, strays + 1}
    BY DEF BeaconStep, Fire, Put, Complete, Wake
  <2> QED BY <1>2, <1>3, <1>4, <2>1, OneLessLoose
<1>5. CASE t \notin Loose
  <2>1. strays' = strays
    <3>1. CASE Put(t)
      <4>1. Held(t)
        BY <1>5, <3>1 DEF Loose, Put
      <4> QED BY <3>1, <4>1 DEF Put
    <3>2. CASE Fire(t) \/ Complete(t) \/ Wake(t)
      BY <3>2 DEF Fire, Complete, Wake
    <3> QED BY <3>1, <3>2 DEF BeaconStep
  <2> QED BY <1>2, <1>3, <2>1, NoMoreLoose
<1> QED BY <1>4, <1>5

(* Whoever is loose after a step was loose before, or was let go.          *)
LEMMA WhoIsLoose ==
    ASSUME \A t \in Tids' : \/ Held(t)'
                            \/ t \in Tids /\ threads'[t].at = threads[t].at
    PROVE  \A t \in Loose' :
              t \in Loose \/ (t \in Tids /\ Held(t) /\ ~Held(t)' /\ threads[t].at = "put")
<1> SUFFICES ASSUME NEW t \in Loose'
             PROVE  t \in Loose \/ (t \in Tids /\ Held(t) /\ ~Held(t)' /\ threads[t].at = "put")
  OBVIOUS
<1>1. t \in Tids' /\ ~Held(t)' /\ threads'[t].at = "put"
  BY DEF Loose
<1>2. t \in Tids /\ threads[t].at = "put"
  BY <1>1
<1>3. ~Held(t) => t \in Loose
  BY <1>2 DEF Loose
<1> QED BY <1>1, <1>2, <1>3

(* A new heartbeat thread leaves the others where they are.                *)
LEMMA StartHbKeepsAt ==
    ASSUME ThreadsOK, NEW mode \in HbModes, StartHb(mode)
    PROVE  \A t \in Tids' : Held(t)' \/ (t \in Tids /\ threads'[t].at = threads[t].at)
<1>1. CASE UNCHANGED threads
  BY <1>1 DEF Tids
<1>2. CASE threads' = Started(Beacon("HB", mode = "SINGLE")) /\ hbBeacon' = Len(threads')
  <2>1. PICK single \in BOOLEAN : single = (mode = "SINGLE")
    OBVIOUS
  <2>2. threads' = Started(Beacon("HB", single))
    BY <1>2, <2>1, Zenon
  <2>3. /\ Len(threads') = Len(threads) + 1 /\ Tids = 1..Len(threads)
        /\ Tids' = 1..(Len(threads) + 1) /\ \A u \in Tids : threads'[u] = threads[u]
    BY <2>2, ThreadStarts
  <2>4. Len(threads) \in Nat /\ hbBeacon' = Len(threads) + 1
    <3>1. Len(threads) \in Nat
      BY LenProperties DEF ThreadsOK
    <3>2. hbBeacon' = Len(threads) + 1
      BY <1>2, <2>3, Zenon
    <3> QED BY <3>1, <3>2
  <2>5. ASSUME NEW t \in Tids'
        PROVE  Held(t)' \/ (t \in Tids /\ threads'[t].at = threads[t].at)
    <3>1. CASE t = Len(threads) + 1
      BY <2>4, <3>1 DEF Held
    <3>2. CASE t # Len(threads) + 1
      <4>1. t \in Tids
        BY <2>3, <2>4, <3>2
      <4> QED BY <2>3, <4>1
    <3> QED BY <3>1, <3>2
  <2> QED BY <2>5
<1> QED BY <1>1, <1>2 DEF StartHb

(* A stopped thread is where it was.                                       *)
LEMMA StopKeepsAt ==
    ASSUME ThreadsOK, NEW t \in Tids, Stop(t)
    PROVE  \A u \in Tids' : u \in Tids /\ threads'[u].at = threads[u].at
<1>1. Tids' = Tids /\ \A u \in Tids \ {t} : threads'[u] = threads[u]
  BY ThreadStops
<1>2. threads'[t].at = threads[t].at
  <2>1. threads'[t] = [kind |-> threads[t].kind, single |-> threads[t].single,
                       stopped |-> TRUE, at |-> threads[t].at]
    BY ThreadStops
  <2> QED BY <2>1
<1> QED BY <1>1, <1>2

(* A change of mode leaves a thread at large only by a stall.              *)
LEMMA SetHbModeKeepsSilence ==
    ASSUME ThreadsOK, ThreadsOK', HeldOK, CountsOK, SilenceInv, NEW mode \in HbModes,
           SetHbMode(mode), sosBeacon' = sosBeacon, strays' = strays, stalls' = stalls
    PROVE  SilenceInv'
<1>1. \A t \in Tids' : Held(t)' \/ (t \in Tids /\ threads'[t].at = threads[t].at)
  <2>1. CASE hbBeacon = None
    BY <2>1, StartHbKeepsAt DEF SetHbMode
  <2>2. CASE hbBeacon # None
    BY <2>2, StopKeepsAt DEF SetHbMode, HeldOK
  <2> QED BY <2>1, <2>2
<1>2. \A t \in Tids : Held(t) => Held(t)'
  <2>1. None \notin Tids
    BY ThreadsAreNumbered
  <2>2. hbBeacon = None \/ hbBeacon' = hbBeacon
    BY DEF SetHbMode
  <2> QED BY <2>1, <2>2 DEF Held
<1>3. Loose' \subseteq Loose
  <2>1. \A t \in Loose' : t \in Tids'
    BY DEF Loose
  <2>2. \A t \in Loose' : ~Held(t)'
    BY DEF Loose
  <2> QED BY <1>1, <1>2, <2>1, <2>2 DEF Loose
<1> QED BY <1>3, NoMoreLoose

(* A join lets go of a thread that has ended, or stalls.                   *)
LEMMA JoinKeepsSilence ==
    ASSUME ThreadsOK, ThreadsOK', CountsOK, SilenceInv, NEW b, Joined(b), strays' = strays,
           \A t \in Tids' : Held(t)' \/ (t \in Tids /\ threads'[t].at = threads[t].at),
           \A t \in Tids : Held(t) /\ ~Held(t)' => t = b
    PROVE  SilenceInv'
<1>1. \A t \in Loose' : t \in Loose \/ (t = b /\ threads[b].at = "put")
  <2>1. \A t \in Loose' :
           t \in Loose \/ (t \in Tids /\ Held(t) /\ ~Held(t)' /\ threads[t].at = "put")
    BY WhoIsLoose
  <2> QED BY <2>1
<1>2. CASE threads[b].at = "ended" /\ UNCHANGED stalls
  BY <1>1, <1>2, NoMoreLoose
<1>3. CASE stalls' = stalls + 1
  BY <1>1, <1>3, OneMoreLoose
<1> QED BY <1>2, <1>3 DEF Joined

(* So does everything else the operator does.                              *)
LEMMA OperatorKeepsSilence ==
    ASSUME NamesInv, NamesInv', BeaconInv, SilenceInv, Operator
    PROVE  SilenceInv'
<1>1. /\ ThreadsOK /\ ThreadsOK' /\ HeldOK /\ CountsOK /\ FilesOK /\ session \in Sessions
      /\ HbHeld /\ SosHeld /\ strays' = strays
  BY DEF NamesInv, BeaconInv, Operator, air
<1>2. None \notin Tids
  BY <1>1, ThreadsAreNumbered
<1>3. CASE SelectHbMode
  <2>1. PICK mode \in HbModes : SetHbMode(mode) /\ UNCHANGED <<sosBeacon, stalls>>
    BY <1>1, <1>3, SessionFields DEF SelectHbMode
  <2> QED BY <1>1, <2>1, SetHbModeKeepsSilence
<1>4. CASE Revert
  <2>1. UNCHANGED <<sosBeacon, stalls>>
    BY <1>4 DEF Revert
  <2>2. CASE UNCHANGED <<hbMode, hbBeacon, threads, main>>
    <3>1. Loose' = Loose
      BY <2>1, <2>2 DEF Loose, Tids, Held
    <3> QED BY <1>1, <2>1, <3>1, NoMoreLoose
  <2>3. CASE SetHbMode("OFF")
    BY <1>1, <2>1, <2>3, SetHbModeKeepsSilence DEF HbModes
  <2> QED BY <1>4, <2>2, <2>3 DEF Revert
<1>5. CASE JoinHb
  <2>1. main.mode \in HbModes
    BY <1>1, <1>5, JoinIsTyped DEF JoinHb
  <2>2. Joined(hbBeacon) /\ StartHb(main.mode) /\ sosBeacon' = sosBeacon
    BY <1>5 DEF JoinHb
  <2>3. \A t \in Tids' : Held(t)' \/ (t \in Tids /\ threads'[t].at = threads[t].at)
    BY <1>1, <2>1, <2>2, StartHbKeepsAt
  <2>4. \A t \in Tids : Held(t) /\ ~Held(t)' => t = hbBeacon
    BY <2>2 DEF Held
  <2> QED BY <1>1, <2>2, <2>3, <2>4, JoinKeepsSilence
<1>6. CASE Arm
  <2>1. main.doing = "nothing" /\ ~armed /\ UNCHANGED <<hbBeacon, stalls>>
    BY <1>6 DEF Arm, Idle
  <2>2. CASE UNCHANGED <<threads, sosBeacon>>
    <3>1. Loose' = Loose
      BY <2>1, <2>2 DEF Loose, Tids, Held
    <3> QED BY <1>1, <2>1, <3>1, NoMoreLoose
  <2>3. CASE /\ session.pipeline /\ threads' = Started(Beacon("SOS", FALSE))
             /\ sosBeacon' = Len(threads')
    <3>1. sosBeacon = None
      BY <1>1, <2>1, <2>3 DEF SosHeld
    <3>2. /\ Len(threads') = Len(threads) + 1 /\ Tids = 1..Len(threads)
          /\ Tids' = 1..(Len(threads) + 1) /\ \A u \in Tids : threads'[u] = threads[u]
      BY <1>1, <2>3, ThreadStarts
    <3>3. Len(threads) \in Nat
      BY <1>1, LenProperties DEF ThreadsOK
    <3>4. sosBeacon' = Len(threads) + 1
      BY <2>3, <3>2, Zenon
    <3>5. Loose' \subseteq Loose
      <4>1. ASSUME NEW t \in Loose' PROVE t \in Loose
        <5>1. t \in Tids' /\ ~Held(t)' /\ threads'[t].at = "put"
          BY DEF Loose
        <5>2. t # Len(threads) + 1
          BY <3>4, <5>1 DEF Held
        <5>3. t \in Tids
          BY <3>2, <3>3, <5>1, <5>2
        <5>4. ~Held(t) /\ threads[t].at = "put"
          BY <1>2, <2>1, <3>1, <3>2, <5>1, <5>3 DEF Held
        <5> QED BY <5>3, <5>4 DEF Loose
      <4> QED BY <4>1
    <3> QED BY <1>1, <2>1, <3>5, NoMoreLoose
  <2> QED BY <1>6, <2>2, <2>3 DEF Arm
<1>7. CASE Disarm
  <2>1. UNCHANGED <<hbBeacon, sosBeacon, stalls>>
    BY <1>7 DEF Disarm
  <2>2. \A t \in Tids' : t \in Tids /\ threads'[t].at = threads[t].at
    <3>1. CASE UNCHANGED threads
      BY <3>1 DEF Tids
    <3>2. CASE sosBeacon # None /\ Stop(sosBeacon)
      BY <1>1, <3>2, StopKeepsAt DEF HeldOK
    <3> QED BY <1>7, <3>1, <3>2 DEF Disarm
  <2>3. Loose' \subseteq Loose
    BY <2>1, <2>2 DEF Loose, Held
  <2> QED BY <1>1, <2>1, <2>3, NoMoreLoose
<1>8. CASE JoinSos
  <2>1. Joined(sosBeacon) /\ UNCHANGED <<hbBeacon, threads>>
    BY <1>8 DEF JoinSos
  <2>2. \A t \in Tids' : Held(t)' \/ (t \in Tids /\ threads'[t].at = threads[t].at)
    BY <2>1 DEF Tids
  <2>3. \A t \in Tids : Held(t) /\ ~Held(t)' => t = sosBeacon
    BY <2>1 DEF Held
  <2> QED BY <1>1, <2>1, <2>2, <2>3, JoinKeepsSilence
<1>9. CASE Bypass
  <2>1. Loose' = Loose /\ stalls' = stalls
    BY <1>9 DEF Bypass, beacons, Loose, Tids, Held
  <2> QED BY <1>1, <2>1, NoMoreLoose
<1> QED BY <1>3, <1>4, <1>5, <1>6, <1>7, <1>8, <1>9 DEF Operator

(* Threads at large and the rows they wrote never outnumber the stalls.    *)
LEMMA SilenceInvHolds == Spec => []SilenceInv
<1>1. Init => SilenceInv
  <2> SUFFICES ASSUME Init PROVE SilenceInv
    OBVIOUS
  <2>1. Loose = {}
    BY DEF Init, Loose, Tids
  <2> QED BY <2>1, FS_EmptySet DEF Init, SilenceInv
<1>2. NamesInv /\ NamesInv' /\ BeaconInv /\ SilenceInv /\ [Next]_vars => SilenceInv'
  <2> SUFFICES ASSUME NamesInv, NamesInv', BeaconInv, SilenceInv, [Next]_vars
               PROVE  SilenceInv'
    OBVIOUS
  <2>1. ThreadsOK /\ ThreadsOK' /\ CountsOK /\ LooseEnds
    BY DEF NamesInv, BeaconInv
  <2>2. ASSUME Loose' \subseteq Loose, UNCHANGED <<strays, stalls>> PROVE SilenceInv'
    BY <2>1, <2>2, NoMoreLoose
  <2>3. ASSUME UNCHANGED <<threads, hbBeacon, sosBeacon, strays, stalls>> PROVE SilenceInv'
    BY <2>2, <2>3 DEF Loose, Tids, Held
  <2>4. CASE PowerLoss
    <3>1. threads' = << >> /\ UNCHANGED <<strays, stalls>>
      BY <2>4 DEF PowerLoss, Boot
    <3>2. Loose' = {}
      BY <3>1 DEF Loose, Tids
    <3> QED BY <2>2, <3>1, <3>2
  <2>5. CASE Saving
    <3>1. UNCHANGED stalls
      BY <2>5 DEF Saving, Write, Sync, Rename, WriteFails, Adopt, Settle, counts
    <3> QED BY <2>3, <2>5, <3>1 DEF Saving, beacons, air
  <2>6. CASE Encode \/ Transmit \/ Surroundings \/ LearnPosition \/ UNCHANGED vars
    BY <2>3, <2>6 DEF Encode, Transmit, Surroundings, LearnPosition, vars, beacons, air, counts
  <2>7. ASSUME NEW t \in Tids, BeaconStep(t) PROVE SilenceInv'
    BY <2>1, <2>7, BeaconStepKeepsSilence
  <2> QED BY <2>4, <2>5, <2>6, <2>7, OperatorKeepsSilence DEF Next
<1> QED BY <1>1, <1>2, NamesInvHolds, BeaconInvHolds, PTL DEF Spec

(* A beacon that was switched off is silent, but for the one message each  *)
(* thread was writing when the two seconds of its join ran out             *)
(* (BeaconScheduler.stop and join).                                        *)
THEOREM BeaconsOffAreSilent == Spec => []OffIsSilent
<1>1. NamesInv /\ SilenceInv => OffIsSilent
  <2> SUFFICES ASSUME NamesInv, SilenceInv PROVE OffIsSilent
    OBVIOUS
  <2>1. Cardinality(Loose) \in Nat
    BY LooseIsFinite DEF NamesInv
  <2> QED BY <2>1 DEF NamesInv, CountsOK, SilenceInv, OffIsSilent
<1> QED BY <1>1, NamesInvHolds, SilenceInvHolds, PTL

(***************************************************************************)
(* Types.                                                                  *)
(***************************************************************************)
TimeInv == /\ chrony \in BOOLEAN /\ chronyCache \in BOOLEAN
           /\ window \in 0..Window
PowerInv == /\ charge \in {"good", "critical", "unreadable"}
            /\ fails \in 0..(FailsBeforeUnknown - 1)
            /\ battery \in {"unknown", "good", "critical"}

(* No step of the clock and its tracker spoils their types and bounds.     *)
LEMMA TimeNextKeepsTimeInv ==
    ASSUME TimeInv, TimeNext
    PROVE  TimeInv'
<1>1. Window \in Nat \ {0}
  BY SensorsAssumption
<1>2. CASE FrameTimed
  BY <1>1, <1>2 DEF TimeInv, FrameTimed
<1>3. CASE ChronyChanges \/ CacheExpires
  BY <1>3 DEF TimeInv, ChronyChanges, CacheExpires
<1> QED BY <1>2, <1>3 DEF TimeNext

(* No step of the battery spoils its type.                                 *)
LEMMA PowerNextKeepsPowerInv ==
    ASSUME PowerInv, PowerNext
    PROVE  PowerInv'
<1>1. FailsBeforeUnknown \in Nat \ {0}
  BY SensorsAssumption
<1>2. CASE ChargeChanges
  BY <1>2 DEF PowerInv, ChargeChanges
<1>3. CASE Poll
  <2>1. charge' \in {"good", "critical", "unreadable"}
    BY <1>3 DEF PowerInv, Poll
  <2>2. fails' \in 0..(FailsBeforeUnknown - 1)
    BY <1>1, <1>3 DEF PowerInv, Poll
  <2>3. battery' \in {"unknown", "good", "critical"}
    BY <1>3 DEF PowerInv, Poll
  <2> QED BY <2>1, <2>2, <2>3 DEF PowerInv
<1> QED BY <1>2, <1>3 DEF PowerNext

(* Clock and battery keep their types and bounds.                          *)
LEMMA SensorsHold == Spec => [](TimeInv /\ PowerInv)
<1>0. ASSUME window = 0, fails = 0, battery = "unknown", chrony \in BOOLEAN,
             chronyCache = FALSE, charge \in {"good", "critical", "unreadable"}
      PROVE  TimeInv /\ PowerInv
  <2>1. window \in 0..Window
    BY <1>0, SensorsAssumption
  <2>2. TimeInv
    BY <1>0, <2>1 DEF TimeInv
  <2>3. fails \in 0..(FailsBeforeUnknown - 1)
    BY <1>0, SensorsAssumption
  <2> QED BY <1>0, <2>2, <2>3 DEF PowerInv
<1>1. Init => TimeInv /\ PowerInv
  <2> SUFFICES ASSUME Init PROVE TimeInv /\ PowerInv
    OBVIOUS
  <2>1. InitTime /\ InitPower
    BY DEF Init
  <2> QED BY <1>0, <2>1 DEF InitTime, InitPower
<1>2. TimeInv /\ PowerInv /\ [Next]_vars => (TimeInv /\ PowerInv)'
  <2> SUFFICES ASSUME TimeInv, PowerInv, [Next]_vars PROVE TimeInv' /\ PowerInv'
    OBVIOUS
  <2>1. UNCHANGED timeVars => TimeInv'
    BY DEF TimeInv, timeVars
  <2>2. UNCHANGED powerVars => PowerInv'
    BY DEF PowerInv, powerVars
  <2>3. CASE UNCHANGED sensorVars
    BY <2>1, <2>2, <2>3 DEF sensorVars
  <2>4. CASE Saving \/ Operator \/ Encode \/ (\E t \in Tids : BeaconStep(t)) \/ UNCHANGED vars
    BY <2>3, <2>4 DEF Saving, Operator, Encode, BeaconStep, vars
  <2>5. CASE PowerLoss
    <3>1. /\ chronyCache' = FALSE /\ window' = 0 /\ fails' = 0 /\ battery' = "unknown"
          /\ UNCHANGED <<chrony, charge>>
      BY <2>5 DEF PowerLoss
    <3>2. window' \in 0..Window
      BY <3>1, SensorsAssumption
    <3>3. TimeInv'
      BY <3>1, <3>2 DEF TimeInv
    <3>4. fails' \in 0..(FailsBeforeUnknown - 1)
      BY <3>1, SensorsAssumption
    <3> QED BY <3>1, <3>3, <3>4 DEF PowerInv
  <2>6. CASE Transmit
    <3>1. chronyCache' \in BOOLEAN /\ UNCHANGED <<chrony, window, powerVars>>
      BY <2>6 DEF Transmit, Probed, ChronyOk, TimeInv
    <3> QED BY <2>2, <3>1 DEF TimeInv
  <2>7. CASE Surroundings
    BY <2>1, <2>2, <2>7, TimeNextKeepsTimeInv, PowerNextKeepsPowerInv DEF Surroundings
  <2>8. CASE LearnPosition
    BY <2>1, <2>2, <2>8 DEF LearnPosition
  <2> QED BY <2>4, <2>5, <2>6, <2>7, <2>8 DEF Next
<1> QED BY <1>1, <1>2, PTL DEF Spec

(* The model is typed: the tracker's window, the queue and the counters    *)
(* stay within their bounds (MAX_QUEUE_DEPTH, DEFAULT_WINDOW_SIZE).        *)
THEOREM StationIsTyped == Spec => []TypeOK
<1>1. GpsInv /\ TimeInv /\ PowerInv => SensorsTypeOK
  <2> SUFFICES ASSUME GpsInv, TimeInv, PowerInv PROVE SensorsTypeOK
    OBVIOUS
  <2>1. shownLosses \in 0..losses
    <3>1. PICK spell \in [1..(Len(posted) + 1) -> 0..losses] : Spells(spell)
      BY DEF GpsInv
    <3>2. 1 \in 1..(Len(posted) + 1)
      BY LenProperties DEF GpsInv
    <3> QED BY <3>1, <3>2 DEF Spells
  <2>2. cached \in {NoPosition} \cup 0..MaxLosses
    BY DEF GpsInv
  <2> QED BY <2>1, <2>2 DEF GpsInv, TimeInv, PowerInv, SensorsTypeOK
<1>2. NamesInv /\ SensorsTypeOK => TypeOK
  <2> SUFFICES ASSUME NamesInv, SensorsTypeOK PROVE TypeOK
    OBVIOUS
  <2>1. rows \in Seq(BeaconRow) /\ Len(rows) <= QueueDepth
    <3>1. Rows \subseteq BeaconRow
      BY DEF NamesInv, FilesOK, Rows, BeaconRow, Speakable
    <3> QED BY <3>1 DEF NamesInv, AirOK
  <2>2. {config, ui} \subseteq Identities /\ saved \subseteq Identities /\ disk \in Identities
    BY DEF NamesInv, FilesOK
  <2> QED BY <2>1, <2>2 DEF NamesInv, ThreadsOK, HeldOK, WishesOK, CountsOK, TypeOK
<1> QED BY <1>1, <1>2, NamesInvHolds, GpsInvHolds, SensorsHold, PTL
===============================================================================
