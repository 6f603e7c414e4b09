------------------------------- MODULE Station -------------------------------
(***************************************************************************)
(* Who speaks on the air, and when: the identity of the station            *)
(* (config.py, _save_config_sync and _tx_identity in app.py), its two      *)
(* beacons (tx/beacon.py and their reconciliation in app.py), the encode   *)
(* worker's refusal to speak without a name, and the safety gate           *)
(* (tx/safety.py).  The asyncio thread runs the operator's commands, every *)
(* beacon is a thread, and so are the encode worker and the scheduler; of  *)
(* the outbound queue (TxPipeline) only the beacons' rows appear here, the *)
(* oldest first.                                                           *)
(***************************************************************************)
EXTENDS Sensors, FiniteSets, SequencesExt

CONSTANTS
    NoCall, NoGrid,     \* "N0CALL" and the empty grid
    Half, Absent,       \* a file that was cut off, no file
    Nothing,            \* no audio yet, no burst yet
    Calls, Grids,       \* what the operator may enter
    Sessions,           \* what may happen, see below
    QueueDepth,         \* MAX_QUEUE_DEPTH
    MaxThreads          \* bound: beacon threads of a run

(* A session: the identity in config.toml, whether the transmit pipeline   *)
(* came up, what the operator does (edits, heartbeat modes, SOS, override  *)
(* of the setup), what of the surroundings changes, and the bounds on      *)
(* beacon threads, on stalls of the database, on failing writes and on     *)
(* losses of power.                                                        *)
Identities == [call : Calls \cup {NoCall}, grid : Grids \cup {NoGrid}]
HbModes == {"OFF", "SINGLE", "20 MIN", "1 HR"}
ASSUME StationAssumption ==
    /\ {Half, Absent, Nothing} \cap Identities = {}
    /\ NoCall \notin Calls /\ NoGrid \notin Grids
    /\ QueueDepth \in Nat \ {0} /\ MaxThreads \in Nat
    /\ \A s \in Sessions :
          /\ s.identity \in Identities /\ s.edits \subseteq Identities
          /\ s.modes \subseteq HbModes
          /\ {s.pipeline, s.sos, s.bypass, s.sky, s.clock, s.power} \subseteq BOOLEAN
          /\ s.threads \in 0..MaxThreads
          /\ {s.stalls, s.failures, s.crashes} \subseteq Nat

VARIABLES
    session,
    disk,       \* what a loss of power leaves of config.toml
    live,       \* config.toml as the running system sees it
    tmp,        \* config.toml.tmp
    config,     \* MicroJS8App._config.station
    ui,         \* callsign and grid of UIState
    override,   \* UIState._emergency_override
    hbMode, armed,      \* UIState._hb_mode, _emergency_beacon_armed
    hbBeacon, sosBeacon,\* the threads of _hb_beacon and _emergency_beacon, or None
    threads,    \* the beacon threads started so far
    reverts,    \* _hb_revert_to_off calls waiting in the asyncio loop
    main,       \* what the asyncio thread is in the middle of
    rows,       \* the beacons' rows of the queue, oldest first
    onAir,      \* history: the last burst
    saved,      \* history: the identities config.toml has held
    strays,     \* history: rows enqueued by threads nobody holds any more
    stalls, failures, crashes

files == <<disk, live, tmp>>
names == <<config, ui>>
wishes == <<override, hbMode, armed>>
beacons == <<hbBeacon, sosBeacon, threads, reverts>>
air == <<rows, onAir, strays>>
counts == <<stalls, failures, crashes>>
vars == <<sensorVars, session, files, names, wishes, beacons, main, air,
          saved, counts>>

None == 0
Idle == [doing |-> "nothing"]

Configured(id) == id.call # NoCall /\ id.grid # NoGrid

(* A boot, with what config.toml says.  The outbound queue drops the       *)
(* beacons' rows of an earlier run (purge_stale_broadcasts).               *)
Boot(id) ==
    /\ config' = id /\ ui' = id /\ override' = FALSE
    /\ hbMode' = "OFF" /\ armed' = FALSE
    /\ hbBeacon' = None /\ sosBeacon' = None /\ threads' = << >> /\ reverts' = 0
    /\ main' = Idle /\ rows' = << >>

Init ==
    /\ session \in Sessions
    /\ InitGps /\ InitTime /\ InitPower
    /\ (~session.clock => chrony)
    /\ disk = session.identity /\ tmp = Absent
    /\ live = [text |-> session.identity, synced |-> TRUE]
    /\ config = session.identity /\ ui = session.identity /\ override = FALSE
    /\ hbMode = "OFF" /\ armed = FALSE
    /\ hbBeacon = None /\ sosBeacon = None /\ threads = << >> /\ reverts = 0
    /\ main = Idle /\ rows = << >>
    /\ onAir = Nothing /\ saved = {session.identity} /\ strays = 0
    /\ stalls = 0 /\ failures = 0 /\ crashes = 0

(***************************************************************************)
(* Saving the identity: save_atomic writes a temporary file, syncs it and  *)
(* renames it; then _save_config_sync replaces the configuration and, one  *)
(* step later, what the user interface shows.                              *)
(***************************************************************************)
File(text, synced) == [text |-> text, synced |-> synced]
Save(step, id) == [doing |-> step, id |-> id]

Write == \E id \in session.edits :
    /\ main = Idle
    /\ id # ui /\ (id.call = ui.call \/ id.grid = ui.grid)     \* one field
    /\ tmp' = Half
    /\ main' = Save("sync", id)
    /\ UNCHANGED <<disk, live, names, saved, counts>>
SlipSync ==             \* a bug: the rename does not wait for the data
    /\ main.doing = "sync"
    /\ tmp' = File(main.id, FALSE)
    /\ main' = Save("rename", main.id)
    /\ UNCHANGED <<disk, live, names, saved, counts>>
Sync ==
    /\ main.doing = "sync"
    /\ tmp' = File(main.id, TRUE)
    /\ main' = Save("rename", main.id)
    /\ UNCHANGED <<disk, live, names, saved, counts>>
Rename ==
    /\ main.doing = "rename"
    /\ live' = tmp /\ tmp' = Absent
    /\ saved' = saved \cup {main.id}
    /\ main' = Save("adopt", main.id)
    /\ UNCHANGED <<disk, names, counts>>
SlipWriteFails ==       \* a bug: the edit is kept in memory
    /\ main.doing \in {"sync", "rename"}
    /\ failures < session.failures /\ failures' = failures + 1
    /\ tmp' = Absent /\ main' = Save("adopt", main.id)
    /\ UNCHANGED <<disk, live, names, saved, stalls, crashes>>
WriteFails ==           \* ConfigError: nothing changes
    /\ main.doing \in {"sync", "rename"}
    /\ failures < session.failures /\ failures' = failures + 1
    /\ tmp' = Absent /\ main' = Idle
    /\ UNCHANGED <<disk, live, names, saved, stalls, crashes>>
Adopt ==
    \/ /\ main.doing = "adopt"
       /\ config' = main.id /\ main' = Save("show", main.id)
       /\ UNCHANGED <<files, ui, saved, counts>>
    \/ /\ main.doing = "show"
       /\ ui' = main.id /\ main' = Idle
       /\ UNCHANGED <<files, config, saved, counts>>

(* The file system: a rename reaches the disk some time later, and the     *)
(* data of a file that was not synced may not have.                        *)
Settle == LET text == IF live.synced THEN live.text ELSE Half
          IN /\ disk # text /\ disk' = text
             /\ UNCHANGED <<live, tmp, names, main, saved, counts>>

Saving == /\ Write \/ Sync \/ Rename \/ WriteFails \/ Adopt \/ Settle
          /\ UNCHANGED <<sensorVars, session, wishes, beacons, air>>

(* Power is lost and comes back; the program starts with what is on disk.  *)
PowerLoss ==
    /\ crashes < session.crashes /\ crashes' = crashes + 1
    /\ \E text \in {disk, IF live.synced THEN live.text ELSE Half} :
          /\ disk' = text /\ live' = File(text, TRUE)
          /\ text # Half /\ Boot(text)
    /\ tmp' = Absent
    /\ link' = FALSE /\ cached' = NoPosition /\ posted' = << >> /\ fix' = NoFix
    /\ losses' = 0 /\ shownLosses' = 0
    /\ chronyCache' = FALSE /\ window' = 0
    /\ fails' = 0 /\ battery' = "unknown"
    /\ UNCHANGED <<session, chrony, charge, onAir, saved, strays, stalls, failures>>

(***************************************************************************)
(* The beacon threads: run, _fire_one, _fire_on_complete.  A thread builds *)
(* its message, enqueues it, and waits for the interval or for stop(); a   *)
(* single shot posts its end to the asyncio loop instead.                  *)
(***************************************************************************)
Beacon(kind, single) == [kind |-> kind, single |-> single, at |-> "fire", stopped |-> FALSE]
Tids == DOMAIN threads
Held(t) == t \in {hbBeacon, sosBeacon}
Move(t, where) == threads' = [threads EXCEPT ![t].at = where]
Stop(t) == threads' = [threads EXCEPT ![t].stopped = TRUE]     \* BeaconScheduler.stop

(* _hb_identity, and _emergency_identity with EmergencyBeacon's            *)
(* _build_message: a heartbeat needs a configured station, an SOS a        *)
(* position or a grid; its call sign may be N0CALL.                        *)
MayBuild(kind) ==
    IF kind = "HB" THEN Configured(config)
    ELSE HasPosition \/ config.grid # NoGrid
AfterFire(t) == IF threads[t].single THEN "complete" ELSE "wait"

Fire(t) ==
    /\ threads[t].at = "fire"
    /\ Move(t, IF MayBuild(threads[t].kind) THEN "put" ELSE AfterFire(t))
    /\ UNCHANGED <<reverts, rows, strays>>
SlipPut(t) ==           \* a bug: a thread whose message is dropped ends
    /\ threads[t].at = "put"
    /\ IF Len(rows) < QueueDepth
       THEN /\ Move(t, AfterFire(t))
            /\ rows' = Append(rows, [kind |-> threads[t].kind, audio |-> Nothing])
            /\ strays' = IF Held(t) THEN strays ELSE strays + 1
       ELSE Move(t, "ended") /\ UNCHANGED <<rows, strays>>
    /\ UNCHANGED reverts
(* enqueue_for_encoding: a full queue drops the message of this cycle.     *)
Put(t) ==
    /\ threads[t].at = "put"
    /\ Move(t, AfterFire(t))
    /\ IF Len(rows) < QueueDepth
       THEN /\ rows' = Append(rows, [kind |-> threads[t].kind, audio |-> Nothing])
            /\ strays' = IF Held(t) THEN strays ELSE strays + 1
       ELSE UNCHANGED <<rows, strays>>
    /\ UNCHANGED reverts
Complete(t) ==
    /\ threads[t].at = "complete"
    /\ Move(t, "ended")
    /\ reverts' = reverts + 1
    /\ UNCHANGED <<rows, strays>>
SlipWake(t) ==          \* a bug: the reason for waking is not looked at
    /\ threads[t].at = "wait"
    /\ Move(t, "fire")
    /\ UNCHANGED <<reverts, rows, strays>>
Wake(t) ==
    /\ threads[t].at = "wait"
    /\ Move(t, IF threads[t].stopped THEN "ended" ELSE "fire")
    /\ UNCHANGED <<reverts, rows, strays>>

BeaconStep(t) ==
    /\ Fire(t) \/ Put(t) \/ Complete(t) \/ Wake(t)
    /\ UNCHANGED <<sensorVars, session, files, names, wishes, hbBeacon,
                   sosBeacon, main, onAir, saved, counts>>

(***************************************************************************)
(* The operator's wishes.  _on_hb_mode_change and _on_emergency_arm_change *)
(* tell the old thread to stop and wait for it, for two seconds, before    *)
(* they forget it; the asyncio thread does nothing else meanwhile.         *)
(***************************************************************************)
Started(beacon) == Append(threads, beacon)
MayStart == Len(threads) < session.threads

StartHb(mode) ==
    IF mode = "OFF" \/ ~session.pipeline
    THEN hbBeacon' = None /\ UNCHANGED threads
    ELSE /\ threads' = Started(Beacon("HB", mode = "SINGLE"))
         /\ hbBeacon' = Len(threads')

(* set_hb_mode, with a mode other than the current one.                    *)
SlipSetHbMode(mode) ==  \* a bug: the old thread is forgotten, not stopped
    /\ hbMode' = mode
    /\ StartHb(mode) /\ UNCHANGED main
SetHbMode(mode) ==
    /\ hbMode' = mode
    /\ IF hbBeacon = None
       THEN StartHb(mode) /\ UNCHANGED main
       ELSE /\ Stop(hbBeacon)
            /\ main' = [doing |-> "join HB", mode |-> mode]
            /\ UNCHANGED hbBeacon

SelectHbMode == \E mode \in session.modes \ {hbMode} :
    /\ main = Idle /\ (mode = "OFF" \/ MayStart)
    /\ SetHbMode(mode)
    /\ UNCHANGED <<override, armed, sosBeacon, reverts, stalls>>
Revert ==
    /\ main = Idle /\ reverts > 0 /\ reverts' = reverts - 1
    /\ IF hbMode = "OFF" THEN UNCHANGED <<hbMode, hbBeacon, threads, main>>
       ELSE SetHbMode("OFF")
    /\ UNCHANGED <<override, armed, sosBeacon, stalls>>

(* The thread has ended, or hangs in a slow write to the database.         *)
Joined(t) == \/ threads[t].at = "ended" /\ UNCHANGED stalls
             \/ /\ threads[t].at = "put"
                /\ stalls < session.stalls /\ stalls' = stalls + 1
JoinHb ==
    /\ main.doing = "join HB" /\ Joined(hbBeacon)
    /\ StartHb(main.mode) /\ main' = Idle
    /\ UNCHANGED <<wishes, sosBeacon, reverts>>

Arm ==
    /\ main = Idle /\ session.sos /\ ~armed /\ armed' = TRUE
    /\ IF session.pipeline
       THEN /\ MayStart /\ threads' = Started(Beacon("SOS", FALSE))
            /\ sosBeacon' = Len(threads')
       ELSE UNCHANGED <<threads, sosBeacon>>
    /\ UNCHANGED <<override, hbMode, hbBeacon, reverts, main, stalls>>
Disarm ==
    /\ main = Idle /\ armed /\ armed' = FALSE
    /\ IF sosBeacon = None THEN UNCHANGED <<threads, main>>
       ELSE /\ Stop(sosBeacon)
            /\ main' = [doing |-> "join SOS"]
    /\ UNCHANGED <<override, hbMode, hbBeacon, sosBeacon, reverts, stalls>>
JoinSos ==
    /\ main.doing = "join SOS" /\ Joined(sosBeacon)
    /\ sosBeacon' = None /\ main' = Idle
    /\ UNCHANGED <<wishes, hbBeacon, threads, reverts>>
(* _trigger_emergency_bypass, from the setup screen.                       *)
Bypass == /\ main = Idle /\ session.bypass /\ ~override /\ override' = TRUE
          /\ UNCHANGED <<hbMode, armed, beacons, main, stalls>>

Operator ==
    /\ SelectHbMode \/ Revert \/ JoinHb \/ Arm \/ Disarm \/ JoinSos \/ Bypass
    /\ UNCHANGED <<sensorVars, session, files, names, air, saved, failures, crashes>>

(***************************************************************************)
(* On the air.                                                             *)
(***************************************************************************)
Firsts(P(_)) == {i \in DOMAIN rows : P(rows[i]) /\ \A j \in 1..(i - 1) : ~P(rows[j])}
Uncoded == Firsts(LAMBDA r : r.audio = Nothing)
Coded == Firsts(LAMBDA r : r.audio # Nothing)

(* The encode worker asks _tx_identity; without a call sign or a grid      *)
(* there is no audio and the row is abandoned.                             *)
Encode == \E i \in Uncoded :
    /\ rows' = IF Configured(ui) THEN [rows EXCEPT ![i].audio = ui]
               ELSE RemoveAt(rows, i)
    /\ UNCHANGED <<sensorVars, session, files, names, wishes, beacons, main,
                   onAir, saved, strays, counts>>

(* check_can_transmit.                                                     *)
Gate ==
    /\ TimeUsable
    /\ override => HasPosition
    /\ ~override => battery # "critical" /\ Configured(ui)

(* The scheduler's tick, once the oldest row is encoded.                   *)
Transmit == \E i \in Coded :
    /\ Probed
    /\ Gate
    /\ rows' = RemoveAt(rows, i)
    /\ onAir' = [kind |-> rows[i].kind, identity |-> rows[i].audio]
    /\ UNCHANGED <<gpsVars, chrony, window, powerVars, session, files, names,
                   wishes, beacons, main, saved, strays, counts>>

Surroundings ==
    /\ \/ session.sky /\ GpsNext /\ UNCHANGED <<timeVars, powerVars>>
       \/ session.clock /\ TimeNext /\ UNCHANGED <<gpsVars, powerVars>>
       \/ session.power /\ PowerNext /\ UNCHANGED <<gpsVars, timeVars>>
    /\ UNCHANGED <<session, files, names, wishes, beacons, main, air, saved, counts>>

LearnPosition ==
    /\ OnGpsFix
    /\ UNCHANGED <<timeVars, powerVars, session, files, names, wishes, beacons,
                   main, air, saved, counts>>

Next == \/ Saving \/ PowerLoss \/ Operator \/ Encode \/ Transmit
        \/ Surroundings \/ LearnPosition
        \/ \E t \in Tids : BeaconStep(t)

Spec == Init /\ [][Next]_vars

(* Every thread is scheduled; the asyncio loop runs what is posted to it   *)
(* and finishes what it does.  The operator and the surroundings may stop. *)
FairSpec ==
    /\ Spec
    /\ WF_vars(Encode) /\ WF_vars(Transmit)
    /\ WF_vars(Saving /\ main # Idle)
    /\ WF_vars(Operator /\ (main # Idle \/ reverts' < reverts))
    /\ WF_vars(LearnPosition)
    /\ \A t \in 1..MaxThreads : WF_vars(t \in Tids /\ BeaconStep(t))

(***************************************************************************)
(* Properties.                                                             *)
(***************************************************************************)
Thread == [kind : {"HB", "SOS"}, single : BOOLEAN, stopped : BOOLEAN,
           at : {"fire", "put", "complete", "wait", "ended"}]
BeaconRow == [kind : {"HB", "SOS"}, audio : Identities \cup {Nothing}]
TypeOK ==
    /\ SensorsTypeOK
    /\ {config, ui} \subseteq Identities /\ saved \subseteq Identities
    /\ disk \in Identities \cup {Half}
    /\ hbMode \in HbModes /\ armed \in BOOLEAN /\ override \in BOOLEAN
    /\ threads \in Seq(Thread) /\ {hbBeacon, sosBeacon} \subseteq Tids \cup {None}
    /\ reverts \in Nat /\ strays \in Nat
    /\ rows \in Seq(BeaconRow) /\ Len(rows) <= QueueDepth

(* A beacon runs when, and only when, the operator wants it: between two   *)
(* commands an armed SOS has its thread, a repeating heartbeat mode has    *)
(* its thread, and at no time are there two of a kind that were not told   *)
(* to stop.  The operator's commands, the ends of single shots and the     *)
(* threads interleave (_on_hb_mode_change, app.py:2434).                   *)
Running(kind) == {t \in Tids : threads[t].kind = kind /\ ~threads[t].stopped
                                 /\ threads[t].at # "ended"}
BeaconsAsWanted ==
    /\ Running("HB") \subseteq {hbBeacon} /\ Running("SOS") \subseteq {sosBeacon}
    /\ main = Idle /\ session.pipeline =>
          /\ armed <=> Running("SOS") # {}
          /\ hbMode \in {"20 MIN", "1 HR"} <=> \E t \in Running("HB") : ~threads[t].single

(* A beacon that was switched off is silent: a thread that the program no  *)
(* longer holds enqueues nothing, but for the one message it was writing   *)
(* when the two seconds of the join ran out.                               *)
OffIsSilent == strays <= stalls

(* Nobody else's name goes on the air: a burst carries a call sign and a   *)
(* grid that config.toml has held together, although the row was enqueued  *)
(* under one identity, encoded under another and edits may fail halfway.   *)
AirIsSaved == \A b \in {onAir} \ {Nothing} :
                 Configured(b.identity) /\ b.identity \in saved

(* "A power loss during the write leaves either the old config or the new  *)
(* one intact, never a half-file" (save_atomic, config.py:587).            *)
ConfigSurvives == disk # Half /\ live.text # Half

(* An armed SOS of a configured station is repeated for as long as the     *)
(* gate is open and no heartbeat competes for the queue, whatever came     *)
(* before: a full queue, a critical battery, an outage of the clock.       *)
Open == /\ armed /\ session.pipeline /\ hbMode = "OFF"
        /\ TimeUsable /\ (override => HasPosition)
        /\ (override \/ battery # "critical")
SosOnAir == Transmit /\ onAir'.kind = "SOS"
SosKeepsGoing == <>[](Open /\ Configured(config)) => []<><<SosOnAir>>_vars

(* "... so an unconfigured station can still call for help"                *)
(* (_emergency_identity, app.py:2677): with the override, a position and a *)
(* clock, an armed SOS is heard whether or not a call sign was entered.    *)
SosIsHeard == <>[](Open /\ override) => []<><<SosOnAir>>_vars
===============================================================================
