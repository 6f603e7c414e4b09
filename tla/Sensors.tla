------------------------------- MODULE Sensors -------------------------------
(***************************************************************************)
(* What the station knows of its surroundings: the position from gpsd      *)
(* (gps/gpsd_client.py, gps/reader.py), the time from chrony and from the  *)
(* stations heard (time_source.py, timing.py, tx/safety.py), the charge    *)
(* from the fuel gauge (power/battery.py).  A reading reaches the user     *)
(* interface later than it is taken: the GPS thread posts it to the        *)
(* asyncio loop, the gauge is polled, a good chrony answer is cached.      *)
(*                                                                         *)
(* A position is the number of times the receiver, or gpsd, had been lost  *)
(* before it was measured: positions of the same spell are not told apart. *)
(* Of the offsets of the frames heard only their number is kept: it decides *)
(* whether the time is usable.  The correction their median gives is left  *)
(* out, for nothing applies it to a transmission.                          *)
(***************************************************************************)
EXTENDS Integers, Sequences

CONSTANTS
    Window,             \* DEFAULT_WINDOW_SIZE: 8
    MinSamples,         \* DEFAULT_MIN_SAMPLES: 3
    FailsBeforeUnknown, \* 3
    MaxLosses,          \* bound: losses of the position
    MaxPosted           \* bound: fixes waiting in the asyncio loop

ASSUME SensorsAssumption ==
    /\ {Window, MinSamples, FailsBeforeUnknown} \subseteq Nat \ {0}
    /\ MinSamples <= Window
    /\ {MaxLosses, MaxPosted} \subseteq Nat

VARIABLES
    link,       \* the GPS thread is connected to gpsd
    cached,     \* GpsdClient._cached_lat, _cached_lon
    posted,     \* fixes handed to call_soon_threadsafe and not yet run
    losses,     \* history: losses of the position so far
    fix,        \* UIState._gps
    shownLosses,\* history: losses the user interface was told of
    chrony,     \* the daemon chronyd is synchronised
    chronyCache,\* _chrony_cache holds a good answer less than 5 s old
    window,     \* how many offsets TimingTracker._window holds
    charge,     \* what sysfs would say: "good", "critical", or "unreadable"
    fails,      \* BatteryReader._consecutive_fails
    battery     \* UIState._battery: "unknown", "good" or "critical"

gpsVars == <<link, cached, posted, losses, fix, shownLosses>>
timeVars == <<chrony, chronyCache, window>>
powerVars == <<charge, fails, battery>>
sensorVars == <<gpsVars, timeVars, powerVars>>

NoPosition == -1
NoFix == [kind |-> "NO_FIX", at |-> NoPosition]

InitGps == /\ link = FALSE /\ cached = NoPosition /\ posted = << >>
           /\ losses = 0 /\ fix = NoFix /\ shownLosses = 0
InitTime == chrony \in BOOLEAN /\ chronyCache = FALSE /\ window = 0
InitPower == charge = "good" /\ fails = 0 /\ battery = "unknown"

HasPosition == fix.kind = "FIX" /\ fix.at # NoPosition

(***************************************************************************)
(* The GPS.                                                                *)
(***************************************************************************)
Connect == /\ ~link /\ link' = TRUE
           /\ UNCHANGED <<cached, posted, losses, fix, shownLosses>>

(* _tpv_to_fix and _parse_line: gpsd reports a mode and often no           *)
(* coordinates; while it claims a fix the last ones are filled in, and a   *)
(* report of no fix drops them.  A null island has no coordinates here,    *)
(* and coordinates derived from ECEF count as reported.                    *)
SlipRemembered(f) == IF f.at # NoPosition THEN f.at ELSE cached
Remembered(f) ==
    CASE f.at # NoPosition -> f.at
      [] f.at = NoPosition /\ f.kind = "NO_FIX" -> NoPosition
      [] OTHER -> cached

Filled(f) == IF f.kind = "FIX" /\ f.at = NoPosition
             THEN [f EXCEPT !.at = cached] ELSE f
Post(f) == Len(posted) < MaxPosted /\ posted' = Append(posted, f)

Report(kind, located) ==
    LET lost == kind = "NO_FIX"
        f == [kind |-> kind, at |-> IF located THEN losses ELSE NoPosition]
    IN /\ link /\ (located => kind = "FIX")
       /\ losses' = IF lost THEN losses + 1 ELSE losses
       /\ losses' <= MaxLosses
       /\ cached' = Remembered(f)
       /\ Post(Filled(f))
       /\ UNCHANGED <<link, fix, shownLosses>>

(* GpsReader.run: the connection ends, the client forgets what it knew,    *)
(* and a synthetic report says so.                                         *)
LinkLost == /\ link /\ link' = FALSE
            /\ cached' = NoPosition
            /\ losses < MaxLosses /\ losses' = losses + 1
            /\ Post(NoFix)
            /\ UNCHANGED <<fix, shownLosses>>

(* _on_gps_fix and set_gps, on the asyncio thread.                         *)
OnGpsFix == /\ posted # << >>
            /\ fix' = Head(posted) /\ posted' = Tail(posted)
            /\ shownLosses' = IF fix'.kind = "NO_FIX" THEN shownLosses + 1
                              ELSE shownLosses
            /\ UNCHANGED <<link, cached, losses>>

GpsNext == \/ Connect \/ LinkLost
           \/ \E kind \in {"UNKNOWN", "NO_FIX", "FIX"}, located \in BOOLEAN :
                Report(kind, located)

(***************************************************************************)
(* The time.                                                               *)
(***************************************************************************)
ChronyOk == chronyCache \/ chrony       \* default_chrony_ok
Probed == chronyCache' = ChronyOk       \* and what it leaves in its cache

Consensus == window >= MinSamples
TimeUsable == ChronyOk \/ Consensus    \* time_source_status(...).usable

(* TimingTracker.add, called for every decoded frame.                      *)
FrameTimed ==
    /\ window' = IF window < Window THEN window + 1 ELSE window
    /\ UNCHANGED <<chrony, chronyCache>>
ChronyChanges == chrony' = ~chrony /\ UNCHANGED <<chronyCache, window>>
CacheExpires == /\ chronyCache /\ chronyCache' = FALSE
                /\ UNCHANGED <<chrony, window>>
TimeNext == ChronyChanges \/ CacheExpires \/ FrameTimed

(***************************************************************************)
(* The battery: _run, _poll_loop and read_battery_state.  A failed read    *)
(* keeps the last state until the third in a row.                          *)
(***************************************************************************)
ChargeChanges == /\ charge' \in {"good", "critical", "unreadable"} \ {charge}
                 /\ UNCHANGED <<fails, battery>>
Poll == \/ /\ charge # "unreadable" /\ battery' = charge /\ fails' = 0
           /\ UNCHANGED charge
        \/ /\ charge = "unreadable"
           /\ fails' = (fails + 1) % FailsBeforeUnknown
           /\ battery' = IF fails' = 0 THEN "unknown" ELSE battery
           /\ UNCHANGED charge
PowerNext == ChargeChanges \/ Poll

(***************************************************************************)
(* Properties.                                                             *)
(***************************************************************************)
Fixes == [kind : {"UNKNOWN", "NO_FIX", "FIX"},
          at : {NoPosition} \cup 0..MaxLosses]
SensorsTypeOK ==
    /\ link \in BOOLEAN /\ cached \in {NoPosition} \cup 0..MaxLosses
    /\ posted \in Seq(Fixes) /\ Len(posted) <= MaxPosted
    /\ losses \in 0..MaxLosses /\ fix \in Fixes /\ shownLosses \in 0..losses
    /\ chrony \in BOOLEAN /\ chronyCache \in BOOLEAN
    /\ window \in 0..Window
    /\ charge \in {"good", "critical", "unreadable"}
    /\ fails \in 0..(FailsBeforeUnknown - 1)
    /\ battery \in {"unknown", "good", "critical"}

(* "The cache clears only when gpsd reports NO_FIX ... we shouldn't carry  *)
(* stale coordinates across gpsd disconnects" (gpsd_client.py): the        *)
(* position an SOS would carry was measured after every loss the user      *)
(* interface was told of, although reports without coordinates are filled  *)
(* in from a cache and wait in the loop behind one another.                *)
PositionIsFresh == HasPosition => fix.at = shownLosses
===============================================================================
