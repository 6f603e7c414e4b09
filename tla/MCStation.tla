------------------------------- MODULE MCStation -------------------------------
(* Sessions of the station for TLC.                                        *)
EXTENDS Station

CONSTANTS K1, K2, EN82

Blank == [call |-> NoCall, grid |-> NoGrid]
Named == [call |-> K1, grid |-> EN82]

Quiet == [identity |-> Named, pipeline |-> TRUE, edits |-> {}, modes |-> {},
          sos |-> FALSE, bypass |-> FALSE, sky |-> FALSE, clock |-> FALSE,
          power |-> FALSE, threads |-> 0, stalls |-> 0, failures |-> 0, crashes |-> 0]

(* Beacons are switched on and off while the database stalls.              *)
Switching == [Quiet EXCEPT !.modes = {"OFF", "SINGLE", "20 MIN"}, !.sos = TRUE, !.threads = 3,
                           !.stalls = 1]
(* A station is set up, and loses power.                                   *)
SettingUp == [Quiet EXCEPT !.identity = Blank, !.modes = {"OFF", "1 HR"},
                           !.edits = {[call |-> K1, grid |-> NoGrid], Named,
                                      [call |-> K2, grid |-> EN82]},
                           !.threads = 1, !.failures = 1, !.crashes = 1]
(* An SOS while the clock comes and goes, or the battery.                  *)
Untimed == [Quiet EXCEPT !.sos = TRUE, !.clock = TRUE, !.threads = 1]
Fading == [Quiet EXCEPT !.sos = TRUE, !.power = TRUE, !.threads = 1]
(* Nobody has set the station up, and help is needed.                      *)
Stranded == [Quiet EXCEPT !.identity = Blank, !.bypass = TRUE, !.sos = TRUE,
                          !.sky = TRUE, !.threads = 1]
(* A configured station under the override, with and without a position.   *)
Adrift == [Stranded EXCEPT !.identity = Named]
(* Receive only: no radio, no pipeline.                                    *)
Listening == [Switching EXCEPT !.pipeline = FALSE]

AllSessions == {Switching, SettingUp, Untimed, Fading, Stranded, Adrift, Listening}
===============================================================================
