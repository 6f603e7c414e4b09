------------------------------ MODULE MCOperator ------------------------------
(* Five ways to use the device between two starts.                         *)
EXTENDS Operator

CONSTANTS k1

(* These keys on these screens, and only the others elsewhere.             *)
On(screens, keys, others) == [s \in Screens |-> IF s \in screens THEN keys ELSE others]
Base == [keys |-> On({}, {}, {}), mail |-> 0, stations |-> {}, configured |-> TRUE,
         gps |-> FALSE, groups |-> {Group}]
Power == {"FN_Q", "FN_Q_UP"}
(* Mail arrives while the inbox is read, and the device is put away.       *)
Reading ==
    [Base EXCEPT !.keys = On({"INBOX", "INBOX_DETAIL", "SHUTTING_DOWN"},
                             {"UP", "DOWN", "ENTER", "ESC", "DELETE", "LEFT"} \cup Power,
                             {"RIGHT"} \cup Power),
                 !.mail = 3]
(* A message is composed, left for other screens and taken up again.       *)
Writing ==
    [Base EXCEPT !.keys = On({"COMPOSE"},
                             {"RIGHT", "UP", "DOWN", "ENTER", "ESC", "TAB", "CHAR",
                              "BACKSPACE"},
                             {"RIGHT"}),
                 !.stations = {k1, Us}, !.gps = TRUE, !.mail = 1]
(* The device is put away, or nearly, while a message is written.          *)
Interrupted ==
    [Base EXCEPT !.keys = On({"COMPOSE"}, {"RIGHT", "CHAR", "TAB"} \cup Power,
                             {"RIGHT", "ESC"} \cup Power),
                 !.stations = {k1}, !.mail = 1]
(* The first start: setting up, or calling for help without.               *)
SettingUp ==
    [Base EXCEPT !.keys = On({"SETUP", "SHUTTING_DOWN", "EMERGENCY", "HOME"},
                             {"RIGHT", "TAB", "ENTER", "ESC", "CHAR"} \cup Power,
                             {"RIGHT"} \cup Power),
                 !.configured = FALSE]
(* Broadcasts, beacons, the exit button.                                   *)
Calling ==
    [Base EXCEPT !.keys = On({"COMPOSE", "SETUP"}, {"LEFT", "RIGHT"},
                             {"LEFT", "RIGHT", "UP", "DOWN", "ENTER", "ESC", "TAB"}
                                 \cup Power)]
AllSessions == {Reading, Writing, Interrupted, SettingUp, Calling}
===============================================================================
