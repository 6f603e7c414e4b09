------------------------------- MODULE Operator -------------------------------
(***************************************************************************)
(* The operator's side of the program: the screens and what they hold      *)
(* (ui/state.py), the router that gives every key a meaning                *)
(* (input/router.py), and the two gestures that are held for three seconds *)
(* (input/shutdown_gesture.py, input/emergency_arm_gesture.py).  All of it *)
(* runs on the asyncio thread: keys, the ends of the countdowns, and the   *)
(* lists the decoder refreshes interleave between two keys.                *)
(***************************************************************************)
EXTENDS Integers, FiniteSets, Sequences, SequencesExt

CONSTANTS
    Us,         \* our call sign, which the decoder may hear
    Group,      \* a group of the setup screen
    Sessions,   \* what may happen between a start and the next, see below
    MaxFaults   \* bound: failing accesses to the mailbox

(* A session: the keys the operator uses on each screen, how much mail     *)
(* arrives, the stations heard, whether call and grid are set up, whether  *)
(* the GPS has fixes, and the groups in config.toml.                       *)
Keys == {"LEFT", "RIGHT", "UP", "DOWN", "ENTER", "ESC", "TAB", "BACKSPACE",
         "DELETE", "CHAR", "FN_Q", "FN_Q_UP"}
Ring == <<"HOME", "HEARD", "DIRECTED", "INBOX", "COMPOSE", "ALLCALL",
          "EMERGENCY", "SETUP">>
Screens == Range(Ring) \cup
    {"SHUTTING_DOWN", "INBOX_DETAIL", "HB_MODE_SELECT", "EXIT_CONFIRM"}
ASSUME OperatorAssumption ==
    /\ \A s \in Sessions : /\ s.keys \in [Screens -> SUBSET Keys]
                           /\ s.mail \in Nat /\ s.groups \subseteq {Group}
                           /\ s.configured \in BOOLEAN /\ s.gps \in BOOLEAN
    /\ MaxFaults \in Nat

SetupFields == <<"callsign", "grid", "groups", "units", "freq_hz", "radio",
                 "emergency_bypass">>
EditableFields == {"callsign", "grid", "groups", "units", "freq_hz"}
ExitFields == <<"exit_no", "exit_yes">>
ComposeCmds == <<"FREE", "MSG", "MSG TO", "STORE", "AGN?", "SNR?", "GRID?",
                 "QUERY MSGS", "QUERY MSG", "MYLOC">>
HbModes == <<"OFF", "SINGLE", "20 MIN", "1 HR">>
None == "none"

VARIABLES
    session,
    screen, previous,   \* _screen, _previous_screen
    focus,              \* _focus_index of the screens with named fields
    edit,               \* _editing_field; the text typed so far is left out
    configured,         \* _configured_tx_allowed: call and grid are set
    override,           \* _emergency_override
    shownGroups,        \* _groups of the user interface
    savedGroups,        \* the groups of config.toml
    inbox,              \* _inbox_messages: <<[id, read]>>, newest first
    row, detail,        \* _inbox_focused_index, _inbox_detail_id
    unread,             \* _inbox_unread_count
    store,              \* the UNREAD and READ rows of the mailbox
    heard, fix,         \* _heard; _gps.has_position
    draft,              \* the compose screen
    allcall, hbFocus, hbMode,
    armed, hold,        \* _emergency_beacon_armed; the emergency gesture's task
    countdown,          \* the shutdown gesture's task
    leaving,            \* why the daemon ends
    arrived, faults

place == <<screen, previous, focus, edit>>
setup == <<configured, override, shownGroups, savedGroups>>
mail == <<inbox, row, detail, unread, store>>
beacons == <<allcall, hbFocus, hbMode, armed, hold>>
around == <<session, heard, fix, arrived>>
vars == <<around, place, setup, mail, draft, beacons, countdown, leaving, faults>>

EmptyDraft == [to |-> "", cmd |-> "FREE", text |-> "", for |-> "",
               toIndex |-> -1, forIndex |-> -1, noFix |-> FALSE]

(* run(): an unconfigured station begins on the setup screen.  The user    *)
(* interface is built without the groups of the configuration.             *)
Init ==
    /\ session \in Sessions
    /\ screen = IF session.configured THEN "HOME" ELSE "SETUP"
    /\ previous = "HOME"
    /\ focus = [s \in {"SETUP", "EXIT_CONFIRM", "COMPOSE"} |-> 0] /\ edit = None
    /\ configured = session.configured /\ override = FALSE
    /\ shownGroups = {} /\ savedGroups = session.groups
    /\ inbox = << >> /\ row = 0 /\ detail = 0 /\ unread = 0 /\ store = << >>
    /\ heard = << >> /\ fix = FALSE
    /\ draft = EmptyDraft
    /\ allcall = 0 /\ hbFocus = 0 /\ hbMode = "OFF"
    /\ armed = FALSE /\ hold = None
    /\ countdown = "idle" /\ leaving = None
    /\ arrived = 0 /\ faults = 0

TxAllowed == configured \/ override
Bigger(i, j) == IF i > j THEN i ELSE j
Wrap(i, forward, n) == (IF forward THEN i + 1 ELSE i + n - 1) % n

(***************************************************************************)
(* Entering a screen.                                                      *)
(***************************************************************************)
OthersHeard == SelectSeq(heard, LAMBDA s : s # Us)
SlipPrepopulated ==     \* a bug: what was typed is overwritten
    IF OthersHeard # << >>
    THEN [draft EXCEPT !.to = OthersHeard[1], !.toIndex = 0]
    ELSE draft
Prepopulated ==
    IF draft.to = "" /\ OthersHeard # << >>
    THEN [draft EXCEPT !.to = OthersHeard[1], !.toIndex = 0]
    ELSE draft

(* _on_screen_entered.                                                     *)
Entered(s) ==
    /\ screen' = s
    /\ draft' = IF s = "COMPOSE" THEN Prepopulated ELSE draft
    /\ focus' = IF s = "EXIT_CONFIRM" THEN [focus EXCEPT ![s] = 0] ELSE focus

(* advance_ring and retreat_ring.                                          *)
Place(s) == CHOOSE i \in 0 .. Len(Ring) - 1 : Ring[i + 1] = s
MoveInRing(forward) ==
    /\ Entered(Ring[1 + Wrap(Place(screen), forward, Len(Ring))])
    /\ UNCHANGED <<previous, edit, setup, mail, beacons, countdown, leaving, faults>>

(* set_screen, from another screen.                                        *)
SetScreen(s) == Entered(s) /\ edit' = None
RestSame == UNCHANGED <<previous, setup, mail, beacons, countdown, leaving, faults>>
Fields == CASE screen = "SETUP" -> SetupFields
            [] screen = "EXIT_CONFIRM" -> ExitFields
            [] screen = "COMPOSE" /\ draft.cmd = "MSG TO" ->
                 <<"to", "cmd", "for", "text", "send">>
            [] screen = "COMPOSE" /\ draft.cmd # "MSG TO" ->
                 <<"to", "cmd", "text", "send">>
            [] OTHER -> <<None>>
Focused == IF screen \in DOMAIN focus
           THEN Fields[1 + (focus[screen] % Len(Fields))] ELSE None
CycleFocus ==
    /\ screen \in DOMAIN focus
    /\ focus' = [focus EXCEPT ![screen] = (@ + 1) % Len(Fields)]
    /\ edit' = None
    /\ UNCHANGED <<screen, previous, setup, mail, draft, beacons, countdown,
                   leaving, faults>>

(***************************************************************************)
(* The setup screen.  Whether a value is accepted depends on its spelling, *)
(* on the disk and, for the frequency, on the radio: any outcome.          *)
(***************************************************************************)
BeginEdit ==
    /\ Focused \in EditableFields
    /\ edit' = Focused
    /\ UNCHANGED <<screen, previous, focus, setup, mail, draft, beacons, countdown,
                   leaving, faults>>
EndEdit ==
    /\ edit' = None
    /\ UNCHANGED <<screen, previous, focus, mail, draft, beacons, countdown,
                   leaving, faults>>
CancelEdit == EndEdit /\ UNCHANGED setup

(* _commit_edit: the edited field and the others as the interface has      *)
(* them go to save_atomic, which refreshes the interface.                  *)
CommitEdit ==
    \/ UNCHANGED vars       \* rejected: the edit goes on
    \/ /\ EndEdit /\ UNCHANGED override
       /\ IF edit \in {"callsign", "grid"}
          THEN configured' \in BOOLEAN ELSE UNCHANGED configured
       /\ CASE edit = "freq_hz" -> UNCHANGED <<shownGroups, savedGroups>>
            [] edit = "groups" -> /\ savedGroups' \in SUBSET {Group}
                                  /\ shownGroups' = savedGroups'
            [] OTHER -> /\ savedGroups' = shownGroups
                        /\ UNCHANGED shownGroups

EditKey(k) ==
    /\ edit # None
    /\ \/ k = "ENTER" /\ CommitEdit
       \/ k = "ESC" /\ CancelEdit

(* [EMERGENCY BEACON ->] of an unconfigured station, once a start.         *)
EmergencyBypass ==
    /\ ~override
    /\ override' = TRUE /\ screen' = "EMERGENCY"
    /\ UNCHANGED <<previous, focus, edit, configured, shownGroups, savedGroups, mail,
                   draft, beacons, countdown, leaving, faults>>

(* The next radio is saved with the groups of the file; then a restart.    *)
CycleRadio ==
    /\ leaving' = "restart"
    /\ UNCHANGED <<place, setup, mail, draft, beacons, countdown, faults>>

SetupKey(k) ==
    /\ screen = "SETUP"
    /\ \/ k \in {"ENTER", "CHAR"} /\ BeginEdit
       \/ k = "ENTER" /\ Focused = "emergency_bypass" /\ EmergencyBypass
       \/ k = "ENTER" /\ Focused = "radio" /\ CycleRadio

(***************************************************************************)
(* The inbox and its detail view.                                          *)
(***************************************************************************)
Clamped(i, rows) == IF i >= Len(rows) THEN Bigger(0, Len(rows) - 1) ELSE i
Unread(rows) == Cardinality({i \in DOMAIN rows : ~rows[i].read})
(* The id is the primary key of the mailbox: one row has it at most.       *)
Without(rows, id) ==
    IF \E i \in DOMAIN rows : rows[i].id = id
    THEN RemoveAt(rows, CHOOSE i \in DOMAIN rows : rows[i].id = id) ELSE rows
MarkedRead(rows, id) ==
    [i \in DOMAIN rows |-> [rows[i] EXCEPT !.read = @ \/ rows[i].id = id]]

MoveRow(forward) ==
    /\ IF forward THEN row < Len(inbox) - 1 ELSE row > 0
    /\ row' = IF forward THEN row + 1 ELSE row - 1
    /\ UNCHANGED <<place, setup, inbox, detail, unread, store, draft, beacons,
                   countdown, leaving, faults>>

(* _refresh_inbox_ui: the list, the badge and the focused row are taken    *)
(* from the mailbox together, or reading it fails, which is logged.        *)
Refreshed(rows) ==
    \/ /\ inbox' = rows /\ unread' = Unread(rows) /\ row' = Clamped(row, rows)
       /\ UNCHANGED faults
    \/ /\ faults < MaxFaults /\ faults' = faults + 1
       /\ UNCHANGED <<inbox, unread, row>>

(* The mailbox is written, or the write fails and is logged.               *)
Persist(rows) ==
    \/ store' = rows /\ UNCHANGED faults
    \/ faults < MaxFaults /\ faults' = faults + 1 /\ UNCHANGED store

SlipReadLocally(r) ==   \* a bug: a message opened again is counted again
    inbox' = MarkedRead(inbox, r.id) /\ unread' = Bigger(0, unread - 1)
(* mark_inbox_row_read_locally.                                            *)
ReadLocally(r) ==
    IF r.read THEN UNCHANGED <<inbox, unread>>
    ELSE inbox' = MarkedRead(inbox, r.id) /\ unread' = Bigger(0, unread - 1)

(* _handle_inbox_enter, inbox_open_detail.                                 *)
OpenDetail ==
    /\ inbox # << >> /\ row < Len(inbox)
    /\ LET r == inbox[row + 1] IN
         /\ screen' = "INBOX_DETAIL" /\ previous' = screen /\ detail' = r.id
         /\ ReadLocally(r)
         /\ IF r.read THEN UNCHANGED <<store, faults>>
            ELSE Persist(MarkedRead(store, r.id))
    /\ UNCHANGED <<focus, edit, setup, row, draft, beacons, countdown, leaving>>

(* inbox_delete_focused: the list loses the row under the focus.           *)
DeleteFocused == /\ inbox' = RemoveAt(inbox, row + 1)
                 /\ row' = Clamped(row, inbox')
(* _handle_inbox_delete: the badge stays.                                  *)
DeleteRow ==
    /\ inbox # << >> /\ row < Len(inbox)
    /\ DeleteFocused
    /\ Persist(Without(store, inbox[row + 1].id))
    /\ UNCHANGED <<place, setup, detail, unread, draft, beacons, countdown, leaving>>

InboxKey(k) ==
    /\ screen = "INBOX"
    /\ \/ k = "UP" /\ MoveRow(FALSE)
       \/ k = "DOWN" /\ MoveRow(TRUE)
       \/ k = "ENTER" /\ OpenDetail
       \/ k = "DELETE" /\ DeleteRow

(* inbox_close_detail.                                                     *)
DetailKey(k) ==
    /\ screen = "INBOX_DETAIL" /\ k = "ESC"
    /\ screen' = previous /\ detail' = 0
    /\ UNCHANGED <<previous, focus, edit, setup, inbox, row, unread, store, draft,
                   beacons, countdown, leaving, faults>>

(***************************************************************************)
(* Leaving by the button of the home screen.                               *)
(***************************************************************************)
HomeKey(k) ==
    /\ screen = "HOME" /\ k = "ENTER"
    /\ SetScreen("EXIT_CONFIRM") /\ RestSame

(* request_poweroff: systemctl in a task of its own.                       *)
RequestExit ==
    /\ leaving' = "exit"
    /\ UNCHANGED <<place, setup, mail, draft, beacons, countdown, faults>>
ExitKey(k) ==
    /\ screen = "EXIT_CONFIRM"
    /\ \/ k \in {"LEFT", "RIGHT", "TAB"} /\ CycleFocus
       \/ k = "ENTER" /\ Focused = "exit_yes" /\ RequestExit
       \/ /\ k = "ESC" \/ (k = "ENTER" /\ Focused = "exit_no")
          /\ SetScreen("HOME") /\ RestSame

(***************************************************************************)
(* The compose screen.                                                     *)
(***************************************************************************)
SortedGroups == IF Group \in shownGroups THEN <<Group>> ELSE << >>
(* _compose_to_cycle and _compose_for_cycle; picks is not empty.           *)
NextPick(i, forward, n) ==
    IF i = -1 THEN (IF forward THEN 0 ELSE n - 1) ELSE Wrap(i, forward, n)
CycleTo(forward) ==
    LET picks == OthersHeard \o SortedGroups
        i == NextPick(draft.toIndex, forward, Len(picks))
    IN  /\ picks # << >>
        /\ draft' = [draft EXCEPT !.to = picks[i + 1], !.toIndex = i]
CycleFor(forward) ==
    LET i == NextPick(draft.forIndex, forward, Len(OthersHeard))
    IN  /\ OthersHeard # << >>
        /\ draft' = [draft EXCEPT !.for = OthersHeard[i + 1], !.forIndex = i]

(* compose_cycle_cmd; MYLOC fills the text in from a fix.                  *)
CycleCmd(forward) ==
    LET at == CHOOSE i \in DOMAIN ComposeCmds : ComposeCmds[i] = draft.cmd
        next == ComposeCmds[1 + Wrap(at - 1, forward, Len(ComposeCmds))]
    IN  IF next = "MYLOC"
        THEN /\ draft' = [draft EXCEPT !.cmd = next, !.noFix = ~fix,
                                       !.text = IF fix THEN "position" ELSE @]
             /\ UNCHANGED focus
        ELSE /\ draft' = [draft EXCEPT !.cmd = next, !.noFix = FALSE]
             /\ focus' = IF next # "MSG TO" /\ focus["COMPOSE"] >= 4
                         THEN [focus EXCEPT !["COMPOSE"] = 1] ELSE focus

(* A field holds nothing, what was typed, or a pick; what is left after a  *)
(* character is taken away counts as typed.                                *)
Typed(k, field, index) ==
    \/ k = "CHAR" /\ draft' = [field EXCEPT ![index] = "typed"]
    \/ k = "BACKSPACE" /\ field[index] # ""
       /\ \E left \in {"", "typed"} : draft' = [field EXCEPT ![index] = left]

ComposeFieldKey(k) ==
    /\ edit = None
    /\ \/ /\ Focused = "to" /\ UNCHANGED focus
          /\ \/ k = "UP" /\ CycleTo(FALSE)
             \/ k = "DOWN" /\ CycleTo(TRUE)
             \/ Typed(k, [draft EXCEPT !.toIndex = -1], "to")
       \/ /\ Focused = "cmd"
          /\ \/ k = "UP" /\ CycleCmd(FALSE)
             \/ k = "DOWN" /\ CycleCmd(TRUE)
       \/ /\ Focused = "for" /\ UNCHANGED focus
          /\ \/ k = "UP" /\ CycleFor(FALSE)
             \/ k = "DOWN" /\ CycleFor(TRUE)
             \/ Typed(k, [draft EXCEPT !.forIndex = -1], "for")
       \/ Focused = "text" /\ UNCHANGED focus /\ Typed(k, draft, "text")
    /\ UNCHANGED <<screen, edit>>

(* compose_clear.                                                          *)
ClearDraft == draft' = EmptyDraft /\ edit' = None

(* _handle_compose_send: a message for another station leaves the screen   *)
(* whether the queue took it or not; mail to hold only when it is stored.  *)
(* The inbox is then read again, but the stored row is not of its list.    *)
MayStore == /\ draft.to \notin {"", Group} /\ draft.text # "" /\ configured
Send ==
    /\ Focused = "send"
    /\ IF draft.cmd = "STORE"
       THEN /\ MayStore
            /\ Refreshed(store) /\ UNCHANGED <<detail, store>>
            /\ screen' = "INBOX"
       ELSE UNCHANGED <<mail, faults>> /\ screen' = "DIRECTED"
    /\ ClearDraft /\ focus' = [focus EXCEPT !["COMPOSE"] = 0]
    /\ UNCHANGED <<previous, setup, beacons, countdown, leaving>>

ComposeKey(k) ==
    /\ screen = "COMPOSE"
    /\ \/ k = "TAB" /\ CycleFocus
       \/ ComposeFieldKey(k) /\ RestSame
       \/ k = "ENTER" /\ Send
       \/ /\ k = "ESC" /\ ClearDraft
          /\ focus' = [focus EXCEPT !["COMPOSE"] = 0]
          /\ UNCHANGED screen /\ RestSame

(***************************************************************************)
(* Broadcasts, the heartbeat mode, and the emergency screen.  What the     *)
(* mode and the armed flag start and stop is Station's.                    *)
(***************************************************************************)
AllcallKey(k) ==
    /\ screen = "ALLCALL"
    /\ \/ /\ k \in {"UP", "DOWN"}
          /\ allcall' = Wrap(allcall, k = "DOWN", 3)
          /\ UNCHANGED <<screen, edit, focus, draft, hbFocus>>
       \/ /\ k = "ENTER" /\ allcall = 0
          /\ screen' = "HB_MODE_SELECT" /\ edit' = None
          /\ hbFocus' = (CHOOSE i \in DOMAIN HbModes : HbModes[i] = hbMode) - 1
          /\ UNCHANGED <<focus, draft, allcall>>
       \/ /\ k = "ENTER" /\ allcall # 0
          /\ SetScreen("DIRECTED") /\ UNCHANGED <<allcall, hbFocus>>
    /\ UNCHANGED <<previous, setup, mail, hbMode, armed, hold, countdown, leaving, faults>>

HbSelectKey(k) ==
    /\ screen = "HB_MODE_SELECT"
    /\ \/ /\ k \in {"UP", "DOWN"}
          /\ hbFocus' = Wrap(hbFocus, k = "DOWN", Len(HbModes))
          /\ UNCHANGED <<screen, edit, hbMode>>
       \/ /\ k \in {"ENTER", "LEFT", "RIGHT"}
          /\ hbMode' = HbModes[hbFocus + 1]
          /\ screen' = IF k = "ENTER" /\ hbMode' # "OFF" THEN "DIRECTED" ELSE "ALLCALL"
          /\ edit' = None /\ UNCHANGED hbFocus
       \/ /\ k = "ESC" /\ screen' = "ALLCALL" /\ edit' = None
          /\ UNCHANGED <<hbFocus, hbMode>>
    /\ UNCHANGED <<previous, focus, setup, mail, draft, allcall, armed, hold,
                   countdown, leaving, faults>>

(* _handle_emergency_key: ESC gives arming up, ENTER disarming; while the  *)
(* gesture lasts no key leaves the screen.                                 *)
EmergencyTakes(k) ==
    \/ hold # None
    \/ k = IF armed THEN "ESC" ELSE "ENTER"
EmergencyKey(k) ==
    /\ screen = "EMERGENCY"
    /\ hold' = CASE hold = None /\ ~armed /\ k = "ENTER" -> "arm"
                 [] hold = None /\ armed /\ k = "ESC" -> "disarm"
                 [] hold = "arm" /\ k = "ESC" -> None
                 [] hold = "disarm" /\ k = "ENTER" -> None
                 [] OTHER -> hold
    /\ UNCHANGED <<place, setup, mail, draft, allcall, hbFocus, hbMode, armed,
                   countdown, leaving, faults>>

SlipHoldDone ==         \* a bug: the task is not forgotten
    /\ hold # None
    /\ armed' = (hold = "arm")
    /\ UNCHANGED <<around, place, setup, mail, draft, allcall, hbFocus, hbMode, hold,
                   countdown, leaving, faults>>
(* The emergency gesture's three seconds are over.                         *)
HoldDone ==
    /\ hold # None
    /\ armed' = (hold = "arm") /\ hold' = None
    /\ UNCHANGED <<around, place, setup, mail, draft, allcall, hbFocus, hbMode,
                   countdown, leaving, faults>>

(***************************************************************************)
(* Fn+Q held: begin_shutdown, cancel_shutdown, the countdown and           *)
(* systemctl.                                                              *)
(***************************************************************************)
Arm ==
    /\ countdown = "idle"
    /\ countdown' = "counting"
    /\ previous' = IF screen = "SHUTTING_DOWN" THEN previous ELSE screen
    /\ screen' = "SHUTTING_DOWN"
    /\ UNCHANGED <<focus, edit, setup, mail, draft, beacons, leaving, faults>>
CancelShutdown == screen' = IF screen = "SHUTTING_DOWN" THEN previous ELSE screen
(* cancel(): once systemctl has been called the power goes off all the     *)
(* same, unless it was refused.                                            *)
Cancel ==
    /\ countdown # "idle"
    /\ countdown' = "idle" /\ CancelShutdown
    /\ leaving' \in IF countdown = "calling" THEN {leaving, "poweroff"} ELSE {leaving}
    /\ UNCHANGED <<previous, focus, edit, setup, mail, draft, beacons, faults>>
ShutdownKey(k) ==
    \/ k = "FN_Q" /\ Arm
    \/ k = "FN_Q_UP" /\ Cancel
    \/ screen = "SHUTTING_DOWN" /\ edit = None /\ k = "ESC" /\ Cancel

CountdownDone ==
    /\ countdown = "counting" /\ countdown' = "calling"
    /\ UNCHANGED <<around, place, setup, mail, draft, beacons, leaving, faults>>

(* systemctl is obeyed, refused (logged, nothing else), or cannot be run   *)
(* at all.                                                                 *)
PoweroffDone ==
    /\ countdown = "calling" /\ countdown' = "idle"
    /\ \/ leaving' = "poweroff" /\ UNCHANGED screen
       \/ UNCHANGED <<leaving, screen>>
       \/ CancelShutdown /\ UNCHANGED leaving
    /\ UNCHANGED <<around, previous, focus, edit, setup, mail, draft, beacons,
                   faults>>
(* The exit button's systemctl was refused: the program stays.             *)
ExitRefused ==
    /\ leaving = "exit" /\ leaving' = None
    /\ UNCHANGED <<around, place, setup, mail, draft, beacons, countdown, faults>>

(***************************************************************************)
(* A key; what else happens on the same thread.                            *)
(***************************************************************************)
SlipRingLocked == FALSE
RingLocked == ~TxAllowed
RingKey(k) ==
    /\ screen \in Range(Ring) /\ ~RingLocked
    /\ ~(screen = "EMERGENCY" /\ EmergencyTakes(k))
    /\ \/ k = "LEFT" /\ MoveInRing(FALSE)
       \/ k = "RIGHT" /\ MoveInRing(TRUE)
TabKey(k) == screen = "SETUP" /\ k = "TAB" /\ CycleFocus

ScreenKey(k) ==
    \/ SetupKey(k) \/ InboxKey(k) \/ DetailKey(k) \/ HomeKey(k) \/ ExitKey(k)
    \/ ComposeKey(k) \/ AllcallKey(k) \/ HbSelectKey(k) \/ EmergencyKey(k)
    \/ RingKey(k) \/ TabKey(k)

SlipPress(k) ==         \* a bug: an edit does not keep the keys of the screen
    /\ leaving = None /\ k \in session.keys[screen]
    /\ ShutdownKey(k) \/ EditKey(k) \/ ScreenKey(k)
    /\ UNCHANGED around
Press(k) ==
    /\ leaving = None /\ k \in session.keys[screen]
    /\ \/ ShutdownKey(k)
       \/ EditKey(k)
       \/ edit = None /\ ScreenKey(k)
    /\ UNCHANGED around

(* _on_decoded_frame stores a message and shows the list anew.             *)
MailArrives ==
    /\ leaving = None /\ arrived < session.mail
    /\ arrived' = arrived + 1
    /\ store' = <<[id |-> arrived', read |-> FALSE]>> \o store
    /\ Refreshed(store')
    /\ UNCHANGED <<session, heard, fix, place, setup, detail, draft, beacons, countdown,
                   leaving>>
(* The list is also shown anew for rows that are not of it: mail taken in  *)
(* for another station (MSG TO), or delivered to it (mark_delivered).      *)
Refresh ==
    /\ leaving = None
    /\ Refreshed(store)
    /\ UNCHANGED <<around, place, setup, detail, store, draft, beacons, countdown,
                   leaving>>

(* set_heard: the list is ordered by the last frame heard.  It takes no    *)
(* frame of our own call, but the call may be set after it was heard.      *)
Hear(s) ==
    /\ leaving = None
    /\ heard' = <<s>> \o SelectSeq(heard, LAMBDA t : t # s)
    /\ UNCHANGED <<session, fix, arrived, place, setup, mail, draft, beacons, countdown,
                   leaving, faults>>
GpsFix ==
    /\ leaving = None /\ session.gps /\ fix' = ~fix
    /\ UNCHANGED <<session, heard, arrived, place, setup, mail, draft, beacons,
                   countdown, leaving, faults>>

(* The daemon has ended: deliberately the last state.                      *)
Left == leaving \in {"restart", "poweroff"} /\ UNCHANGED vars

Next ==
    \/ \E k \in Keys : Press(k)
    \/ HoldDone \/ CountdownDone \/ PoweroffDone \/ ExitRefused
    \/ MailArrives \/ Refresh
    \/ (\E s \in session.stations : Hear(s)) \/ GpsFix \/ Left

Spec == Init /\ [][Next]_vars
(* The two countdowns are tasks of the event loop, which ends each after   *)
(* three seconds, and systemctl is given five.                             *)
FairSpec == Spec /\ WF_vars(HoldDone) /\ WF_vars(CountdownDone) /\ WF_vars(PoweroffDone)

(***************************************************************************)
(* Properties.                                                             *)
(***************************************************************************)
(* A field is being edited only on the setup screen, or under a shutdown   *)
(* countdown begun there: no other screen's keys go to a forgotten edit.   *)
EditOnlyOnSetup ==
    edit # None => \/ screen = "SETUP"
                   \/ screen = "SHUTTING_DOWN" /\ previous = "SETUP"

(* Until call sign and grid are set, or the emergency bypass is taken, the *)
(* operator cannot get to a screen that transmits or shows mail.           *)
UnconfiguredIsConfined ==
    ~TxAllowed => \/ screen = "SETUP"
                  \/ screen = "SHUTTING_DOWN" /\ previous = "SETUP"

(* The badge never shows fewer unread messages than the list has.          *)
NoMailUnderreported == unread >= Unread(inbox)

(* What the operator was writing survives everything done outside the      *)
(* compose screen: other screens, mail, gestures and their failures.       *)
DraftSurvives == [][screen # "COMPOSE" /\ draft.to # "" => draft' = draft]_vars

(* Every gesture comes to an end, and the next one can begin.              *)
GesturesEnd == /\ (hold # None) ~> (hold = None)
               /\ (countdown # "idle") ~> (countdown = "idle")

===============================================================================
