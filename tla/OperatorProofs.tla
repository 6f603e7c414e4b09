---------------------------- MODULE OperatorProofs ----------------------------
(***************************************************************************)
(* Proofs about the operator's side, for every session, every number of    *)
(* messages and every failing write: where an edit and an unconfigured     *)
(* station can be, what becomes of a draft, and the badge of the inbox.    *)
(***************************************************************************)
EXTENDS Operator, SequenceLemmas, FiniteSetTheorems

-------------------------------------------------------------------------------
(* Where the operator is.                                                  *)

(* A shutdown countdown covers the setup screen and gives it back.         *)
AtSetup == \/ screen = "SETUP"
           \/ screen = "SHUTTING_DOWN" /\ previous = "SETUP"

(* The keys of a screen begin an edit on the setup screen only.            *)
LEMMA ScreenKeyEdits ==
    ASSUME NEW k, edit = None, ScreenKey(k)
    PROVE  edit' = None \/ (screen' = "SETUP" /\ screen = "SETUP")
<1>1. CASE SetupKey(k)
  BY <1>1 DEF SetupKey, BeginEdit, EmergencyBypass, CycleRadio, place
<1>2. CASE InboxKey(k) \/ DetailKey(k)
  BY <1>2 DEF InboxKey, MoveRow, OpenDetail, DeleteRow, DetailKey, place
<1>3. CASE HomeKey(k) \/ ExitKey(k)
  BY <1>3 DEF HomeKey, ExitKey, SetScreen, CycleFocus, RequestExit, place
<1>4. CASE ComposeKey(k)
  BY <1>4 DEF ComposeKey, CycleFocus, ComposeFieldKey, Send, ClearDraft
<1>5. CASE AllcallKey(k) \/ HbSelectKey(k) \/ EmergencyKey(k)
  BY <1>5 DEF AllcallKey, HbSelectKey, EmergencyKey, SetScreen, place
<1>6. CASE RingKey(k) \/ TabKey(k)
  BY <1>6 DEF RingKey, MoveInRing, TabKey, CycleFocus
<1> QED BY <1>1, <1>2, <1>3, <1>4, <1>5, <1>6 DEF ScreenKey

(* The shutdown gesture covers a screen and gives it back.                 *)
LEMMA ShutdownCovers ==
    ASSUME NEW k, ShutdownKey(k)
    PROVE  /\ UNCHANGED <<edit, setup, draft>>
           /\ AtSetup => AtSetup'
BY DEF ShutdownKey, Arm, Cancel, CancelShutdown, AtSetup

(* An edit goes on where it began, or ends there.                          *)
LEMMA EditStays ==
    ASSUME NEW k, EditKey(k)
    PROVE  /\ UNCHANGED <<screen, previous, override, draft>>
           /\ edit' = None \/ UNCHANGED <<edit, configured>>
BY DEF EditKey, CommitEdit, CancelEdit, EndEdit, vars, place, setup

(* What is not a key changes the screen only by giving it back.            *)
LEMMA OthersStay ==
    ASSUME \/ HoldDone \/ CountdownDone \/ PoweroffDone \/ ExitRefused
           \/ MailArrives \/ Refresh \/ (\E s \in session.stations : Hear(s)) \/ GpsFix \/ Left
           \/ UNCHANGED vars
    PROVE  /\ UNCHANGED <<edit, setup, draft>>
           /\ AtSetup => AtSetup'
<1>1. CASE PoweroffDone
  BY <1>1 DEF PoweroffDone, CancelShutdown, AtSetup
<1>2. CASE HoldDone \/ CountdownDone \/ ExitRefused
  BY <1>2 DEF HoldDone, CountdownDone, ExitRefused, AtSetup, place
<1>3. CASE MailArrives \/ Refresh \/ GpsFix \/ (\E s \in session.stations : Hear(s))
  BY <1>3 DEF MailArrives, Refresh, GpsFix, Hear, AtSetup, place
<1>4. CASE Left \/ UNCHANGED vars
  BY <1>4 DEF Left, vars, AtSetup, place
<1> QED BY <1>1, <1>2, <1>3, <1>4

(* A field is being edited only on the setup screen, or under a shutdown   *)
(* countdown begun there: no other screen's keys go to a forgotten edit.   *)
LEMMA EditStep ==
    ASSUME EditOnlyOnSetup, [Next]_vars
    PROVE  EditOnlyOnSetup'
<1>1. EditOnlyOnSetup <=> (edit # None => AtSetup)
  BY DEF EditOnlyOnSetup, AtSetup
<1>2. SUFFICES edit' # None => AtSetup'
  BY DEF EditOnlyOnSetup, AtSetup
<1>3. ASSUME NEW k \in Keys, Press(k) PROVE edit' # None => AtSetup'
  <2>1. CASE ShutdownKey(k)
    BY <1>1, <2>1, ShutdownCovers
  <2>2. CASE EditKey(k)
    BY <1>1, <2>2, EditStays DEF AtSetup
  <2>3. CASE edit = None /\ ScreenKey(k)
    BY <2>3, ScreenKeyEdits DEF AtSetup
  <2> QED BY <1>3, <2>1, <2>2, <2>3 DEF Press
<1>4. CASE \/ HoldDone \/ CountdownDone \/ PoweroffDone \/ ExitRefused
           \/ MailArrives \/ Refresh \/ (\E s \in session.stations : Hear(s)) \/ GpsFix \/ Left
           \/ UNCHANGED vars
  BY <1>1, <1>4, OthersStay
<1> QED BY <1>3, <1>4 DEF Next

(* No key that is not meant for it reaches a field that was left half       *)
(* edited, whatever countdowns come between.                               *)
THEOREM EditStaysOnSetup == Spec => []EditOnlyOnSetup
<1>1. Init => EditOnlyOnSetup
  BY DEF Init, EditOnlyOnSetup
<1> QED BY <1>1, EditStep, PTL DEF Spec

(* The keys of the screens take no permission to transmit away.            *)
LEMMA ScreenKeyPermits ==
    ASSUME NEW k, ScreenKey(k), TxAllowed
    PROVE  TxAllowed'
<1>1. CASE SetupKey(k)
  BY <1>1 DEF SetupKey, BeginEdit, EmergencyBypass, CycleRadio, setup, TxAllowed
<1>2. CASE InboxKey(k) \/ DetailKey(k)
  BY <1>2 DEF InboxKey, MoveRow, OpenDetail, DeleteRow, DetailKey, setup, TxAllowed
<1>3. CASE HomeKey(k) \/ ExitKey(k)
  BY <1>3 DEF HomeKey, ExitKey, RestSame, CycleFocus, RequestExit, setup, TxAllowed
<1>4. CASE ComposeKey(k)
  BY <1>4 DEF ComposeKey, CycleFocus, Send, RestSame, setup, TxAllowed
<1>5. CASE AllcallKey(k) \/ HbSelectKey(k) \/ EmergencyKey(k)
  BY <1>5 DEF AllcallKey, HbSelectKey, EmergencyKey, setup, TxAllowed
<1>6. CASE RingKey(k) \/ TabKey(k)
  BY <1>6 DEF RingKey, MoveInRing, TabKey, CycleFocus, setup, TxAllowed
<1> QED BY <1>1, <1>2, <1>3, <1>4, <1>5, <1>6 DEF ScreenKey

(* Without permission they leave the setup screen by the bypass only.      *)
LEMMA ScreenKeyConfines ==
    ASSUME NEW k, ScreenKey(k), ~TxAllowed, AtSetup
    PROVE  TxAllowed' \/ AtSetup'
<1>1. SetupKey(k) \/ TabKey(k)
  BY DEF ScreenKey, AtSetup, InboxKey, DetailKey, HomeKey, ExitKey, ComposeKey,
         AllcallKey, HbSelectKey, EmergencyKey, RingKey, RingLocked
<1>2. CASE SetupKey(k)
  BY <1>2 DEF SetupKey, BeginEdit, EmergencyBypass, CycleRadio, place, AtSetup,
              TxAllowed
<1>3. CASE TabKey(k)
  BY <1>3 DEF TabKey, CycleFocus, AtSetup
<1> QED BY <1>1, <1>2, <1>3

(* Until call sign and grid are set or the bypass is taken, the operator   *)
(* stays with the setup screen.  An edit may take the permission away, and *)
(* edits go on there only.                                                 *)
LEMMA ConfinedStep ==
    ASSUME EditOnlyOnSetup, UnconfiguredIsConfined, [Next]_vars
    PROVE  UnconfiguredIsConfined'
<1>1. ~TxAllowed => AtSetup
  BY DEF UnconfiguredIsConfined, AtSetup
<1>2. SUFFICES ~TxAllowed' => AtSetup'
  BY DEF UnconfiguredIsConfined, AtSetup
<1>3. ASSUME NEW k \in Keys, Press(k) PROVE ~TxAllowed' => AtSetup'
  <2>1. CASE ShutdownKey(k)
    <3>1. TxAllowed' <=> TxAllowed
      BY <2>1, ShutdownCovers DEF setup, TxAllowed
    <3> QED BY <1>1, <2>1, <3>1, ShutdownCovers
  <2>2. CASE EditKey(k)
    <3>1. edit # None
      BY <2>2 DEF EditKey
    <3>2. AtSetup
      BY <3>1 DEF EditOnlyOnSetup, AtSetup
    <3> QED BY <2>2, <3>2, EditStays DEF AtSetup
  <2>3. CASE edit = None /\ ScreenKey(k)
    BY <1>1, <2>3, ScreenKeyPermits, ScreenKeyConfines
  <2> QED BY <1>3, <2>1, <2>2, <2>3 DEF Press
<1>4. CASE \/ HoldDone \/ CountdownDone \/ PoweroffDone \/ ExitRefused
           \/ MailArrives \/ Refresh \/ (\E s \in session.stations : Hear(s)) \/ GpsFix \/ Left
           \/ UNCHANGED vars
  <2>1. TxAllowed' <=> TxAllowed
    BY <1>4, OthersStay DEF setup, TxAllowed
  <2> QED BY <1>1, <1>4, <2>1, OthersStay
<1> QED BY <1>3, <1>4 DEF Next

(* A station without call sign or grid cannot be made to transmit, or to   *)
(* show mail, by any sequence of keys short of the bypass.                 *)
THEOREM UnconfiguredStaysConfined == Spec => []UnconfiguredIsConfined
<1>1. Init => UnconfiguredIsConfined
  BY DEF Init, UnconfiguredIsConfined, TxAllowed
<1> QED BY <1>1, ConfinedStep, EditStaysOnSetup, PTL DEF Spec

-------------------------------------------------------------------------------
(* What the operator was writing.                                          *)

(* The keys of the other screens leave a draft with an addressee alone.    *)
LEMMA ScreenKeySpares ==
    ASSUME NEW k, ScreenKey(k), screen # "COMPOSE", draft.to # ""
    PROVE  draft' = draft
<1>1. CASE SetupKey(k)
  BY <1>1 DEF SetupKey, BeginEdit, EmergencyBypass, CycleRadio
<1>2. CASE InboxKey(k) \/ DetailKey(k)
  BY <1>2 DEF InboxKey, MoveRow, OpenDetail, DeleteRow, DetailKey
<1>3. CASE HomeKey(k) \/ ExitKey(k)
  BY <1>3 DEF HomeKey, ExitKey, SetScreen, Entered, CycleFocus, RequestExit
<1>4. CASE AllcallKey(k) \/ HbSelectKey(k) \/ EmergencyKey(k)
  BY <1>4 DEF AllcallKey, HbSelectKey, EmergencyKey, SetScreen, Entered
<1>5. CASE RingKey(k) \/ TabKey(k)
  BY <1>5 DEF RingKey, MoveInRing, Entered, Prepopulated, TabKey, CycleFocus
<1> QED BY <1>1, <1>2, <1>3, <1>4, <1>5 DEF ScreenKey, ComposeKey

(* What the operator was writing survives everything done outside the      *)
(* compose screen: other screens, mail, gestures and their failures.       *)
THEOREM DraftsSurvive == Spec => DraftSurvives
<1>1. ASSUME [Next]_vars, screen # "COMPOSE", draft.to # ""
      PROVE  draft' = draft
  <2>1. ASSUME NEW k \in Keys, Press(k) PROVE draft' = draft
    BY <1>1, <2>1, ShutdownCovers, EditStays, ScreenKeySpares DEF Press
  <2>2. CASE \/ HoldDone \/ CountdownDone \/ PoweroffDone \/ ExitRefused
             \/ MailArrives \/ Refresh \/ (\E s \in session.stations : Hear(s)) \/ GpsFix
             \/ Left \/ UNCHANGED vars
    BY <2>2, OthersStay
  <2> QED BY <1>1, <2>1, <2>2 DEF Next
<1>2. [Next]_vars => [screen # "COMPOSE" /\ draft.to # "" => draft' = draft]_vars
  BY <1>1
<1> QED BY <1>2, PTL DEF Spec, DraftSurvives

-------------------------------------------------------------------------------
(* The badge of the inbox.                                                 *)
Row == [id : Nat, read : BOOLEAN]
MailOK == /\ inbox \in Seq(Row) /\ store \in Seq(Row)
          /\ unread \in Nat /\ row \in Nat
BadgeInv == MailOK /\ arrived \in Nat /\ NoMailUnderreported
UnreadRows(rows) == {i \in DOMAIN rows : ~rows[i].read}

(* The unread rows of a list are finitely many.                            *)
LEMMA UnreadIsNat ==
    ASSUME NEW rows \in Seq(Row)
    PROVE  /\ IsFiniteSet(UnreadRows(rows)) /\ Unread(rows) \in Nat
           /\ Unread(rows) = Cardinality(UnreadRows(rows))
<1>1. Len(rows) \in Nat /\ DOMAIN rows = 1..Len(rows)
  BY LenProperties
<1>2. IsFiniteSet(DOMAIN rows)
  BY <1>1, FS_Interval
<1>3. UnreadRows(rows) \in SUBSET DOMAIN rows
  BY DEF UnreadRows
<1>4. IsFiniteSet(UnreadRows(rows))
  BY <1>2, <1>3, FS_Subset
<1>5. Cardinality(UnreadRows(rows)) \in Nat
  BY <1>4, FS_CardinalityType
<1> QED BY <1>4, <1>5 DEF Unread, UnreadRows

(* A list that loses a row has no more unread ones.                        *)
LEMMA RemovedIsRead ==
    ASSUME NEW rows \in Seq(Row), NEW j \in 1..Len(rows)
    PROVE  RemoveAt(rows, j) \in Seq(Row) /\ Unread(RemoveAt(rows, j)) <= Unread(rows)
<1> DEFINE less == RemoveAt(rows, j)
<1>1. /\ Len(rows) \in Nat /\ DOMAIN rows = 1..Len(rows)
      /\ less \in Seq(Row) /\ Len(less) = Len(rows) - 1
      /\ \A i \in 1..(Len(rows) - 1) : less[i] = IF i < j THEN rows[i] ELSE rows[i + 1]
  BY LenProperties, RemoveAtKeepsSeq, RemoveAtIs
<1> HIDE DEF less
<1>2. DOMAIN less = 1..(Len(rows) - 1)
  BY <1>1, LenProperties
<1> DEFINE before == UnreadRows(rows)
           after == UnreadRows(less)
           f == [i \in after |-> IF i < j THEN i ELSE i + 1]
<1>3. \A i \in after : i \in Int /\ i >= 1 /\ i <= Len(rows) - 1 /\ ~less[i].read
  BY <1>1, <1>2 DEF UnreadRows
<1>4. \A i \in after : f[i] \in before
  BY <1>1, <1>3 DEF UnreadRows
<1>5. \A i, k \in after : f[i] = f[k] => i = k
  BY <1>1, <1>3
<1> HIDE DEF before, after
<1>6. f \in [after -> before]
  BY <1>4
<1>7. f \in Injection(after, before)
  <2> HIDE DEF f
  <2> QED BY <1>5, <1>6 DEF Injection, IsInjective
<1>8. IsFiniteSet(before) /\ Unread(rows) = Cardinality(before)
  BY UnreadIsNat DEF before
<1>9. Unread(less) = Cardinality(after)
  BY <1>1, UnreadIsNat DEF after
<1> HIDE DEF f
<1>10. Cardinality(after) <= Cardinality(before)
  BY <1>7, <1>8, FS_Injection
<1> QED BY <1>1, <1>8, <1>9, <1>10 DEF less

(* A row that is marked read was one of the unread ones.                   *)
LEMMA MarkedIsRead ==
    ASSUME NEW rows \in Seq(Row), NEW id
    PROVE  /\ MarkedRead(rows, id) \in Seq(Row)
           /\ (\E i \in DOMAIN rows : rows[i].id = id /\ ~rows[i].read) =>
                 Unread(MarkedRead(rows, id)) <= Unread(rows) - 1
<1> DEFINE now == MarkedRead(rows, id)
<1>1. /\ Len(rows) \in Nat /\ DOMAIN rows = 1..Len(rows)
      /\ \A i \in DOMAIN rows : rows[i] \in Row
  BY LenProperties, ElementOfSeq
<1>2. \A r \in Row : LET m == [r EXCEPT !.read = @ \/ r.id = id]
                     IN m \in Row /\ (m.read <=> r.read \/ r.id = id)
  BY DEF Row
<1>3. /\ DOMAIN now = 1..Len(rows)
      /\ \A i \in DOMAIN rows :
            now[i] \in Row /\ (now[i].read <=> rows[i].read \/ rows[i].id = id)
  BY <1>1, <1>2 DEF MarkedRead
<1>4. now \in Seq(Row)
  <2>1. now = [i \in 1..Len(rows) |-> now[i]]
    BY <1>1 DEF MarkedRead
  <2> HIDE DEF now
  <2>2. now \in [1..Len(rows) -> Row]
    BY <1>1, <1>3, <2>1
  <2> QED BY <1>1, <2>2
<1> HIDE DEF now
<1>5. ASSUME NEW i \in DOMAIN rows, rows[i].id = id, ~rows[i].read
      PROVE  Unread(now) <= Unread(rows) - 1
  <2> DEFINE before == UnreadRows(rows)
             after == UnreadRows(now)
  <2>1. after \in SUBSET (before \ {i}) /\ i \in before
    BY <1>1, <1>3, <1>5 DEF UnreadRows
  <2>2. /\ IsFiniteSet(before) /\ Unread(rows) = Cardinality(before)
        /\ Unread(now) = Cardinality(after) /\ Unread(now) \in Nat
        /\ Unread(rows) \in Nat
    BY <1>4, UnreadIsNat
  <2> HIDE DEF before, after
  <2>3. IsFiniteSet(before \ {i}) /\ Cardinality(before \ {i}) = Cardinality(before) - 1
    BY <2>1, <2>2, FS_RemoveElement
  <2>4. Cardinality(after) <= Cardinality(before \ {i})
    BY <2>1, <2>3, FS_Subset
  <2> QED BY <2>2, <2>3, <2>4
<1> QED BY <1>4, <1>5 DEF now

(* The mailbox without a row is a mailbox.                                 *)
LEMMA WithoutIsMail ==
    ASSUME NEW rows \in Seq(Row), NEW id
    PROVE  Without(rows, id) \in Seq(Row)
<1>1. DOMAIN rows = 1..Len(rows)
  BY LenProperties
<1>2. CASE \E i \in DOMAIN rows : rows[i].id = id
  <2> DEFINE j == CHOOSE i \in DOMAIN rows : rows[i].id = id
  <2>1. j \in 1..Len(rows)
    BY <1>1, <1>2
  <2>2. Without(rows, id) = RemoveAt(rows, j)
    BY <1>2 DEF Without
  <2> HIDE DEF j
  <2> QED BY <2>1, <2>2, RemovedIsRead
<1>3. CASE ~ \E i \in DOMAIN rows : rows[i].id = id
  BY <1>3 DEF Without
<1> QED BY <1>2, <1>3

(* The mailbox is written or stays.                                        *)
LEMMA PersistIsMail ==
    ASSUME NEW rows \in Seq(Row), store \in Seq(Row), Persist(rows)
    PROVE  store' \in Seq(Row)
BY DEF Persist

(* The inbox's own keys.                                                   *)
LEMMA InboxKeyCounts ==
    ASSUME MailOK, NoMailUnderreported, NEW k, InboxKey(k)
    PROVE  MailOK' /\ NoMailUnderreported'
<1>1. /\ Len(inbox) \in Nat /\ DOMAIN inbox = 1..Len(inbox)
      /\ Unread(inbox) \in Nat /\ unread >= Unread(inbox)
  BY LenProperties, UnreadIsNat DEF MailOK, NoMailUnderreported
<1>2. ASSUME NEW forward, MoveRow(forward) PROVE MailOK' /\ NoMailUnderreported'
  <2>1. row' \in Nat
    BY <1>1, <1>2 DEF MoveRow, MailOK
  <2> QED BY <1>2, <2>1 DEF MoveRow, MailOK, NoMailUnderreported, Unread
<1>3. CASE OpenDetail
  <2> DEFINE r == inbox[row + 1]
  <2>1. row' = row /\ row + 1 \in DOMAIN inbox
    BY <1>1, <1>3 DEF OpenDetail, MailOK
  <2>2. CASE r.read
    <3>1. UNCHANGED <<inbox, unread, store>>
      BY <1>3, <2>2 DEF OpenDetail, ReadLocally
    <3> QED BY <2>1, <3>1 DEF MailOK, NoMailUnderreported, Unread
  <2>3. CASE ~r.read
    <3>1. /\ inbox' = MarkedRead(inbox, r.id) /\ unread' = Bigger(0, unread - 1)
          /\ Persist(MarkedRead(store, r.id))
      BY <1>3, <2>3 DEF OpenDetail, ReadLocally
    <3>2. /\ inbox' \in Seq(Row) /\ Unread(inbox') <= Unread(inbox) - 1
          /\ Unread(inbox') \in Nat
      BY <2>1, <2>3, <3>1, MarkedIsRead, UnreadIsNat DEF MailOK
    <3>3. store' \in Seq(Row)
      BY <3>1, MarkedIsRead, PersistIsMail DEF MailOK
    <3>4. unread' \in Nat /\ unread' >= unread - 1
      BY <3>1 DEF Bigger, MailOK
    <3>5. unread' >= Unread(inbox')
      BY <1>1, <3>2, <3>4 DEF MailOK
    <3> QED BY <2>1, <3>2, <3>3, <3>4, <3>5 DEF MailOK, NoMailUnderreported, Unread
  <2> QED BY <2>2, <2>3
<1>4. CASE DeleteRow
  <2>1. /\ row + 1 \in 1..Len(inbox) /\ unread' = unread
        /\ inbox' = RemoveAt(inbox, row + 1) /\ row' = Clamped(row, inbox')
        /\ Persist(Without(store, inbox[row + 1].id))
    BY <1>1, <1>4 DEF DeleteRow, DeleteFocused, MailOK
  <2>2. /\ inbox' \in Seq(Row) /\ Unread(inbox') <= Unread(inbox)
        /\ Unread(inbox') \in Nat /\ Len(inbox') \in Nat
    BY <2>1, RemovedIsRead, UnreadIsNat, LenProperties DEF MailOK
  <2>3. store' \in Seq(Row)
    BY <2>1, WithoutIsMail, PersistIsMail DEF MailOK
  <2>4. row' \in Nat
    BY <2>1, <2>2 DEF Clamped, Bigger, MailOK
  <2>5. unread' >= Unread(inbox')
    BY <1>1, <2>1, <2>2 DEF MailOK
  <2> QED BY <2>1, <2>2, <2>3, <2>4, <2>5 DEF MailOK, NoMailUnderreported, Unread
<1> QED BY <1>2, <1>3, <1>4 DEF InboxKey

(* Sending apart, other keys leave list, badge and mailbox alone.          *)
LEMMA OtherKeysKeepMail ==
    ASSUME NEW k, \/ ShutdownKey(k) \/ EditKey(k)
                  \/ ScreenKey(k) /\ ~InboxKey(k) /\ ~Send
    PROVE  UNCHANGED <<inbox, unread, store, row>>
<1>1. CASE ShutdownKey(k)
  BY <1>1 DEF ShutdownKey, Arm, Cancel, mail
<1>2. CASE EditKey(k)
  BY <1>2 DEF EditKey, CommitEdit, CancelEdit, EndEdit, mail, vars
<1>3. CASE SetupKey(k)
  BY <1>3 DEF SetupKey, BeginEdit, EmergencyBypass, CycleRadio, mail
<1>4. CASE DetailKey(k)
  BY <1>4 DEF DetailKey
<1>5. CASE HomeKey(k) \/ ExitKey(k)
  BY <1>5 DEF HomeKey, ExitKey, RestSame, CycleFocus, RequestExit, mail
<1>6. CASE ComposeKey(k) /\ ~Send
  BY <1>6 DEF ComposeKey, CycleFocus, RestSame, mail
<1>7. CASE AllcallKey(k) \/ HbSelectKey(k) \/ EmergencyKey(k)
  BY <1>7 DEF AllcallKey, HbSelectKey, EmergencyKey, mail
<1>8. CASE RingKey(k) \/ TabKey(k)
  BY <1>8 DEF RingKey, MoveInRing, TabKey, CycleFocus, mail
<1> QED BY <1>1, <1>2, <1>3, <1>4, <1>5, <1>6, <1>7, <1>8 DEF ScreenKey

(* A list that is shown anew is counted anew.                              *)
LEMMA RefreshedCounts ==
    ASSUME MailOK, NoMailUnderreported, NEW rows \in Seq(Row), Refreshed(rows),
           store' \in Seq(Row)
    PROVE  MailOK' /\ NoMailUnderreported'
<1>1. CASE inbox' = rows /\ unread' = Unread(rows) /\ row' = Clamped(row, rows)
  <2>1. Unread(inbox') \in Nat /\ Len(rows) \in Nat
    BY <1>1, UnreadIsNat, LenProperties
  <2>2. row' \in Nat
    BY <1>1, <2>1 DEF Clamped, Bigger, MailOK
  <2> QED BY <1>1, <2>1, <2>2 DEF MailOK, NoMailUnderreported, Unread
<1>2. CASE UNCHANGED <<inbox, unread, row>>
  BY <1>2 DEF MailOK, NoMailUnderreported, Unread
<1> QED BY <1>1, <1>2 DEF Refreshed

(* Sending shows the list anew when the message is held here.              *)
LEMMA SendCounts ==
    ASSUME MailOK, NoMailUnderreported, Send
    PROVE  MailOK' /\ NoMailUnderreported'
<1>1. store' = store
  BY DEF Send, mail
<1>2. CASE Refreshed(store)
  BY <1>1, <1>2, RefreshedCounts DEF MailOK
<1>3. CASE UNCHANGED mail
  BY <1>3 DEF mail, MailOK, NoMailUnderreported, Unread
<1> QED BY <1>2, <1>3 DEF Send

(* Mail that arrives is shown with the whole list, and counted.            *)
LEMMA MailArrivesCounts ==
    ASSUME BadgeInv, MailArrives
    PROVE  BadgeInv'
<1> DEFINE new == <<[id |-> arrived', read |-> FALSE]>>
<1>1. arrived' = arrived + 1 /\ store' = new \o store /\ Refreshed(store')
  BY DEF MailArrives
<1>2. arrived' \in Nat /\ [id |-> arrived', read |-> FALSE] \in Row
  BY <1>1 DEF BadgeInv, Row
<1>3. new \in Seq(Row)
  BY <1>2
<1> HIDE DEF new
<1>4. store' \in Seq(Row)
  BY <1>1, <1>3, ConcatProperties DEF BadgeInv, MailOK
<1> QED BY <1>1, <1>2, <1>4, RefreshedCounts DEF BadgeInv

(* Every step keeps the badge right.                                       *)
LEMMA BadgeStep ==
    ASSUME BadgeInv, [Next]_vars
    PROVE  BadgeInv'
<1>1. ASSUME UNCHANGED <<inbox, unread, store, row, arrived>> PROVE BadgeInv'
  BY <1>1 DEF BadgeInv, MailOK, NoMailUnderreported, Unread
<1>2. ASSUME NEW k \in Keys, Press(k) PROVE BadgeInv'
  <2>1. arrived' = arrived
    BY <1>2 DEF Press, around
  <2>2. CASE InboxKey(k)
    BY <2>1, <2>2, InboxKeyCounts DEF BadgeInv
  <2>3. CASE Send
    BY <2>1, <2>3, SendCounts DEF BadgeInv
  <2>4. CASE ~InboxKey(k) /\ ~Send
    BY <1>1, <1>2, <2>1, <2>4, OtherKeysKeepMail DEF Press
  <2> QED BY <2>2, <2>3, <2>4
<1>3. CASE MailArrives \/ Refresh
  <2>1. CASE Refresh
    BY <2>1, RefreshedCounts DEF Refresh, around, BadgeInv, MailOK
  <2> QED BY <1>3, <2>1, MailArrivesCounts
<1>4. CASE HoldDone \/ CountdownDone \/ PoweroffDone \/ ExitRefused
  BY <1>1, <1>4 DEF HoldDone, CountdownDone, PoweroffDone, ExitRefused, mail, around
<1>5. CASE GpsFix \/ \E s \in session.stations : Hear(s)
  BY <1>1, <1>5 DEF GpsFix, Hear, mail
<1>6. CASE Left \/ UNCHANGED vars
  BY <1>1, <1>6 DEF Left, vars, mail, around
<1> QED BY <1>2, <1>3, <1>4, <1>5, <1>6 DEF Next

(* The badge never shows fewer unread messages than the list has: for any  *)
(* amount of mail, however arrivals interleave with reading and deleting,  *)
(* and whatever accesses to the mailbox fail.                              *)
THEOREM BadgeIsNotLow == Spec => []NoMailUnderreported
<1>1. Init => BadgeInv
  <2> SUFFICES ASSUME Init PROVE BadgeInv
    OBVIOUS
  <2>1. << >> \in Seq(Row)
    BY EmptySeq
  <2>2. MailOK /\ arrived \in Nat /\ inbox = << >>
    BY <2>1 DEF Init, MailOK
  <2>3. UnreadRows(inbox) = {}
    BY <2>2 DEF UnreadRows
  <2>4. Unread(inbox) = 0
    <3>1. Unread(inbox) = Cardinality(UnreadRows(inbox))
      BY <2>2, UnreadIsNat DEF MailOK
    <3> QED BY <2>3, <3>1, FS_EmptySet
  <2> QED BY <2>2, <2>4 DEF BadgeInv, MailOK, NoMailUnderreported
<1>2. BadgeInv => NoMailUnderreported
  BY DEF BadgeInv
<1> QED BY <1>1, <1>2, BadgeStep, PTL DEF Spec
===============================================================================
