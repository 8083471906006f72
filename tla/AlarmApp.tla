------------------------------ MODULE AlarmApp ------------------------------
(***************************************************************************)
(* The alarm application (alarm_ui.c, draw_alarm_create_page.c and the     *)
(* popup of popup_listview.c) on top of the alarm manager.                 *)
(*                                                                         *)
(* The application draws a copy of the list, and what the user chooses is  *)
(* a position in that copy; meanwhile alarms fire and the clock is         *)
(* synchronised, of which the application hears nothing.  Its callbacks    *)
(* run in the LVGL task, one key at a time, with the UI lock held.  The    *)
(* popup and the page that creates an alarm take the focus, and the keys   *)
(* that would leave them end there.  An alarm's screen takes the focus     *)
(* away, and when it goes LVGL gives it to the object drawn before it,     *)
(* which may be one under the page that creates an alarm.                  *)
(***************************************************************************)
EXTENDS AlarmManager

VARIABLES
  page,      \* the page in focus; "blank": the application could not draw itself
  listLast,  \* the list was drawn after the page that creates an alarm
  rang,      \* an alarm has fired, its screen is yet to come
  snapshot,  \* all_alarms_snapshot[0..n_alarms-1]
  drawn,     \* alarm_list: its items are on the screen
  selected,  \* the position selected_alarm points to, while the popup is open
  statics,   \* which of the other static pointers are not NULL
  refresh,   \* the alarms were changed, the list is yet to be drawn again
  assertion, \* an assertion has failed
  stale,     \* history: another task has changed the alarms since the snapshot
  astray     \* history: the page that creates an alarm is open and lost the focus

appVars == <<page, listLast, rang, snapshot, drawn, selected, statics, refresh,
             assertion, stale, astray>>
avars == <<vars, appVars>>

Pages == {"closed", "blank", "list", "popup", "create"}
Pointers == {"change_list", "all_alarms_snapshot", "popup", "background", "dangling"}

\* background is not NULL: the page is there, or was deleted with its parent.
CreatorSet == statics \cap {"background", "dangling"} # {}

\* The LVGL task handles the next key.
Ready(p) == page = p /\ ~refresh /\ ~assertion /\ edit.step = "idle"

AppInit ==
  /\ Init
  /\ page = "closed" /\ listLast = FALSE /\ rang = FALSE
  /\ snapshot = <<>> /\ drawn = FALSE /\ selected = 0
  /\ statics = {} /\ refresh = FALSE /\ assertion = FALSE
  /\ stale = FALSE /\ astray = FALSE

-----------------------------------------------------------------------------
(* The list                                                                *)

\* populate_alarms_list: the alarms are copied under the mutex; without memory for
\* the items none is drawn.
populate_alarms_list ==
  /\ snapshot' = alarms
  /\ drawn' \in (IF alarms = <<>> THEN {FALSE} ELSE BOOLEAN)
  /\ listLast' = ("background" \in statics)
  /\ stale' = FALSE

\* draw_alarm_app_ui.  Either allocation may fail, and the application then stays
\* open without having drawn anything.
draw_alarm_app_ui ==
  /\ Ready("closed")
  /\ \/ /\ page' = "list"
        /\ statics' = statics \cup {"change_list", "all_alarms_snapshot"}
        /\ assertion' = (drawn \/ {"change_list", "all_alarms_snapshot"} \cap statics # {})
        /\ populate_alarms_list
     \/ /\ page' = "blank"
        /\ \E got \in {{}, {"change_list"}} : statics' = statics \cup got
        /\ assertion' = ("change_list" \in statics)
        /\ UNCHANGED <<snapshot, drawn, listLast, stale>>
  /\ UNCHANGED <<vars, rang, selected, refresh, astray>>

\* Mutant: the list of the options is not freed.
OptionsLeft == statics \ {"all_alarms_snapshot"}

\* What delete_alarm_app_ui leaves set: deleting the container deletes the page that
\* creates an alarm, if it is there, and leaves its pointer.
Left == IF CreatorSet THEN {"dangling"} ELSE {}

\* Escape with the focus on the application: close_curr_app, delete_alarm_app_ui
delete_alarm_app_ui ==
  /\ Ready("list") \/ Ready("blank")
  /\ page' = "closed" /\ snapshot' = <<>> /\ drawn' = FALSE
  /\ statics' = Left
  /\ listLast' = FALSE /\ stale' = FALSE
  /\ UNCHANGED <<vars, rang, selected, refresh, assertion, astray>>

\* The end of a callback that has changed the alarms: the application does nothing else
\* before it, but other tasks may, the alarm manager's mutex having been given back.
invalidate_and_repopulate_alarm_list ==
  /\ refresh /\ ~assertion
  /\ refresh' = FALSE
  /\ populate_alarms_list
  /\ UNCHANGED <<vars, page, rang, selected, statics, assertion, astray>>

-----------------------------------------------------------------------------
(* The popup of an alarm                                                   *)

\* create_popup_listview: without memory there is no popup.
open_alarm_change_popup(i) ==
  /\ Ready("list") /\ drawn /\ i \in 1..Len(snapshot)
  /\ assertion' = ("popup" \in statics)
  /\ \/ page' = "popup" /\ selected' = i /\ statics' = statics \cup {"popup"}
     \/ UNCHANGED <<page, selected, statics>>
  /\ UNCHANGED <<vars, listLast, rang, snapshot, drawn, refresh, stale, astray>>

\* Escape: dismiss_popup, whose deletion clears the registry
dismiss_popup ==
  /\ Ready("popup")
  /\ page' = "list" /\ selected' = 0 /\ statics' = statics \ {"popup"}
  /\ UNCHANGED <<vars, listLast, rang, snapshot, drawn, refresh, assertion, stale, astray>>

\* Mutant: the position is used from zero.
DeleteNext(i) ==
  \/ DeleteAt(i + 1)
  \/ i + 1 > Len(alarms) /\ UNCHANGED <<alarms, left>>

\* delete_alarm_by_index(find_alarm_index(selected_alarm)); a position behind the end
\* of the list is refused.
DeleteSelected(i) ==
  \/ DeleteAt(i)
  \/ i > Len(alarms) /\ UNCHANGED <<alarms, left>>

\* draw_modify_alarm_page: the pointer of an earlier page must have been cleared.
draw_modify_alarm_page ==
  IF CreatorSet
  THEN assertion' = TRUE /\ UNCHANGED <<page, statics, listLast>>
  ELSE /\ page' = "create" /\ listLast' = FALSE
       /\ statics' = (statics \ {"popup"}) \cup {"background"}
       /\ UNCHANGED assertion

\* popup_sel_cb, and the popup goes.  "Edit" deletes the alarm at once and "Copy" does
\* not; both open the page that creates one.  After "Delete" LVGL focuses what was drawn
\* before the popup, the list having been drawn after it.
popup_sel_cb(option) ==
  /\ Ready("popup")
  /\ \/ /\ option = "Delete"
        /\ page' = (IF "background" \in statics THEN "create" ELSE "list")
        /\ statics' = statics \ {"popup"}
        /\ UNCHANGED <<listLast, assertion>>
     \/ option # "Delete" /\ draw_modify_alarm_page
  /\ IF option = "Copy" \/ assertion' THEN UNCHANGED <<alarms, left>> ELSE DeleteSelected(selected)
  /\ refresh' = (option # "Copy" /\ ~assertion')
  /\ selected' = 0
  /\ UNCHANGED <<clock, firing, edit, revalidate, syncs, rang, snapshot, drawn, stale, astray>>

-----------------------------------------------------------------------------
(* The page that creates an alarm                                          *)

add_alarm_click_cb ==
  /\ Ready("list")
  /\ draw_modify_alarm_page
  /\ UNCHANGED <<vars, rang, snapshot, drawn, selected, refresh, stale, astray>>

\* Mutant: the page is gone and the pointer stays.
CreatorKept == statics

\* close_alarm_creator
CreatorClosed == statics \ {"background"}

\* Escape with the focus on the page
CancelCreate ==
  /\ Ready("create")
  /\ page' = "list" /\ statics' = CreatorClosed /\ astray' = FALSE
  /\ UNCHANGED <<vars, listLast, rang, snapshot, drawn, selected, refresh, assertion, stale>>

\* Mutant: the page is closed and the list not drawn again.
ClickWithoutRefresh(e) ==
  /\ Ready("create")
  /\ alarm_manager_create_alarm(e)
  /\ page' = "list" /\ statics' = CreatorClosed /\ astray' = FALSE
  /\ UNCHANGED <<listLast, rang, snapshot, drawn, selected, refresh, assertion, stale>>

\* The chosen digits are a date, and the alarm manager accepts it.  Otherwise the
\* page stays, with a message.
on_btn_clicked_cb(e) ==
  /\ Ready("create")
  /\ alarm_manager_create_alarm(e)
  /\ page' = "list" /\ statics' = CreatorClosed /\ astray' = FALSE
  /\ refresh' = TRUE
  /\ UNCHANGED <<listLast, rang, snapshot, drawn, selected, assertion, stale>>

\* The screen of an alarm has come and gone: LVGL focuses the object drawn before it.
\* While it is there it holds the keys.
AlarmScreen ==
  /\ rang /\ rang' = FALSE
  /\ ~refresh /\ ~assertion
  /\ IF page \in {"list", "create"} /\ "background" \in statics
     THEN /\ page' \in {"create"} \cup (IF listLast /\ drawn THEN {"list"} ELSE {})
          /\ astray' = (page' = "list")
     ELSE UNCHANGED <<page, astray>>
  /\ UNCHANGED <<vars, listLast, snapshot, drawn, selected, statics, refresh, assertion, stale>>

\* Right from the last alarm: the page that creates one is its sibling.
FocusCreator ==
  /\ Ready("list") /\ "background" \in statics
  /\ page' = "create" /\ astray' = FALSE
  /\ UNCHANGED <<vars, listLast, rang, snapshot, drawn, selected, statics, refresh,
                 assertion, stale>>

-----------------------------------------------------------------------------
(* The other tasks, and other callers of the alarm manager                 *)

OtherTask ==
  /\ ~assertion
  /\ \/ Expire \/ alarm_fired_cb \/ Second \/ alarm_manager_revalidate
     \/ \E e \in Epoch : SetClock(e)
  /\ stale' = (stale \/ (page \notin {"closed", "blank"} /\ alarms' # alarms))
  /\ rang' = (rang \/ (firing /\ ~firing' /\ alarms' # alarms))
  /\ UNCHANGED <<page, listLast, snapshot, drawn, selected, statics, refresh, assertion, astray>>

\* The application is not open while another one in the LVGL task calls the manager.
OtherApp == page = "closed" /\ Ui /\ UNCHANGED appVars

AppGone ==
  /\ page' = "closed" /\ listLast' = FALSE /\ rang' = FALSE
  /\ snapshot' = <<>> /\ drawn' = FALSE /\ selected' = 0
  /\ statics' = {} /\ refresh' = FALSE /\ assertion' = FALSE
  /\ stale' = FALSE /\ astray' = FALSE

\* Deep sleep keeps the alarms, once the time is known, and nothing of the application.
Reboot ==
  /\ ~assertion /\ ((\E e \in Epoch : DeepSleep(e)) \/ DeepSleepWithoutTime)
  /\ AppGone

\* A failed assertion restarts the watch, which loses the alarms and the time.
Panic ==
  /\ assertion
  /\ alarms' = <<>> /\ clock' = NoTime /\ left' = Off /\ firing' = FALSE
  /\ edit' = NoEdit /\ revalidate' = FALSE
  /\ UNCHANGED syncs
  /\ AppGone

App ==
  \/ draw_alarm_app_ui \/ delete_alarm_app_ui \/ invalidate_and_repopulate_alarm_list
  \/ \E i \in 1..MaxAlarms : open_alarm_change_popup(i)
  \/ dismiss_popup
  \/ \E option \in {"Edit", "Copy", "Delete"} : popup_sel_cb(option)
  \/ add_alarm_click_cb \/ CancelCreate
  \/ \E e \in Epoch : on_btn_clicked_cb(e)
  \/ AlarmScreen \/ FocusCreator

AppNext == App \/ OtherTask \/ OtherApp \/ Reboot \/ Panic

AppSpec == AppInit /\ [][AppNext]_avars

\* Fairness of AlarmManager; a callback runs to its end, and a restart is not put off.
\* The user owes nothing.
FairAppSpec ==
  AppSpec /\ Fairness /\ WF_avars(invalidate_and_repopulate_alarm_list) /\ WF_avars(Panic)

-----------------------------------------------------------------------------
(* Properties                                                              *)

AppTypeOK ==
  /\ page \in Pages /\ snapshot \in Seq(Epoch) /\ Len(snapshot) <= MaxAlarms
  /\ drawn \in BOOLEAN /\ selected \in 0..MaxAlarms
  /\ statics \subseteq Pointers
  /\ listLast \in BOOLEAN /\ rang \in BOOLEAN /\ refresh \in BOOLEAN
  /\ assertion \in BOOLEAN /\ stale \in BOOLEAN /\ astray \in BOOLEAN

\* No assertion of the application fails, whatever allocation failed before and in
\* whatever order its pages were opened and closed: each page clears the pointers
\* that its next opening asserts to be NULL (alarm_ui.c, popup_listview.c,
\* draw_alarm_create_page.c).  The one exception: an alarm's screen took the focus from
\* the page that creates an alarm while that page was open.
NoAssertionFails ==
  /\ assertion \/ "dangling" \in statics => astray
  /\ ~astray => ("background" \in statics <=> page = "create")
  /\ "popup" \in statics <=> page = "popup"
  /\ page = "create" => "background" \in statics
  /\ ~({"background", "dangling"} \subseteq statics)
  /\ page = "closed" => statics \subseteq {"dangling"} /\ ~drawn /\ ~refresh

\* The list on the screen is the list of the alarm manager as long as no other task has
\* changed it: the application draws it again after every change of its own.
ShowsAlarms ==
  page \in {"list", "popup", "create"} /\ ~stale /\ ~refresh => snapshot = alarms

\* The alarm chosen in the popup is one of the list, so that find_alarm_index finds it:
\* the list is not drawn again under the popup.
SelectionValid == page = "popup" /\ ~assertion => selected \in 1..Len(snapshot) /\ ~refresh

\* The application as a whole keeps its screen and its pointers in step with the alarms.
AppInv == AppTypeOK /\ NoAssertionFails /\ ShowsAlarms /\ SelectionValid

\* "Delete" and "Edit" remove the alarm that the user has chosen and no other, unless
\* another task has changed the list under the copy (then the position may belong to
\* another alarm).
DeletesChosen ==
  [][page = "popup" /\ page' \in {"list", "create"} /\ ~stale =>
       ToSet(alarms) \ ToSet(alarms') \subseteq {snapshot[selected]}]_avars
=============================================================================
