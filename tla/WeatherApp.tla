------------------------------ MODULE WeatherApp -----------------------------
(***************************************************************************)
(* Applications and the updates they ask the phone for: the application    *)
(* manager (app_manager.c) with the weather application (weather_app.c),   *)
(* the one that asks.  The LVGL task opens and closes applications and     *)
(* handles their keys; a user worker dispatches an update to the           *)
(* application in focus.  Only pieces of it run under the UI lock.         *)
(*                                                                         *)
(* A day's weather is named by its date; NoData is the zeroed array.  The  *)
(* hour is fixed; the hour shown is Hour + hroff.                          *)
(***************************************************************************)
EXTENDS Integers, Sequences

CONSTANTS
  Dates,      \* the dates validate_epoch accepts, an interval
  Today,
  Hour,       \* the hour of the active date
  LastHour,   \* 23
  MaxOffset,  \* MAX_DATE_OFFSET_DIFF
  MaxWork,    \* user work items that may be queued
  MaxAsked    \* requests under way

ASSUME WeatherAssumption ==
  /\ Dates \subseteq Nat /\ Today \in Dates /\ Hour \in 0..LastHour
  /\ MaxOffset \in Nat /\ MaxWork \in Nat /\ MaxAsked \in Nat

NoData == -1
NoApp == [kind |-> "none", active |-> 0, off |-> 0, hroff |-> 0, data |-> NoData,
          top |-> NoData, bottom |-> NoData, spinner |-> FALSE]
NoUpdate == [step |-> "none", date |-> 0]

VARIABLES
  app,     \* curr_app ("none", "weather", "blank": no memory for it, "other")
           \* and app_ctx; top, bottom: whose weather the cards show
  asked,   \* requests sent and not answered, their dates
  work,    \* updates scheduled as user work
  disp,    \* dispatch_app_update, by the user worker
  wseen    \* history: mixed, answers to more than one request may arrive;
           \* meddled, the LVGL task acted on the application during a
           \* dispatch; astray, an update reached the wrong application;
           \* fault, a null pointer or a failed assertion

wvars == <<app, asked, work, disp, wseen>>

WeatherInit ==
  /\ app = NoApp /\ asked = <<>> /\ work = <<>> /\ disp = NoUpdate
  /\ wseen = [mixed |-> FALSE, meddled |-> FALSE, astray |-> FALSE, fault |-> FALSE]

UnderWay == asked # <<>> \/ work # <<>> \/ disp # NoUpdate
Meddles == wseen.meddled \/ disp # NoUpdate
HourOK(h) == h \in 0..LastHour

-----------------------------------------------------------------------------
(* Drawing                                                                 *)

refresh_bottom_ui(a) == [a EXCEPT !.bottom = a.data]
refresh_all_ui(a) == refresh_bottom_ui([a EXCEPT !.top = a.data])

\* Mutant: the cards are not redrawn when the data has come.
NextHourStale(a) == [a EXCEPT !.hroff = IF HourOK(Hour + @ + 1) THEN @ + 1 ELSE @]

\* initialize_weather_ui: the next hour, and everything redrawn.  The date is
\* always one gmtime_r made, so its validation never fails.
initialize_weather_ui(a) ==
  refresh_all_ui([a EXCEPT !.hroff = IF HourOK(Hour + @ + 1) THEN @ + 1 ELSE @])

-----------------------------------------------------------------------------
(* The LVGL task                                                           *)

\* open_app and draw_app_ui; the weather of today is the state manager's.
OpenWeather ==
  /\ app.kind = "none"
  /\ \/ app' = initialize_weather_ui([NoApp EXCEPT !.kind = "weather", !.active = Today, !.data = Today])
     \/ app' = [NoApp EXCEPT !.kind = "blank"]
  /\ wseen' = [wseen EXCEPT !.mixed = UnderWay, !.meddled = Meddles]
  /\ UNCHANGED <<asked, work, disp>>

OpenOther ==
  /\ app.kind = "none" /\ app' = [NoApp EXCEPT !.kind = "other"]
  /\ wseen' = [wseen EXCEPT !.meddled = Meddles]
  /\ UNCHANGED <<asked, work, disp>>

\* close_curr_app, delete_app_ui
CloseApp ==
  /\ app.kind # "none" /\ app' = NoApp
  /\ wseen' = [wseen EXCEPT !.meddled = Meddles]
  /\ UNCHANGED <<asked, work, disp>>

\* handle_label_key_event on the date and on the hour
DateKey(d) ==
  /\ app.kind = "weather"
  /\ app.off + d \in -MaxOffset..MaxOffset /\ app.active + app.off + d \in Dates
  /\ app' = [app EXCEPT !.off = @ + d]
  /\ wseen' = [wseen EXCEPT !.meddled = Meddles]
  /\ UNCHANGED <<asked, work, disp>>

HourKey(d) ==
  /\ app.kind = "weather" /\ HourOK(Hour + app.hroff + d)
  /\ app' = refresh_bottom_ui([app EXCEPT !.hroff = @ + d])
  /\ wseen' = [wseen EXCEPT !.meddled = Meddles]
  /\ UNCHANGED <<asked, work, disp>>

\* The date chosen becomes the active one, with no data yet ...
Chosen(a) == [a EXCEPT !.active = @ + a.off, !.off = 0, !.hroff = 0, !.data = NoData]

\* ... enter_loading_state, unless it is loading already ...
enter_loading_state(a) == IF a.spinner THEN a ELSE [refresh_all_ui(a) EXCEPT !.spinner = TRUE]

\* ... and request_ble_resource.
handle_date_unfocused_event ==
  /\ app.kind = "weather" /\ app.off # 0
  /\ Len(asked) + Len(work) < MaxAsked
  /\ app' = enter_loading_state(Chosen(app))
  /\ asked' = Append(asked, app.active + app.off)
  /\ wseen' = [wseen EXCEPT !.mixed = UnderWay, !.meddled = Meddles]
  /\ UNCHANGED <<work, disp>>

-----------------------------------------------------------------------------
(* Answers                                                                 *)

\* A request or its answer is lost (a fifo overflows, the link goes down, the
\* phone does not know).
LoseAnswer ==
  /\ asked # <<>> /\ asked' = Tail(asked)
  /\ UNCHANGED <<app, work, disp, wseen>>

\* receive_app_update: a work item, if there is room for it
receive_app_update ==
  /\ asked # <<>> /\ asked' = Tail(asked)
  /\ work' = IF Len(work) < MaxWork THEN Append(work, Head(asked)) ELSE work
  /\ UNCHANGED <<app, disp, wseen>>

\* Mutant: that an application has the focus is not tested.
FocusUntested == TRUE

\* The tests of dispatch_app_update: an application has the focus, and it is
\* the one that asked.
InFocus == app.kind \in {"weather", "blank"}

\* dispatch_app_update up to the call of handle_event
dispatch_app_update ==
  /\ disp = NoUpdate /\ work # <<>> /\ work' = Tail(work)
  /\ disp' = IF InFocus THEN [step |-> "call", date |-> Head(work)] ELSE NoUpdate
  /\ wseen' = [wseen EXCEPT !.meddled = FALSE, !.astray = FALSE]
  /\ UNCHANGED <<app, asked>>

\* receive_event: curr_app is read again for the call.
receive_event ==
  /\ disp.step = "call"
  /\ app' = IF app.kind = "weather" THEN [app EXCEPT !.data = disp.date, !.spinner = FALSE] ELSE app
  /\ disp' = IF app.kind = "weather" /\ app.spinner THEN [disp EXCEPT !.step = "hour"] ELSE NoUpdate
  /\ wseen' = [wseen EXCEPT !.fault = app.kind = "none", !.astray = app.kind = "other"]
  /\ UNCHANGED <<asked, work>>

\* exit_loading_state has gone past its tests: initialize_weather_ui tests
\* app_ctx and the next hour ...
TestHour ==
  /\ disp.step = "hour"
  /\ disp' = IF app.kind # "weather" THEN NoUpdate
             ELSE [disp EXCEPT !.step = IF HourOK(Hour + app.hroff + 1) THEN "next" ELSE "draw"]
  /\ UNCHANGED <<app, asked, work, wseen>>

\* ... and takes it; the cards assert that the hour is one of the day.
TakeHour ==
  /\ disp.step \in {"next", "draw"} /\ disp' = NoUpdate
  /\ LET a == IF disp.step = "next" THEN [app EXCEPT !.hroff = @ + 1] ELSE app IN
     /\ app' = IF app.kind = "weather" THEN refresh_all_ui(a) ELSE app
     /\ wseen' = [wseen EXCEPT !.fault = app.kind # "weather" \/ ~HourOK(Hour + a.hroff)]
  /\ UNCHANGED <<asked, work>>

-----------------------------------------------------------------------------
(* Properties                                                              *)

Apps ==
  [kind : {"none", "weather", "blank", "other"}, active : Dates \cup {0},
   off : -MaxOffset..MaxOffset, hroff : Int, data : Dates \cup {NoData},
   top : Dates \cup {NoData}, bottom : Dates \cup {NoData}, spinner : BOOLEAN]

WeatherTypeOK ==
  /\ app \in Apps
  /\ asked \in Seq(Dates) /\ work \in Seq(Dates) /\ Len(work) <= MaxWork
  /\ disp \in {NoUpdate} \cup [step : {"call", "hour", "next", "draw"}, date : Dates]
  /\ wseen \in [mixed : BOOLEAN, meddled : BOOLEAN, astray : BOOLEAN, fault : BOOLEAN]

\* The cards show the weather of the active date whenever the application is
\* not loading, as long as a request is made only when none is under way.  (A
\* second request before the first is answered, or an application opened
\* again, may be given the answer to the first.)
ShowsActiveDate ==
  app.kind = "weather" /\ ~app.spinner /\ disp = NoUpdate /\ ~wseen.mixed =>
    app.data = app.active /\ app.top = app.active /\ app.bottom = app.active

\* An update that finds its application closed, replaced or reopened is
\* dropped: the worker calls nothing that is gone, shows no hour outside the
\* day and hands no update to another application, unless the LVGL task acts
\* on the application during the dispatch itself.
DispatchSafe == (wseen.fault \/ wseen.astray) => wseen.meddled

\* The inductive strengthening of ShowsActiveDate: an answer under way is the one
\* answer to the last request, which is for the active date, until it has been taken.
AnswerInv ==
  /\ app.kind = "weather" => app.active \in Dates /\ app.active + app.off \in Dates
  /\ app.kind = "weather" /\ ~wseen.mixed =>
       IF app.spinner
       THEN \/ disp = NoUpdate /\ asked = <<>> /\ work = <<>>
            \/ disp = NoUpdate /\ asked = <<app.active>> /\ work = <<>>
            \/ disp = NoUpdate /\ asked = <<>> /\ work = <<app.active>>
            \/ disp = [step |-> "call", date |-> app.active] /\ asked = <<>> /\ work = <<>>
       ELSE /\ app.data = app.active /\ asked = <<>> /\ work = <<>> /\ disp.step # "call"

\* The inductive strengthening of DispatchSafe: until the LVGL task acts, the worker
\* finds what it has tested.
DispatchInv ==
  /\ ~wseen.meddled => /\ disp.step = "call" => InFocus
                       /\ disp.step \in {"hour", "next", "draw"} => app.kind = "weather"
                       /\ disp.step = "next" => HourOK(Hour + app.hroff + 1)
  /\ app.kind = "weather" /\ ~wseen.fault => HourOK(Hour + app.hroff)

=============================================================================
