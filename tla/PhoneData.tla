------------------------------ MODULE PhoneData ------------------------------
(***************************************************************************)
(* What the messages of the phone do to the watch: handle_ble_response     *)
(* (ble_response_handler.c) sorts them, and the state manager              *)
(* (state_manager.c), the notifications and the applications take them.    *)
(* The pages of the base screen exclude each other: notifications and      *)
(* applications are drawn and closed by the LVGL task in turn.  An open    *)
(* application consumes the keys that change the page.                     *)
(*                                                                         *)
(* The state manager's memory survives deep sleep.  Weather is "none",     *)
(* "fresh" or, when its expires_at has passed, "stale".                    *)
(***************************************************************************)
EXTENDS Notifications, WeatherApp

CONSTANT Payloads   \* lengths of a notification message: [len, title, body]

VARIABLES
  up,      \* "off" (deep sleep or power lost), "up"
  watch,   \* watch_state: valid (time_state.valid), weather
  page,    \* "none", "notify", "apps"
  kept     \* history: the weather came in this run of the watch, or had not
           \* expired when it began and the time was known

pvars == <<nvars, wvars, up, watch, page, kept>>

ColdState == [valid |-> FALSE, weather |-> "none"]
Closed == page = "none"

-----------------------------------------------------------------------------
(* The state manager                                                       *)

\* Mutant: expired weather survives the start.
WeatherKept(w) == w

\* Clear expired weather data on hot or cold boot.  Without valid time the
\* epoch is 0 and nothing is expired.
StartWeather(w) == IF w.valid /\ w.weather = "stale" THEN [w EXCEPT !.weather = "none"] ELSE w

\* Reset everything on a cold boot with unsynced time.
StartState(w) == IF ~w.valid THEN ColdState ELSE w

state_manager_init ==
  /\ up = "off" /\ up' = "up"
  /\ watch' = StartWeather(StartState(watch))
  /\ kept' = (watch'.weather \in IF watch'.valid THEN {"none", "fresh"} ELSE {"none"})
  /\ UNCHANGED <<nvars, wvars, page>>

\* Shutdown: pages closed, lists dropped; deep sleep clears the other memory.
Shutdown ==
  /\ up = "up" /\ up' = "off" /\ page' = "none" /\ kept' = TRUE
  /\ list' = <<>> /\ slot' = NoNote /\ nui' = NuiClosed(0)
  /\ app' = NoApp /\ asked' = <<>> /\ work' = <<>> /\ disp' = NoUpdate
  /\ nseen' = [shifted |-> FALSE, early |-> FALSE, overlap |-> FALSE, wrong |-> nseen.wrong, null |-> FALSE]
  /\ wseen' = [mixed |-> FALSE, meddled |-> FALSE, astray |-> FALSE, fault |-> FALSE]
  /\ UNCHANGED watch

\* A flat battery, or a restart after a fault
PowerLost ==
  /\ up = "off" /\ watch # ColdState /\ watch' = ColdState
  /\ UNCHANGED <<nvars, wvars, up, page, kept>>

\* Time passes.
Expire ==
  /\ watch.weather = "fresh" /\ watch' = [watch EXCEPT !.weather = "stale"]
  /\ UNCHANGED <<nvars, wvars, up, page, kept>>

\* update_time_state_cb: the clock is set; it may jump over expires_at either
\* way.
TimeSync ==
  /\ up = "up"
  /\ \E w \in IF watch.weather = "none" THEN {"none"} ELSE {"fresh", "stale"} :
       watch' = [valid |-> TRUE, weather |-> w]
  /\ UNCHANGED <<nvars, wvars, up, page, kept>>

update_weather_state_cb ==
  /\ up = "up" /\ watch' = [watch EXCEPT !.weather = "fresh"] /\ kept' = TRUE
  /\ UNCHANGED <<nvars, wvars, up, page>>

-----------------------------------------------------------------------------
(* handle_ble_response; time and weather of the wrong length are refused   *)
(* and change nothing.                                                     *)

\* extract_lean_string: the index after the string of n bytes at idx, or 0
Extracted(len, idx, n) == IF idx = 0 \/ idx >= len \/ idx + 1 + n > len THEN 0 ELSE idx + 1 + n

\* parse_notification_payload
NotificationValid(p) ==
  p.len >= 5 /\ Extracted(p.len, Extracted(p.len, 1, p.title), p.body) # 0

InUse == Range(Slots) \cup Range(nui.cards)

\* A new notification takes the first identity that is nowhere in use.
Notified(n) ==
  /\ up = "up" /\ n \notin InUse /\ \A o \in Notes \ InUse : n <= o
  /\ \E p \in Payloads : NotificationValid(p) /\ StoreEntry(n)
  /\ UNCHANGED <<wvars, up, watch, page, kept>>

Refused ==
  /\ up = "up" /\ \E p \in Payloads : ~NotificationValid(p)
  /\ UNCHANGED pvars

Stored == CountEntry /\ UNCHANGED <<wvars, up, watch, page, kept>>

DatedWeather ==
  /\ up = "up" /\ (LoseAnswer \/ receive_app_update)
  /\ UNCHANGED <<nvars, up, watch, page, kept>>

Dispatch ==
  /\ dispatch_app_update \/ receive_event \/ TestHour \/ TakeHour
  /\ UNCHANGED <<nvars, up, watch, page, kept>>

-----------------------------------------------------------------------------
(* The LVGL task                                                           *)

ShowNotes ==
  /\ up = "up" /\ Closed /\ page' = "notify" /\ DrawNotes
  /\ UNCHANGED <<wvars, up, watch, kept>>

HideNotes ==
  /\ page = "notify" /\ page' = "none" /\ notification_manager_delete_ui
  /\ UNCHANGED <<wvars, up, watch, kept>>

NotesKey ==
  /\ \/ card_action_cb
     \/ \E k \in 1..Visible : dismiss_handler_cb(k) \/ title_key_cb(k)
  /\ UNCHANGED <<wvars, up, watch, page, kept>>

\* app_manager_show_app_picker_ui and app_manager_del_app_picker_ui
ShowPicker ==
  /\ up = "up" /\ Closed /\ page' = "apps"
  /\ UNCHANGED <<nvars, wvars, up, watch, kept>>

HidePicker ==
  /\ page = "apps" /\ app.kind = "none" /\ page' = "none"
  /\ UNCHANGED <<nvars, wvars, up, watch, kept>>

AppKey ==
  /\ page = "apps"
  /\ \/ OpenWeather \/ OpenOther \/ CloseApp \/ handle_date_unfocused_event
     \/ \E d \in {-1, 1} : DateKey(d) \/ HourKey(d)
  /\ UNCHANGED <<nvars, up, watch, page, kept>>

-----------------------------------------------------------------------------
Init ==
  /\ NotesInit /\ WeatherInit
  /\ up = "off" /\ watch = ColdState /\ page = "none" /\ kept = TRUE

\* After a fault the watch restarts, which is a shutdown without ceremony.
Fault == nseen.null \/ wseen.fault

Next ==
  \/ Shutdown
  \/ ~Fault /\ ( \/ state_manager_init \/ PowerLost \/ Expire
                 \/ TimeSync \/ update_weather_state_cb
                 \/ (\E n \in Notes : Notified(n)) \/ Refused \/ Stored
                 \/ DatedWeather \/ Dispatch
                 \/ ShowNotes \/ HideNotes \/ NotesKey
                 \/ ShowPicker \/ HidePicker \/ AppKey )

Spec == Init /\ [][Next]_pvars

\* Every variable has its type; the list of notifications and the queue of
\* updates keep their bounds.
TypeOK ==
  /\ NotesTypeOK /\ WeatherTypeOK
  /\ up \in {"off", "up"} /\ page \in {"none", "notify", "apps"} /\ kept \in BOOLEAN
  /\ watch \in [valid : BOOLEAN, weather : {"none", "fresh", "stale"}]

\* The watch never starts with weather that has expired, nor with any when it
\* does not know the time; what it serves has at worst expired since.
WeatherUsable == up = "up" => kept

\* The list of notifications and its page agree: a card acts on the entry it shows, the
\* page shows as many as there are, and every entry is stored once, with the exceptions
\* named there (notification_manager.c, notification_ui.c).
NotificationsCorrect == TypeOK /\ PageInv /\ CardActsOnShown /\ PageFull /\ StoredOnce

\* The weather shown is that of the chosen date unless requests overlapped, what is kept
\* over a deep sleep is usable when the watch is up, and updates reach only the application
\* that asked for them unless the LVGL task acts on it meanwhile (weather_app.c,
\* state_manager.c, app_manager.c).
WeatherCorrect ==
  ShowsActiveDate /\ WeatherUsable /\ DispatchSafe /\ AnswerInv /\ DispatchInv

=============================================================================
