-------------------------------- MODULE Cloud --------------------------------
(***************************************************************************)
(* What the cloud does to the device once it is on line: switch, colour    *)
(* and brightness commands (led.c, event_handler_mqtt_recved_data) against *)
(* the keys in work_task, and the firmware update (ota.c) against restarts *)
(* and new sessions.                                                       *)
(*                                                                         *)
(* Two threads, the work task and the one that runs the MQTT callbacks,    *)
(* share switch_state and three PWM channels without a lock.  Each has the *)
(* list of what its handler still has to do, and any step may come between *)
(* two of the other's.  work_queue and the Wi-Fi are in Device: here a     *)
(* session comes and goes, and a PUB message is pending or not.  Reports   *)
(* and switch commands take their time between device and cloud.           *)
(***************************************************************************)
EXTENDS Integers, Sequences

CONSTANTS
  Values,   \* brightness values the cloud sends; the code checks no range
  Colours,  \* channels it sets one by one
  PwmMin, PwmMax,  \* PWM_DUTY_MIN, PWM_DUTY_MAX
  FlashCount,      \* led_flashing's argument
  Inputs,   \* subset of {"KEY", "KEY2", "ota"}: keys pressed, updates requested
  Faults,   \* subset of {"nvs", "power"}
  Nil

ASSUME CloudAssumption ==
  /\ Values \subseteq Int /\ Colours \subseteq {"red", "green", "blue"} /\ FlashCount \in Nat
  /\ PwmMin \in 0..255 /\ PwmMax \in 0..255
  /\ Faults \subseteq {"nvs", "power"} /\ Inputs \subseteq {"KEY", "KEY2", "ota"}
  /\ Nil \notin {"INIT", "UPDATE"} /\ Nil \notin Values \cup {0, 1}

VARIABLES
  duty,          \* of each PWM channel; the LED is dark at PwmMax
  switch_state,
  thr,           \* the two threads: what is left of the handler, and its locals
  session,       \* the MQTT session is up
  topics,        \* what it is subscribed to
  pub,           \* a PUB message is on work_queue
  ota,           \* where ota_parse_update and its callback are
  whole,         \* the app_ota partition holds a whole image
  fw_type,       \* in NVS
  cloud,         \* the switch state the cloud shows: the last it was told or asked for
  report,        \* the last report published, while it is on its way
  command,       \* a switch command on its way
  raced,         \* history: since lamp and cloud were last both set, handlers overlapped, a
                 \* report crossed a command, or CLOSE flashed in a session
  unset          \* history: "UPDATE" stands because the last write of "INIT" failed

light  == <<duty, switch_state>>
online == <<session, topics, pub>>
update == <<ota, whole>>
nvs    == <<fw_type, unset>>
shown  == <<cloud, report, command>>
vars   == <<light, thr, online, update, nvs, shown, raced>>

Channels == {"red", "green", "blue"}
Threads  == {"work", "mqtt"}
Idle     == [todo |-> <<>>, last |-> 0, read |-> 0]

Init ==
  /\ duty = [c \in Channels |-> PwmMax] /\ switch_state = 0
  /\ thr = [t \in Threads |-> Idle]
  /\ session = FALSE /\ topics = {} /\ pub = FALSE
  /\ ota = "no" /\ whole = FALSE
  /\ fw_type = Nil /\ unset = FALSE
  /\ cloud = 0 /\ report = Nil /\ command = Nil /\ raced = FALSE

-----------------------------------------------------------------------------
(* What a handler does, one access to shared state at a time.              *)

Op(op, on, val) == [op |-> op, on |-> on, val |-> val]

\* int division truncates towards zero, and the channel's duty has 8 bits.
Scaled(b) == IF b < 0 THEN -((-b * PwmMax) \div 100) ELSE (b * PwmMax) \div 100

\* Slip: one step darker than dark.
DutyOff(b) == PwmMax + 1 - Scaled(b)
Duty(b)    == (PwmMax - Scaled(b)) % 256

Pwm(c, b) == Op("pwm", c, Duty(b))
Set(b)    == Op("state", Nil, IF b = 0 THEN 0 ELSE 1)

led_brightness(b) == <<Pwm("red", b), Pwm("green", b), Pwm("blue", b), Set(b)>>
led_colour(c, b)  == <<Pwm(c, b), Set(b)>>
led_on  == led_brightness(100) \o <<Set(1)>>
led_off == led_brightness(0) \o <<Set(0)>>
led_toggle == IF switch_state # 0 THEN led_off ELSE led_on
led_flashing == [i \in 1..FlashCount |-> Op("toggle", Nil, 0)] \o led_toggle
led_state_upload == <<Op("read", Nil, 0), Op("publish", Nil, 0)>>

\* Slip: the old state is read when the new one is there.
ChangingLate(todo) == todo \o <<Op("last", Nil, 0), Op("changed", Nil, 0)>> \o led_state_upload
Changing(todo) == <<Op("last", Nil, 0)>> \o todo \o <<Op("changed", Nil, 0)>> \o led_state_upload

\* Slip: the update topic is subscribed to before "INIT" is written.
PubLate == <<Op("subscribe", "ota", 0), Op("init", Nil, 0), Op("subscribe", "led", 0)>> \o led_state_upload
Pub     == <<Op("init", Nil, 0), Op("subscribe", "ota", 0), Op("subscribe", "led", 0)>> \o led_state_upload

Busy(t) == thr[t].todo # <<>>
Other(t) == IF t = "work" THEN "mqtt" ELSE "work"
Begin(t, todo) == ~Busy(t) /\ thr' = [thr EXCEPT ![t] = [Idle EXCEPT !.todo = todo]]
Done(t) == [thr EXCEPT ![t].todo = Tail(@)]

\* A handler that sets every channel and leaves the cloud informed makes good
\* what a race did, if it is alone.
Alone(t, informed) == raced' = (Busy(Other(t)) \/ (raced /\ ~informed))

-----------------------------------------------------------------------------
(* One step of a thread.                                                   *)

Next1(t, op) == Busy(t) /\ Head(thr[t].todo).op = op
What(t) == Head(thr[t].todo)

SetDuty(t) ==
  /\ Next1(t, "pwm") /\ duty' = [duty EXCEPT ![What(t).on] = What(t).val] /\ thr' = Done(t)
  /\ UNCHANGED <<switch_state, online, update, nvs, shown, raced>>
SetState(t) ==
  /\ Next1(t, "state") /\ switch_state' = What(t).val /\ thr' = Done(t)
  /\ UNCHANGED <<duty, online, update, nvs, shown, raced>>
ReadLast(t) ==
  /\ Next1(t, "last") /\ thr' = [Done(t) EXCEPT ![t].last = switch_state]
  /\ UNCHANGED <<light, online, update, nvs, shown, raced>>
IfChanged(t) ==
  /\ Next1(t, "changed")
  /\ thr' = IF switch_state # thr[t].last THEN Done(t) ELSE [thr EXCEPT ![t] = Idle]
  /\ UNCHANGED <<light, online, update, nvs, shown, raced>>
ReadState(t) ==
  /\ Next1(t, "read") /\ thr' = [Done(t) EXCEPT ![t].read = switch_state]
  /\ UNCHANGED <<light, online, update, nvs, shown, raced>>

\* Quality of service 1.  What is published without a session is lost.  Of
\* several reports on their way only the last matters.
Publish(t) ==
  /\ Next1(t, "publish") /\ thr' = [thr EXCEPT ![t] = Idle]
  /\ report' = (IF session THEN thr[t].read ELSE report)
  /\ raced' = (raced \/ command # Nil)
  /\ UNCHANGED <<light, online, update, nvs, cloud, command>>
Toggle(t) ==
  /\ Next1(t, "toggle") /\ thr' = [thr EXCEPT ![t].todo = led_toggle \o Tail(@)]
  /\ UNCHANGED <<light, online, update, nvs, shown, raced>>

\* led_breathing goes through its channels for ever.  The ramps between
\* PwmMin and PwmMax are left out: any turn may set either end.
Breathe(t) ==
  /\ Next1(t, "breathe")
  /\ \E c \in Channels, d \in {PwmMin, PwmMax} : duty' = [duty EXCEPT ![c] = d]
  /\ UNCHANGED <<switch_state, thr, online, update, nvs, shown, raced>>

\* set_firmware_type("INIT"), whose result work_task ignores.
SetInit(t) ==
  /\ Next1(t, "init") /\ thr' = Done(t)
  /\ \/ fw_type' = "INIT" /\ unset' = FALSE
     \/ "nvs" \in Faults /\ unset' = (fw_type = "UPDATE") /\ UNCHANGED fw_type
  /\ UNCHANGED <<light, online, update, shown, raced>>
Subscribe(t) ==
  /\ Next1(t, "subscribe") /\ thr' = Done(t)
  /\ topics' = IF session THEN topics \cup {What(t).on} ELSE topics
  /\ UNCHANGED <<light, session, pub, update, nvs, shown, raced>>

Step(t) == \/ SetDuty(t) \/ SetState(t) \/ ReadLast(t) \/ IfChanged(t) \/ ReadState(t) \/ Publish(t)
           \/ Toggle(t) \/ Breathe(t) \/ SetInit(t) \/ Subscribe(t)

-----------------------------------------------------------------------------
(* work_task's handlers that reach the LED.  The long press, which ends in  *)
(* a restart, is in Device.                                                *)

ShortPress ==
  /\ "KEY" \in Inputs /\ Begin("work", led_toggle \o led_state_upload) /\ Alone("work", command = Nil)
  /\ UNCHANGED <<light, online, update, nvs, shown>>

Key2 ==
  /\ "KEY2" \in Inputs /\ Begin("work", <<Op("breathe", Nil, 0)>>) /\ Alone("work", FALSE)
  /\ UNCHANGED <<light, online, update, nvs, shown>>

\* QUEUE_MSG_TYPE_CLOSE: the LED flashes, and what that leaves is not
\* reported.  A session that is up is not touched; it may end any time after.
Close ==
  /\ Begin("work", led_flashing) /\ raced' = (raced \/ session \/ Busy("mqtt"))
  /\ UNCHANGED <<light, online, update, nvs, shown>>

TakePub ==
  /\ pub /\ pub' = FALSE /\ Begin("work", Pub) /\ Alone("work", FALSE)
  /\ UNCHANGED <<light, session, topics, update, nvs, shown>>

-----------------------------------------------------------------------------
(* The session and the cloud's commands: MQTT callbacks run one at a time. *)

Free == ~Busy("mqtt") /\ ota = "no"

SessionUp ==
  /\ ~session /\ Free /\ session' = TRUE /\ topics' = {} /\ pub' = TRUE
  /\ UNCHANGED <<light, thr, update, nvs, shown, raced>>
SessionDown ==
  /\ session /\ session' = FALSE /\ topics' = {} /\ command' = Nil
  /\ UNCHANGED <<light, thr, pub, update, nvs, cloud, report, raced>>

\* A report may arrive more than once, or after the session it was published
\* in, or never when that has ended.
ReportArrives ==
  /\ report # Nil /\ cloud' = report /\ report' \in {report, Nil}
  /\ UNCHANGED <<light, thr, online, update, nvs, command, raced>>
ReportLost ==
  /\ report # Nil /\ ~session /\ report' = Nil
  /\ UNCHANGED <<light, thr, online, update, nvs, cloud, command, raced>>

Command(topic) == Free /\ session /\ topic \in topics
On(b) == IF b # 0 THEN 1 ELSE 0

\* The cloud switches.  The device does not report this back, so the cloud
\* shows it at once; nobody hears it who has not subscribed.  Bound: one
\* command on its way.
SendSwitch(b) ==
  /\ command = Nil /\ cloud' = On(b) /\ command' = (IF "led" \in topics THEN b ELSE Nil)
  /\ raced' = (raced \/ report # Nil)
  /\ UNCHANGED <<light, thr, online, update, nvs, report>>

SwitchCommand ==
  /\ command # Nil /\ Command("led") /\ command' = Nil
  /\ Begin("mqtt", IF command # 0 THEN led_on ELSE led_off)
  /\ Alone("mqtt", report = Nil /\ cloud = On(command))
  /\ UNCHANGED <<light, online, update, nvs, cloud, report>>
BrightnessCommand(b) ==
  /\ Command("led") /\ Begin("mqtt", Changing(led_brightness(b))) /\ Alone("mqtt", FALSE)
  /\ UNCHANGED <<light, online, update, nvs, shown>>
ColourCommand(c, b) ==
  /\ Command("led") /\ Begin("mqtt", Changing(led_colour(c, b))) /\ Alone("mqtt", FALSE)
  /\ UNCHANGED <<light, online, update, nvs, shown>>

-----------------------------------------------------------------------------
(* The update, in the MQTT callback from the request to the reboot.  What   *)
(* is reported to the cloud about it changes nothing here.                 *)

Ota(from, to) == ota = from /\ ota' = to /\ UNCHANGED <<light, thr, online, shown, raced>>

\* ota_parse_update.  Neither the version nor the flag for a repeated request
\* stops it: the flag is never set.
UpdateRequest == "ota" \in Inputs /\ Command("ota") /\ Ota("no", "connect") /\ UNCHANGED <<whole, nvs>>

\* CONNECTION_FAILED, DOWNLOAD_FAILED and the like: ota_progress_report prints.
UpdateFails == (Ota("connect", "no") \/ Ota("download", "no")) /\ UNCHANGED <<whole, nvs>>

DownloadBegins == Ota("connect", "download") /\ whole' = FALSE /\ UNCHANGED nvs

\* Status 2, and at once status 3: nothing is compared with the SHA-256 that
\* was computed.
Downloaded == Ota("download", "update") /\ whole' = TRUE /\ UNCHANGED nvs

\* set_firmware_type("UPDATE"): when it fails, that is logged.
SetUpdate ==
  /\ Ota("update", "reboot") /\ UNCHANGED whole
  /\ \/ fw_type' = "UPDATE" /\ unset' = FALSE
     \/ "nvs" \in Faults /\ UNCHANGED nvs

\* main and led_init: RAM is new, NVS, the partition and the cloud are not.
Restart ==
  /\ duty' = [c \in Channels |-> PwmMax] /\ switch_state' = 0 /\ thr' = [t \in Threads |-> Idle]
  /\ session' = FALSE /\ topics' = {} /\ pub' = FALSE /\ ota' = "no" /\ raced' = FALSE
  /\ command' = Nil /\ UNCHANGED <<whole, nvs, cloud, report>>
Reboot    == ota = "reboot" /\ Restart
PowerLoss == "power" \in Faults /\ Restart

Next == \/ (\E t \in Threads : Step(t)) \/ ShortPress \/ Key2 \/ Close \/ TakePub
        \/ SessionUp \/ SessionDown \/ ReportArrives \/ ReportLost \/ SwitchCommand
        \/ (\E b \in Values : SendSwitch(b) \/ BrightnessCommand(b) \/ \E c \in Colours : ColourCommand(c, b))
        \/ UpdateRequest \/ UpdateFails \/ DownloadBegins \/ Downloaded
        \/ SetUpdate \/ Reboot \/ PowerLoss

Spec == Init /\ [][Next]_vars

-----------------------------------------------------------------------------
(* Properties.                                                             *)

TypeOK ==
  /\ duty \in [Channels -> 0..255] /\ switch_state \in {0, 1} /\ cloud \in {0, 1}
  /\ report \in {0, 1, Nil} /\ command \in Values \cup {Nil}
  /\ \A t \in Threads : Len(thr[t].todo) <= FlashCount + 9 /\ thr[t].last \in {0, 1} /\ thr[t].read \in {0, 1}
  /\ session \in BOOLEAN /\ pub \in BOOLEAN /\ topics \subseteq {"ota", "led"} /\ (topics # {} => session)
  /\ ota \in {"no", "connect", "download", "update", "reboot"} /\ whole \in BOOLEAN
  /\ fw_type \in {Nil, "INIT", "UPDATE"} /\ raced \in BOOLEAN /\ unset \in BOOLEAN

Dark == \A c \in Channels : duty[c] = PwmMax

\* Whatever keys and commands came, and whatever reports, commands and sessions
\* were lost under them: between handlers, with the session up, its PUB handled
\* and nothing on its way, the cloud shows the switch's state, and a LED that is
\* dark counts as off.  What may break it are handlers that overlap, a report
\* that crosses a command, and CLOSE in a session, until the next switch command
\* or press on its own.  (event_handler_mqtt_recved_data, work_task, led.c.)
LightIsShown ==
  (~raced /\ session /\ ~pub /\ report = Nil /\ command = Nil /\ \A t \in Threads : ~Busy(t)) =>
    /\ cloud = switch_state
    /\ Dark => switch_state = 0

\* NVS says UPDATE only while the partition holds a whole image, whenever the
\* power goes: the flag of the last update is taken back before the next one
\* can be requested, unless that write fails.  (work_task's PUB,
\* ota_state_callback.)
UpdateIsWhole == fw_type = "UPDATE" /\ ~unset => whole
=============================================================================
