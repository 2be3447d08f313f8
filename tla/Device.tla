------------------------------- MODULE Device -------------------------------
(***************************************************************************)
(* The provisioning and cloud life cycle of the device: main/src/main.c.   *)
(*                                                                         *)
(* Four kinds of threads touch its state.  The WORK TASK (work_task) takes *)
(* messages from work_queue and runs one handler at a time, each handler   *)
(* in several steps.  The PROVISIONERS call save_config: the webnet thread *)
(* ("http") and the BLE command thread ("ble").  The EVENT TASK and the    *)
(* key interrupts only put messages on the queue, without waiting: when    *)
(* the queue is full the message is gone.  The webnet thread also ends     *)
(* itself when close_flag is set.                                          *)
(*                                                                         *)
(* The Wi-Fi stack, the MQTT client, the broker and the NVS partition are  *)
(* outside src/; they are modelled from how main.c uses them.              *)
(***************************************************************************)
EXTENDS Naturals, Sequences

CONSTANTS
  QueueLen,      \* capacity of work_queue (4 in main.c)
  Creds,         \* networks a provisioner can send; a network is an SSID with its password
  NoCred,        \* the empty string in an unset field
  Provisioners,  \* the callers of save_config that take part
  Keys,          \* the buttons somebody presses
  Flashes,       \* the count given to led_flashing (3 in main.c)
  Broker,        \* whether the broker can be reached
  Commands,      \* the switch values the cloud sends
  Faults         \* the failures that may happen

ASSUME QueueLenAssumption == QueueLen \in Nat \ {0}
ASSUME NoCredAssumption   == NoCred \notin Creds
ASSUME ProvisionersAssumption == Provisioners \subseteq {"http", "ble"}
ASSUME KeysAssumption     == Keys \subseteq {"KEY", "KEY2"}
ASSUME FlashesAssumption  == Flashes \in Nat \ {0}
ASSUME BrokerAssumption   == Broker \in BOOLEAN
ASSUME CommandsAssumption == Commands \subseteq BOOLEAN
ASSUME FaultsAssumption   ==
  Faults \subseteq {"nvs_open", "nvs_blob", "softap", "mqtt", "power"}

VARIABLES
  queue,       \* work_queue
  lost,        \* history: kinds of message dropped by a full queue since boot
  pc,          \* what the work task is doing
  held,        \* the work task's measure of how long the key is down
  val,         \* its local copy of the LED state
  left,        \* blinks left in led_flashing
  pin,         \* the level of each key pin
  booted,      \* check_config has run
  nvs,         \* the blob in flash, which survives a restart
  ram,         \* the shared struct iot_config
  saver,       \* where each provisioner is in save_config
  wps,         \* wps_app_init has run: BLE provisioning is offered
  ap,          \* soft AP; "starting" until its start event is delivered
  apCb,        \* event_handler_ap is registered
  webnet,      \* the web server thread
  closeFlag,   \* close_flag of webnet.c
  conf,        \* the SSID copied so far by wifi_connect
  sta,         \* the station interface and the network it was told to join
  client,      \* mqtt_client is not NULL
  mq,          \* the MQTT session
  subscribed,  \* the session has the function topic
  led,         \* the LED
  shadow       \* the switch state as the cloud knows it

queueVars == <<queue, lost>>
workVars  == <<pc, held, val, left>>
cfgVars   == <<nvs, ram, saver>>
apVars    == <<ap, apCb, webnet, closeFlag, wps>>
staVars   == <<conf, sta>>
mqttVars  == <<client, mq, subscribed>>
ledVars   == <<led, shadow>>
vars == <<queueVars, workVars, pin, booted, cfgVars, apVars, staVars, mqttVars, ledVars>>

Msg    == {"KEY", "KEY2", "CLOSE", "MQTT", "PUB"}
Field  == Creds \cup {NoCred}
Config == [is_config : BOOLEAN, ssid : Field, pwd : Field]
NoBlob == [is_config |-> FALSE, ssid |-> NoCred, pwd |-> NoCred]

WorkStates ==
  {"idle", "key", "key2", "resetBlob", "resetFlash", "toggle", "report", "publish",
   "breathing", "close", "apStop", "ssid", "pwd", "flash"}
SaveStates == {"idle", "ssid", "pwd", "flag", "blob", "send"}
StaStates  == {"off", "joining", "up"}

QueueType  == queue \in Seq(Msg) /\ Len(queue) <= QueueLen /\ lost \subseteq Msg
WorkType   ==
  /\ pc \in WorkStates /\ held \in {"short", "mid", "long"}
  /\ val \in BOOLEAN /\ left \in 0..Flashes
PinType    == pin \in [{"KEY", "KEY2"} -> {"up", "down"}]
ConfigType ==
  /\ nvs \in Config /\ ram \in Config
  /\ saver \in [Provisioners -> [pc : SaveStates, cred : Field]]
ApType     ==
  /\ wps \in BOOLEAN /\ ap \in {"off", "starting", "on"} /\ apCb \in BOOLEAN
  /\ webnet \in {"off", "run", "exiting"} /\ closeFlag \in BOOLEAN
StaType    == conf \in Field /\ sta \in [state : StaStates, ssid : Field, pwd : Field]
MqttType   == client \in BOOLEAN /\ mq \in {"down", "connecting", "up"} /\ subscribed \in BOOLEAN
LedType    == led \in BOOLEAN /\ shadow \in BOOLEAN

TypeOK ==
  /\ QueueType /\ WorkType /\ PinType /\ booted \in BOOLEAN
  /\ ConfigType /\ ApType /\ StaType /\ MqttType /\ LedType

-----------------------------------------------------------------------------
(* Start and restart.  RAM is zero, nothing runs, the blob is what it was. *)

InitialBlobs == {NoBlob} \cup {[is_config |-> b, ssid |-> c, pwd |-> c] : b \in BOOLEAN, c \in Creds}

Init ==
  /\ queue = <<>> /\ lost = {}
  /\ pc = "idle" /\ held = "short" /\ val = FALSE /\ left = 0
  /\ pin = [k \in {"KEY", "KEY2"} |-> "up"] /\ booted = FALSE
  /\ nvs \in InitialBlobs /\ ram = NoBlob
  /\ saver = [p \in Provisioners |-> [pc |-> "idle", cred |-> NoCred]]
  /\ wps = FALSE /\ ap = "off" /\ apCb = FALSE /\ webnet = "off" /\ closeFlag = FALSE
  /\ conf = NoCred /\ sta = [state |-> "off", ssid |-> NoCred, pwd |-> NoCred]
  /\ client = FALSE /\ mq = "down" /\ subscribed = FALSE
  /\ led = FALSE /\ shadow = FALSE

Restart ==
  /\ queue' = <<>> /\ lost' = {}
  /\ pc' = "idle" /\ held' = "short" /\ val' = FALSE /\ left' = 0
  /\ booted' = FALSE /\ ram' = NoBlob
  /\ saver' = [p \in Provisioners |-> [pc |-> "idle", cred |-> NoCred]]
  /\ wps' = FALSE /\ ap' = "off" /\ apCb' = FALSE /\ webnet' = "off" /\ closeFlag' = FALSE
  /\ conf' = NoCred /\ sta' = [state |-> "off", ssid |-> NoCred, pwd |-> NoCred]
  /\ client' = FALSE /\ mq' = "down" /\ subscribed' = FALSE /\ led' = FALSE
  /\ UNCHANGED <<pin, nvs, shadow>>

PowerLoss == "power" \in Faults /\ Restart

(* main: check_config decides between joining and configuration mode.  It  *)
(* runs before any thread it starts and within the three seconds a key has *)
(* to be held, so it is one step.                                          *)
BlobRead(ok) ==
  /\ ok \/ "nvs_blob" \in Faults
  /\ ram' = IF ok THEN nvs ELSE ram

CheckConfig ==
  /\ ~booted /\ booted' = TRUE
  /\ \/ "nvs_open" \in Faults /\ UNCHANGED <<ram, apVars, staVars>>
     \/ \E ok \in BOOLEAN :
          /\ BlobRead(ok)
          /\ IF ok /\ nvs.is_config
             THEN /\ sta' = [state |-> "joining", ssid |-> nvs.ssid, pwd |-> nvs.pwd]
                  /\ UNCHANGED <<apVars, conf>>
             ELSE /\ wps' = TRUE /\ apCb' = TRUE
                  /\ ap' \in {"starting"} \cup (IF "softap" \in Faults THEN {"off"} ELSE {})
                  /\ UNCHANGED <<webnet, closeFlag, staVars>>
  /\ UNCHANGED <<queueVars, workVars, pin, nvs, saver, mqttVars, ledVars>>

-----------------------------------------------------------------------------
(* The queue.  Every xQueueSend of main.c has a timeout of 0.              *)

(* Slip: the capacity is not looked at.                                    *)
SendUnbounded(m) == queue' = Append(queue, m) /\ UNCHANGED lost

Send(m) ==
  IF Len(queue) < QueueLen
  THEN queue' = Append(queue, m) /\ UNCHANGED lost
  ELSE lost' = lost \cup {m} /\ UNCHANGED queue

Receive(m) ==
  /\ pc = "idle" /\ queue # <<>> /\ Head(queue) = m
  /\ queue' = Tail(queue)
  /\ UNCHANGED lost

(* The keys: a falling edge interrupts and queues the key's message.       *)
KeyDown(k) ==
  /\ pin[k] = "up" /\ pin' = [pin EXCEPT ![k] = "down"]
  /\ Send(k)
  /\ UNCHANGED <<workVars, booted, cfgVars, apVars, staVars, mqttVars, ledVars>>

KeyUp(k) ==
  /\ pin[k] = "down" /\ pin' = [pin EXCEPT ![k] = "up"]
  /\ UNCHANGED <<queueVars, workVars, booted, cfgVars, apVars, staVars, mqttVars, ledVars>>

-----------------------------------------------------------------------------
(* The work task, the keys.  "short" is at most 500 ms since the message   *)
(* was taken, "long" at least 3 s; while it polls the pin nothing else is  *)
(* taken from the queue.                                                   *)

KeyOf == IF pc = "key2" THEN "KEY2" ELSE "KEY"
Polling == pc \in {"key", "key2"}

TakeKey(k) ==
  /\ Receive(k)
  /\ pc' = (IF k = "KEY" THEN "key" ELSE "key2") /\ held' = "short"
  /\ UNCHANGED <<val, left, pin, booted, cfgVars, apVars, staVars, mqttVars, ledVars>>

KeyTick ==
  /\ Polling /\ pin[KeyOf] = "down"
  /\ \/ held = "short" /\ held' = "mid"
     \/ held = "mid" /\ booted /\ held' = "long"
  /\ UNCHANGED <<queueVars, pc, val, left, pin, booted, cfgVars, apVars, staVars, mqttVars, ledVars>>

(* Slip: a press that is neither short nor long is never left.             *)
KeyReleasedIfShort ==
  /\ Polling /\ pin[KeyOf] = "up" /\ held # "mid"
  /\ pc' = (IF pc = "key" THEN "toggle" ELSE "breathing") /\ held' = "short"
  /\ UNCHANGED <<queueVars, val, left, pin, booted, cfgVars, apVars, staVars, mqttVars, ledVars>>

KeyReleased ==
  /\ Polling /\ pin[KeyOf] = "up"
  /\ pc' = IF held # "short" THEN "idle" ELSE IF pc = "key" THEN "toggle" ELSE "breathing"
  /\ held' = "short"
  /\ UNCHANGED <<queueVars, val, left, pin, booted, cfgVars, apVars, staVars, mqttVars, ledVars>>

KeyLong ==
  /\ pc = "key" /\ held = "long" /\ pin["KEY"] = "down"
  /\ held' = "short"
  /\ \/ ram' = [ram EXCEPT !.is_config = FALSE] /\ pc' = "resetBlob"
     \/ "nvs_open" \in Faults /\ pc' = "idle" /\ UNCHANGED ram
  /\ UNCHANGED <<queueVars, val, left, pin, booted, nvs, saver, apVars, staVars, mqttVars, ledVars>>

Key2Long ==
  /\ pc = "key2" /\ held = "long" /\ pin["KEY2"] = "down"
  /\ pc' = "breathing" /\ held' = "short"
  /\ UNCHANGED <<queueVars, val, left, pin, booted, cfgVars, apVars, staVars, mqttVars, ledVars>>

(* wm_nvs_set_blob: all or nothing, and its result is not looked at.       *)
SetBlob == nvs' = ram \/ ("nvs_blob" \in Faults /\ UNCHANGED nvs)

(* Slip: is_config is cleared in RAM only.                                 *)
ResetBlobInRam ==
  /\ pc = "resetBlob"
  /\ pc' = "resetFlash" /\ val' = led /\ left' = Flashes
  /\ UNCHANGED <<queueVars, held, pin, booted, cfgVars, apVars, staVars, mqttVars, ledVars>>

ResetBlob ==
  /\ pc = "resetBlob"
  /\ SetBlob
  /\ pc' = "resetFlash" /\ val' = led /\ left' = Flashes
  /\ UNCHANGED <<queueVars, held, pin, booted, ram, saver, apVars, staVars, mqttVars, ledVars>>

ResetReboot == pc = "resetFlash" /\ left = 0 /\ Restart

Toggle ==
  /\ pc = "toggle"
  /\ led' = ~led /\ pc' = "report"
  /\ UNCHANGED <<queueVars, held, val, left, pin, booted, cfgVars, apVars, staVars, mqttVars, shadow>>

(* led_state_upload: the state is read first and published afterwards.     *)
Report ==
  /\ pc = "report"
  /\ val' = led /\ pc' = "publish"
  /\ UNCHANGED <<queueVars, held, left, pin, booted, cfgVars, apVars, staVars, mqttVars, ledVars>>

Publish ==
  /\ pc = "publish"
  /\ shadow' = IF client /\ mq = "up" THEN val ELSE shadow
  /\ val' = FALSE /\ pc' = "idle"
  /\ UNCHANGED <<queueVars, held, left, pin, booted, cfgVars, apVars, staVars, mqttVars, led>>

(* led_flashing: invert the LED three times, then leave it the opposite of *)
(* what it was at the start.                                               *)
Flash ==
  /\ pc \in {"flash", "resetFlash"} /\ left > 0
  /\ led' = ~led /\ left' = left - 1
  /\ UNCHANGED <<queueVars, pc, held, val, pin, booted, cfgVars, apVars, staVars, mqttVars, shadow>>

FlashEnd ==
  /\ pc = "flash" /\ left = 0
  /\ led' = ~val /\ val' = FALSE /\ pc' = "idle"
  /\ UNCHANGED <<queueVars, held, left, pin, booted, cfgVars, apVars, staVars, mqttVars, shadow>>

-----------------------------------------------------------------------------
(* The work task, CLOSE: leave configuration mode and join the network.    *)
(* wm_close_webnet_thread raises the flag and waits 15 ms, it does not     *)
(* wait for the thread.  wifi_connect copies the two fields one by one.    *)

TakeClose ==
  /\ Receive("CLOSE")
  /\ apCb' = FALSE /\ pc' = "close"
  /\ UNCHANGED <<held, val, left, pin, booted, cfgVars, ap, webnet, closeFlag, wps, staVars, mqttVars, ledVars>>

CloseWebnet ==
  /\ pc = "close"
  /\ closeFlag' = (closeFlag \/ webnet # "off") /\ pc' = "apStop"
  /\ UNCHANGED <<queueVars, held, val, left, pin, booted, cfgVars, ap, apCb, webnet, wps, staVars, mqttVars, ledVars>>

(* Slips: an AP that is still starting is left alone; the AP is stopped    *)
(* and the station forgotten.                                              *)
ApStopIfOn ==
  /\ pc = "apStop"
  /\ ap' = (IF ap = "on" THEN "off" ELSE ap) /\ pc' = "ssid"
  /\ UNCHANGED <<queueVars, held, val, left, pin, booted, cfgVars, apCb, webnet, closeFlag, wps, staVars, mqttVars, ledVars>>

ApStopOnly ==
  /\ pc = "apStop"
  /\ ap' = "off" /\ pc' = "idle"
  /\ UNCHANGED <<queueVars, held, val, left, pin, booted, cfgVars, apCb, webnet, closeFlag, wps, staVars, mqttVars, ledVars>>

ApStop ==
  /\ pc = "apStop"
  /\ ap' = "off" /\ pc' = "ssid"
  /\ UNCHANGED <<queueVars, held, val, left, pin, booted, cfgVars, apCb, webnet, closeFlag, wps, staVars, mqttVars, ledVars>>

CopySsid ==
  /\ pc = "ssid"
  /\ conf' = ram.ssid /\ pc' = "pwd"
  /\ UNCHANGED <<queueVars, held, val, left, pin, booted, cfgVars, apVars, sta, mqttVars, ledVars>>

CopyPwdAndJoin ==
  /\ pc = "pwd"
  /\ sta' = [state |-> "joining", ssid |-> conf, pwd |-> ram.pwd] /\ conf' = NoCred
  /\ pc' = "flash" /\ val' = led /\ left' = Flashes
  /\ UNCHANGED <<queueVars, held, pin, booted, cfgVars, apVars, mqttVars, ledVars>>

-----------------------------------------------------------------------------
(* The work task, MQTT (mqtt_connect) and PUB.                             *)

(* Slip: a client that exists is taken to be connected.                    *)
TakeMqttOnce ==
  /\ Receive("MQTT")
  /\ \/ client /\ UNCHANGED <<client, mq>>
     \/ ~client /\ client' = TRUE /\ mq' = "connecting"
  /\ UNCHANGED <<workVars, pin, booted, cfgVars, apVars, staVars, subscribed, ledVars>>

TakeMqtt ==
  /\ Receive("MQTT")
  /\ \/ client /\ mq' = (IF mq = "up" THEN "up" ELSE "connecting") /\ UNCHANGED client
     \/ ~client /\ client' = TRUE /\ mq' = "connecting"
     \/ ~client /\ "mqtt" \in Faults /\ client' \in BOOLEAN /\ UNCHANGED mq
     \/ client /\ "mqtt" \in Faults /\ UNCHANGED <<client, mq>>
  /\ UNCHANGED <<workVars, pin, booted, cfgVars, apVars, staVars, subscribed, ledVars>>

(* Slips: the topics are subscribed but the state is not reported, and the *)
(* other way round.                                                        *)
TakePubSilent ==
  /\ Receive("PUB")
  /\ subscribed' = (subscribed \/ mq = "up")
  /\ UNCHANGED <<workVars, pin, booted, cfgVars, apVars, staVars, client, mq, ledVars>>

TakePubUnsubscribed ==
  /\ Receive("PUB") /\ pc' = "report"
  /\ UNCHANGED <<held, val, left, pin, booted, cfgVars, apVars, staVars, mqttVars, ledVars>>

TakePub ==
  /\ Receive("PUB")
  /\ subscribed' = (subscribed \/ mq = "up") /\ pc' = "report"
  /\ UNCHANGED <<held, val, left, pin, booted, cfgVars, apVars, staVars, client, mq, ledVars>>

WorkTask ==
  \/ \E k \in {"KEY", "KEY2"} : TakeKey(k)
  \/ KeyTick \/ KeyReleased \/ KeyLong \/ Key2Long
  \/ ResetBlob \/ ResetReboot \/ Toggle \/ Report \/ Publish \/ Flash \/ FlashEnd
  \/ TakeClose \/ CloseWebnet \/ ApStop \/ CopySsid \/ CopyPwdAndJoin
  \/ TakeMqtt \/ TakePub

-----------------------------------------------------------------------------
(* The provisioners: save_config, step by step.  When wm_nvs_open fails    *)
(* nothing at all happens, which is no step.                               *)

(* A pass of the web server that is under way when CLOSE comes may still    *)
(* handle what it has received, also when the AP has been stopped.         *)
CanCall(p) == IF p = "http" THEN webnet = "run" ELSE wps

SaveStep(p, from, to) ==
  /\ saver[p].pc = from
  /\ saver' = [saver EXCEPT ![p].pc = to]
  /\ UNCHANGED <<workVars, pin, booted, apVars, staVars, mqttVars, ledVars>>

SaveOpen(p) == \E c \in Creds :
  /\ saver[p].pc = "idle" /\ CanCall(p)
  /\ saver' = [saver EXCEPT ![p] = [pc |-> "ssid", cred |-> c]]
  /\ UNCHANGED <<queueVars, workVars, pin, booted, nvs, ram, apVars, staVars, mqttVars, ledVars>>

SaveSsid(p) ==
  /\ SaveStep(p, "ssid", "pwd") /\ ram' = [ram EXCEPT !.ssid = saver[p].cred]
  /\ UNCHANGED <<queueVars, nvs>>

(* Slip: a password that is set is not replaced.                           *)
SavePwdOnce(p) ==
  /\ SaveStep(p, "pwd", "flag")
  /\ ram' = IF ram.pwd = NoCred THEN [ram EXCEPT !.pwd = saver[p].cred] ELSE ram
  /\ UNCHANGED <<queueVars, nvs>>

SavePwd(p) ==
  /\ SaveStep(p, "pwd", "flag") /\ ram' = [ram EXCEPT !.pwd = saver[p].cred]
  /\ UNCHANGED <<queueVars, nvs>>

(* Slip: the caller is trusted to have set is_config.                      *)
SaveFlagForgotten(p) ==
  /\ SaveStep(p, "flag", "blob")
  /\ UNCHANGED <<queueVars, nvs, ram>>

SaveFlag(p) ==
  /\ SaveStep(p, "flag", "blob") /\ ram' = [ram EXCEPT !.is_config = TRUE]
  /\ UNCHANGED <<queueVars, nvs>>

(* Slip: flash is written only when it holds no configuration yet.         *)
SaveBlobOnce(p) ==
  /\ SaveStep(p, "blob", "send")
  /\ nvs' = IF nvs.is_config THEN nvs ELSE ram
  /\ UNCHANGED <<queueVars, ram>>

SaveBlob(p) ==
  /\ SaveStep(p, "blob", "send") /\ SetBlob
  /\ UNCHANGED <<queueVars, ram>>

(* Slips: CLOSE is sent only while the AP is there, or only when flash     *)
(* holds the network.                                                      *)
SaveSendIfAp(p) ==
  /\ saver[p].pc = "send"
  /\ IF ap # "off" THEN Send("CLOSE") ELSE UNCHANGED queueVars
  /\ saver' = [saver EXCEPT ![p] = [pc |-> "idle", cred |-> NoCred]]
  /\ UNCHANGED <<workVars, pin, booted, nvs, ram, apVars, staVars, mqttVars, ledVars>>

SaveSendIfStored(p) ==
  /\ saver[p].pc = "send"
  /\ IF nvs = ram THEN Send("CLOSE") ELSE UNCHANGED queueVars
  /\ saver' = [saver EXCEPT ![p] = [pc |-> "idle", cred |-> NoCred]]
  /\ UNCHANGED <<workVars, pin, booted, nvs, ram, apVars, staVars, mqttVars, ledVars>>

SaveSend(p) ==
  /\ saver[p].pc = "send" /\ Send("CLOSE")
  /\ saver' = [saver EXCEPT ![p] = [pc |-> "idle", cred |-> NoCred]]
  /\ UNCHANGED <<workVars, pin, booted, nvs, ram, apVars, staVars, mqttVars, ledVars>>

Saving(p) ==
  \/ SaveSsid(p) \/ SavePwd(p) \/ SaveFlag(p) \/ SaveBlob(p) \/ SaveSend(p)

-----------------------------------------------------------------------------
(* The web server: started by the AP start event, stopped by close_flag.   *)
(* The thread looks at the flag between passes, so never in save_config,   *)
(* and clears the flag before it clears its task handle.                   *)

ApStarted ==
  /\ ap = "starting" /\ ap' = "on"
  /\ webnet' \in IF apCb /\ webnet = "off"
                 THEN {"run"} \cup (IF "softap" \in Faults THEN {"off"} ELSE {})
                 ELSE {webnet}
  /\ UNCHANGED <<queueVars, workVars, pin, booted, cfgVars, apCb, closeFlag, wps, staVars, mqttVars, ledVars>>

InSave(p) == p \in Provisioners /\ saver[p].pc # "idle"

(* Slip: the flag is consumed without leaving the loop.                    *)
WebnetFlagLost ==
  /\ webnet = "run" /\ closeFlag /\ ~InSave("http")
  /\ closeFlag' = FALSE
  /\ UNCHANGED <<queueVars, workVars, pin, booted, cfgVars, ap, apCb, webnet, wps, staVars, mqttVars, ledVars>>

WebnetExit ==
  /\ webnet = "run" /\ closeFlag /\ ~InSave("http")
  /\ webnet' = "exiting" /\ closeFlag' = FALSE
  /\ UNCHANGED <<queueVars, workVars, pin, booted, cfgVars, ap, apCb, wps, staVars, mqttVars, ledVars>>

WebnetGone ==
  /\ webnet = "exiting" /\ webnet' = "off"
  /\ UNCHANGED <<queueVars, workVars, pin, booted, cfgVars, ap, apCb, closeFlag, wps, staVars, mqttVars, ledVars>>

-----------------------------------------------------------------------------
(* The event task: Wi-Fi, IP and MQTT events.  A join succeeds only with   *)
(* the SSID and the password of one network.                               *)

GotIp ==
  /\ sta.state = "joining" /\ sta.ssid = sta.pwd
  /\ sta' = [sta EXCEPT !.state = "up"]
  /\ Send("MQTT")
  /\ UNCHANGED <<workVars, pin, booted, cfgVars, apVars, conf, mqttVars, ledVars>>

(* WM_EVENT_WIFI_STA_DISCONNECTED: connect again, with the same network.   *)
StaDisconnected ==
  /\ sta.state = "up" /\ sta' = [sta EXCEPT !.state = "joining"]
  /\ UNCHANGED <<queueVars, workVars, pin, booted, cfgVars, apVars, conf, mqttVars, ledVars>>

MqttConnected ==
  /\ Broker /\ mq = "connecting" /\ sta.state = "up"
  /\ mq' = "up" /\ subscribed' = FALSE
  /\ Send("PUB")
  /\ UNCHANGED <<workVars, pin, booted, cfgVars, apVars, staVars, client, ledVars>>

MqttDisconnected ==
  /\ mq # "down" /\ mq' = "down" /\ subscribed' = FALSE
  /\ Send("MQTT")
  /\ UNCHANGED <<workVars, pin, booted, cfgVars, apVars, staVars, client, ledVars>>

(* WM_EVENT_MQTT_CLIENT_DATA, the "switch" item: no report is sent back.   *)
SwitchCommand == \E v \in Commands :
  /\ mq = "up" /\ subscribed
  /\ led' = v /\ shadow' = v
  /\ UNCHANGED <<queueVars, workVars, pin, booted, cfgVars, apVars, staVars, mqttVars>>

EventTask == ApStarted \/ GotIp \/ StaDisconnected \/ MqttConnected \/ MqttDisconnected \/ SwitchCommand

Next ==
  \/ CheckConfig \/ WorkTask \/ EventTask \/ WebnetExit \/ WebnetGone
  \/ \E p \in Provisioners : SaveOpen(p) \/ Saving(p)
  \/ \E k \in Keys : KeyDown(k) \/ KeyUp(k)
  \/ PowerLoss

Spec == Init /\ [][Next]_vars

(* main, the work task, a save once begun, the web server and the delivery *)
(* of the AP start event go on; people, networks and faults need not.  The *)
(* web server's exit is strongly fair: a pass handles what it found and    *)
(* ends, so saves cannot keep it from its flag.                            *)
Fairness ==
  /\ WF_vars(CheckConfig) /\ WF_vars(WorkTask) /\ WF_vars(ApStarted)
  /\ SF_vars(WebnetExit) /\ WF_vars(WebnetGone)
  /\ \A p \in Provisioners : WF_vars(Saving(p))

FairSpec == Spec /\ Fairness

-----------------------------------------------------------------------------
(* Properties                                                              *)

Queued(m)  == \E i \in 1..Len(queue) : queue[i] = m
Pending(m) == Queued(m) \/ m \in lost
Closing == pc \in {"close", "apStop", "ssid", "pwd"}
NoSave == \A p \in Provisioners : saver[p].pc = "idle"

(* The soft AP and the station never run together, and from the moment the  *)
(* station is started the web server is gone or has been told to stop.     *)
(* (work_task, CLOSE: the callback goes first, then the server, then the   *)
(* AP, and only then wifi_connect.)                                        *)
ModeExclusive ==
  sta.state # "off" => ap = "off" /\ (webnet = "run" => closeFlag)

(* Whatever the provisioners write and in whatever order their steps mix   *)
(* with the work task's copy: when no save is going on and no CLOSE is     *)
(* pending, the station uses the network iot_config holds.                 *)
(* (save_config, wifi_connect.)                                            *)
StationFollowsConfig ==
  sta.state # "off" /\ NoSave /\ ~Pending("CLOSE") /\ ~Closing =>
    sta.ssid = ram.ssid /\ sta.pwd = ram.pwd

(* When no save and no reset is going on, flash holds what iot_config      *)
(* holds, so a restart decides as the running device would.                *)
(* (save_config, work_task KEY, check_config; NVS does not fail.)          *)
FlashFollowsConfig ==
  booted /\ NoSave /\ pc # "resetBlob" => nvs = ram

(* A configuration in flash is one network a provisioner sent, never the   *)
(* SSID of one and the password of another, at every instant power could   *)
(* go away. (save_config: the blob is written after all fields.)           *)
ConfiguredIsWhole == nvs.is_config => nvs.ssid = nvs.pwd

(* The events answered by a message are not forgotten: a session without   *)
(* its topics, a network without a session, or a saved network not joined  *)
(* has its message on the queue, or the queue was full when it was sent.   *)
(* (event_handler_*, save_config, work_task.)                              *)
SubscribePending == mq = "up" /\ ~subscribed => Pending("PUB")
SessionPending   == sta.state = "up" /\ mq = "down" => Pending("MQTT")
JoinPending      ==
  wps /\ ram.is_config /\ sta.state = "off" => ~NoSave \/ Pending("CLOSE") \/ Closing

(* Only the long press forgets a stored configuration.                     *)
(* (work_task KEY is the one place that clears is_config.)                 *)
OnlyResetForgets ==
  [][nvs.is_config /\ ~nvs'.is_config => pc \in {"resetBlob", "resetFlash"}]_vars

(* The reboot after a long press enters configuration mode.                *)
(* (work_task KEY, check_config.)                                          *)
ResetEntersConfig == [][ResetReboot => ~nvs.is_config]_vars

(* With the work task at rest and the session set up, the cloud shows the  *)
(* switch as it is. (KEY short press, PUB, led_state_upload.)              *)
SwitchReported ==
  pc = "idle" /\ queue = <<>> /\ mq = "up" /\ subscribed => shadow = led

(* A join keeps its network over restarts: the station is never on a       *)
(* network that flash does not hold, once the save is over.                *)
(* (save_config, README_EN.md line 13.)                                    *)
JoinedIsSaved == sta.state = "up" /\ NoSave /\ pc = "idle" => nvs.is_config

(* A configuration that was saved leads to an attempt to join, unless it   *)
(* is reset. (save_config, work_task CLOSE, check_config after a restart.) *)
SavedIsJoined ==
  \A p \in Provisioners : saver[p].pc = "send" ~> sta.state # "off" \/ ~nvs.is_config

(* A web server told to stop stops, and lets a save in progress finish.    *)
(* (wm_close_webnet_thread, webnet_thread.)                                *)
ServerStops == webnet = "run" /\ closeFlag ~> webnet = "off"

(* A press of the USER button that is next in the queue is looked at, and   *)
(* looking at it comes to an end, unless the device restarts first or the  *)
(* second key was pressed, whose led_breathing is never left.              *)
(* (work_task KEY.)                                                        *)
PressHandled ==
  /\ queue # <<>> /\ Head(queue) = "KEY" /\ pc # "key" ~> pc \in {"key", "breathing"} \/ ~booted
  /\ pc = "key" ~> pc # "key"

-----------------------------------------------------------------------------
(* What the proofs add to the properties to make them inductive.           *)

(* Before check_config there is nothing to provision with or to close.     *)
Unbooted ==
  ~booted =>
    /\ ~wps /\ ap = "off" /\ ~apCb /\ webnet = "off" /\ sta.state = "off"
    /\ NoSave /\ ~Pending("CLOSE") /\ ~Closing /\ ~ram.is_config

(* The order inside the CLOSE handler: what each of its steps can rely on. *)
CloseOrder ==
  /\ Closing \/ sta.state # "off" => ~apCb
  /\ pc \in {"apStop", "ssid", "pwd"} \/ sta.state # "off" => (webnet = "run" => closeFlag)
  /\ pc \in {"ssid", "pwd"} \/ sta.state # "off" => ap = "off"

(* The SSID already copied is current, or another CLOSE will follow.       *)
CopyIsCurrent == pc = "pwd" /\ NoSave /\ ~Pending("CLOSE") => conf = ram.ssid

(* A provisioner that has written its blob need not be waited for.         *)
FlashFollowsSaver ==
  booted /\ pc # "resetBlob" /\ (\A p \in Provisioners : saver[p].pc \in {"idle", "send"}) =>
    nvs = ram
=============================================================================
