---------------------------- MODULE DeviceProofs ----------------------------
(* Theorems about Device, for every value of its constants.                *)
EXTENDS Device, TLAPS

LEMMA SendType ==
  ASSUME QueueType, NEW m \in Msg, Send(m)
  PROVE  QueueType'
BY QueueLenAssumption DEF QueueType, Send

LEMMA ReceiveType ==
  ASSUME QueueType, NEW m \in Msg, Receive(m)
  PROVE  QueueType'
<1>1. queue # <<>> /\ queue' = Tail(queue) /\ lost' = lost
  BY DEF Receive
<1>2. queue' \in Seq(Msg) /\ Len(queue') = Len(queue) - 1
  BY <1>1 DEF QueueType
<1> QED
  BY <1>1, <1>2, QueueLenAssumption DEF QueueType

LEMMA NoFlashesLeft == 0 \in 0..Flashes
BY FlashesAssumption

LEMMA EmptyType == NoBlob \in Config
BY DEF NoBlob, Config, Field

(* A restart returns every volatile variable to its first value.           *)
LEMMA RestartType == TypeOK /\ Restart => TypeOK'
<1> SUFFICES ASSUME TypeOK, Restart PROVE TypeOK'
  OBVIOUS
<1>1. QueueType'
  BY QueueLenAssumption DEF Restart, QueueType, Msg
<1>2. WorkType'
  BY NoFlashesLeft DEF Restart, WorkType, WorkStates
<1>3. ConfigType'
  BY EmptyType DEF TypeOK, Restart, ConfigType, Field, SaveStates
<1>4. ApType' /\ StaType' /\ MqttType'
  BY DEF Restart, ApType, StaType, MqttType, Field, StaStates
<1>5. PinType' /\ booted' \in BOOLEAN /\ LedType'
  BY DEF TypeOK, Restart, PinType, LedType
<1> QED
  BY <1>1, <1>2, <1>3, <1>4, <1>5 DEF TypeOK

LEMMA InitType == Init => TypeOK
<1> SUFFICES ASSUME Init PROVE TypeOK
  OBVIOUS
<1>1. QueueType
  BY QueueLenAssumption DEF Init, QueueType
<1>2. WorkType
  BY NoFlashesLeft DEF Init, WorkType, WorkStates
<1>3. ConfigType
  <2>1. nvs \in Config /\ ram \in Config
    BY EmptyType DEF Init, InitialBlobs, Config, Field
  <2> QED
    BY <2>1 DEF Init, ConfigType, Field, SaveStates
<1>4. ApType /\ StaType /\ MqttType
  BY DEF Init, ApType, StaType, MqttType, Field, StaStates
<1>5. PinType /\ booted \in BOOLEAN /\ LedType
  BY DEF Init, PinType, LedType
<1> QED
  BY <1>1, <1>2, <1>3, <1>4, <1>5 DEF TypeOK

LEMMA KeyStepsType ==
  ASSUME TypeOK,
         \/ \E k \in {"KEY", "KEY2"} : TakeKey(k)
         \/ KeyTick \/ KeyReleased \/ KeyLong \/ Key2Long
  PROVE  TypeOK'
<1> USE DEF TypeOK, workVars, cfgVars, apVars, staVars, mqttVars, ledVars
<1>1. CASE \E k \in {"KEY", "KEY2"} : TakeKey(k)
  <2>1. QueueType'
    BY <1>1, ReceiveType DEF TakeKey, Msg
  <2>2. WorkType'
    BY <1>1 DEF TakeKey, WorkType, WorkStates
  <2> QED
    BY <1>1, <2>1, <2>2 DEF TakeKey, PinType, ConfigType, ApType, StaType, MqttType, LedType
<1>2. CASE KeyTick \/ KeyReleased \/ Key2Long
  <2>1. WorkType'
    BY <1>2 DEF KeyTick, KeyReleased, Key2Long, Polling, WorkType, WorkStates
  <2> QED
    BY <1>2, <2>1 DEF KeyTick, KeyReleased, Key2Long, queueVars,
       QueueType, PinType, ConfigType, ApType, StaType, MqttType, LedType
<1>3. CASE KeyLong
  <2>1. WorkType'
    BY <1>3 DEF KeyLong, WorkType, WorkStates
  <2>2. ConfigType'
    BY <1>3 DEF KeyLong, ConfigType, Config
  <2> QED
    BY <1>3, <2>1, <2>2 DEF KeyLong, queueVars,
       QueueType, PinType, ApType, StaType, MqttType, LedType
<1> QED
  BY <1>1, <1>2, <1>3

LEMMA ReportStepsType ==
  ASSUME TypeOK, ResetBlob \/ Toggle \/ Report \/ Publish \/ Flash \/ FlashEnd
  PROVE  TypeOK'
<1> USE DEF TypeOK, queueVars, cfgVars, apVars, staVars, mqttVars
<1>1. CASE ResetBlob
  <2>1. WorkType'
    BY <1>1, FlashesAssumption DEF ResetBlob, WorkType, WorkStates, LedType
  <2>2. ConfigType'
    BY <1>1 DEF ResetBlob, SetBlob, ConfigType
  <2> QED
    BY <1>1, <2>1, <2>2 DEF ResetBlob, ledVars, QueueType, PinType, ApType, StaType, MqttType, LedType
<1>2. CASE Toggle \/ Report \/ Publish
  <2>1. WorkType'
    BY <1>2 DEF Toggle, Report, Publish, WorkType, WorkStates, LedType
  <2>2. LedType'
    BY <1>2 DEF Toggle, Report, Publish, ledVars, WorkType, LedType
  <2> QED
    BY <1>2, <2>1, <2>2 DEF Toggle, Report, Publish, QueueType, PinType, ConfigType, ApType, StaType, MqttType
<1>3. CASE Flash \/ FlashEnd
  <2>1. WorkType'
    <3>1. left' \in 0..Flashes
      BY <1>3, FlashesAssumption DEF Flash, FlashEnd, WorkType
    <3> QED
      BY <1>3, <3>1 DEF Flash, FlashEnd, WorkType, WorkStates
  <2>2. LedType'
    BY <1>3 DEF Flash, FlashEnd, LedType
  <2> QED
    BY <1>3, <2>1, <2>2 DEF Flash, FlashEnd, QueueType, PinType, ConfigType, ApType, StaType, MqttType
<1> QED
  BY <1>1, <1>2, <1>3

LEMMA CloseStepsType ==
  ASSUME TypeOK, TakeClose \/ CloseWebnet \/ ApStop \/ CopySsid \/ CopyPwdAndJoin
  PROVE  TypeOK'
<1> USE DEF TypeOK, cfgVars, mqttVars, ledVars
<1>1. QueueType'
  <2>1. CASE TakeClose
    BY <2>1, ReceiveType DEF TakeClose, Msg
  <2> QED
    BY <2>1 DEF CloseWebnet, ApStop, CopySsid, CopyPwdAndJoin, queueVars, QueueType
<1>2. WorkType'
  <2>1. CASE CopyPwdAndJoin
    BY <2>1, FlashesAssumption DEF CopyPwdAndJoin, WorkType, WorkStates, LedType
  <2> QED
    BY <2>1 DEF TakeClose, CloseWebnet, ApStop, CopySsid, WorkType, WorkStates
<1>3. ApType'
  BY DEF TakeClose, CloseWebnet, ApStop, CopySsid, CopyPwdAndJoin, apVars, ApType
<1>4. StaType'
  BY DEF TakeClose, CloseWebnet, ApStop, CopySsid, CopyPwdAndJoin, staVars, StaType, StaStates,
     ConfigType, Config, Field
<1>5. PinType' /\ booted' \in BOOLEAN /\ ConfigType' /\ MqttType' /\ LedType'
  BY DEF TakeClose, CloseWebnet, ApStop, CopySsid, CopyPwdAndJoin, PinType, ConfigType, MqttType, LedType
<1> QED
  BY <1>1, <1>2, <1>3, <1>4, <1>5

LEMMA CloudStepsType ==
  ASSUME TypeOK, TakeMqtt \/ TakePub
  PROVE  TypeOK'
<1> USE DEF TypeOK, workVars, cfgVars, apVars, staVars, ledVars
<1>1. QueueType'
  BY ReceiveType DEF TakeMqtt, TakePub, Msg
<1>2. WorkType'
  BY DEF TakeMqtt, TakePub, WorkType, WorkStates
<1>3. MqttType'
  BY DEF TakeMqtt, TakePub, MqttType
<1> QED
  BY <1>1, <1>2, <1>3 DEF TakeMqtt, TakePub, PinType, ConfigType, ApType, StaType, LedType

LEMMA WorkTaskType == TypeOK /\ WorkTask => TypeOK'
<1> SUFFICES ASSUME TypeOK, WorkTask PROVE TypeOK'
  OBVIOUS
<1>1. CASE ResetReboot
  BY <1>1, RestartType DEF ResetReboot
<1> QED
  BY <1>1, KeyStepsType, ReportStepsType, CloseStepsType, CloudStepsType DEF WorkTask

LEMMA SaveType ==
  ASSUME TypeOK, NEW p \in Provisioners, SaveOpen(p) \/ Saving(p)
  PROVE  TypeOK'
<1> USE DEF TypeOK
<1>1. QueueType'
  BY SendType DEF SaveOpen, Saving, SaveSsid, SavePwd, SaveFlag, SaveBlob, SaveSend, queueVars, QueueType, Msg
<1>2. ConfigType'
  <2>1. CASE SaveOpen(p)
    BY <2>1 DEF SaveOpen, ConfigType, Field, SaveStates
  <2>2. CASE SaveSsid(p) \/ SavePwd(p) \/ SaveFlag(p)
    <3>1. saver' \in [Provisioners -> [pc : SaveStates, cred : Field]]
      BY <2>2 DEF SaveSsid, SavePwd, SaveFlag, SaveStep, ConfigType, SaveStates
    <3>2. saver[p].cred \in Field
      BY DEF ConfigType
    <3>3. nvs' \in Config /\ ram' \in Config
      BY <2>2, <3>2 DEF SaveSsid, SavePwd, SaveFlag, ConfigType, Config
    <3> QED
      BY <3>1, <3>3 DEF ConfigType
  <2>3. CASE SaveBlob(p)
    <3>1. nvs' \in Config /\ ram' \in Config
      BY <2>3 DEF SaveBlob, SetBlob, ConfigType
    <3>2. saver' \in [Provisioners -> [pc : SaveStates, cred : Field]]
      BY <2>3 DEF SaveBlob, SaveStep, ConfigType, SaveStates
    <3> QED
      BY <3>1, <3>2 DEF ConfigType
  <2>4. CASE SaveSend(p)
    <3>1. [pc |-> "idle", cred |-> NoCred] \in [pc : SaveStates, cred : Field]
      BY DEF Field, SaveStates
    <3> QED
      BY <2>4, <3>1 DEF SaveSend, ConfigType
  <2> QED
    BY <2>1, <2>2, <2>3, <2>4 DEF Saving
<1>3. UNCHANGED <<workVars, pin, booted, apVars, staVars, mqttVars, ledVars>>
  BY DEF SaveOpen, Saving, SaveStep, SaveSsid, SavePwd, SaveFlag, SaveBlob, SaveSend
<1> QED
  BY <1>1, <1>2, <1>3 DEF workVars, apVars, staVars, mqttVars, ledVars,
     WorkType, PinType, ApType, StaType, MqttType, LedType

LEMMA EventTaskType == TypeOK /\ EventTask => TypeOK'
<1> SUFFICES ASSUME TypeOK, EventTask PROVE TypeOK'
  OBVIOUS
<1> USE DEF TypeOK
<1>1. QueueType'
  BY SendType DEF EventTask, ApStarted, GotIp, StaDisconnected, MqttConnected, MqttDisconnected,
     SwitchCommand, queueVars, QueueType, Msg
<1>2. ApType'
  BY DEF EventTask, ApStarted, GotIp, StaDisconnected, MqttConnected, MqttDisconnected,
     SwitchCommand, apVars, ApType
<1>3. StaType'
  BY DEF EventTask, ApStarted, GotIp, StaDisconnected, MqttConnected, MqttDisconnected,
     SwitchCommand, staVars, StaType, StaStates
<1>4. MqttType'
  BY DEF EventTask, ApStarted, GotIp, StaDisconnected, MqttConnected, MqttDisconnected,
     SwitchCommand, mqttVars, MqttType
<1>5. LedType'
  BY CommandsAssumption DEF EventTask, ApStarted, GotIp, StaDisconnected, MqttConnected,
     MqttDisconnected, SwitchCommand, ledVars, LedType
<1>6. UNCHANGED <<workVars, pin, booted, cfgVars>>
  BY DEF EventTask, ApStarted, GotIp, StaDisconnected, MqttConnected, MqttDisconnected, SwitchCommand
<1> QED
  BY <1>1, <1>2, <1>3, <1>4, <1>5, <1>6 DEF workVars, cfgVars, WorkType, PinType, ConfigType

LEMMA CheckConfigType == TypeOK /\ CheckConfig => TypeOK'
<1> SUFFICES ASSUME TypeOK, CheckConfig PROVE TypeOK'
  OBVIOUS
<1> USE DEF TypeOK
<1>1. ConfigType'
  BY DEF CheckConfig, BlobRead, ConfigType
<1>2. ApType'
  BY DEF CheckConfig, apVars, ApType
<1>3. StaType'
  BY DEF CheckConfig, staVars, StaType, StaStates, ConfigType, Config
<1> QED
  BY <1>1, <1>2, <1>3 DEF CheckConfig, queueVars, workVars, mqttVars, ledVars,
     QueueType, WorkType, PinType, MqttType, LedType

LEMMA KeysAndServerType ==
  ASSUME TypeOK, WebnetExit \/ WebnetGone \/ \E k \in Keys : KeyDown(k) \/ KeyUp(k)
  PROVE  TypeOK'
<1> USE DEF TypeOK
<1>1. QueueType'
  BY SendType, KeysAssumption DEF WebnetExit, WebnetGone, KeyDown, KeyUp, queueVars, QueueType, Msg
<1>2. PinType'
  BY KeysAssumption DEF WebnetExit, WebnetGone, KeyDown, KeyUp, PinType
<1>3. ApType'
  BY DEF WebnetExit, WebnetGone, KeyDown, KeyUp, apVars, ApType
<1> QED
  BY <1>1, <1>2, <1>3 DEF WebnetExit, WebnetGone, KeyDown, KeyUp, workVars, cfgVars, staVars, mqttVars,
     ledVars, WorkType, ConfigType, StaType, MqttType, LedType

(* Every variable of the device stays within its type: the queue within    *)
(* its capacity, the structures within their fields. (main.c)              *)
THEOREM TypeCorrect == Spec => []TypeOK
<1>1. Init => TypeOK
  BY InitType
<1>2. TypeOK /\ [Next]_vars => TypeOK'
  <2> SUFFICES ASSUME TypeOK, [Next]_vars PROVE TypeOK'
    OBVIOUS
  <2>1. CASE UNCHANGED vars
    BY <2>1 DEF vars, queueVars, workVars, cfgVars, apVars, staVars, mqttVars, ledVars, TypeOK,
       QueueType, WorkType, PinType, ConfigType, ApType, StaType, MqttType, LedType
  <2>2. CASE PowerLoss
    BY <2>2, RestartType DEF PowerLoss
  <2> QED
    BY <2>1, <2>2, CheckConfigType, WorkTaskType, EventTaskType, KeysAndServerType, SaveType DEF Next
<1> QED
  BY <1>1, <1>2, PTL DEF Spec

-----------------------------------------------------------------------------
(* Safety: which modes exclude each other, which network is joined and     *)
(* stored, and that no obligation is forgotten.                            *)

(* Sending keeps every message that waits and adds the one sent.           *)
LEMMA SendPending ==
  ASSUME QueueType, NEW m \in Msg, Send(m)
  PROVE  /\ Pending(m)'
         /\ \A n : Pending(n) => Pending(n)'
         /\ \A n : n # m => (Pending(n)' => Pending(n))
<1>1. CASE Len(queue) < QueueLen
  <2>1. queue' = Append(queue, m) /\ lost' = lost
    BY <1>1 DEF Send
  <2>2. /\ Len(queue') = Len(queue) + 1 /\ queue'[Len(queue) + 1] = m
        /\ \A i \in 1..Len(queue) : queue'[i] = queue[i]
        /\ Len(queue) \in Nat
    BY <2>1 DEF QueueType
  <2> QED
    BY <2>1, <2>2 DEF Pending, Queued
<1>2. CASE ~(Len(queue) < QueueLen)
  BY <1>2 DEF Send, Pending, Queued
<1> QED
  BY <1>1, <1>2

(* Taking a message off the queue leaves the others.                       *)
LEMMA ReceivePending ==
  ASSUME QueueType, NEW m \in Msg, Receive(m)
  PROVE  /\ Pending(m)
         /\ \A n : Pending(n)' => Pending(n)
         /\ \A n : n # m => (Pending(n) => Pending(n)')
<1>1. queue # <<>> /\ Head(queue) = m /\ queue' = Tail(queue) /\ lost' = lost
  BY DEF Receive
<1>2. /\ Len(queue) \in Nat \ {0} /\ Len(queue') = Len(queue) - 1 /\ queue[1] = m
      /\ \A i \in 1..Len(queue') : queue'[i] = queue[i + 1]
  BY <1>1 DEF QueueType
<1>3. ASSUME NEW n, n # m, NEW i \in 1..Len(queue), queue[i] = n
      PROVE  Queued(n)'
  <2>1. i - 1 \in 1..Len(queue') /\ queue'[i - 1] = n
    BY <1>2, <1>3
  <2> QED
    BY <2>1 DEF Queued
<1>4. ASSUME NEW n, NEW i \in 1..Len(queue'), queue'[i] = n
      PROVE  Queued(n)
  <2>1. i + 1 \in 1..Len(queue) /\ queue[i + 1] = n
    BY <1>2, <1>4
  <2> QED
    BY <2>1 DEF Queued
<1>5. Queued(m)
  BY <1>2 DEF Queued
<1>6. /\ \A n : Queued(n)' => Queued(n)
      /\ \A n : n # m => (Queued(n) => Queued(n)')
  BY <1>3, <1>4 DEF Queued
<1> QED
  BY <1>1, <1>5, <1>6 DEF Pending

LEMMA RestartPending == Restart => \A n : ~Pending(n)'
BY DEF Restart, Pending, Queued

LEMMA SamePending == UNCHANGED queueVars => \A n : Pending(n)' <=> Pending(n)
BY DEF queueVars, Pending, Queued

-----------------------------------------------------------------------------
(* Before check_config nothing that belongs to configuration has happened. *)

LEMMA UnbootedInit == Init => Unbooted
BY DEF Init, Unbooted, Pending, Queued, Closing, NoSave, NoBlob

LEMMA UnbootedRestart == Restart => Unbooted'
<1> SUFFICES ASSUME Restart PROVE Unbooted'
  OBVIOUS
<1>1. ~Pending("CLOSE")'
  BY RestartPending
<1> QED
  BY <1>1 DEF Restart, Unbooted, Closing, NoSave, NoBlob

LEMMA UnbootedStep == TypeOK /\ Unbooted /\ [Next]_vars => Unbooted'
<1> SUFFICES ASSUME TypeOK, Unbooted, [Next]_vars, ~booted' PROVE Unbooted'
  BY DEF Unbooted
<1> USE DEF Unbooted, workVars, cfgVars, apVars, staVars
<1>1. CASE PowerLoss \/ ResetReboot
  BY <1>1, UnbootedRestart DEF PowerLoss, ResetReboot
<1>2. CASE CheckConfig
  BY <1>2 DEF CheckConfig
<1>3. CASE \E p \in Provisioners : SaveOpen(p) \/ Saving(p)
  BY <1>3 DEF SaveOpen, CanCall, Saving, SaveStep, SaveSsid, SavePwd, SaveFlag, SaveBlob, SaveSend, NoSave
<1>4. CASE WebnetExit \/ WebnetGone
  BY <1>4 DEF WebnetExit, WebnetGone
<1>5. CASE EventTask
  <2>1. ~Pending("CLOSE")'
    BY <1>5, SendPending, SamePending DEF TypeOK, EventTask, ApStarted, GotIp, StaDisconnected,
       MqttConnected, MqttDisconnected, SwitchCommand, Msg
  <2> QED
    BY <1>5, <2>1 DEF EventTask, ApStarted, GotIp, StaDisconnected, MqttConnected, MqttDisconnected,
       SwitchCommand, Closing, NoSave
<1>6. CASE \E k \in Keys : KeyDown(k) \/ KeyUp(k)
  <2>1. ~Pending("CLOSE")'
    BY <1>6, SendPending, SamePending, KeysAssumption DEF TypeOK, KeyDown, KeyUp, Msg
  <2> QED
    BY <1>6, <2>1 DEF KeyDown, KeyUp, Closing, NoSave
<1>7. CASE WorkTask /\ ~ResetReboot
  <2>1. ~Pending("CLOSE")' /\ ~TakeClose
    BY <1>7, ReceivePending, SamePending DEF TypeOK, WorkTask, TakeKey, KeyTick, KeyReleased, KeyLong,
       Key2Long, ResetBlob, Toggle, Report, Publish, Flash, FlashEnd, TakeClose, CloseWebnet, ApStop,
       CopySsid, CopyPwdAndJoin, TakeMqtt, TakePub, Msg
  <2>2. ram'.is_config = FALSE \/ ram' = ram
    BY <1>7 DEF WorkTask, TakeKey, KeyTick, KeyReleased, KeyLong,
       Key2Long, ResetBlob, Toggle, Report, Publish, Flash, FlashEnd, TakeClose, CloseWebnet, ApStop,
       CopySsid, CopyPwdAndJoin, TakeMqtt, TakePub, TypeOK, ConfigType, Config
  <2> QED
    BY <1>7, <2>1, <2>2 DEF WorkTask, TakeKey, KeyTick, KeyReleased, KeyLong,
       Key2Long, ResetBlob, Toggle, Report, Publish, Flash, FlashEnd, CloseWebnet, ApStop,
       CopySsid, CopyPwdAndJoin, TakeMqtt, TakePub, Closing, NoSave
<1>8. CASE UNCHANGED vars
  BY <1>8, SamePending DEF vars, Closing, NoSave
<1> QED
  BY <1>1, <1>2, <1>3, <1>4, <1>5, <1>6, <1>7, <1>8 DEF Next

-----------------------------------------------------------------------------
(* The order of the CLOSE handler.                                         *)

LEMMA CloseOrderStep == TypeOK /\ Unbooted /\ CloseOrder /\ [Next]_vars => CloseOrder'
<1> SUFFICES ASSUME TypeOK, Unbooted, CloseOrder, [Next]_vars PROVE CloseOrder'
  OBVIOUS
<1> USE DEF CloseOrder, Closing
<1>1. CASE PowerLoss \/ ResetReboot
  BY <1>1 DEF PowerLoss, ResetReboot, Restart
<1>2. CASE CheckConfig
  BY <1>2 DEF CheckConfig, Unbooted, workVars, apVars, staVars, Closing
<1>3. CASE \E p \in Provisioners : SaveOpen(p) \/ Saving(p)
  BY <1>3 DEF SaveOpen, Saving, SaveStep, SaveSsid, SavePwd, SaveFlag, SaveBlob, SaveSend,
     workVars, apVars, staVars
<1>4. CASE WebnetExit \/ WebnetGone
  BY <1>4 DEF WebnetExit, WebnetGone, workVars, staVars
<1>5. CASE EventTask
  <2>1. CASE ApStarted
    <3>1. ~apCb => webnet' = webnet
      BY <2>1 DEF ApStarted
    <3> QED
      BY <2>1, <3>1 DEF ApStarted, workVars, staVars
  <2>2. CASE GotIp \/ StaDisconnected
    BY <2>2 DEF GotIp, StaDisconnected, workVars, apVars
  <2>3. CASE MqttConnected \/ MqttDisconnected \/ SwitchCommand
    <3>1. UNCHANGED <<workVars, apVars, staVars>>
      BY <2>3 DEF MqttConnected, MqttDisconnected, SwitchCommand
    <3> QED
      BY <3>1 DEF workVars, apVars, staVars
  <2> QED
    BY <1>5, <2>1, <2>2, <2>3 DEF EventTask
<1>6. CASE \E k \in Keys : KeyDown(k) \/ KeyUp(k)
  BY <1>6 DEF KeyDown, KeyUp, workVars, apVars, staVars
<1>7. CASE WorkTask /\ ~ResetReboot
  <2>1. CASE TakeClose
    BY <2>1 DEF TakeClose, Receive, staVars
  <2>2. CASE CloseWebnet
    BY <2>2 DEF CloseWebnet, staVars
  <2>3. CASE ApStop
    BY <2>3 DEF ApStop, staVars
  <2>4. CASE CopySsid \/ CopyPwdAndJoin
    BY <2>4 DEF CopySsid, CopyPwdAndJoin, apVars
  <2>5. CASE ~(TakeClose \/ CloseWebnet \/ ApStop \/ CopySsid \/ CopyPwdAndJoin)
    <3>1. ~Closing' /\ UNCHANGED <<apVars, staVars>>
      BY <1>7, <2>5 DEF WorkTask, TakeKey, KeyTick, KeyReleased, KeyLong, Key2Long, ResetBlob, Toggle,
         Report, Publish, Flash, FlashEnd, TakeMqtt, TakePub, Receive, Polling, workVars
    <3> QED
      BY <3>1 DEF apVars, staVars
  <2> QED
    BY <2>1, <2>2, <2>3, <2>4, <2>5
<1>8. CASE UNCHANGED vars
  BY <1>8 DEF vars, workVars, apVars, staVars
<1> QED
  BY <1>1, <1>2, <1>3, <1>4, <1>5, <1>6, <1>7, <1>8 DEF Next

(* The access point and the station never run together, and the web server *)
(* is on its way out before the station starts. (work_task, CLOSE)         *)
THEOREM ModesExclusive == Spec => []ModeExclusive
<1>1. Init => Unbooted /\ CloseOrder
  BY UnbootedInit DEF Init, CloseOrder, Closing
<1>2. TypeOK /\ Unbooted /\ CloseOrder /\ [Next]_vars => Unbooted' /\ CloseOrder'
  BY UnbootedStep, CloseOrderStep
<1>3. CloseOrder => ModeExclusive
  BY DEF CloseOrder, ModeExclusive
<1> QED
  BY <1>1, <1>2, <1>3, TypeCorrect, PTL DEF Spec

-----------------------------------------------------------------------------
(* The station uses the network that iot_config holds.                     *)

LEMMA StationStep ==
  TypeOK /\ Unbooted /\ StationFollowsConfig /\ CopyIsCurrent /\ [Next]_vars
    => StationFollowsConfig' /\ CopyIsCurrent'
<1> SUFFICES ASSUME TypeOK, Unbooted, StationFollowsConfig, CopyIsCurrent, [Next]_vars,
                    NoSave', ~Pending("CLOSE")'
             PROVE  /\ pc' = "pwd" => conf' = ram'.ssid
                    /\ sta'.state # "off" /\ ~Closing' => sta'.ssid = ram'.ssid /\ sta'.pwd = ram'.pwd
  BY DEF StationFollowsConfig, CopyIsCurrent
<1> USE DEF Closing
<1>1. CASE PowerLoss \/ ResetReboot
  BY <1>1 DEF PowerLoss, ResetReboot, Restart
<1>2. CASE CheckConfig
  BY <1>2 DEF CheckConfig, BlobRead, Unbooted, workVars, staVars
<1>3. CASE \E p \in Provisioners : SaveOpen(p) \/ Saving(p)
  <2>1. PICK p \in Provisioners : SaveOpen(p) \/ Saving(p)
    BY <1>3
  <2>2. saver \in [Provisioners -> [pc : SaveStates, cred : Field]]
    BY DEF TypeOK, ConfigType
  <2>3. CASE SaveOpen(p) \/ SaveSsid(p) \/ SavePwd(p) \/ SaveFlag(p) \/ SaveBlob(p)
    BY <2>2, <2>3 DEF SaveOpen, SaveStep, SaveSsid, SavePwd, SaveFlag, SaveBlob, NoSave
  <2>4. CASE SaveSend(p)
    BY <2>4, SendPending DEF SaveSend, TypeOK, Msg
  <2> QED
    BY <2>1, <2>3, <2>4 DEF Saving
<1>4. CASE WebnetExit \/ WebnetGone
  BY <1>4, SamePending DEF WebnetExit, WebnetGone, workVars, staVars, cfgVars, NoSave,
     StationFollowsConfig, CopyIsCurrent
<1>5. CASE EventTask
  <2>1. ~Pending("CLOSE")
    BY <1>5, SendPending, SamePending DEF TypeOK, EventTask, ApStarted, GotIp, StaDisconnected,
       MqttConnected, MqttDisconnected, SwitchCommand, Msg
  <2> QED
    BY <1>5, <2>1 DEF EventTask, ApStarted, GotIp, StaDisconnected, MqttConnected, MqttDisconnected,
       SwitchCommand, workVars, cfgVars, staVars, NoSave, StationFollowsConfig, CopyIsCurrent,
       TypeOK, StaType
<1>6. CASE \E k \in Keys : KeyDown(k) \/ KeyUp(k)
  <2>1. ~Pending("CLOSE")
    BY <1>6, SendPending, SamePending, KeysAssumption DEF TypeOK, KeyDown, KeyUp, Msg
  <2> QED
    BY <1>6, <2>1 DEF KeyDown, KeyUp, workVars, cfgVars, staVars, NoSave, StationFollowsConfig,
       CopyIsCurrent
<1>7. CASE WorkTask /\ ~ResetReboot
  <2>1. CASE TakeClose
    BY <2>1 DEF TakeClose
  <2>2. CASE WorkTask /\ ~ResetReboot /\ ~TakeClose
    <3>1. ~Pending("CLOSE") /\ NoSave
      BY <2>2, ReceivePending, SamePending DEF TypeOK, WorkTask, TakeKey, KeyTick, KeyReleased, KeyLong,
         Key2Long, ResetBlob, Toggle, Report, Publish, Flash, FlashEnd, CloseWebnet, ApStop,
         CopySsid, CopyPwdAndJoin, TakeMqtt, TakePub, Msg, cfgVars, NoSave
    <3>2. ram'.ssid = ram.ssid /\ ram'.pwd = ram.pwd
      BY <2>2 DEF WorkTask, TakeKey, KeyTick, KeyReleased, KeyLong, Key2Long, ResetBlob, Toggle, Report,
         Publish, Flash, FlashEnd, CloseWebnet, ApStop, CopySsid, CopyPwdAndJoin, TakeMqtt, TakePub,
         cfgVars, TypeOK, ConfigType, Config
    <3>3. CASE CloseWebnet \/ ApStop
      BY <3>1, <3>2, <3>3 DEF CloseWebnet, ApStop, staVars
    <3>4. CASE CopySsid \/ CopyPwdAndJoin
      BY <3>1, <3>2, <3>4 DEF CopySsid, CopyPwdAndJoin, cfgVars, CopyIsCurrent
    <3>5. CASE ~(CloseWebnet \/ ApStop \/ CopySsid \/ CopyPwdAndJoin)
      <4>1. ~Closing /\ pc' # "pwd" /\ UNCHANGED staVars
        BY <2>2, <3>5 DEF WorkTask, TakeKey, KeyTick, KeyReleased, KeyLong, Key2Long, ResetBlob,
           Toggle, Report, Publish, Flash, FlashEnd, TakeMqtt, TakePub, Receive, Polling, workVars
      <4> QED
        BY <3>1, <3>2, <4>1 DEF staVars, StationFollowsConfig
    <3> QED
      BY <3>3, <3>4, <3>5
  <2> QED
    BY <1>7, <2>1, <2>2
<1>8. CASE UNCHANGED vars
  BY <1>8, SamePending DEF vars, workVars, staVars, cfgVars, NoSave, StationFollowsConfig, CopyIsCurrent
<1> QED
  BY <1>1, <1>2, <1>3, <1>4, <1>5, <1>6, <1>7, <1>8 DEF Next

(* However the provisioners and the work task interleave, the station ends *)
(* up on the network written last. (save_config, wifi_connect)             *)
THEOREM StationIsCurrent == Spec => []StationFollowsConfig
<1>1. Init => Unbooted /\ StationFollowsConfig /\ CopyIsCurrent
  BY UnbootedInit DEF Init, StationFollowsConfig, CopyIsCurrent
<1>2. TypeOK /\ Unbooted /\ StationFollowsConfig /\ CopyIsCurrent /\ [Next]_vars
        => Unbooted' /\ StationFollowsConfig' /\ CopyIsCurrent'
  BY UnbootedStep, StationStep
<1> QED
  BY <1>1, <1>2, TypeCorrect, PTL DEF Spec

-----------------------------------------------------------------------------
(* Obligations.  A message that waits goes on waiting until the work task  *)
(* takes it or the device restarts.                                        *)

LEMMA PendingStep ==
  ASSUME TypeOK, [Next]_vars, NEW m, Pending(m), ~Pending(m)'
  PROVE  \/ Restart
         \/ m = "PUB" /\ TakePub
         \/ m = "MQTT" /\ TakeMqtt
         \/ m = "CLOSE" /\ TakeClose
         \/ m \in {"KEY", "KEY2"} /\ TakeKey(m)
<1>1. CASE PowerLoss \/ ResetReboot
  BY <1>1 DEF PowerLoss, ResetReboot
<1>2. CASE CheckConfig \/ WebnetExit \/ WebnetGone
  BY <1>2, SamePending DEF CheckConfig, WebnetExit, WebnetGone
<1>3. CASE \E p \in Provisioners : SaveOpen(p) \/ Saving(p)
  BY <1>3, SamePending, SendPending DEF SaveOpen, Saving, SaveSsid, SavePwd, SaveFlag, SaveBlob, SaveSend,
     TypeOK, Msg
<1>4. CASE EventTask
  BY <1>4, SendPending, SamePending DEF TypeOK, EventTask, ApStarted, GotIp, StaDisconnected,
     MqttConnected, MqttDisconnected, SwitchCommand, Msg
<1>5. CASE \E k \in Keys : KeyDown(k) \/ KeyUp(k)
  BY <1>5, SendPending, SamePending, KeysAssumption DEF TypeOK, KeyDown, KeyUp, Msg
<1>6. CASE WorkTask /\ ~ResetReboot
  <2>1. CASE \E k \in {"KEY", "KEY2"} : TakeKey(k)
    BY <2>1, ReceivePending DEF TakeKey, TypeOK, Msg
  <2>2. CASE TakePub \/ TakeMqtt \/ TakeClose
    BY <2>2, ReceivePending DEF TakePub, TakeMqtt, TakeClose, TypeOK, Msg
  <2>3. CASE ~(TakePub \/ TakeMqtt \/ TakeClose \/ \E k \in {"KEY", "KEY2"} : TakeKey(k))
    <3>1. UNCHANGED queueVars
      BY <1>6, <2>3 DEF WorkTask, KeyTick, KeyReleased, KeyLong, Key2Long, ResetBlob, Toggle, Report,
         Publish, Flash, FlashEnd, CloseWebnet, ApStop, CopySsid, CopyPwdAndJoin
    <3> QED
      BY <3>1, SamePending
  <2> QED
    BY <2>1, <2>2, <2>3
<1>7. CASE UNCHANGED vars
  BY <1>7, SamePending DEF vars
<1> QED
  BY <1>1, <1>2, <1>3, <1>4, <1>5, <1>6, <1>7 DEF Next

(* Who touches the MQTT session.                                           *)
LEMMA MqttStep ==
  ASSUME [Next]_vars
  PROVE  \/ Restart \/ TakeMqtt \/ TakePub \/ MqttConnected \/ MqttDisconnected
         \/ UNCHANGED mqttVars
BY DEF vars, Next, PowerLoss, ResetReboot, CheckConfig, WebnetExit, WebnetGone, SaveOpen, Saving, SaveStep,
   SaveSsid, SavePwd, SaveFlag, SaveBlob, SaveSend, KeyDown, KeyUp, EventTask, ApStarted, GotIp,
   StaDisconnected, SwitchCommand, WorkTask, TakeKey, KeyTick, KeyReleased, KeyLong, Key2Long, ResetBlob,
   Toggle, Report, Publish, Flash, FlashEnd, TakeClose, CloseWebnet, ApStop, CopySsid, CopyPwdAndJoin

(* A session without its topics has PUB on the queue, or PUB was dropped   *)
(* by a full queue. (event_handler_mqtt_connected, work_task PUB)          *)
THEOREM TopicsNotForgotten == Spec => []SubscribePending
<1>1. Init => SubscribePending
  BY DEF Init, SubscribePending
<1>2. TypeOK /\ SubscribePending /\ [Next]_vars => SubscribePending'
  <2> SUFFICES ASSUME TypeOK, SubscribePending, [Next]_vars, mq' = "up", ~subscribed'
               PROVE  Pending("PUB")'
    BY DEF SubscribePending
  <2>1. CASE Restart
    BY <2>1 DEF Restart
  <2>2. CASE TakePub
    BY <2>2 DEF TakePub, TypeOK, MqttType
  <2>3. CASE MqttConnected
    BY <2>3, SendPending DEF MqttConnected, TypeOK, Msg
  <2>4. CASE MqttDisconnected
    BY <2>4 DEF MqttDisconnected
  <2>5. CASE TakeMqtt
    <3>1. mq = "up" /\ ~subscribed /\ Receive("MQTT")
      BY <2>5 DEF TakeMqtt, TypeOK, MqttType
    <3> QED
      BY <3>1, ReceivePending DEF SubscribePending, TypeOK, Msg
  <2>6. CASE UNCHANGED mqttVars /\ ~Restart
    <3>1. mq = "up" /\ ~subscribed
      BY <2>6 DEF mqttVars
    <3>2. ~TakePub
      BY <2>6, <3>1 DEF TakePub, mqttVars
    <3> QED
      BY <2>6, <3>1, <3>2, PendingStep DEF SubscribePending
  <2> QED
    BY <2>1, <2>2, <2>3, <2>4, <2>5, <2>6, MqttStep
<1> QED
  BY <1>1, <1>2, TypeCorrect, PTL DEF Spec

(* A network without a session has MQTT on the queue, or MQTT was dropped  *)
(* by a full queue, as long as the client itself does not fail.            *)
(* (event_handler_sta_got_ip, event_handler_mqtt_disconnected)             *)
THEOREM SessionNotForgotten == "mqtt" \notin Faults => (Spec => []SessionPending)
<1> SUFFICES ASSUME "mqtt" \notin Faults PROVE Spec => []SessionPending
  OBVIOUS
<1>1. Init => SessionPending
  BY DEF Init, SessionPending
<1>2. TypeOK /\ SessionPending /\ [Next]_vars => SessionPending'
  <2> SUFFICES ASSUME TypeOK, SessionPending, [Next]_vars, sta'.state = "up", mq' = "down"
               PROVE  Pending("MQTT")'
    BY DEF SessionPending
  <2>1. CASE Restart
    BY <2>1 DEF Restart
  <2>2. CASE TakeMqtt \/ MqttConnected
    BY <2>2 DEF TakeMqtt, MqttConnected, TypeOK, MqttType
  <2>3. CASE MqttDisconnected
    BY <2>3, SendPending DEF MqttDisconnected, TypeOK, Msg
  <2>4. CASE GotIp
    BY <2>4, SendPending DEF GotIp, TypeOK, Msg
  <2>5. CASE ~Restart /\ ~TakeMqtt /\ ~MqttConnected /\ ~MqttDisconnected /\ ~GotIp
    <3>1. mq = "down"
      <4>1. CASE TakePub
        BY <4>1 DEF TakePub
      <4> QED
        BY <2>5, <4>1, MqttStep DEF mqttVars
    <3>2. sta.state = "up"
      BY <2>5 DEF vars, staVars, Next, PowerLoss, ResetReboot, CheckConfig, WebnetExit, WebnetGone, SaveOpen,
         Saving, SaveStep, SaveSsid, SavePwd, SaveFlag, SaveBlob, SaveSend, KeyDown, KeyUp, EventTask,
         ApStarted, StaDisconnected, SwitchCommand, WorkTask, TakeKey, KeyTick, KeyReleased, KeyLong,
         Key2Long, ResetBlob, Toggle, Report, Publish, Flash, FlashEnd, TakeClose, CloseWebnet, ApStop,
         CopySsid, CopyPwdAndJoin, TakePub, TypeOK, StaType
    <3> QED
      BY <2>5, <3>1, <3>2, PendingStep DEF SessionPending
  <2> QED
    BY <2>1, <2>2, <2>3, <2>4, <2>5
<1> QED
  BY <1>1, <1>2, TypeCorrect, PTL DEF Spec

(* Who touches the configuration, and when the work task moves on.         *)
LEMMA ConfigStep ==
  ASSUME [Next]_vars
  PROVE  \/ Restart \/ CheckConfig \/ KeyLong \/ ResetBlob
         \/ \E p \in Provisioners : SaveOpen(p) \/ Saving(p)
         \/ UNCHANGED <<cfgVars, booted>>
<1>1. CASE WorkTask
  BY <1>1 DEF WorkTask, ResetReboot, TakeKey, KeyTick, KeyReleased, Key2Long, Toggle, Report, Publish,
     Flash, FlashEnd, TakeClose, CloseWebnet, ApStop, CopySsid, CopyPwdAndJoin, TakeMqtt, TakePub
<1>2. CASE EventTask
  BY <1>2 DEF EventTask, ApStarted, GotIp, StaDisconnected, MqttConnected, MqttDisconnected, SwitchCommand
<1> QED
  BY <1>1, <1>2 DEF vars, Next, PowerLoss, WebnetExit, WebnetGone, KeyDown, KeyUp

LEMMA WorkStep ==
  ASSUME [Next]_vars
  PROVE  Restart \/ WorkTask \/ UNCHANGED workVars
<1>1. CASE EventTask
  BY <1>1 DEF EventTask, ApStarted, GotIp, StaDisconnected, MqttConnected, MqttDisconnected, SwitchCommand
<1>2. CASE \E p \in Provisioners : SaveOpen(p) \/ Saving(p)
  BY <1>2 DEF SaveOpen, Saving, SaveStep, SaveSsid, SavePwd, SaveFlag, SaveBlob, SaveSend
<1> QED
  BY <1>1, <1>2 DEF vars, Next, PowerLoss, CheckConfig, WebnetExit, WebnetGone, KeyDown, KeyUp

(* A network saved in configuration mode is being saved, waits as CLOSE,   *)
(* is being joined, or its CLOSE was dropped by a full queue.              *)
(* (save_config, work_task CLOSE)                                          *)
THEOREM JoinNotForgotten == Spec => []JoinPending
<1>1. Init => Unbooted /\ JoinPending
  BY UnbootedInit DEF Init, JoinPending
<1>2. TypeOK /\ Unbooted /\ JoinPending /\ [Next]_vars => JoinPending'
  <2> SUFFICES ASSUME TypeOK, Unbooted, JoinPending, [Next]_vars,
                      wps', ram'.is_config, sta'.state = "off", ~Closing'
               PROVE  ~NoSave' \/ Pending("CLOSE")'
    BY DEF JoinPending
  <2>1. CASE Restart
    BY <2>1 DEF Restart
  <2>2. CASE CheckConfig
    BY <2>2 DEF CheckConfig, BlobRead, Unbooted, apVars
  <2>3. CASE \E p \in Provisioners : SaveOpen(p) \/ Saving(p)
    <3>1. PICK p \in Provisioners : SaveOpen(p) \/ Saving(p)
      BY <2>3
    <3>2. saver \in [Provisioners -> [pc : SaveStates, cred : Field]]
      BY DEF TypeOK, ConfigType
    <3>3. CASE SaveSend(p)
      BY <3>3, SendPending DEF SaveSend, TypeOK, Msg
    <3> QED
      BY <3>1, <3>2, <3>3 DEF Saving, SaveOpen, SaveStep, SaveSsid, SavePwd, SaveFlag, SaveBlob, NoSave
  <2>4. CASE TakeClose \/ CloseWebnet \/ ApStop \/ CopySsid
    BY <2>4 DEF TakeClose, CloseWebnet, ApStop, CopySsid, Closing
  <2>5. CASE CopyPwdAndJoin
    BY <2>5 DEF CopyPwdAndJoin
  <2>6. CASE KeyLong
    <3>1. ram' = ram /\ pc = "key"
      BY <2>6 DEF KeyLong, TypeOK, ConfigType, Config
    <3>2. UNCHANGED <<queueVars, saver, apVars, staVars>>
      BY <2>6 DEF KeyLong
    <3>3. ~NoSave \/ Pending("CLOSE")
      BY <3>1, <3>2 DEF JoinPending, apVars, staVars, Closing
    <3> QED
      BY <3>2, <3>3, SamePending DEF NoSave
  <2>7. CASE ~(\/ Restart \/ CheckConfig \/ TakeClose \/ CloseWebnet \/ ApStop \/ CopySsid
               \/ CopyPwdAndJoin \/ KeyLong \/ \E p \in Provisioners : SaveOpen(p) \/ Saving(p))
    <3>0. UNCHANGED <<ram, saver>>
      BY <2>7, ConfigStep DEF cfgVars, ResetBlob
    <3>1. ~Closing
      <4>1. CASE WorkTask
        BY <2>7, <4>1 DEF WorkTask, ResetReboot, TakeKey, KeyTick, KeyReleased, Key2Long, ResetBlob, Toggle,
           Report, Publish, Flash, FlashEnd, TakeMqtt, TakePub, Receive, Polling, Closing
      <4> QED
        BY <2>7, <4>1, WorkStep DEF workVars, Closing
    <3>2. wps /\ sta.state = "off"
      <4>1. CASE WorkTask
        BY <2>7, <4>1 DEF WorkTask, ResetReboot, TakeKey, KeyTick, KeyReleased, Key2Long, ResetBlob, Toggle,
           Report, Publish, Flash, FlashEnd, TakeMqtt, TakePub, apVars, staVars
      <4>2. CASE EventTask
        <5>1. CASE GotIp \/ StaDisconnected
          BY <5>1 DEF GotIp, StaDisconnected, TypeOK, StaType
        <5> QED
          BY <4>2, <5>1 DEF EventTask, ApStarted, MqttConnected, MqttDisconnected, SwitchCommand, apVars,
             staVars
      <4> QED
        BY <2>7, <4>1, <4>2 DEF vars, Next, PowerLoss, WebnetExit, WebnetGone, KeyDown, KeyUp, apVars, staVars
    <3>3. ~NoSave \/ Pending("CLOSE")
      BY <3>0, <3>1, <3>2 DEF JoinPending
    <3> QED
      BY <2>7, <3>0, <3>3, PendingStep DEF NoSave
  <2> QED
    BY <2>1, <2>2, <2>3, <2>4, <2>5, <2>6, <2>7
<1> QED
  BY <1>1, <1>2, TypeCorrect, UnbootedStep, PTL DEF Spec

-----------------------------------------------------------------------------
(* When NVS does not fail, flash and iot_config agree whenever no save and *)
(* no reset is between its steps, for any number of interleaved savers.    *)
(* (save_config, work_task KEY, check_config)                              *)
THEOREM FlashIsCurrent ==
  {"nvs_open", "nvs_blob"} \cap Faults = {} => (Spec => []FlashFollowsConfig)
<1> SUFFICES ASSUME "nvs_open" \notin Faults, "nvs_blob" \notin Faults
             PROVE  Spec => []FlashFollowsConfig
  OBVIOUS
<1>1. Init => FlashFollowsSaver
  BY DEF Init, FlashFollowsSaver
<1>2. TypeOK /\ FlashFollowsSaver /\ [Next]_vars => FlashFollowsSaver'
  <2> SUFFICES ASSUME TypeOK, FlashFollowsSaver, [Next]_vars, booted', pc' # "resetBlob",
                      \A p \in Provisioners : saver'[p].pc \in {"idle", "send"}
               PROVE  nvs' = ram'
    BY DEF FlashFollowsSaver
  <2>1. CASE Restart
    BY <2>1 DEF Restart
  <2>2. CASE CheckConfig
    BY <2>2 DEF CheckConfig, BlobRead
  <2>3. CASE \E p \in Provisioners : SaveOpen(p) \/ Saving(p)
    <3>1. PICK p \in Provisioners : SaveOpen(p) \/ Saving(p)
      BY <2>3
    <3>2. saver \in [Provisioners -> [pc : SaveStates, cred : Field]]
      BY DEF TypeOK, ConfigType
    <3>3. CASE SaveBlob(p)
      BY <3>3 DEF SaveBlob, SetBlob
    <3>4. CASE SaveSend(p)
      BY <3>2, <3>4 DEF SaveSend, workVars, FlashFollowsSaver
    <3>5. CASE SaveOpen(p) \/ SaveSsid(p) \/ SavePwd(p) \/ SaveFlag(p)
      <4>1. CASE SaveOpen(p)
        BY <3>2, <4>1 DEF SaveOpen
      <4>2. CASE SaveSsid(p)
        BY <3>2, <4>2 DEF SaveSsid, SaveStep
      <4>3. CASE SavePwd(p)
        BY <3>2, <4>3 DEF SavePwd, SaveStep
      <4>4. CASE SaveFlag(p)
        BY <3>2, <4>4 DEF SaveFlag, SaveStep
      <4> QED
        BY <3>5, <4>1, <4>2, <4>3, <4>4
    <3> QED
      BY <3>1, <3>3, <3>4, <3>5 DEF Saving
  <2>4. CASE ResetBlob
    BY <2>4 DEF ResetBlob, SetBlob
  <2>5. CASE KeyLong
    BY <2>5 DEF KeyLong
  <2>6. CASE ~(\/ Restart \/ CheckConfig \/ ResetBlob \/ KeyLong
               \/ \E p \in Provisioners : SaveOpen(p) \/ Saving(p))
    <3>1. UNCHANGED <<cfgVars, booted>>
      BY <2>6, ConfigStep
    <3>2. pc # "resetBlob"
      <4>1. CASE WorkTask
        BY <2>6, <4>1 DEF WorkTask, ResetReboot, TakeKey, KeyTick, KeyReleased, Key2Long, Toggle, Report,
           Publish, Flash, FlashEnd, TakeClose, CloseWebnet, ApStop, CopySsid, CopyPwdAndJoin, TakeMqtt,
           TakePub, Receive, Polling
      <4> QED
        BY <2>6, <4>1, WorkStep DEF workVars
    <3> QED
      BY <3>1, <3>2 DEF cfgVars, FlashFollowsSaver
  <2> QED
    BY <2>1, <2>2, <2>3, <2>4, <2>5, <2>6
<1>3. FlashFollowsSaver => FlashFollowsConfig
  BY DEF FlashFollowsSaver, FlashFollowsConfig, NoSave
<1> QED
  BY <1>1, <1>2, <1>3, TypeCorrect, PTL DEF Spec

-----------------------------------------------------------------------------
(* Who puts a message on the queue.                                        *)
LEMMA PendingSince ==
  ASSUME TypeOK, [Next]_vars, NEW m, ~Pending(m), Pending(m)'
  PROVE  \/ m = "CLOSE" /\ \E p \in Provisioners : SaveSend(p)
         \/ m = "MQTT" /\ (GotIp \/ MqttDisconnected)
         \/ m = "PUB" /\ MqttConnected
         \/ m \in Keys /\ KeyDown(m)
<1>1. CASE Restart
  BY <1>1, RestartPending
<1>2. CASE CheckConfig \/ WebnetExit \/ WebnetGone
  BY <1>2, SamePending DEF CheckConfig, WebnetExit, WebnetGone
<1>3. CASE \E p \in Provisioners : SaveOpen(p) \/ Saving(p)
  BY <1>3, SamePending, SendPending DEF SaveOpen, Saving, SaveSsid, SavePwd, SaveFlag, SaveBlob, SaveSend,
     TypeOK, Msg
<1>4. CASE EventTask
  <2>1. CASE GotIp \/ MqttDisconnected
    BY <2>1, SendPending DEF GotIp, MqttDisconnected, TypeOK, Msg
  <2>2. CASE MqttConnected
    BY <2>2, SendPending DEF MqttConnected, TypeOK, Msg
  <2>3. CASE ApStarted \/ StaDisconnected \/ SwitchCommand
    BY <2>3, SamePending DEF ApStarted, StaDisconnected, SwitchCommand
  <2> QED
    BY <1>4, <2>1, <2>2, <2>3 DEF EventTask
<1>5. CASE \E k \in Keys : KeyDown(k) \/ KeyUp(k)
  BY <1>5, SendPending, SamePending, KeysAssumption DEF TypeOK, KeyDown, KeyUp, Msg
<1>6. CASE WorkTask /\ ~Restart
  <2>1. CASE TakePub \/ TakeMqtt \/ TakeClose \/ \E k \in {"KEY", "KEY2"} : TakeKey(k)
    BY <2>1, ReceivePending DEF TakePub, TakeMqtt, TakeClose, TakeKey, TypeOK, Msg
  <2>2. CASE ~(TakePub \/ TakeMqtt \/ TakeClose \/ \E k \in {"KEY", "KEY2"} : TakeKey(k))
    <3>1. UNCHANGED queueVars
      BY <1>6, <2>2 DEF WorkTask, ResetReboot, KeyTick, KeyReleased, KeyLong, Key2Long, ResetBlob, Toggle,
         Report, Publish, Flash, FlashEnd, CloseWebnet, ApStop, CopySsid, CopyPwdAndJoin
    <3> QED
      BY <3>1, SamePending
  <2> QED
    BY <2>1, <2>2
<1>7. CASE UNCHANGED vars
  BY <1>7, SamePending DEF vars
<1> QED
  BY <1>1, <1>2, <1>3, <1>4, <1>5, <1>6, <1>7 DEF Next, PowerLoss

-----------------------------------------------------------------------------
(* Only the long press forgets.  A saver about to write the blob has set   *)
(* is_config, and what clears it again is a reset under way.               *)

BlobIsFlagged ==
  (\E p \in Provisioners : saver[p].pc = "blob") =>
    ram.is_config \/ pc \in {"resetBlob", "resetFlash"}

LEMMA ResetGoesOn ==
  ASSUME [Next]_vars, pc \in {"resetBlob", "resetFlash"}, ~Restart
  PROVE  pc' \in {"resetBlob", "resetFlash"}
<1>1. CASE WorkTask
  BY <1>1 DEF WorkTask, TakeKey, KeyTick, KeyReleased, KeyLong, Key2Long, ResetBlob, ResetReboot, Toggle,
     Report, Publish, Flash, FlashEnd, TakeClose, CloseWebnet, ApStop, CopySsid, CopyPwdAndJoin, TakeMqtt,
     TakePub, Receive, Polling
<1> QED
  BY <1>1, WorkStep DEF workVars

LEMMA BlobIsFlaggedStep == TypeOK /\ Unbooted /\ BlobIsFlagged /\ [Next]_vars => BlobIsFlagged'
<1> SUFFICES ASSUME TypeOK, Unbooted, BlobIsFlagged, [Next]_vars,
                    NEW p \in Provisioners, saver'[p].pc = "blob",
                    pc' \notin {"resetBlob", "resetFlash"}
             PROVE  ram'.is_config
  BY DEF BlobIsFlagged
<1>0. saver \in [Provisioners -> [pc : SaveStates, cred : Field]] /\ ram \in Config
  BY DEF TypeOK, ConfigType
<1>1. ~Restart
  BY DEF Restart
<1>2. pc \notin {"resetBlob", "resetFlash"}
  BY <1>1, ResetGoesOn
<1>3. CASE CheckConfig
  BY <1>3 DEF CheckConfig, Unbooted, NoSave
<1>4. CASE KeyLong
  BY <1>4, <1>2 DEF KeyLong, BlobIsFlagged
<1>5. CASE \E q \in Provisioners : SaveOpen(q) \/ Saving(q)
  <2>1. PICK q \in Provisioners : SaveOpen(q) \/ Saving(q)
    BY <1>5
  <2>2. CASE SaveFlag(q)
    BY <1>0, <2>2 DEF SaveFlag, Config
  <2>3. CASE SaveOpen(q) \/ SaveSsid(q) \/ SavePwd(q) \/ SaveBlob(q) \/ SaveSend(q)
    <3>1. saver[p].pc = "blob"
      BY <1>0, <2>3 DEF SaveOpen, SaveSsid, SavePwd, SaveBlob, SaveSend, SaveStep
    <3>2. ram'.is_config = ram.is_config
      BY <1>0, <2>3 DEF SaveOpen, SaveSsid, SavePwd, SaveBlob, SaveSend, Config
    <3> QED
      BY <1>2, <3>1, <3>2 DEF BlobIsFlagged
  <2> QED
    BY <2>1, <2>2, <2>3 DEF Saving
<1>6. CASE ~(CheckConfig \/ KeyLong \/ \E q \in Provisioners : SaveOpen(q) \/ Saving(q))
  <2>1. UNCHANGED <<cfgVars, booted>>
    BY <1>1, <1>2, <1>6, ConfigStep DEF ResetBlob
  <2> QED
    BY <1>2, <2>1 DEF cfgVars, BlobIsFlagged
<1> QED
  BY <1>3, <1>4, <1>5, <1>6

(* A stored configuration stops being one only in the handler of a long    *)
(* press, whatever saves, failures of NVS and power losses come between.   *)
(* (work_task KEY, save_config)                                            *)
THEOREM ForgottenByReset == Spec => OnlyResetForgets
<1>1. Init => Unbooted /\ BlobIsFlagged
  BY UnbootedInit DEF Init, BlobIsFlagged
<1>2. TypeOK /\ Unbooted /\ BlobIsFlagged /\ [Next]_vars => Unbooted' /\ BlobIsFlagged'
  BY UnbootedStep, BlobIsFlaggedStep
<1>3. TypeOK /\ BlobIsFlagged /\ [Next]_vars
        => [nvs.is_config /\ ~nvs'.is_config => pc \in {"resetBlob", "resetFlash"}]_vars
  <2> SUFFICES ASSUME TypeOK, BlobIsFlagged, [Next]_vars, nvs.is_config, ~nvs'.is_config
               PROVE  pc \in {"resetBlob", "resetFlash"}
    OBVIOUS
  <2>1. CASE ResetBlob
    BY <2>1 DEF ResetBlob
  <2>2. CASE \E p \in Provisioners : SaveOpen(p) \/ Saving(p)
    <3>1. PICK p \in Provisioners : SaveBlob(p)
      BY <2>2 DEF SaveOpen, Saving, SaveSsid, SavePwd, SaveFlag, SaveSend
    <3>2. saver[p].pc = "blob" /\ nvs' = ram
      BY <3>1 DEF SaveBlob, SaveStep, SetBlob
    <3> QED
      BY <3>2 DEF BlobIsFlagged
  <2>3. CASE Restart \/ CheckConfig \/ KeyLong \/ UNCHANGED cfgVars
    BY <2>3 DEF Restart, CheckConfig, KeyLong, cfgVars
  <2> QED
    BY <2>1, <2>2, <2>3, ConfigStep
<1> QED
  BY <1>1, <1>2, <1>3, TypeCorrect, PTL DEF Spec, OnlyResetForgets

-----------------------------------------------------------------------------
(* The reset.  Long presses begin after check_config, so nothing but a     *)
(* provisioner could set is_config again between its steps.                *)

ResetOrder ==
  /\ held = "long" \/ pc \in {"resetBlob", "resetFlash"} => booted
  /\ pc = "resetBlob" => ~ram.is_config
  /\ pc = "resetFlash" => ~nvs.is_config

LEMMA ResetOrderStep ==
  ASSUME "nvs_blob" \notin Faults, Provisioners = {}, TypeOK, ResetOrder, [Next]_vars
  PROVE  ResetOrder'
<1>1. CASE Restart
  BY <1>1 DEF Restart, ResetOrder
<1>2. CASE CheckConfig
  BY <1>2 DEF CheckConfig, workVars, ResetOrder
<1>3. CASE KeyLong
  BY <1>3 DEF KeyLong, ResetOrder, TypeOK, ConfigType, Config
<1>4. CASE ResetBlob
  BY <1>4 DEF ResetBlob, SetBlob, ResetOrder
<1>5. CASE UNCHANGED <<cfgVars, booted>> /\ ~(Restart \/ KeyLong \/ ResetBlob)
  <2>1. CASE WorkTask
    BY <1>5, <2>1 DEF cfgVars, ResetOrder, WorkTask, TakeKey, KeyTick, KeyReleased, Key2Long, ResetReboot,
       Toggle, Report, Publish, Flash, FlashEnd, TakeClose, CloseWebnet, ApStop, CopySsid, CopyPwdAndJoin,
       TakeMqtt, TakePub, Receive, Polling, workVars
  <2>2. CASE UNCHANGED workVars
    BY <1>5, <2>2 DEF cfgVars, workVars, ResetOrder
  <2> QED
    BY <1>5, <2>1, <2>2, WorkStep
<1> QED
  BY <1>1, <1>2, <1>3, <1>4, <1>5, ConfigStep

(* The reboot that ends a long press finds no configuration, when the blob *)
(* can be written and no save overlaps the press. (work_task KEY,          *)
(* check_config)                                                           *)
THEOREM ResetIsLasting ==
  "nvs_blob" \notin Faults /\ Provisioners = {} => (Spec => ResetEntersConfig)
<1> SUFFICES ASSUME "nvs_blob" \notin Faults, Provisioners = {}
             PROVE  Spec => ResetEntersConfig
  OBVIOUS
<1>1. Init => ResetOrder
  BY DEF Init, ResetOrder
<1>2. TypeOK /\ ResetOrder /\ [Next]_vars => ResetOrder'
  BY ResetOrderStep
<1>3. ResetOrder /\ [Next]_vars => [ResetReboot => ~nvs.is_config]_vars
  BY DEF ResetReboot, ResetOrder
<1> QED
  BY <1>1, <1>2, <1>3, TypeCorrect, PTL DEF Spec, ResetEntersConfig

-----------------------------------------------------------------------------
(* The switch.  Every step that changes the LED while there is a session    *)
(* with its topics is followed by a report of the state it left.           *)

\* CLOSE comes from provisioners alone, and led_flashing outside a reset from CLOSE.
NoClose == ~Closing /\ pc # "flash" /\ ~Pending("CLOSE")

ReportOrder ==
  /\ mq # "down" => client
  /\ pc = "publish" => val = led
  /\ mq = "up" /\ subscribed => shadow = led \/ pc \in {"report", "publish", "resetFlash"}

LEMMA NoCloseStep == Provisioners = {} /\ TypeOK /\ NoClose /\ [Next]_vars => NoClose'
<1> SUFFICES ASSUME Provisioners = {}, TypeOK, NoClose, [Next]_vars PROVE NoClose'
  OBVIOUS
<1>1. ~Pending("CLOSE")'
  BY PendingSince, KeysAssumption DEF NoClose
<1>2. ~Closing' /\ pc' # "flash"
  <2>1. CASE Restart
    BY <2>1 DEF Restart, Closing
  <2>2. CASE WorkTask /\ ~Restart
    <3>1. ~TakeClose
      BY ReceivePending DEF NoClose, TakeClose, TypeOK, Msg
    <3> QED
      BY <2>2, <3>1 DEF NoClose, Closing, WorkTask, TakeKey, KeyTick, KeyReleased, KeyLong, Key2Long,
         ResetBlob, ResetReboot, Toggle, Report, Publish, Flash, FlashEnd, CloseWebnet, ApStop, CopySsid,
         CopyPwdAndJoin, TakeMqtt, TakePub, Receive, Polling, workVars
  <2>3. CASE UNCHANGED workVars
    BY <2>3 DEF NoClose, Closing, workVars
  <2> QED
    BY <2>1, <2>2, <2>3, WorkStep
<1> QED
  BY <1>1, <1>2 DEF NoClose

LEMMA ReportWork ==
  ASSUME TypeOK, NoClose, ReportOrder, WorkTask, ~Restart
  PROVE  ReportOrder'
<1>1. CASE \E k \in {"KEY", "KEY2"} : TakeKey(k)
  BY <1>1 DEF TakeKey, Receive, ReportOrder, mqttVars, ledVars
<1>2. CASE KeyTick \/ KeyReleased \/ KeyLong \/ Key2Long
  BY <1>2 DEF KeyTick, KeyReleased, KeyLong, Key2Long, Polling, ReportOrder, mqttVars, ledVars
<1>3. CASE ResetBlob \/ Toggle \/ Report
  BY <1>3 DEF ResetBlob, Toggle, Report, ReportOrder, mqttVars, ledVars
<1>4. CASE Publish
  BY <1>4 DEF Publish, ReportOrder, mqttVars
<1>5. CASE Flash
  BY <1>5 DEF Flash, NoClose, ReportOrder, mqttVars
<1>6. CASE TakeMqtt
  BY <1>6 DEF TakeMqtt, ReportOrder, TypeOK, MqttType, workVars, ledVars
<1>7. CASE TakePub
  BY <1>7 DEF TakePub, ReportOrder
<1>8. ~(FlashEnd \/ TakeClose \/ CloseWebnet \/ ApStop \/ CopySsid \/ CopyPwdAndJoin)
  BY ReceivePending
     DEF NoClose, Closing, FlashEnd, TakeClose, CloseWebnet, ApStop, CopySsid, CopyPwdAndJoin, TypeOK, Msg
<1> QED
  BY <1>1, <1>2, <1>3, <1>4, <1>5, <1>6, <1>7, <1>8 DEF WorkTask, ResetReboot

LEMMA ReportStep ==
  ASSUME Commands = {}, TypeOK, NoClose, ReportOrder, [Next]_vars
  PROVE  ReportOrder'
<1>1. CASE Restart
  BY <1>1 DEF Restart, ReportOrder
<1>2. CASE WorkTask /\ ~Restart
  BY <1>2, ReportWork
<1>3. CASE MqttConnected
  BY <1>3 DEF MqttConnected, ReportOrder, workVars, ledVars
<1>4. CASE MqttDisconnected
  BY <1>4 DEF MqttDisconnected, ReportOrder, workVars, ledVars
<1>5. CASE ~(Restart \/ WorkTask \/ MqttConnected \/ MqttDisconnected)
  <2>1. UNCHANGED <<workVars, mqttVars, ledVars>>
    BY <1>5 DEF vars, Next, PowerLoss, CheckConfig, WebnetExit, WebnetGone, SaveOpen, Saving, SaveStep,
       SaveSsid, SavePwd, SaveFlag, SaveBlob, SaveSend, KeyDown, KeyUp, EventTask, ApStarted, GotIp,
       StaDisconnected, SwitchCommand
  <2> QED
    BY <2>1 DEF workVars, mqttVars, ledVars, ReportOrder
<1> QED
  BY <1>1, <1>2, <1>3, <1>4, <1>5

(* With no commands from the cloud and nobody provisioning again, the      *)
(* cloud knows the switch as it is whenever the work task is at rest and   *)
(* the topics are set up, whatever sessions, messages and power were lost. *)
(* (work_task KEY and PUB, led_state_upload, event_handler_mqtt_connected) *)
THEOREM SwitchIsReported ==
  Commands = {} /\ Provisioners = {} => (Spec => []SwitchReported)
<1> SUFFICES ASSUME Commands = {}, Provisioners = {} PROVE Spec => []SwitchReported
  OBVIOUS
<1>1. Init => NoClose /\ ReportOrder
  BY DEF Init, NoClose, Closing, Pending, Queued, ReportOrder
<1>2. TypeOK /\ NoClose /\ ReportOrder /\ [Next]_vars => NoClose' /\ ReportOrder'
  BY NoCloseStep, ReportStep
<1>3. ReportOrder => SwitchReported
  BY DEF ReportOrder, SwitchReported
<1> QED
  BY <1>1, <1>2, <1>3, TypeCorrect, PTL DEF Spec
=============================================================================
