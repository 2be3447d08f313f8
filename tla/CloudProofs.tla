------------------------------ MODULE CloudProofs ------------------------------
(***************************************************************************)
(* Theorems about Cloud, for every number of flashes, every set of values   *)
(* and colours and every set of faults.  All three rest on what a list of   *)
(* pending statements may look like: which statement may follow which.      *)
(***************************************************************************)
EXTENDS Cloud, SequenceTheorems, TLAPS

(***************************************************************************)
(* The statements of the handlers, and which of them may stand behind       *)
(* another.                                                                 *)
(***************************************************************************)
Ops ==
  [op : {"pwm"}, on : Channels, val : 0..255]
    \cup [op : {"state"}, on : {Nil}, val : {0, 1}]
    \cup [op : {"subscribe"}, on : {"ota", "led"}, val : {0}]
    \cup [op : {"last", "changed", "read", "publish", "toggle", "breathe", "init"}, on : {Nil}, val : {0}]

Follows(x, y) ==
  /\ x.op \notin {"publish", "breathe"}
  /\ x.op = "pwm" => y.op \in {"pwm", "state"}
  /\ y.op = "subscribe" => x.op \in {"init", "subscribe"}
  /\ y.op = "publish" <=> x.op = "read"
  /\ y.op # "last"

\* switch_state becomes 1 only behind a channel that was lit.
Lights(x, y) ==
  (y.op = "state" /\ y.val = 1) => \/ x.op = "pwm" /\ x.val # PwmMax
                                   \/ x.op = "state" /\ x.val = 1

Chain(T)    == \A i \in 1..(Len(T) - 1) : Follows(T[i], T[i + 1])
Lit(T)      == \A i \in 1..(Len(T) - 1) : Lights(T[i], T[i + 1])
Closing(T)  == T # <<>> /\ T[Len(T)].op \in {"state", "publish", "breathe"}
\* What is still to come behind a toggle fits TypeOK's bound.
Bounded(T)  == /\ Len(T) <= FlashCount + 9
               /\ \A i \in 1..Len(T) : T[i].op = "toggle" => Len(T) - i <= FlashCount + 4

Handler(T)  == T \in Seq(Ops) /\ Chain(T) /\ Closing(T) /\ Bounded(T)

Locals == [todo : Seq(Ops), last : {0, 1}, read : {0, 1}]

ThreadsOK ==
  /\ thr \in [Threads -> Locals]
  /\ \A t \in Threads : Busy(t) => Handler(thr[t].todo)

-----------------------------------------------------------------------------
(* The invariant behind UpdateIsWhole.                                     *)

\* The flag of the last update is taken back, or the write failed.
Taken == fw_type # "UPDATE" \/ unset

UpdateInv ==
  /\ ota \in {"connect", "download"} => Taken
  /\ ota = "update" => whole
  /\ (ota # "reboot" /\ "ota" \in topics) => Taken
  /\ \A t \in Threads : (ota # "reboot" /\ Busy(t) /\ What(t).op = "subscribe") => Taken
  /\ UpdateIsWhole

-----------------------------------------------------------------------------
(* The invariant behind LightIsShown.                                      *)

\* What the statements left in t make of the light if nobody interferes.
LampOK(t) ==
  /\ ~Busy(t) \/ What(t).op \notin {"pwm", "state", "breathe"} => (Dark => switch_state = 0)
  /\ (Busy(t) /\ What(t).op = "state" /\ What(t).val = 1) => ~Dark

Ending(t) == thr[t].todo[Len(thr[t].todo)].op
Awaits(t) == \E i \in 1..Len(thr[t].todo) : thr[t].todo[i].op = "changed"

\* What the cloud will show when the report on its way has arrived.
Shown == IF report = Nil THEN cloud ELSE report

\* What they make of the report.
ReportOK(t) ==
  /\ ~Busy(t) => Shown = switch_state
  /\ (Busy(t) /\ Ending(t) = "state") =>
       \A i \in 1..Len(thr[t].todo) : thr[t].todo[i].op = "state" => thr[t].todo[i].val = Shown
  /\ (Busy(t) /\ What(t).op = "publish") => thr[t].read = switch_state
  /\ (Busy(t) /\ What(t).op = "last") => Shown = switch_state
  /\ (Awaits(t) /\ What(t).op # "last") => Shown = thr[t].last

\* When ReportOK is owed: the session is up, its PUB taken and no command on
\* its way.
Owed == session /\ ~pub /\ command = Nil

\* Where a handler that ends without a report can run: it is CLOSE's, which in
\* a session counts as a race, or it carries out a switch command.
QuietOK ==
  /\ (Busy("work") /\ Ending("work") = "state") => raced \/ ~session \/ pub
  /\ (Busy("mqtt") /\ Ending("mqtt") = "state") =>
       \A i \in 1..Len(thr["mqtt"].todo) : thr["mqtt"].todo[i].op \in {"pwm", "state"}

\* What the cloud asks for before the device has subscribed is lost, but then
\* the handler of PUB has its report still to come.
SubscribesOK ==
  (session /\ ~pub /\ "led" \notin topics) =>
    thr["work"].todo \in {Pub, Tail(Pub), Tail(Tail(Pub))}

\* No report crosses a command on its way.
CommandOK == command # Nil => report = Nil /\ cloud = On(command)

LightInv ==
  /\ \A t \in Threads : Lit(thr[t].todo)
  /\ QuietOK /\ SubscribesOK
  /\ ~raced => /\ \E t \in Threads : ~Busy(t)
               /\ CommandOK
               /\ \A t \in Threads : ~Busy(Other(t)) => LampOK(t) /\ (Owed => ReportOK(t))

-----------------------------------------------------------------------------
(* Lists of statements.                                                    *)

LEMMA TailOK ==
  ASSUME NEW T \in Seq(Ops), T # <<>>, Handler(T)
  PROVE  /\ Tail(T) \in Seq(Ops) /\ Len(Tail(T)) = Len(T) - 1
         /\ \A i \in 1..Len(Tail(T)) : Tail(T)[i] = T[i + 1]
         /\ Head(T) = T[1] /\ Head(T) \in Ops
         /\ Tail(T) # <<>> => Handler(Tail(T)) /\ Follows(T[1], Tail(T)[1]) /\ Tail(T)[Len(Tail(T))] = T[Len(T)]
         /\ Tail(T) = <<>> => T[1].op \in {"state", "publish", "breathe"} /\ Len(T) = 1
         /\ Lit(T) => Lit(Tail(T)) /\ (Tail(T) # <<>> => Lights(T[1], Tail(T)[1]))
<1>1. /\ Tail(T) \in Seq(Ops) /\ Len(Tail(T)) = Len(T) - 1
      /\ \A i \in 1..Len(Tail(T)) : Tail(T)[i] = T[i + 1]
      /\ Head(T) = T[1] /\ Head(T) \in Ops /\ Len(T) \in Nat \ {0}
  OBVIOUS
<1>2. ASSUME Tail(T) # <<>>
      PROVE  Handler(Tail(T)) /\ Follows(T[1], Tail(T)[1]) /\ Tail(T)[Len(Tail(T))] = T[Len(T)]
  <2>1. Len(T) >= 2
    BY <1>1, <1>2
  <2>2. Chain(Tail(T)) /\ Follows(T[1], Tail(T)[1])
    BY <1>1, <2>1 DEF Handler, Chain
  <2>3. Tail(T)[Len(Tail(T))] = T[Len(T)]
    BY <1>1, <2>1
  <2>4. Closing(Tail(T))
    BY <1>2, <2>3 DEF Handler, Closing
  <2>5. Bounded(Tail(T))
    BY <1>1, <2>1, CloudAssumption DEF Handler, Bounded
  <2>6. QED
    BY <1>1, <2>2, <2>3, <2>4, <2>5 DEF Handler
<1>3. ASSUME Tail(T) = <<>>
      PROVE  T[1].op \in {"state", "publish", "breathe"} /\ Len(T) = 1
  <2>1. Len(Tail(T)) = 0
    BY <1>1, <1>3, EmptySeq
  <2>2. Len(T) = 1
    BY <2>1, HeadTailProperties
  <2>3. QED
    BY <2>2 DEF Handler, Closing
<1>4. Lit(T) => Lit(Tail(T)) /\ (Tail(T) # <<>> => Lights(T[1], Tail(T)[1]))
  BY <1>1, EmptySeq DEF Lit
<1>5. QED
  BY <1>1, <1>2, <1>3, <1>4

LEMMA ConcatIs ==
  ASSUME NEW S \in Seq(Ops), NEW T \in Seq(Ops)
  PROVE  /\ S \o T \in Seq(Ops) /\ Len(S \o T) = Len(S) + Len(T)
         /\ \A i \in 1..(Len(S) + Len(T)) : (S \o T)[i] = IF i <= Len(S) THEN S[i] ELSE T[i - Len(S)]
  BY ConcatProperties

LEMMA ConcatOK ==
  ASSUME NEW S \in Seq(Ops), NEW T \in Seq(Ops), S # <<>>, T # <<>>,
         Chain(S), Chain(T), Closing(T), Follows(S[Len(S)], T[1])
  PROVE  /\ S \o T \in Seq(Ops) /\ S \o T # <<>> /\ Len(S \o T) = Len(S) + Len(T)
         /\ (S \o T)[1] = S[1] /\ Chain(S \o T) /\ Closing(S \o T)
         /\ (S \o T)[Len(S \o T)] = T[Len(T)]
         /\ \A i \in 1..Len(S \o T) : (S \o T)[i] = IF i <= Len(S) THEN S[i] ELSE T[i - Len(S)]
<1> DEFINE U == S \o T
<1>1. /\ U \in Seq(Ops) /\ U # <<>> /\ Len(U) = Len(S) + Len(T) /\ Len(S) >= 1 /\ Len(T) >= 1
      /\ \A i \in 1..Len(U) : U[i] = IF i <= Len(S) THEN S[i] ELSE T[i - Len(S)]
  OBVIOUS
<1>2. U[1] = S[1] /\ U[Len(U)] = T[Len(T)]
  BY <1>1
<1>3. ASSUME NEW i \in 1..(Len(U) - 1)
      PROVE  Follows(U[i], U[i + 1])
  <2>1. CASE i < Len(S)
    BY <1>1, <2>1 DEF Chain
  <2>2. CASE i = Len(S)
    BY <1>1, <2>2
  <2>3. CASE i > Len(S)
    <3>1. U[i] = T[i - Len(S)] /\ U[i + 1] = T[(i - Len(S)) + 1] /\ i - Len(S) \in 1..(Len(T) - 1)
      BY <1>1, <2>3
    <3>2. QED
      BY <3>1 DEF Chain
  <2>4. QED
    BY <1>1, <2>1, <2>2, <2>3
<1>4. QED
  BY <1>1, <1>2, <1>3 DEF Chain, Closing


-----------------------------------------------------------------------------
(* The handlers.                                                           *)

LEMMA OpsOK ==
  ASSUME NEW b \in Int, NEW c \in Channels
  PROVE  /\ Pwm(c, b) \in Ops /\ Pwm(c, b).op = "pwm" /\ Pwm(c, b).val = Duty(b)
         /\ Set(b) \in Ops /\ Set(b).op = "state" /\ Set(b).val = IF b = 0 THEN 0 ELSE 1
<1>1. Scaled(b) \in Int
  BY CloudAssumption DEF Scaled
<1>2. Duty(b) \in 0..255
  BY <1>1, CloudAssumption DEF Duty
<1>3. QED
  BY <1>2 DEF Pwm, Set, Op, Ops

LEMMA BrightnessIs ==
  ASSUME NEW b \in Int
  PROVE  /\ led_brightness(b) \in Seq(Ops) /\ Len(led_brightness(b)) = 4
         /\ \A i \in 1..3 : led_brightness(b)[i] \in Ops /\ led_brightness(b)[i].op = "pwm" /\ led_brightness(b)[i].val = Duty(b)
         /\ led_brightness(b)[4] = Set(b)
  BY OpsOK DEF led_brightness, Channels

LEMMA UploadIs ==
  /\ led_state_upload \in Seq(Ops) /\ Len(led_state_upload) = 2
  /\ led_state_upload[1] = Op("read", Nil, 0) /\ led_state_upload[2] = Op("publish", Nil, 0)
  BY DEF led_state_upload, Op, Ops

\* led_on and led_off: a brightness and the state once more.
Lamp(b) == led_brightness(b) \o <<Set(b)>>

LEMMA LampIs ==
  ASSUME NEW b \in Int
  PROVE  /\ Lamp(b) \in Seq(Ops) /\ Len(Lamp(b)) = 5
         /\ \A i \in 1..3 : Lamp(b)[i].op = "pwm" /\ Lamp(b)[i].val = Duty(b)
         /\ \A i \in {4, 5} : Lamp(b)[i] = Set(b)
  BY OpsOK DEF Lamp, led_brightness, Channels

LEMMA LampHandler ==
  ASSUME NEW b \in Int
  PROVE  /\ Handler(Lamp(b)) /\ Lamp(b)[1].op = "pwm" /\ Lamp(b)[5].op = "state"
         /\ \A i \in 1..5 : Lamp(b)[i].op # "toggle"
         /\ (b # 0 => Duty(b) # PwmMax) => Lit(Lamp(b))
<1>1. Set(b).op = "state" /\ Set(b).val = IF b = 0 THEN 0 ELSE 1
  BY OpsOK DEF Channels
<1>2. \A i \in 1..5 : Lamp(b)[i].op = IF i <= 3 THEN "pwm" ELSE "state"
  BY <1>1, LampIs
<1>3. Lamp(b) \in Seq(Ops) /\ Lamp(b) # <<>> /\ Len(Lamp(b)) >= 5 /\ Len(Lamp(b)) <= 5
  BY OpsOK DEF Lamp, led_brightness, Channels
<1>4. Lamp(b)[Len(Lamp(b))] = Lamp(b)[5]
  BY <1>3
<1>5. Chain(Lamp(b))
  BY <1>2, <1>3 DEF Chain, Follows
<1>6. Closing(Lamp(b)) /\ Bounded(Lamp(b))
  BY <1>2, <1>3, <1>4, CloudAssumption DEF Closing, Bounded
<1>7. (b # 0 => Duty(b) # PwmMax) => Lit(Lamp(b))
  BY <1>1, <1>2, <1>3, LampIs DEF Lit, Lights
<1>8. Lamp(b)[1].op = "pwm" /\ Lamp(b)[5].op = "state" /\ \A i \in 1..5 : Lamp(b)[i].op # "toggle"
  BY <1>2
<1>9. QED
  BY <1>3, <1>5, <1>6, <1>7, <1>8 DEF Handler

LEMMA LampToggle ==
  /\ led_on = Lamp(100) /\ led_off = Lamp(0)
  /\ led_toggle = IF switch_state # 0 THEN Lamp(0) ELSE Lamp(100)
<1>1. Set(1) = Set(100)
  BY DEF Set
<1>2. QED
  BY <1>1 DEF led_on, led_off, led_toggle, Lamp

LEMMA PubHandler ==
  /\ Handler(Pub) /\ Lit(Pub) /\ Pub[1].op = "init" /\ Pub[Len(Pub)].op = "publish"
  /\ \A i \in 1..Len(Pub) : Pub[i].op # "changed"
  BY CloudAssumption DEF Pub, led_state_upload, Op, Ops, Handler, Chain, Follows, Lit, Lights, Closing, Bounded

LEMMA BreatheHandler ==
  LET T == <<Op("breathe", Nil, 0)>>
  IN  Handler(T) /\ Lit(T) /\ T[1].op = "breathe" /\ T[Len(T)].op = "breathe" /\ \A i \in 1..Len(T) : T[i].op # "changed"
  BY CloudAssumption DEF Op, Ops, Handler, Chain, Follows, Lit, Lights, Closing, Bounded

LEMMA BrightnessHandler ==
  ASSUME NEW b \in Int
  PROVE  LET T == Changing(led_brightness(b))
         IN  /\ Handler(T) /\ T[1].op = "last" /\ T[Len(T)].op = "publish"
             /\ (b # 0 => Duty(b) # PwmMax) => Lit(T)
<1> DEFINE T == Changing(led_brightness(b))
<1>1. /\ \A c \in Channels : Pwm(c, b) \in Ops /\ Pwm(c, b).op = "pwm" /\ Pwm(c, b).val = Duty(b)
      /\ Set(b) \in Ops /\ Set(b).op = "state" /\ Set(b).val = IF b = 0 THEN 0 ELSE 1
  BY OpsOK DEF Channels
<1>2. /\ T \in Seq(Ops) /\ Len(T) >= 8 /\ Len(T) <= 8
      /\ T[1].op = "last" /\ T[5].op = "state" /\ T[5].val = IF b = 0 THEN 0 ELSE 1
      /\ \A i \in 2..4 : T[i].op = "pwm" /\ T[i].val = Duty(b)
      /\ T[6].op = "changed" /\ T[7].op = "read" /\ T[8].op = "publish"
  BY <1>1 DEF Changing, led_brightness, led_state_upload, Op, Ops, Channels
<1>4. Chain(T)
  BY SMTT(30), <1>2 DEF Chain, Follows
<1>5. T[Len(T)] = T[8] /\ T # <<>>
  BY <1>2
<1>6. Bounded(T)
  BY <1>2, CloudAssumption DEF Bounded
<1>7. (b # 0 => Duty(b) # PwmMax) => Lit(T)
  BY <1>2 DEF Lit, Lights
<1>8. QED
  BY <1>2, <1>4, <1>5, <1>6, <1>7 DEF Handler, Closing

LEMMA ColourHandler ==
  ASSUME NEW b \in Int, NEW c \in Channels
  PROVE  LET T == Changing(led_colour(c, b))
         IN  /\ Handler(T) /\ T[1].op = "last" /\ T[Len(T)].op = "publish"
             /\ (b # 0 => Duty(b) # PwmMax) => Lit(T)
<1> DEFINE T == Changing(led_colour(c, b))
<1>1. /\ Pwm(c, b) \in Ops /\ Pwm(c, b).op = "pwm" /\ Pwm(c, b).val = Duty(b)
      /\ Set(b) \in Ops /\ Set(b).op = "state" /\ Set(b).val = IF b = 0 THEN 0 ELSE 1
  BY OpsOK
<1>2. /\ T \in Seq(Ops) /\ Len(T) >= 6 /\ Len(T) <= 6
      /\ T[1].op = "last" /\ T[2].op = "pwm" /\ T[2].val = Duty(b)
      /\ T[3].op = "state" /\ T[3].val = IF b = 0 THEN 0 ELSE 1
      /\ T[4].op = "changed" /\ T[5].op = "read" /\ T[6].op = "publish"
  BY <1>1 DEF Changing, led_colour, led_state_upload, Op, Ops
<1>4. Chain(T)
  BY <1>2 DEF Chain, Follows
<1>5. T[Len(T)] = T[6] /\ T # <<>>
  BY <1>2
<1>6. Bounded(T)
  BY <1>2, CloudAssumption DEF Bounded
<1>7. (b # 0 => Duty(b) # PwmMax) => Lit(T)
  BY <1>2 DEF Lit, Lights
<1>8. QED
  BY <1>2, <1>4, <1>5, <1>6, <1>7 DEF Handler, Closing


LEMMA PressHandler ==
  LET T == led_toggle \o led_state_upload
  IN  /\ Handler(T) /\ T[1].op = "pwm" /\ T[Len(T)].op = "publish"
      /\ \A i \in 1..Len(T) : T[i].op # "changed"
      /\ Duty(100) # PwmMax => Lit(T)
<1> DEFINE T == led_toggle \o led_state_upload
           b == IF switch_state # 0 THEN 0 ELSE 100
<1>1. /\ \A c \in Channels : Pwm(c, b) \in Ops /\ Pwm(c, b).op = "pwm" /\ Pwm(c, b).val = Duty(b)
      /\ Set(b) \in Ops /\ Set(b).op = "state" /\ Set(b).val = IF b = 0 THEN 0 ELSE 1
  BY OpsOK DEF Channels
<1>2. /\ T \in Seq(Ops) /\ Len(T) >= 7 /\ Len(T) <= 7
      /\ \A i \in 1..3 : T[i].op = "pwm" /\ T[i].val = Duty(b)
      /\ \A i \in 4..5 : T[i].op = "state" /\ T[i].val = IF b = 0 THEN 0 ELSE 1
      /\ T[6].op = "read" /\ T[7].op = "publish"
  <2>1. T = Lamp(b) \o led_state_upload
    BY LampToggle
  <2> HIDE DEF T, b
  <2>2. QED
    BY <1>1, <2>1 DEF Lamp, led_brightness, led_state_upload, Op, Ops, Channels
<1> HIDE DEF T
<1>3. Chain(T)
  BY <1>2 DEF Chain, Follows
<1>4. T[Len(T)] = T[7] /\ T # <<>>
  BY <1>2
<1>5. Bounded(T)
  BY <1>2, CloudAssumption DEF Bounded
<1>6. Duty(100) # PwmMax => Lit(T)
  BY <1>2 DEF Lit, Lights
<1>7. \A i \in 1..Len(T) : T[i].op # "changed"
  BY <1>2
<1>8. QED
  BY <1>2, <1>3, <1>4, <1>5, <1>6, <1>7 DEF Handler, Closing, T


\* led_flashing: the toggles and, behind them, one press.
LEMMA FlashHandler ==
  LET T == led_flashing
  IN  /\ Handler(T) /\ T[1].op \in {"toggle", "pwm"} /\ T[Len(T)].op = "state"
      /\ Duty(100) # PwmMax => Lit(T)
<1> DEFINE b == IF switch_state # 0 THEN 0 ELSE 100
           toggle == Op("toggle", Nil, 0)
           F == [i \in 1..FlashCount |-> toggle]
           T == F \o Lamp(b)
<1>1. led_flashing = T
  BY LampToggle DEF led_flashing
<1>2. b \in Int /\ (b # 0 => b = 100)
  OBVIOUS
<1>3. toggle \in Ops /\ toggle.op = "toggle"
  BY DEF Op, Ops
<1> HIDE DEF b, toggle
<1>4. F \in Seq(Ops) /\ Len(F) = FlashCount /\ \A i \in 1..FlashCount : F[i] = toggle
  BY <1>3, CloudAssumption
<1> HIDE DEF F
<1>5. /\ Lamp(b) \in Seq(Ops) /\ Len(Lamp(b)) >= 5 /\ Len(Lamp(b)) <= 5
      /\ \A i \in 1..3 : Lamp(b)[i].op = "pwm" /\ Lamp(b)[i].val = Duty(b)
      /\ \A i \in 4..5 : Lamp(b)[i].op = "state"
      /\ Chain(Lamp(b)) /\ (Duty(100) # PwmMax => Lit(Lamp(b)))
  <2>1. /\ \A c \in Channels : Pwm(c, b) \in Ops /\ Pwm(c, b).op = "pwm" /\ Pwm(c, b).val = Duty(b)
        /\ Set(b) \in Ops /\ Set(b).op = "state"
    BY <1>2, OpsOK DEF Channels
  <2>2. /\ Lamp(b) \in Seq(Ops) /\ Len(Lamp(b)) >= 5 /\ Len(Lamp(b)) <= 5
        /\ \A i \in 1..3 : Lamp(b)[i].op = "pwm" /\ Lamp(b)[i].val = Duty(b)
        /\ \A i \in 4..5 : Lamp(b)[i].op = "state"
    BY <2>1 DEF Lamp, led_brightness, Channels
  <2>3. QED
    BY <1>2, <2>2, LampHandler DEF Handler
<1> DEFINE n == FlashCount
<1>6. /\ T \in Seq(Ops) /\ Len(T) = n + 5 /\ T # <<>>
      /\ \A i \in 1..(n + 5) : T[i] = IF i <= n THEN toggle ELSE Lamp(b)[i - n]
  BY <1>4, <1>5, CloudAssumption
<1> HIDE DEF T
<1>7. T[n + 5].op = "state" /\ T[1].op \in {"toggle", "pwm"}
  BY <1>3, <1>5, <1>6, CloudAssumption
<1>8. ASSUME NEW i \in 1..(n + 4)
      PROVE  Follows(T[i], T[i + 1]) /\ (Duty(100) # PwmMax => Lights(T[i], T[i + 1]))
  <2>1. CASE i < n
    BY <1>3, <1>6, <2>1, CloudAssumption DEF Follows, Lights
  <2>2. CASE i = n
    BY <1>3, <1>5, <1>6, <2>2, CloudAssumption DEF Follows, Lights
  <2>3. CASE i > n
    <3>1. T[i] = Lamp(b)[i - n] /\ T[i + 1] = Lamp(b)[(i - n) + 1] /\ i - n \in 1..(Len(Lamp(b)) - 1)
      BY <1>5, <1>6, <2>3, CloudAssumption
    <3>2. QED
      BY <1>5, <3>1 DEF Chain, Lit
  <2>4. QED
    BY <2>1, <2>2, <2>3, CloudAssumption
<1>9. Bounded(T)
  BY <1>3, <1>5, <1>6, CloudAssumption DEF Bounded
<1>10. QED
  BY <1>1, <1>6, <1>7, <1>8, <1>9, CloudAssumption DEF Handler, Closing, Chain, Lit

\* A toggle within led_flashing is replaced by the statements of a press.
LEMMA ToggleHandler ==
  ASSUME NEW T \in Seq(Ops), T # <<>>, Handler(T), T[1].op = "toggle"
  PROVE  LET U == led_toggle \o Tail(T)
         IN  /\ Handler(U) /\ U[1].op = "pwm" /\ U[Len(U)] = T[Len(T)]
             /\ Duty(100) # PwmMax /\ Lit(T) => Lit(U)
             /\ (\E i \in 1..Len(U) : U[i].op = "changed") => \E i \in 1..Len(T) : T[i].op = "changed"
<1> DEFINE b == IF switch_state # 0 THEN 0 ELSE 100
           R == Tail(T)
           U == Lamp(b) \o R
<1>1. led_toggle \o Tail(T) = U
  BY LampToggle
<1>2. b \in Int /\ (b # 0 => b = 100)
  OBVIOUS
<1> HIDE DEF b
<1>3. /\ R \in Seq(Ops) /\ R # <<>> /\ Handler(R) /\ Follows(T[1], R[1]) /\ R[Len(R)] = T[Len(T)]
      /\ Len(R) = Len(T) - 1 /\ \A i \in 1..Len(R) : R[i] = T[i + 1]
      /\ Lit(T) => Lit(R) /\ Lights(T[1], R[1])
  BY TailOK
<1> HIDE DEF R
<1>4. /\ Lamp(b) \in Seq(Ops) /\ Len(Lamp(b)) >= 5 /\ Len(Lamp(b)) <= 5 /\ Lamp(b) # <<>>
      /\ \A i \in 1..5 : Lamp(b)[i].op \in {"pwm", "state"}
      /\ Lamp(b)[1].op = "pwm" /\ Lamp(b)[5].op = "state"
      /\ Chain(Lamp(b)) /\ (Duty(100) # PwmMax => Lit(Lamp(b)))
  <2>1. /\ \A c \in Channels : Pwm(c, b) \in Ops /\ Pwm(c, b).op = "pwm"
        /\ Set(b) \in Ops /\ Set(b).op = "state"
    BY <1>2, OpsOK DEF Channels
  <2>2. /\ Lamp(b) \in Seq(Ops) /\ Len(Lamp(b)) >= 5 /\ Len(Lamp(b)) <= 5 /\ Lamp(b) # <<>>
        /\ \A i \in 1..5 : Lamp(b)[i].op \in {"pwm", "state"}
    BY <2>1 DEF Lamp, led_brightness, Channels
  <2>3. QED
    BY <1>2, <2>2, LampHandler DEF Handler
<1>5. Follows(Lamp(b)[5], R[1]) /\ (Lit(T) => Lights(Lamp(b)[5], R[1]))
  BY <1>3, <1>4 DEF Follows, Lights
<1>6. Lamp(b)[Len(Lamp(b))] = Lamp(b)[5]
  BY <1>4
<1>7. /\ U \in Seq(Ops) /\ U # <<>> /\ Len(U) = Len(Lamp(b)) + Len(R)
      /\ U[1] = Lamp(b)[1] /\ Chain(U) /\ Closing(U) /\ U[Len(U)] = R[Len(R)]
      /\ \A i \in 1..Len(U) : U[i] = IF i <= Len(Lamp(b)) THEN Lamp(b)[i] ELSE R[i - Len(Lamp(b))]
  BY <1>3, <1>4, <1>5, <1>6, ConcatOK DEF Handler
<1> HIDE DEF U
<1>8. Len(U) = Len(T) + 4 /\ \A i \in 1..Len(U) : U[i] = IF i <= 5 THEN Lamp(b)[i] ELSE T[i - 4]
  <2>1. Len(U) = Len(T) + 4
    BY <1>3, <1>4, <1>7
  <2>2. ASSUME NEW i \in 1..Len(U), i <= 5
        PROVE  U[i] = Lamp(b)[i]
    BY <1>4, <1>7, <2>2
  <2>3. ASSUME NEW i \in 1..Len(U), i > 5
        PROVE  U[i] = T[i - 4]
    <3>1. i > Len(Lamp(b)) /\ i - Len(Lamp(b)) = i - 5 /\ i - 5 \in 1..Len(R)
      BY <1>3, <1>4, <2>1, <2>3
    <3>2. U[i] = R[i - 5]
      BY <1>7, <3>1
    <3>3. R[i - 5] = T[(i - 5) + 1]
      BY <1>3, <3>1
    <3>4. QED
      BY <3>2, <3>3
  <2>4. QED
    BY <2>1, <2>2, <2>3
<1>9. Bounded(U)
  <2>1. Len(T) - 1 <= FlashCount + 4
    BY DEF Handler, Bounded
  <2>2. ASSUME NEW i \in 1..Len(U), U[i].op = "toggle"
        PROVE  Len(U) - i <= FlashCount + 4
    <3>1. i > 5 /\ T[i - 4].op = "toggle" /\ i - 4 \in 1..Len(T)
      BY <1>4, <1>8, <2>2
    <3>2. Len(T) - (i - 4) <= FlashCount + 4
      BY <3>1 DEF Handler, Bounded
    <3>3. QED
      BY <1>8, <3>2, CloudAssumption
  <2>3. QED
    BY <1>8, <2>1, <2>2, CloudAssumption DEF Bounded
<1>10. ASSUME Duty(100) # PwmMax, Lit(T)
       PROVE  Lit(U)
  <2> SUFFICES ASSUME NEW i \in 1..(Len(U) - 1)
               PROVE  Lights(U[i], U[i + 1])
    BY DEF Lit
  <2>1. CASE i < 5
    BY <1>4, <1>8, <1>10, <2>1 DEF Lit
  <2>2. CASE i = 5
    <3>1. U[i] = Lamp(b)[5] /\ U[i + 1] = R[1]
      BY <1>3, <1>8, <2>2
    <3>2. QED
      BY <1>5, <1>10, <3>1
  <2>3. CASE i > 5
    <3>1. U[i] = T[i - 4] /\ U[i + 1] = T[(i - 4) + 1] /\ i - 4 \in 1..(Len(T) - 1)
      BY <1>8, <2>3
    <3>2. QED
      BY <1>10, <3>1 DEF Lit
  <2>4. QED
    BY <2>1, <2>2, <2>3
<1>11. ASSUME NEW i \in 1..Len(U), U[i].op = "changed"
       PROVE  \E j \in 1..Len(T) : T[j].op = "changed"
  <2>1. i > 5 /\ T[i - 4].op = "changed" /\ i - 4 \in 1..Len(T)
    BY <1>4, <1>8, <1>11
  <2>2. QED
    BY <2>1
<1>12. Handler(U)
  BY <1>7, <1>9 DEF Handler
<1>13. QED
  BY <1>1, <1>3, <1>4, <1>7, <1>10, <1>11, <1>12


-----------------------------------------------------------------------------
(* Types.                                                                  *)

TypeInv == TypeOK /\ ThreadsOK

LEMMA HeadOK ==
  ASSUME ThreadsOK, NEW t \in Threads, Busy(t)
  PROVE  /\ thr[t].todo \in Seq(Ops) /\ thr[t].todo # <<>> /\ Handler(thr[t].todo)
         /\ What(t) = thr[t].todo[1] /\ What(t) \in Ops
  BY TailOK DEF ThreadsOK, Locals, Busy, What

\* What a step of t leaves of the threads' state.
LEMMA StepLeaves ==
  ASSUME TypeInv, NEW t \in Threads, Step(t)
  PROVE  /\ Busy(t) /\ thr' \in [Threads -> Locals]
         /\ thr'[Other(t)] = thr[Other(t)]
         /\ \/ thr'[t].todo = Tail(thr[t].todo)
            \/ thr'[t].todo = <<>> /\ What(t).op \in {"changed", "publish"}
            \/ thr'[t] = thr[t] /\ What(t).op = "breathe"
            \/ thr'[t].todo = led_toggle \o Tail(thr[t].todo) /\ What(t).op = "toggle"
<1>1. Busy(t)
  BY DEF Step, Next1, SetDuty, SetState, ReadLast, IfChanged, ReadState, Publish, Toggle, Breathe, SetInit, Subscribe
<1>2. /\ thr \in [Threads -> Locals] /\ thr[t] \in Locals /\ Other(t) \in Threads \ {t}
      /\ Tail(thr[t].todo) \in Seq(Ops) /\ Idle \in Locals /\ switch_state \in {0, 1}
  BY <1>1, HeadOK, TailOK, EmptySeq DEF TypeInv, TypeOK, ThreadsOK, Threads, Other, Idle, Locals
<1>3. CASE Toggle(t)
  <2>1. led_toggle \o Tail(thr[t].todo) \in Seq(Ops)
    BY <1>1, <1>3, HeadOK, ToggleHandler DEF TypeInv, Toggle, Next1, Handler
  <2>2. QED
    BY <1>1, <1>2, <1>3, <2>1 DEF Toggle, Next1, What, Locals
<1>4. CASE SetDuty(t) \/ SetState(t) \/ SetInit(t) \/ Subscribe(t)
  <2>1. thr' = Done(t)
    BY <1>4 DEF SetDuty, SetState, SetInit, Subscribe
  <2>2. QED
    BY <1>1, <1>2, <2>1 DEF Done, Locals
<1>5. CASE ReadLast(t) \/ ReadState(t)
  <2> DEFINE D == Done(t)
  <2>1. D \in [Threads -> Locals] /\ D[Other(t)] = thr[Other(t)] /\ D[t].todo = Tail(thr[t].todo)
    BY <1>2 DEF Done, Locals
  <2>2. thr' = [D EXCEPT ![t].last = switch_state] \/ thr' = [D EXCEPT ![t].read = switch_state]
    BY <1>5 DEF ReadLast, ReadState
  <2> HIDE DEF D
  <2>3. ASSUME NEW l \in {0, 1}
        PROVE  /\ [D[t] EXCEPT !.last = l] \in Locals /\ [D[t] EXCEPT !.last = l].todo = D[t].todo
               /\ [D[t] EXCEPT !.read = l] \in Locals /\ [D[t] EXCEPT !.read = l].todo = D[t].todo
    BY <2>1 DEF Locals
  <2>4. thr' = [D EXCEPT ![t] = [D[t] EXCEPT !.last = switch_state]] \/ thr' = [D EXCEPT ![t] = [D[t] EXCEPT !.read = switch_state]]
    BY <2>2
  <2>5. QED
    BY <1>1, <1>2, <2>1, <2>3, <2>4
<1>6. CASE IfChanged(t)
  <2>1. What(t).op = "changed" /\ (thr' = Done(t) \/ thr' = [thr EXCEPT ![t] = Idle])
    BY <1>6 DEF IfChanged, Next1, What
  <2>2. CASE thr' = Done(t)
    BY <1>1, <1>2, <2>2 DEF Done, Locals
  <2>3. CASE thr' = [thr EXCEPT ![t] = Idle]
    BY <1>1, <1>2, <2>1, <2>3 DEF Idle
  <2>4. QED
    BY <2>1, <2>2, <2>3
<1>7. CASE Publish(t)
  BY <1>1, <1>2, <1>7 DEF Publish, Next1, What, Idle
<1>8. CASE Breathe(t)
  BY <1>1, <1>2, <1>8 DEF Breathe, Next1, What
<1>9. QED
  BY <1>3, <1>4, <1>5, <1>6, <1>7, <1>8 DEF Step

LEMMA StepThreads ==
  ASSUME TypeInv, NEW t \in Threads, Step(t)
  PROVE  ThreadsOK'
<1>1. /\ Busy(t) /\ thr' \in [Threads -> Locals] /\ thr'[Other(t)] = thr[Other(t)]
      /\ \/ thr'[t].todo = Tail(thr[t].todo)
         \/ thr'[t].todo = <<>>
         \/ thr'[t] = thr[t]
         \/ thr'[t].todo = led_toggle \o Tail(thr[t].todo) /\ What(t).op = "toggle"
  BY StepLeaves
<1>2. thr'[t].todo # <<>> => Handler(thr'[t].todo)
  <2>1. /\ thr[t].todo \in Seq(Ops) /\ thr[t].todo # <<>> /\ Handler(thr[t].todo)
        /\ What(t) = thr[t].todo[1]
    BY <1>1, HeadOK DEF TypeInv
  <2>2. Tail(thr[t].todo) # <<>> => Handler(Tail(thr[t].todo))
    BY <2>1, TailOK
  <2>3. What(t).op = "toggle" => Handler(led_toggle \o Tail(thr[t].todo))
    BY <2>1, ToggleHandler
  <2>4. QED
    BY <1>1, <2>1, <2>2, <2>3
<1>3. \A u \in Threads : u = t \/ u = Other(t)
  BY DEF Threads, Other
<1>4. \A u \in Threads : thr'[u].todo # <<>> => Handler(thr'[u].todo)
  BY <1>1, <1>2, <1>3 DEF TypeInv, ThreadsOK, Busy
<1>5. QED
  BY <1>1, <1>4 DEF ThreadsOK, Busy

\* A handler begins in a thread that is idle.
LEMMA BeginThreads ==
  ASSUME TypeInv, NEW t \in Threads, NEW T, Handler(T), Begin(t, T)
  PROVE  /\ ThreadsOK' /\ thr'[t].todo = T /\ thr'[Other(t)] = thr[Other(t)]
         /\ ~Busy(t) /\ Busy(t)'
<1>1. T \in Seq(Ops) /\ T # <<>>
  BY DEF Handler, Closing
<1>2. thr' \in [Threads -> Locals] /\ thr'[t].todo = T /\ \A u \in Threads \ {t} : thr'[u] = thr[u]
  BY <1>1 DEF TypeInv, ThreadsOK, Begin, Idle, Locals
<1>3. Other(t) \in Threads \ {t} /\ \A u \in Threads : u = t \/ u = Other(t)
  BY DEF Threads, Other
<1>4. QED
  BY <1>1, <1>2, <1>3 DEF TypeInv, ThreadsOK, Begin, Busy


LEMMA ThreadsBounded ==
  ASSUME ThreadsOK
  PROVE  \A t \in Threads : Len(thr[t].todo) <= FlashCount + 9 /\ thr[t].last \in {0, 1} /\ thr[t].read \in {0, 1}
<1> SUFFICES ASSUME NEW t \in Threads
             PROVE  Len(thr[t].todo) <= FlashCount + 9 /\ thr[t].last \in {0, 1} /\ thr[t].read \in {0, 1}
  OBVIOUS
<1>1. thr[t].last \in {0, 1} /\ thr[t].read \in {0, 1}
  BY DEF ThreadsOK, Locals
<1>2. CASE Busy(t)
  BY <1>1, <1>2 DEF ThreadsOK, Handler, Bounded
<1>3. CASE ~Busy(t)
  BY <1>1, <1>3, CloudAssumption, EmptySeq DEF Busy
<1>4. QED
  BY <1>2, <1>3

LightType  == duty \in [Channels -> 0..255] /\ switch_state \in {0, 1}
ShownType  == cloud \in {0, 1} /\ report \in {0, 1, Nil} /\ command \in Values \cup {Nil}
OnlineType == /\ session \in BOOLEAN /\ pub \in BOOLEAN
              /\ topics \subseteq {"ota", "led"} /\ (topics # {} => session)
OtherType  == /\ ota \in {"no", "connect", "download", "update", "reboot"} /\ whole \in BOOLEAN
              /\ fw_type \in {Nil, "INIT", "UPDATE"} /\ raced \in BOOLEAN /\ unset \in BOOLEAN

LEMMA TypeParts ==
  /\ TypeInv <=> ThreadsOK /\ LightType /\ ShownType /\ OnlineType /\ OtherType
<1>1. TypeInv => ThreadsOK /\ LightType /\ ShownType /\ OnlineType /\ OtherType
  BY DEF TypeInv, TypeOK, LightType, ShownType, OnlineType, OtherType
<1>2. ThreadsOK /\ LightType /\ ShownType /\ OnlineType /\ OtherType => TypeInv
  BY ThreadsBounded DEF TypeInv, TypeOK, LightType, ShownType, OnlineType, OtherType
<1>3. QED
  BY <1>1, <1>2

LEMMA TypeStep ==
  ASSUME TypeInv, NEW t \in Threads, Step(t)
  PROVE  ThreadsOK' /\ LightType' /\ ShownType' /\ OnlineType' /\ OtherType'
<1>1. ThreadsOK'
  BY StepThreads
<1>2. LightType /\ ShownType /\ OnlineType /\ OtherType
  BY TypeParts
<1>3. ASSUME Busy(t)
      PROVE  /\ What(t) \in Ops /\ thr[t].read \in {0, 1} /\ thr[t].last \in {0, 1}
  BY <1>3, HeadOK, ThreadsBounded DEF TypeInv
<1>4. CASE SetDuty(t)
  <2>1. What(t).on \in Channels /\ What(t).val \in 0..255
    BY <1>3, <1>4 DEF SetDuty, Next1, What, Ops
  <2>2. QED
    BY <1>1, <1>2, <1>4, <2>1 DEF SetDuty, online, update, nvs, shown, LightType, ShownType, OnlineType, OtherType
<1>5. CASE SetState(t)
  <2>1. What(t).val \in {0, 1}
    BY <1>3, <1>5 DEF SetState, Next1, What, Ops
  <2>2. QED
    BY <1>1, <1>2, <1>5, <2>1 DEF SetState, online, update, nvs, shown, LightType, ShownType, OnlineType, OtherType
<1>6. CASE ReadLast(t) \/ IfChanged(t) \/ ReadState(t) \/ Toggle(t)
  <2>1. UNCHANGED <<light, online, update, nvs, shown, raced>>
    BY <1>6 DEF ReadLast, IfChanged, ReadState, Toggle
  <2>2. QED
    BY <1>1, <1>2, <2>1 DEF light, online, update, nvs, shown, LightType, ShownType, OnlineType, OtherType
<1>7. CASE Publish(t)
  BY <1>1, <1>2, <1>3, <1>7 DEF Publish, Next1, light, online, update, nvs, shown, LightType, ShownType, OnlineType, OtherType
<1>8. CASE Breathe(t)
  BY <1>1, <1>2, <1>8, CloudAssumption DEF Breathe, online, update, nvs, shown, LightType, ShownType, OnlineType, OtherType
<1>9. CASE SetInit(t)
  <2>1. UNCHANGED <<light, online, update, shown, raced>>
    BY <1>9 DEF SetInit
  <2>2. LightType' /\ ShownType' /\ OnlineType'
    BY <1>2, <2>1 DEF light, online, shown, LightType, ShownType, OnlineType
  <2>3. OtherType'
    BY <1>2, <1>9, <2>1 DEF SetInit, update, OtherType
  <2>4. QED
    BY <1>1, <2>2, <2>3
<1>10. CASE Subscribe(t)
  <2>1. What(t).on \in {"ota", "led"}
    BY <1>3, <1>10 DEF Subscribe, Next1, What, Ops
  <2>2. QED
    <3>1. UNCHANGED <<light, session, pub, update, nvs, shown, raced>>
      BY <1>10 DEF Subscribe
    <3>2. LightType' /\ ShownType' /\ OtherType'
      BY <1>2, <3>1 DEF light, update, nvs, shown, LightType, ShownType, OtherType
    <3>3. OnlineType'
      <4>1. topics' = topics \/ (session /\ topics' = topics \cup {What(t).on})
        BY <1>10 DEF Subscribe
      <4>2. session' = session /\ pub' = pub
        BY <3>1
      <4>3. QED
        BY ZenonT(30), <1>2, <2>1, <4>1, <4>2 DEF OnlineType
    <3>4. QED
      BY <1>1, <3>2, <3>3
<1>11. QED
  BY <1>4, <1>5, <1>6, <1>7, <1>8, <1>9, <1>10 DEF Step

LEMMA TypeBegin ==
  ASSUME TypeInv,
         \/ ShortPress \/ Key2 \/ Close \/ TakePub
         \/ SwitchCommand \/ \E b \in Values : BrightnessCommand(b) \/ \E c \in Colours : ColourCommand(c, b)
  PROVE  ThreadsOK' /\ LightType' /\ ShownType' /\ OnlineType' /\ OtherType'
<1> USE DEF light, online, update, nvs, shown, LightType, ShownType, OnlineType, OtherType, Alone
<1>1. LightType /\ ShownType /\ OnlineType /\ OtherType
  BY TypeParts
<1>2. "work" \in Threads /\ "mqtt" \in Threads /\ Values \subseteq Int /\ Colours \subseteq Channels
  BY CloudAssumption DEF Threads, Channels
<1>3. CASE ShortPress
  BY <1>1, <1>2, <1>3, PressHandler, BeginThreads DEF ShortPress
<1>4. CASE Key2
  BY <1>1, <1>2, <1>4, BreatheHandler, BeginThreads DEF Key2
<1>5. CASE Close
  BY <1>1, <1>2, <1>5, FlashHandler, BeginThreads DEF Close
<1>6. CASE TakePub
  BY <1>1, <1>2, <1>6, PubHandler, BeginThreads DEF TakePub
<1>7. CASE SwitchCommand
  <2>1. Handler(IF command # 0 THEN led_on ELSE led_off)
    BY LampToggle, LampHandler
  <2>2. QED
    BY <1>1, <1>2, <1>7, <2>1, BeginThreads DEF SwitchCommand
<1>8. ASSUME NEW b \in Values, BrightnessCommand(b)
      PROVE  ThreadsOK' /\ LightType' /\ ShownType' /\ OnlineType' /\ OtherType'
  <2>1. ThreadsOK'
    BY <1>2, <1>8, BrightnessHandler, BeginThreads DEF BrightnessCommand
  <2>2. QED
    BY <1>1, <1>8, <2>1 DEF BrightnessCommand
<1>9. ASSUME NEW b \in Values, NEW c \in Colours, ColourCommand(c, b)
      PROVE  ThreadsOK' /\ LightType' /\ ShownType' /\ OnlineType' /\ OtherType'
  <2>1. b \in Int /\ c \in Channels
    BY <1>2
  <2>2. Handler(Changing(led_colour(c, b)))
    BY <2>1, ColourHandler
  <2>3. QED
    BY <1>1, <1>2, <1>9, <2>2, BeginThreads DEF ColourCommand
<1>10. QED
  BY <1>3, <1>4, <1>5, <1>6, <1>7, <1>8, <1>9

LEMMA RestartThreads ==
  ASSUME thr' = [t \in Threads |-> Idle]
  PROVE  ThreadsOK' /\ \A t \in Threads : ~Busy(t)'
  BY EmptySeq DEF ThreadsOK, Busy, Idle, Locals

LEMMA TypeOther ==
  ASSUME TypeInv,
         \/ SessionUp \/ SessionDown \/ ReportArrives \/ ReportLost \/ (\E b \in Values : SendSwitch(b))
         \/ UpdateRequest \/ UpdateFails \/ DownloadBegins \/ Downloaded
         \/ SetUpdate \/ Reboot \/ PowerLoss \/ UNCHANGED vars
  PROVE  ThreadsOK' /\ LightType' /\ ShownType' /\ OnlineType' /\ OtherType'
<1> USE DEF light, online, update, nvs, shown, LightType, ShownType, OnlineType, OtherType
<1>1. LightType /\ ShownType /\ OnlineType /\ OtherType
  BY TypeParts
<1>2. CASE Restart
  BY <1>1, <1>2, RestartThreads, CloudAssumption DEF Restart
<1>3. CASE ~Restart
  <2>1. thr' = thr
    BY <1>3 DEF SessionUp, SessionDown, ReportArrives, ReportLost, SendSwitch, UpdateRequest, UpdateFails, DownloadBegins, Downloaded, SetUpdate, Reboot, PowerLoss, Ota, vars
  <2>2. ThreadsOK'
    BY <2>1 DEF TypeInv, ThreadsOK, Busy
  <2>3. CASE SessionUp \/ SessionDown \/ ReportArrives \/ ReportLost \/ (\E b \in Values : SendSwitch(b))
    <3>1. LightType' /\ OtherType'
      <4>1. UNCHANGED <<light, update, nvs>> /\ (raced' = raced \/ raced' = (raced \/ report # Nil))
        BY <2>3 DEF SessionUp, SessionDown, ReportArrives, ReportLost, SendSwitch
      <4>2. raced' \in BOOLEAN
        BY ZenonT(30), <1>1, <4>1
      <4>3. QED
        BY <1>1, <4>1, <4>2
    <3>2. OnlineType'
      BY <1>1, <2>3 DEF SessionUp, SessionDown, ReportArrives, ReportLost, SendSwitch
    <3>3. ShownType'
      BY <1>1, <2>3 DEF SessionUp, SessionDown, ReportArrives, ReportLost, SendSwitch, On
    <3>4. QED
      BY <2>2, <3>1, <3>2, <3>3
  <2>4. CASE UpdateRequest \/ UpdateFails \/ DownloadBegins \/ Downloaded \/ SetUpdate
    <3>1. LightType' /\ ShownType' /\ OnlineType'
      <4>1. UNCHANGED <<light, online, shown>>
        BY <2>4 DEF UpdateRequest, UpdateFails, DownloadBegins, Downloaded, SetUpdate, Ota
      <4>2. QED
        BY <1>1, <4>1
    <3>2. OtherType'
      BY <1>1, <2>4 DEF UpdateRequest, UpdateFails, DownloadBegins, Downloaded, SetUpdate, Ota
    <3>3. QED
      BY <2>2, <3>1, <3>2
  <2>5. CASE UNCHANGED vars
    BY <1>1, <2>2, <2>5 DEF vars
  <2>6. QED
    BY <1>3, <2>3, <2>4, <2>5 DEF Reboot, PowerLoss
<1>4. QED
  BY <1>2, <1>3

LEMMA TypeInvHolds == Spec => []TypeInv
<1>1. Init => TypeInv
  <2> SUFFICES ASSUME Init
               PROVE  TypeInv
    OBVIOUS
  <2>1. ThreadsOK
    BY EmptySeq DEF Init, ThreadsOK, Busy, Idle, Locals
  <2>2. LightType /\ ShownType /\ OnlineType /\ OtherType
    BY CloudAssumption DEF Init, LightType, ShownType, OnlineType, OtherType
  <2>3. QED
    BY <2>1, <2>2, TypeParts
<1>2. TypeInv /\ [Next]_vars => TypeInv'
  <2> SUFFICES ASSUME TypeInv, [Next]_vars
               PROVE  TypeInv'
    OBVIOUS
  <2>1. ThreadsOK' /\ LightType' /\ ShownType' /\ OnlineType' /\ OtherType'
    <3>1. CASE \E t \in Threads : Step(t)
      BY <3>1, TypeStep
    <3>2. CASE \/ ShortPress \/ Key2 \/ Close \/ TakePub
               \/ SwitchCommand \/ \E b \in Values : BrightnessCommand(b) \/ \E c \in Colours : ColourCommand(c, b)
      BY <3>2, TypeBegin
    <3>3. CASE \/ SessionUp \/ SessionDown \/ ReportArrives \/ ReportLost \/ (\E b \in Values : SendSwitch(b))
         \/ UpdateRequest \/ UpdateFails \/ DownloadBegins \/ Downloaded
               \/ SetUpdate \/ Reboot \/ PowerLoss \/ UNCHANGED vars
      BY <3>3, TypeOther
    <3>4. QED
      BY <3>1, <3>2, <3>3 DEF Next
  <2>2. QED
    BY <2>1, TypeParts, PTL
<1>3. QED
  BY <1>1, <1>2, PTL DEF Spec

\* Every variable keeps its type, a duty its eight bits, and no handler ever
\* has more statements to come than flashing inside a toggle needs.  (led.c,
\* work_task, event_handler_mqtt_recved_data, ota.c.)
THEOREM CloudTypeCorrect == Spec => []TypeOK
<1>1. TypeInv => TypeOK
  BY DEF TypeInv
<1>2. QED
  BY <1>1, TypeInvHolds, PTL

-----------------------------------------------------------------------------
(* The update.                                                             *)

LEMMA SubscribeFollows ==
  ASSUME TypeInv, NEW t \in Threads, Step(t), Busy(t)', What(t)'.op = "subscribe"
  PROVE  What(t).op \in {"init", "subscribe"}
<1>1. /\ Busy(t)
      /\ \/ thr'[t].todo = Tail(thr[t].todo)
         \/ thr'[t].todo = <<>>
         \/ thr'[t] = thr[t] /\ What(t).op = "breathe"
         \/ thr'[t].todo = led_toggle \o Tail(thr[t].todo) /\ What(t).op = "toggle"
  BY StepLeaves
<1>2. /\ thr[t].todo \in Seq(Ops) /\ thr[t].todo # <<>> /\ Handler(thr[t].todo)
      /\ What(t) = thr[t].todo[1] /\ What(t) \in Ops
  BY <1>1, HeadOK DEF TypeInv
<1>3. ThreadsOK' => What(t)' = thr'[t].todo[1]
  BY HeadTailProperties DEF ThreadsOK, Locals, Busy, What
<1>4. What(t)' = thr'[t].todo[1] /\ thr'[t].todo # <<>>
  BY <1>3, StepThreads DEF Busy
<1>5. CASE thr'[t].todo = Tail(thr[t].todo)
  BY <1>2, <1>4, <1>5, TailOK DEF Follows
<1>6. CASE thr'[t].todo = led_toggle \o Tail(thr[t].todo) /\ What(t).op = "toggle"
  <2>1. thr'[t].todo[1].op = "pwm"
    BY <1>2, <1>6, ToggleHandler
  <2>2. QED
    BY <1>4, <2>1
<1>7. CASE thr'[t] = thr[t] /\ What(t).op = "breathe"
  BY <1>2, <1>4, <1>7
<1>8. QED
  BY <1>1, <1>4, <1>5, <1>6, <1>7

\* A handler's first statement is no subscription.
LEMMA BeginsOther ==
  ASSUME TypeInv,
         \/ ShortPress \/ Key2 \/ Close \/ TakePub
         \/ SwitchCommand \/ \E b \in Values : BrightnessCommand(b) \/ \E c \in Colours : ColourCommand(c, b)
  PROVE  \E t \in Threads : /\ thr'[Other(t)] = thr[Other(t)]
                            /\ Busy(t)' => What(t)'.op # "subscribe"
<1>1. "work" \in Threads /\ "mqtt" \in Threads /\ Values \subseteq Int /\ Colours \subseteq Channels
  BY CloudAssumption DEF Threads, Channels
<1>2. ASSUME NEW t \in Threads, NEW T, Handler(T), Begin(t, T), T[1].op # "subscribe"
      PROVE  thr'[Other(t)] = thr[Other(t)] /\ What(t)'.op # "subscribe"
  <2>1. thr'[Other(t)] = thr[Other(t)] /\ thr'[t].todo = T
    BY <1>2, BeginThreads
  <2>2. Head(T) = T[1]
    BY <1>2, TailOK DEF Handler, Closing
  <2>3. QED
    BY <1>2, <2>1, <2>2 DEF What
<1>3. CASE ShortPress
  BY <1>1, <1>2, <1>3, PressHandler DEF ShortPress
<1>4. CASE Key2
  BY <1>1, <1>2, <1>4, BreatheHandler DEF Key2
<1>5. CASE Close
  BY <1>1, <1>2, <1>5, FlashHandler DEF Close
<1>6. CASE TakePub
  BY <1>1, <1>2, <1>6, PubHandler DEF TakePub
<1>7. CASE SwitchCommand
  <2>1. Handler(IF command # 0 THEN led_on ELSE led_off) /\ (IF command # 0 THEN led_on ELSE led_off)[1].op = "pwm"
    BY LampToggle, LampHandler
  <2>2. QED
    BY <1>1, <1>2, <1>7, <2>1 DEF SwitchCommand
<1>8. ASSUME NEW b \in Values, BrightnessCommand(b)
      PROVE  thr'[Other("mqtt")] = thr[Other("mqtt")] /\ What("mqtt")'.op # "subscribe"
  BY <1>1, <1>2, <1>8, BrightnessHandler DEF BrightnessCommand
<1>9. ASSUME NEW b \in Values, NEW c \in Colours, ColourCommand(c, b)
      PROVE  thr'[Other("mqtt")] = thr[Other("mqtt")] /\ What("mqtt")'.op # "subscribe"
  <2>1. b \in Int /\ c \in Channels
    BY <1>1
  <2>2. Handler(Changing(led_colour(c, b))) /\ Changing(led_colour(c, b))[1].op = "last"
    BY <2>1, ColourHandler
  <2>3. QED
    BY <1>1, <1>2, <1>9, <2>2 DEF ColourCommand
<1>10. QED
  BY <1>1, <1>3, <1>4, <1>5, <1>6, <1>7, <1>8, <1>9

LEMMA UpdateStep ==
  ASSUME TypeInv, UpdateInv, NEW t \in Threads, Step(t)
  PROVE  UpdateInv'
<1>1. /\ Busy(t) /\ thr'[Other(t)] = thr[Other(t)]
      /\ \A u \in Threads : u = t \/ u = Other(t)
  BY StepLeaves DEF Threads, Other
<1>2. (Busy(t)' /\ What(t)'.op = "subscribe") => What(t).op \in {"init", "subscribe"}
  BY SubscribeFollows
<1>3. \A u \in Threads \ {t} : (Busy(u)' <=> Busy(u)) /\ What(u)' = What(u)
  BY <1>1 DEF Busy, What
<1>4. UNCHANGED <<ota, whole>>
  BY DEF Step, SetDuty, SetState, ReadLast, IfChanged, ReadState, Publish, Toggle, Breathe, SetInit, Subscribe, update
<1>5. CASE SetInit(t)
  <2>1. Taken' /\ topics' = topics
    BY <1>5 DEF SetInit, Taken, online
  <2>2. QED
    BY <1>4, <2>1 DEF UpdateInv, UpdateIsWhole, Taken
<1>6. CASE Subscribe(t)
  <2>1. UNCHANGED <<fw_type, unset>> /\ What(t).op = "subscribe" /\ topics' \subseteq topics \cup {What(t).on}
    BY <1>6 DEF Subscribe, Next1, What, nvs
  <2>2. ota # "reboot" => Taken
    BY <1>1, <2>1 DEF UpdateInv
  <2>3. QED
    BY <1>4, <2>1, <2>2 DEF UpdateInv, UpdateIsWhole, Taken
<1>7. CASE SetDuty(t) \/ SetState(t) \/ ReadLast(t) \/ IfChanged(t) \/ ReadState(t) \/ Publish(t) \/ Toggle(t) \/ Breathe(t)
  <2>1. UNCHANGED <<fw_type, unset, topics>> /\ What(t).op \notin {"init", "subscribe"}
    BY <1>7 DEF SetDuty, SetState, ReadLast, IfChanged, ReadState, Publish, Toggle, Breathe, Next1, What, nvs, online
  <2>2. QED
    BY <1>2, <1>3, <1>4, <2>1 DEF UpdateInv, UpdateIsWhole, Taken
<1>8. QED
  BY <1>5, <1>6, <1>7 DEF Step

LEMMA UpdateBegin ==
  ASSUME TypeInv, UpdateInv,
         \/ ShortPress \/ Key2 \/ Close \/ TakePub
         \/ SwitchCommand \/ \E b \in Values : BrightnessCommand(b) \/ \E c \in Colours : ColourCommand(c, b)
  PROVE  UpdateInv'
<1>1. PICK t \in Threads : thr'[Other(t)] = thr[Other(t)] /\ (Busy(t)' => What(t)'.op # "subscribe")
  BY BeginsOther
<1>2. \A u \in Threads : u = t \/ ((Busy(u)' <=> Busy(u)) /\ What(u)' = What(u))
  BY <1>1 DEF Busy, What, Threads, Other
<1>3. UNCHANGED <<ota, whole, fw_type, unset>> /\ topics' \subseteq topics
  BY DEF ShortPress, Key2, Close, TakePub, SwitchCommand, BrightnessCommand, ColourCommand, update, nvs, online
<1>4. QED
  BY <1>1, <1>2, <1>3 DEF UpdateInv, UpdateIsWhole, Taken

LEMMA UpdateOther ==
  ASSUME TypeInv, UpdateInv,
         \/ SessionUp \/ SessionDown \/ ReportArrives \/ ReportLost \/ (\E b \in Values : SendSwitch(b))
         \/ UpdateRequest \/ UpdateFails \/ DownloadBegins \/ Downloaded
         \/ SetUpdate \/ Reboot \/ PowerLoss \/ UNCHANGED vars
  PROVE  UpdateInv'
<1>1. CASE Restart
  BY <1>1, RestartThreads DEF Restart, nvs, UpdateInv, UpdateIsWhole, Taken
<1>2. CASE ~Restart
  <2>1. thr' = thr
    BY <1>2 DEF SessionUp, SessionDown, ReportArrives, ReportLost, SendSwitch, UpdateRequest, UpdateFails, DownloadBegins, Downloaded, SetUpdate, Reboot, PowerLoss, Ota, vars
  <2>2. \A u \in Threads : (Busy(u)' <=> Busy(u)) /\ What(u)' = What(u)
    BY <2>1 DEF Busy, What
  <2>3. CASE SessionUp \/ SessionDown \/ ReportArrives \/ ReportLost \/ (\E b \in Values : SendSwitch(b)) \/ UNCHANGED vars
    BY <2>2, <2>3 DEF SessionUp, SessionDown, ReportArrives, ReportLost, SendSwitch, vars, update, nvs, online, UpdateInv, UpdateIsWhole, Taken
  <2>4. CASE UpdateRequest
    BY <2>2, <2>4 DEF UpdateRequest, Command, Ota, nvs, online, UpdateInv, UpdateIsWhole, Taken
  <2>5. CASE UpdateFails
    BY <2>2, <2>5 DEF UpdateFails, Ota, nvs, online, UpdateInv, UpdateIsWhole, Taken
  <2>6. CASE DownloadBegins \/ Downloaded
    BY <2>2, <2>6 DEF DownloadBegins, Downloaded, Ota, nvs, online, UpdateInv, UpdateIsWhole, Taken
  <2>7. CASE SetUpdate
    BY <2>2, <2>7 DEF SetUpdate, Ota, nvs, online, UpdateInv, UpdateIsWhole, Taken
  <2>8. QED
    BY <1>2, <2>3, <2>4, <2>5, <2>6, <2>7 DEF Reboot, PowerLoss
<1>3. QED
  BY <1>1, <1>2

\* Whenever the power goes, NVS says UPDATE only over a whole image unless the
\* last write of INIT failed: the update topic is subscribed to only behind the
\* write that takes the flag back, so that no request comes while it stands.
\* (work_task's PUB, ota_parse_update, ota_state_callback.)
THEOREM UpdateWhole == Spec => []UpdateIsWhole
<1>1. Init => UpdateInv
  BY CloudAssumption DEF Init, UpdateInv, UpdateIsWhole, Taken, Busy, Idle
<1>2. TypeInv /\ UpdateInv /\ [Next]_vars => UpdateInv'
  <2> SUFFICES ASSUME TypeInv, UpdateInv, [Next]_vars
               PROVE  UpdateInv'
    OBVIOUS
  <2>1. CASE \E t \in Threads : Step(t)
    BY <2>1, UpdateStep
  <2>2. CASE \/ ShortPress \/ Key2 \/ Close \/ TakePub
             \/ SwitchCommand \/ \E b \in Values : BrightnessCommand(b) \/ \E c \in Colours : ColourCommand(c, b)
    BY <2>2, UpdateBegin
  <2>3. CASE \/ SessionUp \/ SessionDown \/ ReportArrives \/ ReportLost \/ (\E b \in Values : SendSwitch(b))
         \/ UpdateRequest \/ UpdateFails \/ DownloadBegins \/ Downloaded
             \/ SetUpdate \/ Reboot \/ PowerLoss \/ UNCHANGED vars
    BY <2>3, UpdateOther
  <2>4. QED
    BY <2>1, <2>2, <2>3 DEF Next
<1>3. UpdateInv => UpdateIsWhole
  BY DEF UpdateInv
<1>4. QED
  BY <1>1, <1>2, <1>3, TypeInvHolds, PTL DEF Spec

-----------------------------------------------------------------------------
(* The light and what the cloud shows.                                     *)

\* No brightness but 0 leaves a channel dark.
BrightEnough == \A b \in Values \cup {100} : b # 0 => Duty(b) # PwmMax

LEMMA BrightValues ==
  ASSUME PwmMax \in 100..255, Values \subseteq 0..100
  PROVE  BrightEnough
<1> SUFFICES ASSUME NEW b \in 1..100
             PROVE  Duty(b) # PwmMax
  BY DEF BrightEnough
<1>1. b * PwmMax \in Int /\ b * PwmMax >= PwmMax /\ b * PwmMax <= 100 * PwmMax
  OBVIOUS
<1>2. (b * PwmMax) \div 100 \in 1..PwmMax
  BY <1>1
<1>3. Scaled(b) \in 1..PwmMax
  BY <1>2 DEF Scaled
<1>4. Duty(b) = PwmMax - Scaled(b)
  BY <1>3 DEF Duty
<1>5. QED
  BY <1>3, <1>4

\* Statements that only go on to the next one, and those that end a handler.
GoesOn(t) == \/ SetDuty(t) \/ SetState(t) \/ ReadLast(t) \/ ReadState(t) \/ SetInit(t) \/ Subscribe(t)
             \/ IfChanged(t) /\ switch_state # thr[t].last
Ends(t)   == Publish(t) \/ (IfChanged(t) /\ switch_state = thr[t].last)

LEMMA StepKinds ==
  ASSUME NEW t \in Threads
  PROVE  /\ Step(t) => GoesOn(t) \/ Ends(t) \/ Toggle(t) \/ Breathe(t)
         /\ GoesOn(t) \/ Ends(t) => Step(t)
  BY DEF Step, GoesOn, Ends

LEMMA GoesOnLeaves ==
  ASSUME TypeInv, NEW t \in Threads, GoesOn(t)
  PROVE  thr'[t].todo = Tail(thr[t].todo) /\ What(t).op \notin {"toggle", "breathe", "publish"}
<1>1. thr \in [Threads -> Locals] /\ Step(t)
  BY StepKinds DEF TypeInv, TypeOK, ThreadsOK
<1>2. CASE SetDuty(t) \/ SetState(t) \/ SetInit(t) \/ Subscribe(t)
  BY <1>1, <1>2 DEF SetDuty, SetState, SetInit, Subscribe, Next1, What, Done, Locals
<1>3. CASE ReadLast(t) \/ ReadState(t)
  <2>1. What(t).op \in {"last", "read"}
    BY <1>3 DEF ReadLast, ReadState, Next1, What
  <2>2. QED
    BY <1>1, <2>1, StepLeaves
<1>4. CASE IfChanged(t) /\ switch_state # thr[t].last
  BY <1>1, <1>4 DEF IfChanged, Next1, What, Done, Locals
<1>5. QED
  BY <1>2, <1>3, <1>4 DEF GoesOn

LEMMA EndsLeaves ==
  ASSUME TypeInv, NEW t \in Threads, Ends(t)
  PROVE  thr'[t].todo = <<>> /\ ~Busy(t)' /\ What(t).op \in {"publish", "changed"}
  BY DEF TypeInv, ThreadsOK, Ends, IfChanged, Publish, Next1, What, Idle, Busy

\* The statements of t before and after one of its steps.
LEMMA StepTail ==
  ASSUME TypeInv, NEW t \in Threads, GoesOn(t)
  PROVE  LET T == thr[t].todo
             N == thr'[t].todo
         IN  /\ Busy(t) /\ What(t) = T[1] /\ T[1] \in Ops /\ (Busy(t)' <=> N # <<>>)
             /\ Busy(t)' => /\ What(t)' = N[1] /\ Follows(What(t), What(t)') /\ Ending(t)' = Ending(t)
                            /\ Lit(T) => Lights(What(t), What(t)')
             /\ ~Busy(t)' => What(t).op = "state" /\ Ending(t) = "state"
             /\ \A i \in 1..Len(N) : \E j \in 1..Len(T) : N[i] = T[j]
             /\ Lit(T) => Lit(N)
<1> DEFINE T == thr[t].todo
           N == thr'[t].todo
<1>1. Busy(t) /\ T \in Seq(Ops) /\ T # <<>> /\ Handler(T) /\ What(t) = T[1] /\ T[1] \in Ops
  BY StepKinds, StepLeaves, HeadOK DEF TypeInv
<1>2. N = Tail(T) /\ N \in Seq(Ops) /\ What(t)' = Head(N) /\ (Busy(t)' <=> N # <<>>) /\ Ending(t)' = N[Len(N)].op
      /\ Ending(t) = T[Len(T)].op
  BY <1>1, TailOK, GoesOnLeaves DEF Busy, What, Ending
<1>3. QED
  BY SMTT(30), <1>1, <1>2, TailOK, GoesOnLeaves

LEMMA StepToggle ==
  ASSUME TypeInv, BrightEnough, NEW t \in Threads, Toggle(t)
  PROVE  /\ Busy(t)' /\ What(t)'.op = "pwm" /\ Ending(t)' = Ending(t) /\ What(t).op = "toggle"
         /\ Awaits(t)' => Awaits(t)
         /\ Lit(thr[t].todo) => Lit(thr'[t].todo)
<1> DEFINE T == thr[t].todo
           N == thr'[t].todo
<1>1. Busy(t) /\ What(t).op = "toggle"
  BY DEF Toggle, Next1, What
<1>2. T \in Seq(Ops) /\ T # <<>> /\ Handler(T) /\ T[1].op = "toggle"
  BY <1>1, HeadOK DEF TypeInv
<1>3. N = led_toggle \o Tail(T)
  BY DEF Toggle, TypeInv, ThreadsOK, Locals
<1>4. Duty(100) # PwmMax
  BY DEF BrightEnough
<1> HIDE DEF N, T
<1>5. /\ Handler(N) /\ N[1].op = "pwm" /\ N[Len(N)] = T[Len(T)] /\ (Lit(T) => Lit(N))
      /\ (\E i \in 1..Len(N) : N[i].op = "changed") => \E i \in 1..Len(T) : T[i].op = "changed"
  BY <1>2, <1>3, <1>4, ToggleHandler
<1>6. N \in Seq(Ops) /\ N # <<>> /\ Head(N) = N[1]
  BY <1>5, TailOK DEF Handler, Closing
<1>7. QED
  BY <1>1, <1>5, <1>6 DEF Busy, What, Ending, Awaits, N, T

LEMMA LitStep ==
  ASSUME TypeInv, LightInv, BrightEnough, NEW t \in Threads, Step(t)
  PROVE  \A u \in Threads : Lit(thr'[u].todo)
<1>1. /\ thr'[Other(t)] = thr[Other(t)]
      /\ \A u \in Threads : u = t \/ u = Other(t)
  BY StepLeaves DEF Threads, Other
<1>2. Lit(thr[t].todo) /\ Lit(thr[Other(t)].todo)
  BY DEF LightInv, Threads, Other
<1>3. thr'[t].todo = <<>> => Lit(thr'[t].todo)
  BY EmptySeq DEF Lit
<1>4. Lit(thr'[t].todo)
  <2>1. CASE GoesOn(t)
    BY <1>2, <2>1, StepTail
  <2>2. CASE Ends(t)
    BY <1>3, <2>2, EndsLeaves
  <2>3. CASE Toggle(t)
    BY <1>2, <2>3, StepToggle
  <2>4. CASE Breathe(t)
    BY <1>2, <2>4 DEF Breathe
  <2>5. QED
    BY <2>1, <2>2, <2>3, <2>4, StepKinds
<1>5. QED
  BY <1>1, <1>2, <1>4

LEMMA LampStep ==
  ASSUME TypeInv, BrightEnough, NEW t \in Threads, Step(t), LampOK(t), Lit(thr[t].todo)
  PROVE  LampOK(t)'
<1>1. duty \in [Channels -> 0..255]
  BY DEF TypeInv, TypeOK
<1> USE DEF GoesOn
<1>2. CASE SetDuty(t)
  <2>1. What(t).op = "pwm" /\ What(t) \in Ops /\ duty' = [duty EXCEPT ![What(t).on] = What(t).val]
    BY <1>2, StepTail DEF SetDuty, Next1, What
  <2>2. Busy(t)' /\ What(t)'.op \in {"pwm", "state"} /\ Lights(What(t), What(t)')
    BY <1>2, <2>1, StepTail DEF Follows
  <2>3. What(t).on \in Channels
    BY <2>1 DEF Ops
  <2>4. What(t).val # PwmMax => ~Dark'
    BY <1>1, <2>1, <2>3 DEF Dark
  <2>5. QED
    BY <2>1, <2>2, <2>4 DEF LampOK, Lights
<1>3. CASE SetState(t)
  <2>1. What(t).op = "state" /\ Busy(t) /\ What(t) \in Ops /\ switch_state' = What(t).val /\ duty' = duty
    BY <1>3, StepTail DEF SetState, Next1, What
  <2>2. What(t).val \in {0, 1} /\ Dark' = Dark
    BY <2>1 DEF Ops, Dark
  <2>3. Busy(t)' => Lights(What(t), What(t)')
    BY <1>3, StepTail
  <2>4. QED
    BY <2>1, <2>2, <2>3 DEF LampOK, Lights
<1>4. CASE ReadLast(t) \/ ReadState(t) \/ SetInit(t) \/ Subscribe(t) \/ (IfChanged(t) /\ switch_state # thr[t].last)
  <2>1. Busy(t) /\ What(t).op \notin {"pwm", "state", "breathe"} /\ duty' = duty /\ switch_state' = switch_state
    BY <1>4 DEF ReadLast, ReadState, SetInit, Subscribe, IfChanged, Next1, What, light
  <2>2. Busy(t)' => Lights(What(t), What(t)')
    BY <1>4, StepTail
  <2>3. QED
    BY <2>1, <2>2 DEF LampOK, Lights, Dark
<1>5. CASE Publish(t) \/ (IfChanged(t) /\ switch_state = thr[t].last)
  <2>1. What(t).op \notin {"pwm", "state", "breathe"} /\ duty' = duty /\ switch_state' = switch_state
    BY <1>5 DEF Publish, IfChanged, Next1, What, light
  <2>2. ~Busy(t)'
    BY <1>5, EndsLeaves DEF Ends
  <2>3. QED
    BY <2>1, <2>2 DEF LampOK, Dark
<1>6. CASE Toggle(t)
  BY <1>6, StepToggle DEF LampOK
<1>7. CASE Breathe(t)
  BY <1>7 DEF LampOK, Breathe, Next1, What, Busy
<1>8. QED
  BY <1>2, <1>3, <1>4, <1>5, <1>6, <1>7 DEF Step

LEMMA ReportStep ==
  ASSUME TypeInv, BrightEnough, QuietOK, NEW t \in Threads, Step(t), ReportOK(t), Owed, ~raced
  PROVE  ReportOK(t)'
<1>1. Busy(t) /\ (\A i \in 1..Len(thr[t].todo) : thr[t].todo[i].op = "changed" => Awaits(t))
  BY StepLeaves DEF Awaits
<1>2. CASE GoesOn(t)
  <2> DEFINE T == thr[t].todo
             N == thr'[t].todo
  <2>1. /\ What(t) = T[1] /\ What(t) \in Ops /\ (Busy(t)' <=> N # <<>>)
        /\ Busy(t)' => Follows(What(t), What(t)') /\ Ending(t)' = Ending(t)
        /\ ~Busy(t)' => What(t).op = "state" /\ Ending(t) = "state"
        /\ \A i \in 1..Len(N) : \E j \in 1..Len(T) : N[i] = T[j]
    BY <1>2, StepTail
  <2>2. T \in Seq(Ops) /\ T # <<>>
    BY <1>1, HeadOK DEF TypeInv
  <2>3. Awaits(t)' => Awaits(t)
    BY <2>1 DEF Awaits
  <2>4. Ending(t) = "state" => \A i \in 1..Len(N) : N[i].op = "state" => N[i].val = Shown
    BY <1>1, <2>1 DEF ReportOK
  <2>5. Shown' = Shown
    BY <1>2 DEF GoesOn, SetDuty, SetState, ReadLast, ReadState, SetInit, Subscribe, IfChanged, Shown, shown
  <2>6. Busy(t)' => What(t)'.op # "last" /\ (What(t)'.op = "publish" <=> What(t).op = "read")
    BY <2>1 DEF Follows
  <2>7. thr[t] \in Locals /\ thr \in [Threads -> Locals]
    BY DEF TypeInv, ThreadsOK
  <2>8. CASE SetState(t)
    <3>1. What(t).op = "state" /\ switch_state' = What(t).val /\ thr'[t].last = thr[t].last
      BY <2>7, <2>8 DEF SetState, Next1, What, Done, Locals
    <3>2. Ending(t) = "state" => What(t).val = Shown
      BY <1>1, <2>1, <2>2, <3>1 DEF ReportOK
    <3>3. QED
      BY <1>1, <2>1, <2>3, <2>4, <2>5, <2>6, <3>1, <3>2 DEF ReportOK
  <2>9. CASE ReadLast(t)
    <3>1. What(t).op = "last" /\ switch_state' = switch_state
      BY <2>9 DEF ReadLast, Next1, What, light
    <3>2. thr'[t].last = switch_state
      <4> DEFINE D == Done(t)
      <4>1. D \in [Threads -> Locals]
        BY <2>7, <1>2, <2>9, HeadTailProperties, <2>2 DEF Done, Locals
      <4>2. thr' = [D EXCEPT ![t].last = switch_state]
        BY <2>9 DEF ReadLast
      <4> HIDE DEF D
      <4>3. QED
        BY <4>1, <4>2 DEF Locals
    <3>3. QED
      BY <1>1, <2>1, <2>3, <2>4, <2>5, <2>6, <3>1, <3>2 DEF ReportOK
  <2>10. CASE ReadState(t)
    <3>1. What(t).op = "read" /\ switch_state' = switch_state
      BY <2>10 DEF ReadState, Next1, What, light
    <3>2. thr'[t].read = switch_state /\ thr'[t].last = thr[t].last
      <4> DEFINE D == Done(t)
      <4>1. D \in [Threads -> Locals] /\ D[t].last = thr[t].last
        BY <2>7, HeadTailProperties, <2>2 DEF Done, Locals
      <4>2. thr' = [D EXCEPT ![t].read = switch_state]
        BY <2>10 DEF ReadState
      <4> HIDE DEF D
      <4>3. QED
        BY <4>1, <4>2 DEF Locals
    <3>3. QED
      BY <1>1, <2>1, <2>3, <2>4, <2>5, <2>6, <3>1, <3>2 DEF ReportOK
  <2>11. CASE SetDuty(t) \/ SetInit(t) \/ Subscribe(t) \/ (IfChanged(t) /\ switch_state # thr[t].last)
    <3>1. What(t).op \in {"pwm", "init", "subscribe", "changed"} /\ switch_state' = switch_state
      BY <2>11 DEF SetDuty, SetInit, Subscribe, IfChanged, Next1, What, light
    <3>2. thr'[t].last = thr[t].last
      BY <2>7, <2>11 DEF SetDuty, SetInit, Subscribe, IfChanged, Done, Locals
    <3>3. QED
      BY <1>1, <2>1, <2>3, <2>4, <2>5, <2>6, <3>1, <3>2 DEF ReportOK
  <2>12. QED
    BY <1>2, <2>8, <2>9, <2>10, <2>11 DEF GoesOn
<1>3. CASE Ends(t)
  <2>1. thr'[t].todo = <<>> /\ ~Busy(t)'
    BY <1>3, EndsLeaves
  <2>2. ~Awaits(t)'
    BY <2>1, EmptySeq DEF Awaits
  <2>3. CASE Publish(t)
    <3>1. Shown' = thr[t].read /\ switch_state' = switch_state /\ What(t).op = "publish"
      <4>1. thr[t].read \in {0, 1}
        BY ThreadsBounded DEF TypeInv
      <4>2. QED
        BY <2>3, <4>1, CloudAssumption DEF Publish, Next1, What, light, Shown, Owed
    <3>2. QED
      BY <1>1, <2>1, <2>2, <3>1 DEF ReportOK
  <2>4. CASE IfChanged(t) /\ switch_state = thr[t].last
    <3>1. What(t).op = "changed" /\ switch_state' = switch_state /\ Shown' = Shown
      BY <2>4 DEF IfChanged, Next1, What, light, Shown, shown
    <3>2. Awaits(t)
      <4>1. thr[t].todo \in Seq(Ops) /\ thr[t].todo # <<>> /\ What(t) = thr[t].todo[1]
        BY <1>1, HeadOK DEF TypeInv
      <4>2. QED
        BY <3>1, <4>1 DEF Awaits
    <3>3. QED
      BY <2>1, <2>2, <2>4, <3>1, <3>2 DEF ReportOK
  <2>5. QED
    BY <1>3, <2>3, <2>4 DEF Ends
<1>4. CASE Toggle(t)
  <2>1. /\ Busy(t)' /\ What(t)'.op = "pwm" /\ Ending(t)' = Ending(t) /\ What(t).op = "toggle"
        /\ Awaits(t)' => Awaits(t)
    BY <1>4, StepToggle
  <2>2. Ending(t) # "state"
    <3>1. thr[t].todo \in Seq(Ops) /\ thr[t].todo # <<>> /\ What(t) = thr[t].todo[1]
      BY <1>1, HeadOK DEF TypeInv
    <3>2. CASE t = "work"
      BY <1>1, <3>2 DEF QuietOK, Owed
    <3>3. CASE t = "mqtt"
      BY <1>1, <2>1, <3>1, <3>3 DEF QuietOK
    <3>4. QED
      BY <3>2, <3>3 DEF Threads
  <2>3. Shown' = Shown /\ thr'[t].last = thr[t].last
    BY <1>4 DEF Toggle, TypeInv, ThreadsOK, Locals, Shown, shown
  <2>4. QED
    BY <1>1, <2>1, <2>2, <2>3 DEF ReportOK
<1>5. CASE Breathe(t)
  BY <1>5 DEF Breathe, ReportOK, Busy, What, Ending, Awaits, Shown, shown
<1>6. QED
  BY <1>2, <1>3, <1>4, <1>5, StepKinds

\* What no step of a handler touches, and when one counts as a race.
LEMMA StepRaced ==
  ASSUME NEW t \in Threads, Step(t)
  PROVE  /\ UNCHANGED <<session, pub, command, cloud>>
         /\ (raced => raced') /\ (~raced' => ~raced)
         /\ (~raced' /\ command # Nil) => UNCHANGED report
<1>1. CASE Publish(t)
  BY <1>1 DEF Publish, online
<1>2. CASE ~Publish(t)
  <2>1. UNCHANGED <<session, pub, raced>> /\ UNCHANGED shown
    BY <1>2 DEF Step, SetDuty, SetState, ReadLast, IfChanged, ReadState, Toggle, Breathe, SetInit, Subscribe, online
  <2>2. QED
    BY <2>1 DEF shown
<1>3. QED
  BY <1>1, <1>2

LEMMA QuietStep ==
  ASSUME TypeInv, BrightEnough, QuietOK, NEW t \in Threads, Step(t)
  PROVE  QuietOK'
<1> DEFINE OnlyLamp(u) == \A i \in 1..Len(thr[u].todo) : thr[u].todo[i].op \in {"pwm", "state"}
<1>1. UNCHANGED <<session, pub>> /\ (raced => raced')
  BY StepRaced
<1>2. Busy(t) /\ thr'[Other(t)] = thr[Other(t)] /\ \A u \in Threads : u = t \/ u = Other(t)
  BY StepLeaves DEF Threads, Other
<1>3. \A u \in Threads \ {t} : (Busy(u)' <=> Busy(u)) /\ Ending(u)' = Ending(u) /\ (OnlyLamp(u)' <=> OnlyLamp(u))
  BY <1>2 DEF Busy, Ending
<1>4. Busy(t)' => /\ Ending(t)' = Ending(t)
                  /\ (t = "mqtt" /\ Ending(t) = "state") => OnlyLamp(t)'
  <2>1. CASE GoesOn(t)
    BY <1>2, <2>1, StepTail DEF QuietOK
  <2>2. CASE Ends(t)
    BY <2>2, EndsLeaves
  <2>3. CASE Toggle(t)
    <3>1. Ending(t)' = Ending(t) /\ What(t).op = "toggle"
      BY <2>3, StepToggle
    <3>2. thr[t].todo \in Seq(Ops) /\ thr[t].todo # <<>> /\ What(t) = thr[t].todo[1]
      BY <1>2, HeadOK DEF TypeInv
    <3>3. ~(t = "mqtt" /\ Ending(t) = "state")
      BY <1>2, <3>1, <3>2 DEF QuietOK
    <3>4. QED
      BY <3>1, <3>3
  <2>4. CASE Breathe(t)
    BY <1>2, <2>4 DEF Breathe, Ending, QuietOK
  <2>5. QED
    BY <2>1, <2>2, <2>3, <2>4, StepKinds
<1>5. QED
  BY <1>1, <1>2, <1>3, <1>4 DEF QuietOK, Threads

\* A step that begins no handler of work_task keeps SubscribesOK.
LEMMA SubscribesKept ==
  ASSUME SubscribesOK, UNCHANGED <<session, pub, topics>>, ~Busy("work") \/ thr'["work"] = thr["work"]
  PROVE  SubscribesOK'
<1>1. \A T \in {Pub, Tail(Pub), Tail(Tail(Pub))} : T # <<>>
  BY DEF Pub, led_state_upload
<1>2. QED
  BY <1>1 DEF SubscribesOK, Busy

LEMMA SubscribesStep ==
  ASSUME TypeInv, SubscribesOK, NEW t \in Threads, Step(t)
  PROVE  SubscribesOK'
<1>1. UNCHANGED <<session, pub>> /\ topics \subseteq topics'
  BY DEF Step, SetDuty, SetState, ReadLast, IfChanged, ReadState, Publish, Toggle, Breathe, SetInit, Subscribe, online
<1>2. CASE t = "mqtt"
  BY <1>1, <1>2, StepLeaves DEF SubscribesOK, Other
<1>3. CASE t = "work"
  <2> DEFINE T == thr["work"].todo
  <2> SUFFICES ASSUME session, ~pub, "led" \notin topics'
               PROVE  thr'["work"].todo \in {Pub, Tail(Pub), Tail(Tail(Pub))}
    BY <1>1 DEF SubscribesOK
  <2>1. T \in {Pub, Tail(Pub), Tail(Tail(Pub))}
    BY <1>1 DEF SubscribesOK
  <2>2. /\ Head(Pub).op = "init" /\ Head(Tail(Pub)).op = "subscribe"
        /\ Head(Tail(Tail(Pub))).op = "subscribe" /\ Head(Tail(Tail(Pub))).on = "led"
    BY DEF Pub, Op, led_state_upload
  <2>3. What(t) = Head(T)
    BY <1>3 DEF What
  <2>4. thr'["work"].todo = Tail(T)
    BY <1>3, <2>1, <2>2, <2>3, StepLeaves
  <2>5. T # Tail(Tail(Pub))
    <3>1. SUFFICES ASSUME T = Tail(Tail(Pub))
                   PROVE  FALSE
      OBVIOUS
    <3>2. What(t).op = "subscribe" /\ What(t).on = "led"
      BY <2>2, <2>3, <3>1
    <3>3. Subscribe(t)
      BY <3>2 DEF Step, SetDuty, SetState, ReadLast, IfChanged, ReadState, Publish, Toggle, Breathe, SetInit,
                  Next1, What
    <3>4. QED
      BY <3>2, <3>3 DEF Subscribe
  <2>6. QED
    BY <2>1, <2>4, <2>5
<1>4. QED
  BY <1>2, <1>3 DEF Threads

LEMMA LightStep ==
  ASSUME TypeInv, BrightEnough, LightInv, NEW t \in Threads, Step(t)
  PROVE  LightInv'
<1>1. (\A u \in Threads : Lit(thr[u].todo))'
  BY LitStep
<1>2. QuietOK'
  BY QuietStep DEF LightInv
<1>3. /\ Busy(t) /\ thr'[Other(t)] = thr[Other(t)] /\ Other(t) \in Threads /\ Other(Other(t)) = t
      /\ \A u \in Threads : u = t \/ u = Other(t)
  BY StepLeaves DEF Threads, Other
<1>4. /\ UNCHANGED <<session, pub, command>> /\ (~raced' => ~raced)
      /\ (~raced' /\ command # Nil) => UNCHANGED <<cloud, report>>
  BY StepRaced
<1>5. ASSUME ~raced'
      PROVE  /\ ~Busy(Other(t))' /\ CommandOK'
             /\ LampOK(t)' /\ (Owed => ReportOK(t))'
  <2>1. ~raced /\ ~Busy(Other(t)) /\ LampOK(t) /\ (Owed => ReportOK(t)) /\ CommandOK /\ Lit(thr[t].todo)
    BY <1>3, <1>4, <1>5 DEF LightInv
  <2>2. LampOK(t)' /\ CommandOK'
    BY <1>4, <1>5, <2>1, LampStep DEF CommandOK
  <2>3. (Owed => ReportOK(t))'
    BY <1>4, <2>1, ReportStep DEF LightInv, Owed
  <2>4. ~Busy(Other(t))'
    BY <1>3, <2>1 DEF Busy
  <2>5. QED
    BY <2>2, <2>3, <2>4
\* With nobody else at work, what holds of an idle thread holds of the other.
<1>6. ASSUME ~raced', ~Busy(t)'
      PROVE  LampOK(Other(t))' /\ (Owed => ReportOK(Other(t)))'
  <2>1. (~Busy(t) /\ ~Busy(Other(t)) /\ LampOK(t) /\ (Owed => ReportOK(t)))'
    BY <1>5, <1>6
  <2>2. ~Awaits(Other(t))'
    BY <2>1, EmptySeq DEF Busy, Awaits
  <2>3. QED
    BY <2>1, <2>2 DEF LampOK, ReportOK
<1>7. SubscribesOK'
  BY SubscribesStep DEF LightInv
<1>8. QED
  BY <1>1, <1>2, <1>3, <1>5, <1>6, <1>7 DEF LightInv

\* What a beginning handler must bring with it.
LEMMA LightBegin ==
  ASSUME TypeInv, LightInv, NEW t \in Threads, NEW T, Handler(T), Lit(T), Begin(t, T),
         T[Len(T)].op = "state" => \/ t = "work" /\ (raced \/ ~session \/ pub)'
                                   \/ t = "mqtt" /\ \A i \in 1..Len(T) : T[i].op \in {"pwm", "state"},
         ~raced' => ~Busy(Other(t)) /\ CommandOK' /\ LampOK(t)' /\ (Owed => ReportOK(t))',
         t = "mqtt" => UNCHANGED <<session, pub>>,
         SubscribesOK'
  PROVE  LightInv'
<1>1. /\ thr'[t].todo = T /\ thr'[Other(t)] = thr[Other(t)] /\ Busy(t)' /\ ~Busy(t)
  BY BeginThreads
<1>2. /\ Other(t) \in Threads /\ Other(Other(t)) = t /\ Other(t) # t
      /\ \A u \in Threads : u = t \/ u = Other(t)
  BY DEF Threads, Other
<1>3. (\A u \in Threads : Lit(thr[u].todo))'
  BY <1>1, <1>2 DEF LightInv
<1>4. QuietOK'
  <2>1. Ending(t)' = T[Len(T)].op
    BY <1>1 DEF Ending
  <2>2. (Busy(Other(t))' <=> Busy(Other(t))) /\ Ending(Other(t))' = Ending(Other(t))
    BY <1>1 DEF Busy, Ending
  <2>3. CASE t = "work"
    BY <1>1, <2>1, <2>2, <2>3 DEF LightInv, QuietOK, Other
  <2>4. CASE t = "mqtt"
    <3>1. Busy("work") => raced'
      BY <2>4 DEF Other
    <3>2. QED
      BY <1>1, <2>1, <2>2, <2>4, <3>1 DEF LightInv, QuietOK, Other
  <2>5. QED
    BY <2>3, <2>4 DEF Threads
<1>5. ASSUME ~raced'
      PROVE  /\ \E u \in Threads : ~Busy(u)'
             /\ \A u \in Threads : ~Busy(Other(u))' => LampOK(u)' /\ (Owed => ReportOK(u))'
  <2>1. ~Busy(Other(t))'
    BY <1>1, <1>5 DEF Busy
  <2>2. QED
    BY <1>1, <1>2, <1>5, <2>1
<1>6. QED
  BY <1>3, <1>4, <1>5 DEF LightInv

LEMMA BeginShows ==
  ASSUME TypeInv, NEW t \in Threads, NEW T, Handler(T), Begin(t, T)
  PROVE  /\ Busy(t)' /\ What(t)' = T[1] /\ Ending(t)' = T[Len(T)].op /\ thr'[t].todo = T
         /\ Awaits(t)' <=> \E i \in 1..Len(T) : T[i].op = "changed"
<1>1. Head(T) = T[1]
  BY TailOK DEF Handler, Closing
<1>2. QED
  BY <1>1, BeginThreads DEF What, Ending, Awaits

\* Alone and not raced: nothing was left undone.
LEMMA BeginClean ==
  ASSUME LightInv, NEW t \in Threads, ~raced, ~Busy(t), ~Busy(Other(t))
  PROVE  (Dark => switch_state = 0) /\ (Owed => Shown = switch_state) /\ CommandOK
  BY DEF LightInv, LampOK, ReportOK

LEMMA LightWork ==
  ASSUME TypeInv, LightInv, BrightEnough, ShortPress \/ Key2 \/ Close \/ TakePub
  PROVE  LightInv'
<1>1. "work" \in Threads /\ Duty(100) # PwmMax
  BY DEF Threads, BrightEnough
<1>2. UNCHANGED light /\ Shown' = Shown /\ UNCHANGED shown /\ ~Busy("work")
  BY DEF ShortPress, Key2, Close, TakePub, Shown, shown, Begin
<1>3. CASE ShortPress
  <2> DEFINE T == led_toggle \o led_state_upload
  <2>1. /\ Handler(T) /\ T[1].op = "pwm" /\ T[Len(T)].op = "publish" /\ Lit(T)
        /\ \A i \in 1..Len(T) : T[i].op # "changed"
    BY <1>1, PressHandler
  <2>2. /\ Begin("work", T) /\ UNCHANGED <<session, pub, topics>>
        /\ ~raced' => ~Busy(Other("work")) /\ (~raced \/ command = Nil)
    BY <1>3 DEF ShortPress, Alone, online
  <2>6. SubscribesOK' /\ (~raced' => CommandOK')
    BY <1>2, <2>2, SubscribesKept DEF LightInv, CommandOK, shown
  <2> HIDE DEF T
  <2>3. What("work")' = T[1] /\ Busy("work")' /\ Ending("work")' = "publish" /\ ~Awaits("work")'
    BY <1>1, <2>1, <2>2, BeginShows
  <2>4. LampOK("work")' /\ ReportOK("work")'
    BY <2>1, <2>3 DEF LampOK, ReportOK
  <2>5. QED
    BY <1>1, <2>1, <2>2, <2>4, <2>6, LightBegin
<1>4. CASE Key2
  <2> DEFINE T == <<Op("breathe", Nil, 0)>>
  <2>1. /\ Handler(T) /\ T[1].op = "breathe" /\ T[Len(T)].op = "breathe" /\ Lit(T)
        /\ \A i \in 1..Len(T) : T[i].op # "changed"
    BY BreatheHandler
  <2>2. /\ Begin("work", T) /\ UNCHANGED <<session, pub, topics>>
        /\ ~raced' => ~Busy(Other("work")) /\ (~raced \/ command = Nil)
    BY <1>4 DEF Key2, Alone, online
  <2>6. SubscribesOK' /\ (~raced' => CommandOK')
    BY <1>2, <2>2, SubscribesKept DEF LightInv, CommandOK, shown
  <2> HIDE DEF T
  <2>3. What("work")' = T[1] /\ Busy("work")' /\ Ending("work")' = "breathe" /\ ~Awaits("work")'
    BY <1>1, <2>1, <2>2, BeginShows
  <2>4. LampOK("work")' /\ ReportOK("work")'
    BY <2>1, <2>3 DEF LampOK, ReportOK
  <2>5. QED
    BY <1>1, <2>1, <2>2, <2>4, <2>6, LightBegin
<1>5. CASE Close
  <2> DEFINE T == led_flashing
  <2>1. Handler(T) /\ T[1].op \in {"toggle", "pwm"} /\ T[Len(T)].op = "state" /\ Lit(T)
    BY <1>1, FlashHandler
  <2>2. /\ Begin("work", T) /\ UNCHANGED <<session, pub, topics>> /\ (session => raced')
        /\ ~raced' => ~raced /\ ~session /\ ~Busy("work") /\ ~Busy(Other("work"))
    BY <1>5 DEF Close, Begin, online, Other
  <2>6. SubscribesOK' /\ (~raced' => CommandOK')
    BY <1>2, <2>2, SubscribesKept DEF LightInv, CommandOK, shown
  <2> HIDE DEF T
  <2>3. What("work")' = T[1] /\ Busy("work")'
    BY <1>1, <2>1, <2>2, BeginShows
  <2>4. ~raced' => LampOK("work")'
    BY <1>1, <1>2, <2>1, <2>2, <2>3, BeginClean DEF LampOK, Dark, light
  <2>5. QED
    BY <1>1, <2>1, <2>2, <2>4, <2>6, LightBegin DEF Owed
<1>6. CASE TakePub
  <2> DEFINE T == Pub
  <2>1. /\ Handler(T) /\ T[1].op = "init" /\ T[Len(T)].op = "publish" /\ Lit(T)
        /\ \A i \in 1..Len(T) : T[i].op # "changed"
    BY PubHandler
  <2>2. Begin("work", T) /\ ~Busy("work") /\ session' = session
        /\ (~raced' => ~raced /\ ~Busy(Other("work")))
    BY <1>6 DEF TakePub, Alone, Begin
  <2>6. SubscribesOK' /\ (~raced' => CommandOK')
    <3>1. thr'["work"].todo = Pub
      BY <1>1, <2>1, <2>2, BeginThreads
    <3>2. QED
      BY <1>2, <2>2, <3>1 DEF LightInv, CommandOK, SubscribesOK, shown
  <2> HIDE DEF T
  <2>3. What("work")' = T[1] /\ Busy("work")' /\ Ending("work")' = "publish" /\ ~Awaits("work")'
    BY <1>1, <2>1, <2>2, BeginShows
  <2>4. ~raced' => LampOK("work")' /\ ReportOK("work")'
    BY <1>1, <1>2, <2>1, <2>2, <2>3, BeginClean DEF LampOK, ReportOK, Dark, light
  <2>5. QED
    BY <1>1, <2>1, <2>2, <2>4, <2>6, LightBegin
<1>7. QED
  BY <1>3, <1>4, <1>5, <1>6

LEMMA LightSwitch ==
  ASSUME TypeInv, LightInv, BrightEnough, SwitchCommand
  PROVE  LightInv'
<1> DEFINE v == IF command # 0 THEN 100 ELSE 0
           T == Lamp(v)
<1>1. "mqtt" \in Threads /\ "work" \in Threads /\ Duty(100) # PwmMax /\ thr'["work"] = thr["work"]
  BY DEF Threads, BrightEnough, SwitchCommand, Begin, TypeInv, ThreadsOK
<1>2. T = IF command # 0 THEN led_on ELSE led_off
  BY LampToggle
<1>3. /\ Begin("mqtt", T) /\ UNCHANGED <<session, pub, topics>> /\ command # Nil /\ command' = Nil
      /\ UNCHANGED <<cloud, report>>
      /\ ~raced' => ~Busy(Other("mqtt")) /\ (~raced \/ (report = Nil /\ cloud = On(command)))
  BY <1>2 DEF SwitchCommand, Alone, online
<1>4. ~raced' => Shown' = On(command)
  BY <1>3 DEF LightInv, CommandOK, Shown
<1>5. v \in Int /\ (v # 0 <=> command # 0) /\ (v # 0 => Duty(v) # PwmMax)
  BY <1>1
<1> HIDE DEF v
<1>6. Handler(T) /\ Lit(T) /\ T[1].op = "pwm"
  BY <1>5, LampHandler
<1>7. \A i \in 1..Len(T) : T[i].op = "pwm" \/ (T[i].op = "state" /\ T[i].val = On(command))
  <2>1. /\ \A c \in Channels : Pwm(c, v).op = "pwm"
        /\ Set(v).op = "state" /\ Set(v).val = IF v = 0 THEN 0 ELSE 1
    BY <1>5, OpsOK DEF Channels
  <2>2. QED
    BY <1>5, <2>1 DEF Lamp, led_brightness, Channels, On
<1> HIDE DEF T
<1>8. What("mqtt")' = T[1] /\ Busy("mqtt")' /\ thr'["mqtt"].todo = T /\ ~Awaits("mqtt")'
  BY <1>1, <1>3, <1>6, <1>7, BeginShows
<1>9. ~raced' => LampOK("mqtt")' /\ ReportOK("mqtt")'
  BY <1>4, <1>6, <1>7, <1>8 DEF LampOK, ReportOK
<1>10. SubscribesOK' /\ CommandOK'
  BY <1>1, <1>3, SubscribesKept DEF LightInv, CommandOK
<1>11. QED
  BY <1>1, <1>3, <1>6, <1>7, <1>9, <1>10, LightBegin

LEMMA LightCommand ==
  ASSUME TypeInv, LightInv, BrightEnough, NEW b \in Values,
         BrightnessCommand(b) \/ \E c \in Colours : ColourCommand(c, b)
  PROVE  LightInv'
<1>1. "mqtt" \in Threads /\ b \in Int /\ Colours \subseteq Channels /\ (b # 0 => Duty(b) # PwmMax)
  BY CloudAssumption DEF Threads, BrightEnough, Channels
<1>2. UNCHANGED <<light, session, pub, topics, shown>> /\ Shown' = Shown /\ thr'["work"] = thr["work"]
  BY <1>1 DEF BrightnessCommand, ColourCommand, online, shown, Shown, Begin, TypeInv, ThreadsOK, Threads
<1>3. SubscribesOK'
  BY <1>2, SubscribesKept DEF LightInv
<1>4. ASSUME NEW T, Handler(T), Lit(T), T[1].op = "last", T[Len(T)].op = "publish",
             Begin("mqtt", T), Alone("mqtt", FALSE)
      PROVE  LightInv'
  <2>1. ~raced' => ~raced /\ ~Busy("mqtt") /\ ~Busy(Other("mqtt"))
    BY <1>4 DEF Alone, Begin
  <2>2. What("mqtt")' = T[1] /\ Busy("mqtt")' /\ Ending("mqtt")' = "publish"
    BY <1>1, <1>4, BeginShows
  <2>3. ~raced' => CommandOK' /\ LampOK("mqtt")' /\ (Owed => ReportOK("mqtt"))'
    BY <1>1, <1>2, <1>4, <2>1, <2>2, BeginClean DEF LampOK, ReportOK, Dark, light, Owed, CommandOK, shown
  <2>4. QED
    BY <1>1, <1>2, <1>3, <1>4, <2>1, <2>3, LightBegin
<1>5. CASE BrightnessCommand(b)
  BY <1>1, <1>4, <1>5, BrightnessHandler DEF BrightnessCommand
<1>6. ASSUME NEW c \in Colours, ColourCommand(c, b)
      PROVE  LightInv'
  <2>1. c \in Channels
    BY <1>1
  <2>2. /\ Handler(Changing(led_colour(c, b))) /\ Lit(Changing(led_colour(c, b)))
        /\ Changing(led_colour(c, b))[1].op = "last"
        /\ Changing(led_colour(c, b))[Len(Changing(led_colour(c, b)))].op = "publish"
    BY <1>1, <2>1, ColourHandler
  <2>3. QED
    BY <1>4, <1>6, <2>2 DEF ColourCommand
<1>7. QED
  BY <1>5, <1>6

\* PUB's handler before the second subscription.
LEMMA PubTails ==
  ASSUME NEW T \in {Pub, Tail(Pub), Tail(Tail(Pub))}
  PROVE  /\ T # <<>> /\ Head(T).op \in {"init", "subscribe"} /\ T[Len(T)].op = "publish"
         /\ \A i \in 1..Len(T) : T[i].op # "changed"
<1>1. /\ Pub \in Seq(Ops) /\ Len(Pub) = 5 /\ Pub[1].op = "init" /\ Pub[2].op = "subscribe"
      /\ Pub[3].op = "subscribe" /\ Pub[4].op = "read" /\ Pub[5].op = "publish"
  BY DEF Pub, led_state_upload, Op, Ops
<1>2. ASSUME NEW U \in Seq(Ops), NEW n \in Nat, Len(U) = n, n > 0
      PROVE  /\ U # <<>> /\ Head(U) = U[1] /\ Tail(U) \in Seq(Ops) /\ Len(Tail(U)) = n - 1
             /\ \A i \in 1..(n - 1) : Tail(U)[i] = U[i + 1]
  BY <1>2
<1> DEFINE P1 == Tail(Pub)
           P2 == Tail(P1)
<1> HIDE DEF P1, P2
<1>3. /\ P1 \in Seq(Ops) /\ Len(P1) = 4 /\ P1[1].op = "subscribe" /\ P1[2].op = "subscribe"
      /\ P1[3].op = "read" /\ P1[4].op = "publish"
  <2>1. P1 \in Seq(Ops) /\ Len(P1) = 5 - 1 /\ \A i \in 1..(5 - 1) : P1[i] = Pub[i + 1]
    <3>1. Pub \in Seq(Ops) /\ 5 \in Nat /\ Len(Pub) = 5 /\ 5 > 0
      BY <1>1
    <3>2. /\ Tail(Pub) \in Seq(Ops) /\ Len(Tail(Pub)) = 5 - 1
          /\ \A i \in 1..(5 - 1) : Tail(Pub)[i] = Pub[i + 1]
      BY <1>2, <3>1, Zenon
    <3>3. QED
      BY Zenon, <3>2 DEF P1
  <2>2. P1[1] = Pub[2] /\ P1[2] = Pub[3] /\ P1[3] = Pub[4] /\ P1[4] = Pub[5]
    BY <2>1
  <2>3. QED
    BY <1>1, <2>1, <2>2
<1>4. /\ P2 \in Seq(Ops) /\ Len(P2) = 3 /\ P2[1].op = "subscribe"
      /\ P2[2].op = "read" /\ P2[3].op = "publish"
  <2>1. P2 \in Seq(Ops) /\ Len(P2) = 4 - 1 /\ \A i \in 1..(4 - 1) : P2[i] = P1[i + 1]
    <3>1. P1 \in Seq(Ops) /\ 4 \in Nat /\ Len(P1) = 4 /\ 4 > 0
      BY <1>3
    <3>2. /\ Tail(P1) \in Seq(Ops) /\ Len(Tail(P1)) = 4 - 1
          /\ \A i \in 1..(4 - 1) : Tail(P1)[i] = P1[i + 1]
      BY <1>2, <3>1, Zenon
    <3>3. QED
      BY Zenon, <3>2 DEF P2
  <2>2. P2[1] = P1[2] /\ P2[2] = P1[3] /\ P2[3] = P1[4]
    BY <2>1
  <2>3. QED
    BY <1>3, <2>1, <2>2
<1>5. ASSUME NEW U \in Seq(Ops), NEW n \in 1..5, Len(U) = n, U[1].op \in {"init", "subscribe"}, U[n].op = "publish",
             \A i \in 1..n : U[i].op # "changed", T = U
      PROVE  /\ T # <<>> /\ Head(T).op \in {"init", "subscribe"} /\ T[Len(T)].op = "publish"
             /\ \A i \in 1..Len(T) : T[i].op # "changed"
  BY <1>2, <1>5
<1>6. CASE T = Pub
  <2>1. \A i \in 1..5 : Pub[i].op # "changed"
    BY <1>1
  <2>2. QED
    BY <1>1, <1>5, <1>6, <2>1
<1>7. CASE T = P1
  <2>1. \A i \in 1..4 : P1[i].op # "changed"
    BY <1>3
  <2>2. QED
    BY <1>3, <1>5, <1>7, <2>1
<1>8. CASE T = P2
  <2>1. \A i \in 1..3 : P2[i].op # "changed"
    BY <1>4
  <2>2. QED
    BY <1>4, <1>5, <1>8, <2>1
<1>9. QED
  BY <1>6, <1>7, <1>8 DEF P1, P2

\* A report arrives or is lost, and the cloud switches.
LEMMA LightNetwork ==
  ASSUME TypeInv, LightInv, ReportArrives \/ ReportLost \/ \E b \in Values : SendSwitch(b)
  PROVE  LightInv'
<1>1. UNCHANGED <<light, thr, session, pub, topics>> /\ (~raced' => ~raced) /\ (raced => raced')
  <2>1. UNCHANGED <<light, thr, online>>
    BY DEF ReportArrives, ReportLost, SendSwitch
  <2>2. (~raced' => ~raced) /\ (raced => raced')
    <3>1. CASE ReportArrives \/ ReportLost
      BY <3>1 DEF ReportArrives, ReportLost
    <3>2. ASSUME NEW b \in Values, SendSwitch(b)
          PROVE  (~raced' => ~raced) /\ (raced => raced')
      BY <3>2 DEF SendSwitch
    <3>3. QED
      BY <3>1, <3>2
  <2>3. QED
    BY <2>1, <2>2 DEF online
<1>2. /\ SubscribesOK'
      /\ \A t \in Threads : (Busy(t)' <=> Busy(t)) /\ (Busy(Other(t))' <=> Busy(Other(t))) /\ LampOK(t)' = LampOK(t)
                            /\ What(t)' = What(t) /\ Ending(t)' = Ending(t) /\ Awaits(t)' = Awaits(t)
  BY <1>1, SubscribesKept DEF LightInv, light, LampOK, Busy, What, Ending, Awaits, Dark
<1>3. QuietOK' /\ (\A t \in Threads : Lit(thr[t].todo))'
  BY <1>1 DEF LightInv, QuietOK, Busy, Ending
<1>4. CASE ReportArrives
  <2>1. Shown' = Shown /\ command' = command /\ report # Nil
    BY <1>4 DEF ReportArrives, Shown
  <2>2. ~raced' => CommandOK'
    BY <1>1, <2>1 DEF LightInv, CommandOK
  <2>3. \A t \in Threads : (Owed => ReportOK(t)) => (Owed => ReportOK(t))'
    BY <1>1, <1>2, <2>1 DEF Owed, ReportOK, light
  <2>4. QED
    BY <1>1, <1>2, <1>3, <2>2, <2>3 DEF LightInv
<1>5. CASE ReportLost
  <2>1. ~Owed' /\ command' = command /\ report # Nil
    BY <1>1, <1>5 DEF ReportLost, Owed
  <2>2. ~raced' => CommandOK'
    BY <1>1, <2>1 DEF LightInv, CommandOK
  <2>3. QED
    BY <1>1, <1>2, <1>3, <2>1, <2>2 DEF LightInv
<1>6. ASSUME NEW b \in Values, SendSwitch(b), ~raced'
      PROVE  /\ CommandOK'
             /\ \A t \in Threads : ~Busy(Other(t)) => (Owed => ReportOK(t))'
  <2>1. report = Nil /\ report' = Nil /\ cloud' = On(b) /\ command' \in {b, Nil} /\ b # Nil
    BY <1>6, CloudAssumption DEF SendSwitch
  <2>2. ASSUME NEW t \in Threads, ~Busy(Other(t)), Owed'
        PROVE  ReportOK(t)'
    <3>1. "led" \notin topics /\ session /\ ~pub
      BY <1>1, <1>6, <2>1, <2>2 DEF SendSwitch, Owed
    <3>2. thr["work"].todo \in {Pub, Tail(Pub), Tail(Tail(Pub))}
      BY <3>1 DEF LightInv, SubscribesOK
    <3>3. t = "work"
      <4>1. thr["work"].todo # <<>>
        BY <3>2 DEF Pub, led_state_upload
      <4>2. QED
        BY <2>2, <4>1 DEF Threads, Other, Busy
    <3>4. /\ What("work").op \in {"init", "subscribe"} /\ Ending("work") = "publish" /\ ~Awaits("work")
      BY <3>2, PubTails DEF What, Ending, Awaits
    <3>5. Busy("work")
      BY <3>2 DEF Busy, Pub, led_state_upload
    <3>6. QED
      BY <1>2, <3>3, <3>4, <3>5 DEF ReportOK
  <2>3. QED
    BY <2>1, <2>2 DEF CommandOK
<1>7. ASSUME NEW b \in Values, SendSwitch(b)
      PROVE  LightInv'
  BY <1>1, <1>2, <1>3, <1>6, <1>7 DEF LightInv
<1>8. QED
  BY <1>4, <1>5, <1>7

LEMMA LightOther ==
  ASSUME TypeInv, LightInv,
         \/ SessionUp \/ SessionDown \/ UpdateRequest \/ UpdateFails \/ DownloadBegins \/ Downloaded
         \/ SetUpdate \/ Reboot \/ PowerLoss \/ UNCHANGED vars
  PROVE  LightInv'
<1>1. CASE Restart
  <2>1. \A t \in Threads : thr'[t].todo = <<>> /\ ~Busy(t)' /\ ~Awaits(t)'
    BY <1>1, EmptySeq DEF Restart, Idle, Busy, Awaits
  <2>2. session' = FALSE /\ switch_state' = 0 /\ command' = Nil /\ "work" \in Threads /\ "mqtt" \in Threads
    BY <1>1 DEF Restart, Threads
  <2>3. QED
    BY <2>1, <2>2, EmptySeq DEF LightInv, Lit, QuietOK, SubscribesOK, CommandOK, LampOK, Owed
<1>2. CASE ~Restart
  <2>1. /\ UNCHANGED <<light, thr, cloud, report, raced>>
        /\ (Owed' => Owed) /\ ((session /\ ~pub)' => session /\ ~pub /\ topics' = topics)
        /\ command' \in {command, Nil} /\ (command' # command => ~session')
    BY <1>2 DEF SessionUp, SessionDown, UpdateRequest, UpdateFails, DownloadBegins, Downloaded, SetUpdate, Reboot,
                PowerLoss, Ota, vars, online, shown, Owed
  <2>2. \A t \in Threads : (Busy(t)' <=> Busy(t)) /\ (LampOK(t)' <=> LampOK(t)) /\ (ReportOK(t)' <=> ReportOK(t))
    BY <2>1 DEF light, LampOK, ReportOK, Shown, Busy, What, Ending, Awaits, Dark
  <2>3. QuietOK' /\ SubscribesOK' /\ (CommandOK => CommandOK')
    <3>1. QuietOK'
      <4>1. \A t \in Threads : Busy(t)' = Busy(t) /\ Ending(t)' = Ending(t) /\ thr'[t] = thr[t]
        BY <2>1 DEF Busy, Ending
      <4>2. (raced \/ ~session \/ pub) => (raced \/ ~session \/ pub)'
        <5>1. raced' = raced /\ (session' /\ ~pub' => session /\ ~pub)
          BY <2>1
        <5>2. QED
          BY Zenon, <5>1
      <4>3. QED
        BY <4>1, <4>2 DEF LightInv, QuietOK, Threads
    <3>2. SubscribesOK'
      <4>1. thr' = thr /\ (session' /\ ~pub' => session /\ ~pub /\ topics' = topics)
        BY <2>1
      <4>2. QED
        BY Zenon, <4>1 DEF LightInv, SubscribesOK
    <3>3. CommandOK => CommandOK'
      BY <2>1 DEF CommandOK, On
    <3>4. QED
      BY <3>1, <3>2, <3>3
  <2>4. (\A t \in Threads : Lit(thr[t].todo))'
    BY <2>1 DEF LightInv
  <2>5. (\A t \in Threads : (~Busy(Other(t)))' <=> ~Busy(Other(t)))
    BY <2>1 DEF Busy
  <2>6. QED
    BY <2>1, <2>2, <2>3, <2>4, <2>5 DEF LightInv
<1>3. QED
  BY <1>1, <1>2

\* For brightness from 0 to 100: whatever keys and commands came, and whatever
\* reports, commands and sessions were lost, once nothing is on its way or under
\* way the cloud shows the switch's state and a dark LED counts as off, unless
\* handlers overlapped, a report crossed a command or CLOSE flashed in a session
\* since both were last set.  That a lit LED counts as on is not claimed: after
\* a colour was set to 0 it may not.  (led.c, work_task,
\* event_handler_mqtt_recved_data.)
THEOREM LightShown ==
  ASSUME PwmMax \in 100..255, Values \subseteq 0..100
  PROVE  Spec => []LightIsShown
<1>1. BrightEnough
  BY BrightValues
<1>2. Init => LightInv
  <2> SUFFICES ASSUME Init
               PROVE  LightInv
    OBVIOUS
  <2>1. \A t \in Threads : thr[t].todo = <<>> /\ ~Busy(t) /\ ~Awaits(t)
    BY EmptySeq DEF Init, Idle, Busy, Awaits
  <2>2. session = FALSE /\ switch_state = 0 /\ command = Nil /\ "work" \in Threads /\ "mqtt" \in Threads
    BY DEF Init, Threads
  <2>3. QED
    BY <2>1, <2>2, EmptySeq DEF LightInv, Lit, QuietOK, SubscribesOK, CommandOK, LampOK, Owed
<1>3. TypeInv /\ LightInv /\ [Next]_vars => LightInv'
  <2> SUFFICES ASSUME TypeInv, LightInv, [Next]_vars
               PROVE  LightInv'
    OBVIOUS
  <2>1. CASE \E t \in Threads : Step(t)
    BY <1>1, <2>1, LightStep
  <2>2. CASE ShortPress \/ Key2 \/ Close \/ TakePub
    BY <1>1, <2>2, LightWork
  <2>3. CASE SwitchCommand \/ \E b \in Values : BrightnessCommand(b) \/ \E c \in Colours : ColourCommand(c, b)
    BY <1>1, <2>3, LightSwitch, LightCommand
  <2>6. CASE ReportArrives \/ ReportLost \/ \E b \in Values : SendSwitch(b)
    BY <2>6, LightNetwork
  <2>4. CASE \/ SessionUp \/ SessionDown \/ UpdateRequest \/ UpdateFails \/ DownloadBegins \/ Downloaded
             \/ SetUpdate \/ Reboot \/ PowerLoss \/ UNCHANGED vars
    BY <2>4, LightOther
  <2>5. QED
    BY <2>1, <2>2, <2>3, <2>4, <2>6 DEF Next
<1>4. LightInv => LightIsShown
  BY DEF LightInv, LightIsShown, LampOK, ReportOK, Shown, Owed, Threads, Other
<1>5. QED
  BY <1>2, <1>3, <1>4, TypeInvHolds, PTL DEF Spec
=============================================================================
