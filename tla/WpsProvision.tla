----------------------------- MODULE WpsProvision -----------------------------
(***************************************************************************)
(* The commands of the BLE provisioning service, wps_app.c above its       *)
(* packets: the key exchange, the station command, the Wi-Fi events that   *)
(* answer it and the delayed disconnect.                                   *)
(*                                                                         *)
(* The packets are those of WpsChannel, which WpsTransport implements:     *)
(* whole, once, in order, while the connection lasts.  save_config and     *)
(* the work task are in Device; here they are one step each.               *)
(***************************************************************************)
EXTENDS Naturals, Sequences

CONSTANTS
  Cmds,      \* station commands a phone may send: sequences of items
  Values,    \* what an item may carry
  Networks,  \* configurations that can be joined
  MaxRetry,  \* WIFI_JOIN_MAXIMUM_RETRY
  SsidSize, PasswordSize, BssidSize,  \* sizes in wm_wifi_config_t
  Faults,    \* subset of {"rsa", "aes", "save"}
  MaxConns, MaxKeys, MaxQueue,  \* bounds: connections, key exchanges, messages in a queue
  Nil, Junk

\* Type and size are a byte each.  An empty item at the end is skipped by the
\* code: the model has none.  Bound: a value is a text of that size, no NUL in it.
Item == [type : 0..255, size : 1..255, value : Values]

\* Messages: a key exchange, a station command, and the answers to them.
Keys    == 1..MaxKeys
Kinds   == {"kx", "sta", "key", "kxerror", "error", "failed", "ok"}
Message == [kind : Kinds, key : Keys \cup {Nil}, cmd : Seq(Item), from : 0..MaxConns]

\* Padding of three bytes would pass for a BSSID of that size.
ASSUME ProvisionAssumption ==
  /\ MaxRetry \in Nat /\ MaxConns \in Nat /\ MaxKeys \in Nat /\ MaxQueue \in Nat \ {0}
  /\ SsidSize \in Nat \ {0} /\ PasswordSize \in Nat \ {0} /\ BssidSize \in Nat \ {3}
  /\ Faults \subseteq {"rsa", "aes", "save"}
  /\ Cmds \subseteq Seq(Item) /\ Junk \in Values
  /\ Nil \notin Cmds /\ Nil \notin Message

VARIABLES
  link,    \* "up", "drained" and "freed" inside bt_disconnected_cb, "down"
  conn,    \* number of the connection
  queue,   \* proto_queue
  thr,     \* wps_txrx_thread: where it is, its message, the key it uses
  ctx,     \* p_ciphercontext_aes: a key, Nil when it is NULL
  keys,    \* keys generated so far
  retry,   \* s_retry_num
  before,  \* s_already_connected_before_connect
  saved,   \* iot_config
  close,   \* a CLOSE message waits for the work task
  sta,     \* the station: its configuration and state
  events,  \* Wi-Fi events not delivered yet
  ev,      \* the event task in a handler
  timer,   \* delay_worker: 0, or the connection it was scheduled in
  ahead,   \* messages the thread sends before that time is over
  phone,   \* the phone application
  sent,    \* history: commands the phones have sent
  lost,    \* history: a configuration was not saved or not announced
  torn     \* history: the context was NULL or freed while it was used, or a copy
           \* went past iot_config

comms == <<link, conn, queue, phone, sent>>
keyed == <<thr, ctx, keys>>
wifi  == <<saved, close, sta, events>>
join  == <<retry, before>>
delay == <<timer, ahead>>
vars  == <<comms, keyed, wifi, join, ev, delay, lost, torn>>

-----------------------------------------------------------------------------
(* The station command: items with a type, a size and a value.             *)

Bytes(items) ==
  LET n[k \in 0..Len(items)] == IF k = 0 THEN 0 ELSE n[k - 1] + 2 + items[k].size
  IN  n[Len(items)]

\* PKCS7Padding: what an encrypted command has at its end.  bt_aes_decrypt's
\* result, the length without it, is not used: it is parsed as an item.  Its
\* last bytes may not make up a type, a size and a value.
Padding(n) == 16 - (n % 16)
PaddingItem(n) ==
  IF Padding(n) > 2 THEN <<[type |-> Padding(n), size |-> Padding(n), value |-> Junk]>> ELSE <<>>

\* wifi_cfg: the name and the password are char arrays, zeroed at first.
NoText == [value |-> Nil, length |-> 0]
Empty  == [ssid |-> NoText, password |-> NoText, join |-> 0]

\* memcpy: what a longer value left behind a shorter one stays.
Put(text, item) ==
  IF item.size >= text.length THEN [value |-> item.value, length |-> item.size]
                              ELSE [value |-> Junk, length |-> text.length]

\* One round of the loop in wlan_config_process: AP_SSID, AP_PASSWORD, AP_BSSID.
WithItem(c, item) ==
  CASE item.type = 1 /\ item.size <= SsidSize     -> [c EXCEPT !.ssid = Put(@, item), !.join = 1]
    [] item.type = 2 /\ item.size <= PasswordSize -> [c EXCEPT !.password = Put(@, item), !.join = 1]
    [] item.type = 3 /\ item.size = BssidSize     -> [c EXCEPT !.join = 1]
    [] OTHER -> c

wlan_config(items) ==
  LET c[k \in 0..Len(items)] == IF k = 0 THEN Empty ELSE WithItem(c[k - 1], items[k])
  IN  c[Len(items)]
Received(items) == wlan_config(items \o PaddingItem(Bytes(items)))

\* What strcpy reads from an array of that size: one that is full has no NUL,
\* and what follows it in wifi_cfg may be zero or not.
Full(text, size)  == text.length = size
Texts(text, size) == {text.value} \cup (IF Full(text, size) THEN {Junk} ELSE {})

\* Reference: the last value of each type that fits.  Only behind a longer one,
\* or when one fills the array, it may be another text.
Fits(item) ==
  \/ item.type = 1 /\ item.size <= SsidSize
  \/ item.type = 2 /\ item.size <= PasswordSize
  \/ item.type = 3 /\ item.size = BssidSize
Fitting(items, t) == {i \in 1..Len(items) : Fits(items[i]) /\ items[i].type = t}
Last(items, t)    == items[CHOOSE i \in Fitting(items, t) : \A j \in Fitting(items, t) : j <= i]
Covers(items, t)  == \A i \in Fitting(items, t) : items[i].size <= Last(items, t).size
Fills(items, t, size) == \E i \in Fitting(items, t) : items[i].size = size

WantedText(items, t, size) ==
  IF Fitting(items, t) = {} THEN {Nil}
  ELSE (IF Covers(items, t) THEN {Last(items, t).value} ELSE {Junk})
         \cup (IF Fills(items, t, size) THEN {Junk} ELSE {})
Wanted(items) ==
  [ssid |-> WantedText(items, 1, SsidSize), password |-> WantedText(items, 2, PasswordSize),
   join |-> IF \E i \in 1..Len(items) : Fits(items[i]) THEN 1 ELSE 0]

-----------------------------------------------------------------------------
(* Messages, and what each part holds when it is idle.                     *)

Msg(kind, key, cmd) == [kind |-> kind, key |-> key, cmd |-> cmd, from |-> conn]
KeyExchange == Msg("kx", Nil, <<>>)
Station(cmd, key) == Msg("sta", key, cmd)
Verdict(kind) == Msg(kind, Nil, <<>>)

IdleThread == [at |-> "idle", msg |-> Nil, key |-> Nil]
IdleEvent  == [at |-> "idle", key |-> Nil]
NewPhone   == [kx |-> "no", key |-> Nil, cmd |-> Nil, verdict |-> Nil]

Registered == link # "down"    \* the Wi-Fi handlers of bt_connected_cb

Append1(m) == queue' = Append(queue, m)

\* k_work_schedule: work that is scheduled already keeps its time.  600 ms are
\* enough for the thread to send what is in the queue.
Schedule == IF timer = 0 THEN timer' = conn /\ ahead' = Len(queue) + 1 ELSE UNCHANGED delay
Taken    == ahead' = (IF ahead = 0 THEN 0 ELSE ahead - 1) /\ UNCHANGED timer

\* wps_send_error_status
SendError(kind) == Append1(Verdict(kind)) /\ Schedule

Init ==
  /\ link = "down" /\ conn = 0 /\ queue = <<>> /\ phone = NewPhone /\ sent = {}
  /\ thr = IdleThread /\ ctx = Nil /\ keys = 0 /\ retry = 0 /\ before = FALSE
  /\ saved = Nil /\ close = FALSE /\ sta = [net |-> Nil, state |-> "idle"] /\ events = <<>>
  /\ ev = IdleEvent /\ timer = 0 /\ ahead = 0 /\ lost = FALSE /\ torn = FALSE

-----------------------------------------------------------------------------
(* The link.                                                               *)

\* bt_connected_cb.  The phone takes longer to come back than the thread
\* needs for what it has (see WpsTransport for a faster one).
bt_connected_cb ==
  /\ link = "down" /\ conn < MaxConns /\ thr.at = "idle" /\ queue = <<>>
  /\ link' = "up" /\ conn' = conn + 1 /\ phone' = NewPhone
  /\ UNCHANGED <<queue, sent, keyed, wifi, join, ev, delay, lost, torn>>

\* bt_disconnected_cb: the queue is emptied, the context freed, and then the
\* handlers removed and local_conn cleared.
Drain ==
  /\ link = "up" /\ link' = "drained" /\ queue' = <<>> /\ ahead' = 0
  /\ UNCHANGED <<conn, phone, sent, keyed, wifi, join, ev, lost, torn>>
FreeContext ==
  /\ link = "drained" /\ link' = "freed" /\ ctx' = Nil
  /\ UNCHANGED <<conn, queue, phone, sent, thr, keys, wifi, join, ev, delay, lost, torn>>
RemoveHandlers ==
  /\ link = "freed" /\ link' = "down"
  /\ UNCHANGED <<conn, queue, phone, sent, keyed, wifi, join, ev, delay, lost, torn>>

LinkDown == Drain /\ UNCHANGED timer

\* Whatever connection it finds is closed.
delay_work_handler ==
  /\ timer # 0 /\ ahead = 0 /\ timer' = 0
  /\ IF link = "up" THEN Drain
     ELSE UNCHANGED <<comms, keyed, wifi, join, ev, ahead, lost, torn>>

-----------------------------------------------------------------------------
(* The phone.  It exchanges a key before its command, and again if it      *)
(* likes, waits for each answer, and sends one command in a connection,    *)
(* encrypted: the device takes one in plain text too, but can only answer  *)
(* it with what it has encrypted.                                          *)

PhoneExchange ==
  /\ link = "up" /\ phone.kx # "sent" /\ phone.cmd = Nil /\ keys < MaxKeys
  /\ Len(queue) < MaxQueue
  /\ phone' = [phone EXCEPT !.kx = "sent"] /\ Append1(KeyExchange)
  /\ UNCHANGED <<link, conn, sent, keyed, wifi, join, ev, delay, lost, torn>>

PhoneCommand(c) ==
  /\ link = "up" /\ phone.cmd = Nil /\ Len(queue) < MaxQueue
  /\ phone.kx = "have"
  /\ phone' = [phone EXCEPT !.cmd = c] /\ sent' = sent \cup {c}
  /\ Append1(Station(c, phone.key))
  /\ UNCHANGED <<link, conn, keyed, wifi, join, ev, delay, lost, torn>>

\* What the phone makes of a message.
Heard(m) ==
  CASE m.kind = "key" /\ m.from = conn -> [phone EXCEPT !.kx = "have", !.key = m.key]
    [] m.kind \in {"error", "failed", "ok"} /\ phone.cmd # Nil /\ phone.verdict = Nil -> [phone EXCEPT !.verdict = m.kind]
    [] m.kind = "kxerror" /\ phone.kx = "sent" -> [phone EXCEPT !.kx = "no", !.key = Nil]
    [] OTHER -> phone

-----------------------------------------------------------------------------
(* The thread.                                                             *)

\* wps_txrx_thread takes a message.  A response goes to the phone, or is
\* dropped without a connection; a command is decrypted or processed.
TakeResponse ==
  /\ thr.at = "idle" /\ queue # <<>> /\ Head(queue).kind \notin {"kx", "sta"}
  /\ queue' = Tail(queue) /\ phone' = IF link = "up" THEN Heard(Head(queue)) ELSE phone
  /\ Taken /\ UNCHANGED <<link, conn, sent, keyed, wifi, join, ev, lost, torn>>

TakeCommand ==
  /\ thr.at = "idle" /\ queue # <<>> /\ Head(queue).kind \in {"kx", "sta"}
  /\ queue' = Tail(queue)
  /\ thr' = [at |-> IF Head(queue).kind = "kx" THEN "kx" ELSE "decrypt",
             msg |-> Head(queue), key |-> ctx]
  /\ Taken /\ UNCHANGED <<link, conn, phone, sent, ctx, keys, wifi, join, ev, lost, torn>>

\* key_exchange_process
ExchangeFails ==
  /\ thr.at = "kx" /\ "rsa" \in Faults
  /\ SendError("kxerror") /\ thr' = IdleThread
  /\ UNCHANGED <<link, conn, phone, sent, ctx, keys, wifi, join, ev, lost, torn>>

\* Slip: a context that is there is kept.
RegenerateKept ==
  /\ thr.at = "kx" /\ keys < MaxKeys
  /\ keys' = keys + 1 /\ ctx' = (IF ctx = Nil THEN keys' ELSE ctx) /\ thr' = [thr EXCEPT !.at = "reply", !.key = keys']
  /\ UNCHANGED <<comms, wifi, join, ev, delay, lost, torn>>

Regenerate ==
  /\ thr.at = "kx" /\ keys < MaxKeys
  /\ keys' = keys + 1 /\ ctx' = keys' /\ thr' = [thr EXCEPT !.at = "reply", !.key = keys']
  /\ UNCHANGED <<comms, wifi, join, ev, delay, lost, torn>>

RegenerateFails ==
  /\ thr.at = "kx" /\ "aes" \in Faults
  /\ ctx' = Nil /\ SendError("kxerror") /\ thr' = IdleThread
  /\ UNCHANGED <<link, conn, phone, sent, keys, wifi, join, ev, lost, torn>>

\* The answer is encrypted with the public key the phone sent, of thr.msg.
Reply ==
  /\ thr.at = "reply"
  /\ Append1([Msg("key", thr.key, <<>>) EXCEPT !.from = thr.msg.from]) /\ thr' = IdleThread
  /\ UNCHANGED <<link, conn, phone, sent, ctx, keys, wifi, join, ev, delay, lost, torn>>

\* wps_proto_rx_process: the context the decryption began with may have been
\* freed meanwhile.  With another key than the phone's the items are junk; the
\* padding taken from the end may exceed the length.
DecryptTorn ==
  /\ thr.at = "decrypt" /\ (thr.key # ctx \/ thr.key = Nil)
  /\ torn' = TRUE /\ UNCHANGED <<comms, keyed, wifi, join, ev, delay, lost>>
Decrypt ==
  /\ thr.at = "decrypt" /\ thr.key = ctx /\ thr.key # Nil
  /\ \/ thr.key = thr.msg.key /\ thr' = [thr EXCEPT !.at = "parse"] /\ UNCHANGED <<queue, delay>>
     \/ /\ thr.key # thr.msg.key
        /\ thr' = [thr EXCEPT !.at = "parse", !.msg.cmd = <<[type |-> 1, size |-> 1, value |-> Junk]>>]
        /\ UNCHANGED <<queue, delay>>
     \/ thr.key # thr.msg.key /\ thr' = IdleThread /\ SendError("error")
  /\ UNCHANGED <<link, conn, phone, sent, ctx, keys, wifi, join, ev, lost, torn>>

Parsed == Received(thr.msg.cmd)

\* wlan_config_process without an item that fits.
Refuse ==
  /\ thr.at = "parse" /\ Parsed.join = 0
  /\ SendError("error") /\ thr' = IdleThread
  /\ UNCHANGED <<link, conn, phone, sent, ctx, keys, wifi, join, ev, lost, torn>>

\* wps_wifi_join
Join ==
  /\ thr.at = "parse" /\ Parsed.join = 1
  /\ retry' = 0 /\ before' = (sta.state = "joined") /\ thr' = [thr EXCEPT !.at = "save"]
  /\ UNCHANGED <<comms, ctx, keys, wifi, ev, delay, lost, torn>>

\* save_config, whose result nobody looks at: strcpy of both texts, the
\* configuration saved and CLOSE sent, or one of them fails.
Save ==
  /\ thr.at = "save" /\ thr' = IdleThread
  /\ \/ \E s \in Texts(Parsed.ssid, SsidSize), p \in Texts(Parsed.password, PasswordSize) :
          saved' = [ssid |-> s, password |-> p] /\ close' = TRUE /\ UNCHANGED lost
     \/ "save" \in Faults /\ lost' = TRUE /\ UNCHANGED <<saved, close>>
  /\ UNCHANGED <<comms, ctx, keys, sta, events, join, ev, delay, torn>>

\* Without a NUL strcpy may also go on until it has left iot_config.
SaveTorn ==
  /\ thr.at = "save" /\ (Full(Parsed.ssid, SsidSize) \/ Full(Parsed.password, PasswordSize))
  /\ torn' = TRUE /\ UNCHANGED <<comms, keyed, wifi, join, ev, delay, lost>>

Thread == \/ TakeResponse \/ TakeCommand \/ ExchangeFails \/ Regenerate \/ RegenerateFails
          \/ Reply \/ Decrypt \/ DecryptTorn \/ Refuse \/ Join \/ Save \/ SaveTorn

-----------------------------------------------------------------------------
(* Wi-Fi.                                                                  *)

\* The work task handles CLOSE: wm_wifi_connect leaves a joined network.
WorkClose ==
  /\ close /\ Len(events) < MaxQueue
  /\ close' = FALSE /\ sta' = [net |-> saved, state |-> "trying"]
  /\ events' = IF sta.state = "joined" THEN Append(events, "disconnected") ELSE events
  /\ UNCHANGED <<comms, keyed, saved, join, ev, delay, lost, torn>>

Attempt ==
  /\ sta.state = "trying" /\ Len(events) < MaxQueue
  /\ IF sta.net \in Networks
     THEN sta' = [sta EXCEPT !.state = "joined"] /\ events' = Append(events, "got_ip")
     ELSE sta' = [sta EXCEPT !.state = "idle"] /\ events' = Append(events, "disconnected")
  /\ UNCHANGED <<comms, keyed, saved, close, join, ev, delay, lost, torn>>

Lose ==
  /\ sta.state = "joined" /\ Len(events) < MaxQueue
  /\ sta' = [sta EXCEPT !.state = "idle"] /\ events' = Append(events, "disconnected")
  /\ UNCHANGED <<comms, keyed, saved, close, join, ev, delay, lost, torn>>

\* main.c's handler reconnects on every disconnect.
Reconnected == IF sta.state = "idle" THEN [sta EXCEPT !.state = "trying"] ELSE sta

Deliver(kind) == ev.at = "idle" /\ events # <<>> /\ Head(events) = kind /\ events' = Tail(events)

\* wps_handler_sta_disconnected, behind main.c's handler: skip, try again or
\* report.
DisconnectedUnheard ==
  /\ Deliver("disconnected") /\ ~Registered /\ sta' = Reconnected
  /\ UNCHANGED <<comms, keyed, saved, close, join, ev, delay, lost, torn>>
DisconnectedSkip ==
  /\ Deliver("disconnected") /\ Registered /\ retry < MaxRetry /\ before
  /\ sta' = Reconnected /\ before' = FALSE
  /\ UNCHANGED <<comms, keyed, saved, close, retry, ev, delay, lost, torn>>
\* Slip: one attempt too many.
DisconnectedRetryMore ==
  /\ Deliver("disconnected") /\ Registered /\ retry <= MaxRetry /\ ~before
  /\ sta' = Reconnected /\ ev' = [ev EXCEPT !.at = "count"]
  /\ UNCHANGED <<comms, keyed, saved, close, join, delay, lost, torn>>
DisconnectedRetry ==
  /\ Deliver("disconnected") /\ Registered /\ retry < MaxRetry /\ ~before
  /\ sta' = Reconnected /\ ev' = [ev EXCEPT !.at = "count"]
  /\ UNCHANGED <<comms, keyed, saved, close, join, delay, lost, torn>>

\* Slip: the attempt is not counted.
CountNot ==
  /\ ev.at = "count" /\ ev' = IdleEvent
  /\ UNCHANGED <<comms, keyed, wifi, join, delay, lost, torn>>
Count ==
  /\ ev.at = "count" /\ retry' = retry + 1 /\ ev' = IdleEvent
  /\ UNCHANGED <<comms, keyed, wifi, before, delay, lost, torn>>

\* Slip: the connection is left standing.
DisconnectedReportOnly ==
  /\ Deliver("disconnected") /\ Registered /\ retry >= MaxRetry /\ Len(queue) < MaxQueue
  /\ sta' = Reconnected /\ Append1(Verdict("failed"))
  /\ UNCHANGED <<link, conn, phone, sent, keyed, saved, close, join, ev, delay, lost, torn>>
DisconnectedReport ==
  /\ Deliver("disconnected") /\ Registered /\ retry >= MaxRetry /\ Len(queue) < MaxQueue
  /\ sta' = Reconnected /\ SendError("failed")
  /\ UNCHANGED <<link, conn, phone, sent, keyed, saved, close, join, ev, lost, torn>>

\* wps_handler_sta_got_ip: bt_aes_encrypt works with the context it finds.
GotIpUnheard ==
  /\ Deliver("got_ip") /\ ~Registered
  /\ UNCHANGED <<comms, keyed, saved, close, sta, join, ev, delay, lost, torn>>
GotIp ==
  /\ Deliver("got_ip") /\ Registered /\ ev' = [at |-> "encrypt", key |-> ctx]
  /\ UNCHANGED <<comms, keyed, saved, close, sta, join, delay, lost, torn>>

\* Without a context the negative result becomes the length of a memcpy.
SendIpTorn ==
  /\ ev.at = "encrypt" /\ (ev.key # ctx \/ ev.key = Nil)
  /\ torn' = TRUE /\ UNCHANGED <<comms, keyed, wifi, join, ev, delay, lost>>
SendIp ==
  /\ ev.at = "encrypt" /\ ev.key = ctx /\ ev.key # Nil /\ ev' = IdleEvent
  /\ Len(queue) < MaxQueue /\ Append1(Verdict("ok")) /\ Schedule
  /\ UNCHANGED <<link, conn, phone, sent, keyed, wifi, join, lost, torn>>

Handlers == \/ DisconnectedUnheard \/ DisconnectedSkip \/ DisconnectedRetry \/ Count
            \/ DisconnectedReport \/ GotIpUnheard \/ GotIp \/ SendIp \/ SendIpTorn

-----------------------------------------------------------------------------
Callback == FreeContext \/ RemoveHandlers

\* Bound: what follows the use of a context that is not there, or a copy past
\* iot_config, is undefined and not explored.
Next ==
  /\ ~torn
  /\ \/ bt_connected_cb \/ LinkDown \/ Callback \/ delay_work_handler
     \/ PhoneExchange \/ (\E c \in Cmds : PhoneCommand(c))
     \/ Thread \/ WorkClose \/ Attempt \/ Lose \/ Handlers

Spec == Init /\ [][Next]_vars

\* The thread, the event task, the work task and the callback once begun and
\* the delayed work run; an attempt to join ends.
Fairness == /\ WF_vars(~torn /\ Thread) /\ WF_vars(~torn /\ Handlers) /\ WF_vars(~torn /\ WorkClose) /\ WF_vars(~torn /\ Callback)
            /\ WF_vars(~torn /\ Attempt) /\ WF_vars(~torn /\ delay_work_handler)
FairSpec == Spec /\ Fairness

-----------------------------------------------------------------------------
(* Properties.                                                             *)

Configs == [ssid : Values \cup {Nil}, password : Values \cup {Nil}]

TypeOK ==
  /\ link \in {"up", "drained", "freed", "down"} /\ conn \in 0..MaxConns /\ timer \in 0..conn /\ ahead \in 0..MaxQueue + 1
  /\ queue \in Seq(Message) /\ Len(queue) <= MaxQueue + 1
  /\ events \in Seq({"disconnected", "got_ip"}) /\ Len(events) <= MaxQueue
  /\ thr.at \in {"idle", "kx", "reply", "decrypt", "parse", "save"} /\ thr.msg \in Message \cup {Nil}
  /\ thr.at = "idle" <=> thr.msg = Nil
  /\ ctx \in Keys \cup {Nil} /\ keys \in 0..MaxKeys /\ retry \in 0..MaxRetry /\ before \in BOOLEAN
  /\ saved \in Configs \cup {Nil} /\ close \in BOOLEAN /\ sta.state \in {"idle", "trying", "joined"}
  /\ ev.at \in {"idle", "count", "encrypt"} /\ sent \subseteq Cmds
  /\ phone.kx \in {"no", "sent", "have"} /\ phone.verdict \in {Nil, "ok", "error", "failed"}

\* What is saved is what some phone sent: of each type the last item that fits,
\* whatever was padded, encrypted, exchanged again or left in the queue by an
\* earlier connection.  Another text is saved only for an item that fills its
\* array or follows a longer one of its type.  (wlan_config_process,
\* key_exchange_process, save_config.)
SavedIsSent ==
  saved # Nil =>
    \E c \in sent :
      Wanted(c).join = 1 /\ saved.ssid \in Wanted(c).ssid /\ saved.password \in Wanted(c).password

\* A command is answered, by success or failure, while the connection lasts
\* and save_config did not fail.  (wps_handler_sta_disconnected: s_retry_num.)
CommandIsAnswered == phone.cmd # Nil /\ link = "up" ~> phone.verdict # Nil \/ link # "up" \/ lost \/ torn

\* A phone that has its answer is let go.  (delay_work_handler.)
AnsweredIsReleased == phone.verdict # Nil /\ link = "up" ~> link # "up" \/ torn
=============================================================================
