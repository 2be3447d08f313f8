# A formal model of w800_fastbee

TLA+ modules, TLC runs and TLAPS proofs for the W800 switch with Wi-Fi
provisioning over HTTP and BLE (`main/src`) and for the web server it is
provisioned through (`webnet`). Lines are cited as `file:line` under the
repository's root.

## 1. The system

One application thread does the work; everything else sends it messages or
shares globals with it.

| Component | State | Operations | Talks to |
| --- | --- | --- | --- |
| Device life cycle, `main.c` | `work_queue` (4 messages), `iot_config`, the NVS blob, `mqtt_client`, registered callbacks | `work_task` and its handlers (KEY, KEY2, CLOSE, MQTT, PUB), `save_config`, `check_config`, key interrupts, Wi-Fi, IP and MQTT event handlers | everything below |
| BLE provisioning, `wps_app.c` | `proto_queue`, `proto_sem`, `tx_seq`/`rx_seq`, `proto_cmd_buffer`, `local_conn`, AES context | `wps_txrx_thread`, BLE callbacks (connected, disconnected, received, sent), commands | `save_config` from `wps_wifi_join`; Wi-Fi events |
| BLE crypto, `wps_utils.c` | none of its own | RSA, AES, CRC wrappers | vendor driver |
| Web server, `webnet.c`, `wn_session.c` | `webnet_task`, `close_flag`, `_session_list`, per session: socket, request, buffer, phase, operations, event mask | `webnet_init`, `wm_close_webnet_thread`, the select loop, `webnet_sessions_handle_fds` | started by the soft-AP event, stopped by CLOSE |
| Requests, `wn_request.c` | per request: method, path, headers, query | the parsers of the method line, headers, body and query | sessions |
| Dispatch, `wn_module.c` | `module_file_item`, one for all sessions | `webnet_module_handle_uri`, `dofile` and its write handler | CGI, upload, SSI, files |
| CGI, `wn_module_cgi.c` | array of handlers | register, look up, call | `cgi_status_handler`, `cgi_config_handler` in `main.c` |
| Upload, `wn_module_upload.c` | upload session: boundary, open file, fields | multipart state machine | upload entries |
| Utilities, `wn_utils.c` | file table, RAM file | path normalisation, URL coding, RAM file | sessions, dispatch |
| LED, `led.c` | three PWM duties, switch state | on/off, colour, brightness, `led_breathing` | `work_task`, MQTT data handler |
| OTA, `ota.c` | firmware description, progress | parse request, fetch, report | MQTT data handler |

The behaviours that are hard to test, all listed with their lines in
`PROJECT.json`:

* **Two provisioners, one struct.** The webnet thread and the BLE thread may
  run `save_config` at once, while the work task copies the result out.
* **Messages that are not waited for.** Every `xQueueSend` has timeout 0 and
  nobody reads its result.
* **Crashes between writes.** RAM, the blob and the message that acts on it are
  changed one after the other.
* **Late callbacks.** The BLE sent callback may come after the 300 ms wait for
  it; a disconnect empties a queue whose head the thread holds.
* **A connection that comes back** before the thread noticed that it was gone.
* **One thread for all web sessions**, which keep state in a shared global
  between two passes of the loop and outlive the thread.
* **Handlers without an exit**: `led_breathing` in the thread that serves the keys.
* **Requests cut anywhere**, parsed in a buffer that is moved but not
  terminated, and boundaries that arrive in two pieces.
* **Events without an addressee**: a got-IP or a disconnect answers whatever
  command is waiting, with whatever key there is.
* **Two threads on one lamp**: keys and cloud commands write three channels and
  one switch state between each other's writes.

What makes each part correct:

* *Life cycle*: the soft AP and the station exclude each other; the station,
  `iot_config` and flash agree once nobody is writing; a stored configuration is
  that of one provisioner and is joined; only the long press forgets it;
  sessions and topics are set up again after every loss.
* *BLE transport*: responses and commands arrive whole, once and in order over
  a connection whatever is repeated, and the thread never starves one for the
  other.
* *Web server*: the session list and the sockets agree; every complete request
  is answered, once, with the file it asked for; a stop takes effect and a
  restart goes on with what was left.
* *Parsers and upload*: the result does not depend on how a request was cut into
  packets; an uploaded file is the part that was sent.
* *BLE commands*: what is saved is what a phone sent; each command is answered
  and its phone let go.
* *LED and update*: the cloud shows the switch's state, unless handlers or messages
  crossed; a dark lamp counts as off;
  NVS announces an update only over a whole image.

## 2. The modules

| Module | What it is |
| --- | --- |
| `Device` | `main.c`: work task, provisioners, events, keys, the webnet thread's life, restarts |
| `MCDevice` | networks and symmetry for TLC |
| `DeviceProofs` | TLAPS proofs about `Device` |
| `WpsTransport` | the packet layer of `wps_app.c`: thread, callbacks, link and phone |
| `WpsChannel` | abstract: messages of a connection arrive whole, once, in order, and all of them |
| `WpsProofs` | TLAPS proofs about `WpsTransport`: what is in each place; in which order it gets there |
| `WpsProvision` | the commands above those packets: key exchange, station command, join retries, delayed disconnect |
| `MCWpsProvision` | commands and networks for TLC |
| `ProvisionProofs` | TLAPS proofs about `WpsProvision` |
| `WebnetServer` | `webnet.c`, `wn_session.c`, `wn_module.c`, CGI: thread, loop, sessions, answers |
| `MCWebnetServer` | the connections and their requests for TLC |
| `WebnetProofs` | TLAPS proofs about `WebnetServer` |
| `WebnetText` | cells of text, URL decoding and path normalisation as functions |
| `WebnetRequest` | the session's buffer and the parsers of `wn_request.c` |
| `WebnetUpload` | the multipart state machine of `wn_module_upload.c` |
| `WebnetReceive` | one connection: packets, reads, parsers and upload together |
| `WebnetExchange` | abstract: what a session promises about one request |
| `MCWebnetReceive` | the requests for TLC |
| `RequestProofs` | TLAPS lemmas about text, its parsers and the session's buffer |
| `ReceiveProofs` | TLAPS proofs about `WebnetReceive`: the upload's rounds, what the client sends and what the parsers and the upload make of it, the theorems |
| `Cloud` | `led.c`, `ota.c` and the MQTT data handler against the keys |
| `CloudProofs` | TLAPS proofs about `Cloud` |
| `LeastNumber` | lemmas: a non-empty set of numbers has a least element, a bounded one a greatest; what follows by a smallest counterexample; functions defined by recursion |

`PROJECT.json` maps each definition to its lines. A definition whose comment
says *slip* is not part of a specification: it is a plausible mistake in the
definition next to it, kept to show that a property would notice.

### Device

`pc` is where `work_task` stands in a handler; a handler is as many actions as
it has steps another thread can come between. For example CLOSE is
`TakeClose` (unregister the AP callback), `CloseWebnet` (raise `close_flag`),
`ApStop`, `CopySsid` and `CopyPwdAndJoin`. The webnet thread tests the flag once in a
pass, so a request it has received can still save when the AP is gone. `saver[p]` is where a caller of
`save_config` stands: SSID, password, flag, blob and message are separate
steps. `ram` is `iot_config`, `nvs` the blob. Two fields stand for what is
copied apart: a network's SSID and password are the same model value, so a
mixed configuration is one whose fields differ.

`lost` is a history variable: the kinds of message that a full queue dropped
since boot. Queue properties have the form "pending, or it was dropped".

The time a key is down is `held`, measured as the code does: from the moment
the work task takes the message, in polls of the pin. A press that waits in the
queue counts as short when the key is already up.

### WpsTransport

`hand` is the message `wps_txrx_thread` holds, `left` the data in the frame it
just gave to the stack, `owed` the sent callbacks still to come. `Timeout` is
the 300 ms wait of `k_sem_take` running out. Data are units `<<message, index,
length>>`, so the phone can tell a whole message from a patched one.
`FastReconnect` says whether the phone can be back before that wait is over;
with a slow phone a stale message is always cleared first. Decryption, the
command's content and the Wi-Fi attempt it starts are choices: a command is
answered, refused, or answered later by a Wi-Fi event. A command is shorter
than 256 bytes: at exactly 256 the `uint8_t` offset of `proto_cmd_buffer` wraps
(modelled, not exercised, since no command of the protocol is that long).

### WpsProvision

`WpsTransport` is shown to implement `WpsChannel`; this module takes the channel
and models what the messages do. `thr` is where `wps_txrx_thread` stands in a
command, with the AES context it fetched: `ctx` is `p_ciphercontext_aes`, and a
context that was freed or replaced in between makes `torn` true. What follows is
undefined in C, so nothing is explored behind it. `link` has the steps of
`bt_disconnected_cb` one by one, because the thread and the event task run
between them. `ev` is the event task inside a handler: `retry` is read and
counted in two steps, as `s_retry_num` is. A station command is a sequence of
items with a type and a size; `wlan_config` folds the code's loop over them and
the padding that the code parses too. The name and the password are arrays: `Put`
is `memcpy`, which leaves the tail of a longer value, and `Texts` is what `strcpy`
makes of an array with or without room for a NUL; from a full one it may go on
past `iot_config` (`SaveTorn`). `Wanted` is the reference: for each field the
texts that may be saved, which is one text unless an item of its type is longer
than the last or fills the array. Phones encrypt, and wait for the answer to one command before the next.

### WebnetText, WebnetRequest, WebnetUpload, WebnetReceive

A cell is a character the parsers look at (CR, LF, blank, `?`, `&`, `=`, `%`,
`/`, `.`) or a whole word that they only compare (a method, a header's name).
The boundary is two cells, so a read can cut it. `s.buf` is the session's buffer
with what was in it before, `s.off` its `buffer_offset`: a parser works on the
buffer as a C string and may run into old cells, which is why `Consume` keeps
what `memmove` leaves behind. `Freed` stands for query items whose query was
freed: `EndOfHeaders` frees it for the body, and only a form's body gives new ones. `ReadRequest` is one read event up to
`webnet_module_handle_uri`, `ReadUpload` one in an upload. `WebnetExchange` says
what a client may rely on: the handler hears what was meant (or `Freed`, after a
query and a body that is no form), once; a file grows
as a prefix of what was sent and is whole when it is reported done.
`WebnetReceive` implements it for every way of cutting the request, but for the
two cuts of `Miscut`, where the code does not (section 5).

### Cloud

`thr[t].todo` is what thread `t`'s handler still has to do, one access to shared
state per step: `led_brightness` is three channel writes and one of
`switch_state`, a brightness command is the read of `last_state`, those four, the
comparison, a read and a publish. The MQTT callbacks run one at a time; the work
task runs between any two of their steps. A report (`report`) and a switch command
(`command`) are on their way for a while: a report may arrive twice, late or, when
its session has ended, never. The cloud shows what it was last told or asked for
(`cloud`). `raced` remembers what makes the two differ: handlers that overlapped, a
report that crossed a command, or CLOSE, which flashes the lamp in a session and
does not report what that leaves (it does not end the session either). It is over
when a switch command or a key press runs alone: each sets all channels, and the
cloud knows. `ota` is where the update is; it runs inside
the MQTT callback, so no command comes meanwhile. `Duty` keeps C's truncation and
the channel's 8 bits.

### WebnetServer

`conn[c]` joins the client's side of a connection (request, parts sent, whether
it closed, what it received) and the session's (`ops`, `phase`, `mask`,
`code`). A request is two or three parts: method line, headers, body; a read
takes any number of those that arrived. `Select` snapshots both sets as the
code does, and like the code hands on the write set that it *asked* for.
`Accept`, then one `Serve` per session with an event, walk the list; the order
is the list's, newest first. `item` is `module_file_item`. `Exit` closes only
the listening socket: sessions stay linked for the next thread.

The module is the default build: no file system, CGI and upload on, SSI files
and upload entries not registered (nothing in `main.c` registers any). Files
registered with `wn_associated_file_information` are a constant; `main.c`
registers none, so what is said about files is about the component, not about
the shipped device. Sending is taken to complete: a client that stops reading
blocks the thread in `send`, and with it everybody else.

## 3. The runs

| Run | Instance | What it shows |
| --- | --- | --- |
| `device_provision` | queue 2, HTTP and BLE, two networks | AP and station exclude each other; flash, `iot_config` and the station agree in every interleaving of two savers and the work task |
| `device_crash` | queue 2, HTTP, power loss at any step | with this one saver and no reset, what flash holds is one whole network; a saved one is joined, also after a restart; a stopped server stops |
| `device_faults` | queue 1, NVS, soft AP, MQTT and power failures, the USER key, sessions and switch commands | a saved network is joined or its message was dropped; only the long press forgets |
| `device_cloud` | queue 2, both keys, Wi-Fi and MQTT sessions that come and go | sessions and topics are restored; the switch is reported; a long press ends in configuration mode; presses are handled |
| `device_full_queue` | queue 4, BLE, USER key | **violated**: CLOSE is dropped by a full queue and the saved network is never joined (`main.c:108` against `README_EN.md:13`) |
| `wps_transport` | responses of 3 units in frames of 1 and 2, commands of 2 frames, repeats, lost frames, bad ciphers | the transport implements `WpsChannel`, liveness included; commands are executed whole, once and in order |
| `wps_reconnect` | a phone that returns within the wait, damaged frames | stale data can only come first; everything the connection sends still arrives |
| `wps_provision` | two connections, two keys, a good, a wrong, an unusable and a ragged command; RSA, AES and save failures | what is saved is what was sent; a command is answered and its phone let go |
| `webnet_server` | two connections, one file, every kind of answer, two starts, failing allocations | sound list, one answer each, content after headers, everything complete is answered, a stop takes effect |
| `webnet_two_files` | the same with two files | **violated**: the content sent is another file than the headers announced (`wn_module.c:623`) |
| `webnet_receive` | twelve requests, each cut at every place | the session implements `WebnetExchange`; files are closed as often as opened; what was read to its end is served |
| `cloud` | two values, one colour, both keys, updates, every fault | with nothing on its way the cloud shows the switch's state, and a dark lamp counts as off, unless something raced; UPDATE only over a whole image |

### Bounds, and why they are enough

* `QueueLen` 1 to 4: with 1 every second message is dropped, 2 lets a
  message be overtaken and coalesced, 4 is the code's. No handler looks further
  than its own message.
* Two networks and two provisioners: a mix needs two, and a third provisioner
  does not exist. `Flashes` 1: the blinks of `led_flashing` are equal.
* `SeqMod` 4 stands for 256. A frame can be confused with one that is `SeqMod`
  older; at most one frame is unconfirmed at a time, so 2 would do.
* `Lens` 3 with `Mtus` 1 and 2: first, middle and last frames, and a last frame
  that is full or not. `MaxSent`, `MaxCmds`, `MaxQueue`: two messages in a
  queue are needed for one to be prepended before another.
* `Conns` 2: sessions meet in the list and in `item`, both pairwise.
  `MaxStarts` 2: one stop and one restart. `Send`: one part more than the
  request needs is all a session can notice.

* `webnet_receive`: a buffer of 48 cells holds every head but one, which is there
  to overflow it, and less than an upload's head and body together; a third of
  it, from which the code looks for boundaries, is 16 cells. `PostMax` 64 is larger
  than the buffer, as in the code (8192 and 4096). Form bodies are 13 cells, 49, which
  is read and ends behind the buffer, and 64, which is too long; uploads have up to
  52, heads 9 to 63, and `Send` lets a packet end behind any cell. Nothing is sent on a connection once it was miscut.
* `wps_provision`: `MaxRetry` 2 stands for 4: first, middle and last attempt are
  there. `MaxConns` 2: what one connection leaves behind meets the next.
  `MaxKeys` 2: a key can be exchanged again in a connection, or in the next.
  `MaxQueue` 2, and `MaxQueue` of events: one answer behind another. The four
  commands make paddings of 2, 3, 15 and 16, that is no item, the shortest one, and
  those as long as they say. `Ragged` has a shorter name behind a longer one and a
  password of 64 bytes, its array's size. The 600 ms and 1000 ms of the delayed disconnect are
  longer than the thread needs for what is queued: `ahead` counts that.
  A phone reconnects only when the thread is done with the old connection;
  `WpsTransport` has the faster one.
* `cloud`: 0 and 100 are the ends of what a command sets, and `LightShown` covers
  what is between. One colour is enough for one that is off while the others are
  on. `FlashCount` 1 stands for 3: blinks are equal, and both are odd. `PwmMin` 0
  for 1 makes the bright end of `led_breathing` that of the other handlers. One
  switch command is on its way at a time, and of several reports the last.

### Fairness

`Device`: `check_config`, the work task, a save once begun, the webnet thread and
the delivery of the AP start event are weakly fair (the webnet thread's exit
strongly: a pass handles what it found and comes back to the flag, so it cannot be
kept from it by saves): each is a thread or a system
task that the RTOS runs and that waits for nobody else's goodwill at that point.
Keys, networks, brokers, faults and provisioners that have not begun are not.
`WpsTransport`: the thread, the stack's sent callback (owed for each accepted
frame) and delivery over a standing link. `WebnetServer`: the thread only; it
turns at least every 10 ms. Clients and the work task's stop are unfair.
`WpsProvision`: the thread, the event task, the work task, the disconnect
callback once begun, the delayed work and an attempt to join, which the driver
ends one way or the other. Phones, the link and the network are not. Its
liveness holds "or the link is down, or a save failed, or the context was torn".
`WebnetReceive` and `Cloud` state safety only and assume none.

## 4. The proofs

Everything below holds for every value of the constants that satisfies the
named assumptions of the modules and the hypotheses a theorem states. A
hypothesis is there because the property fails without it; section 5 says how.

**`Device`** (`DeviceProofs`): every invariant but `ConfiguredIsWhole`, and
both action properties of its runs.

* `TypeCorrect`: types, and the queue never exceeds its capacity.
* `ModesExclusive`: AP and station exclude each other, and the server is gone or
  told to stop when the station runs. Not inductive alone. `Unbooted` says that
  nothing to provision with exists before `check_config`; `CloseOrder` says what
  each step of CLOSE can rely on: the callback is gone when the server is
  stopped, so no late AP event starts a server behind its back.
* `StationIsCurrent`: the argument is `CopyIsCurrent`: an SSID copied too early
  is followed by another CLOSE, since each save sends one after its last write.
* `FlashIsCurrent`, when NVS does not fail (`nvs_open`, `nvs_blob` not among the
  faults): strengthened by `FlashFollowsSaver`, which counts a saver whose blob is
  written as done; the last of two savers to write the blob writes all of `ram`.
* `TopicsNotForgotten`, `SessionNotForgotten` (when the MQTT client can be
  created), `JoinNotForgotten`: by case analysis of what each step does to
  `Pending`, stated once as lemmas about `Send`, `Receive` and `Restart`.
* `ForgottenByReset`, an action property without hypotheses: a saver about to
  write the blob has set `is_config`, or a reset that cleared it again is still
  under way and ends in a restart (`BlobIsFlagged`).
* `ResetIsLasting`, an action property, without provisioners and blob failures
  (`ResetOrder`). `SwitchIsReported`, without provisioners and cloud commands:
  each step that changes the LED in a session with its topics is one that a
  report follows, or a restart (`ReportOrder`).

**`WpsTransport`** (`WpsProofs`): every invariant of its runs and the
safety part of the refinement.

* `TransportTypeCorrect`: types, for all MTUs and lengths, a semaphore of at most
  1, and `out + left <= len` while waiting: the thread never counts more than the
  message has.
* `PartStaysAtHead`: frames of two responses never mix, in every mode and with
  every fault. Of the two forms it takes, "all queued messages are whole" while
  the thread holds one and "all but the head" otherwise, each step turns one into
  the other.
* `MessagesInOrder`, unless the MTU changes within a response. A *place* is a
  message and how much of it was sent. The invariant `SendInv` is a chain: from
  the place the phone expects, over the frames on the air, each of which is the
  one before again or starts where that one ends (`Link`), to the place the
  thread sends from (`GoesOn`). The messages that wait are numbered on from there
  without a gap (`ThreadAt`). Neighbours in the chain differ by at most one
  sequence number, so any `SeqMod` above 1 tells them apart.
* `TransportIsChannel`: with a slow phone nothing old is left when a connection
  begins (`NothingOld`), and every step is a step of `WpsChannel` or changes
  nothing it sees.
* `CommandsInOrder`: the same chain in the other direction, over the frames that
  wait for the thread, from what the device expects to what the phone sent last
  (`CommandsInv`). Hypotheses: a slow phone, no frame damaged or lost for want of
  memory, and commands that fit `proto_cmd_buffer`.

**`WpsProvision`** (`ProvisionProofs`): every invariant of its run.

* `ProvisionTypeCorrect`: types, no retry beyond the maximum.
* `ConfigIsSent`: what is saved is, of each type, the last item that fits of a
  command some phone sent; behind a longer item of its type, or when one fills its
  array, it may be another text, which `Wanted` says command by command. Two parts. `ReceivedIsWanted` is about the code's loop:
  what may be saved of its result is `Wanted` for commands of every length, and the padding that is parsed
  with them adds nothing, provided a BSSID is not three bytes. `KeyInv` is about
  who holds which key: at most one key exchange is under way, a command in the
  queue carries the phone's key, and that is the context's until it is freed.

**`WebnetServer`** (`WebnetProofs`): every invariant of its run.

* `WebnetTypeCorrect`, `ListCorrect`: the list holds the open sessions once each,
  and the cursor is one of them. `Links` is kept by prepending and unlinking
  wherever the walk is.
* `AnsweredOnce`, `FileIsSent`: `Received` says what a client has got at each stage
  of its session, and a session with a file pending has sent exactly the headers.
  That is inductive only with two facts about other sessions: those the walk still
  comes to are as `select` saw them (`Ahead`, `Seen`), and `module_file_item` is
  set as long as any session has a file pending.

**`Cloud`** (`CloudProofs`): every invariant of its run.

* `CloudTypeCorrect`: types, and the length of what a handler may still have to do.
  `Follows` says which statement may stand behind which; the lists of all handlers
  are of that form, and so are their tails.
* `UpdateWhole`: the update topic is subscribed to only where the flag was taken
  back or the write failed, so no request comes while UPDATE stands (`Taken`).
* `LightShown`, for brightness up to 100: what the statements left in a handler make
  of the lamp if nobody interferes (`LampOK`), and of the report (`ReportOK`). It
  says nothing of a lit lamp, and nothing while `raced`.

**`WebnetReceive`** (`RequestProofs`, `ReceiveProofs`): all its invariants, for
all requests of `AsksAssumption`, all buffer sizes and all cuts into packets.

* `ReceiveTypes`: `buffer_offset` stays within the buffer and no more of a body is
  taken than its length. The NUL the code writes behind a body is not in these
  counts (section 5). Each parser is a lemma of its own: what it consumes is what it
  found, and what it found is in the buffer.
* `FilesArePaired`. That opens and closes pair up is kept by every round of the
  upload's loop, whatever text it is given. That no more files are opened than
  the client sent needs two facts more. `Window`: the cells of the buffer up to the
  offset are the last ones read, but for line ends that the header parser
  overwrote with NUL. `FilesUpTo`: an open consumes a line that names a file, so the
  number of opens is bounded by the number of such lines up to the loop's position
  in what was sent, and `PartsFit` says that only heads of file parts have one.
* `CompleteServed`: a request that was read to its end does not wait. The
  invariant `ServedInv` says, for a request that is not refused, was not cut at
  `Miscut` and is not over, where in it the session is and that more is to come.
  - While it is parsed, `Reading` places it: in the request line, with all of what
    was read in the buffer; between two headers, knowing what the headers in front
    say (`Known`) and with the buffer exact (`Exact`: no NUL among the cells still to
    be parsed); or in the content, with as many cells counted as were read behind the
    head. A parser that stops for lack of input stops in front of a line end that is
    not there yet, and the last one of the request is; one that goes on reaches
    the next place (`MethodGood`, `LinesStand`, `HeaderGood`, `QueryGood`, joined in
    `ParsedThrough`). `~stale` is what makes the header parser's lines those of the
    client: a line that ends behind what was received sets it.
  - An upload's buffer starts no later than the last boundary (`UploadStands`). What
    looks like a boundary behind the head is one, since no part has one in it
    (`BoundaryFound`); behind it stands a part's head or the end, so neither the
    header parser nor `_next_possible_boundary` passes the last boundary, but for
    the cut behind its line end (`HeadAt`, `DataKept`, `LoopKept`). With all of the
    request read the last boundary is in the buffer, and the loop neither waits for
    it nor stops in front of it (`UploadStays`).

Induction: the library's rules take an operator as a parameter, which the
provers cannot instantiate. `Least` in `LeastNumber` is proved from
well-foundedness instead and used as a smallest counterexample: a function that
is wrong somewhere is wrong somewhere first. The parsers of `WebnetText`,
`WebnetRequest` and `WebnetUpload` are functions defined by recursion over a
position; that such a function exists and has its equation is proved once
(`RecursionUp`, `RecursionDown`), and facts about its values follow with `UpTo` and
`DownFrom`.

Only model-checked: liveness, fairness and ENABLED, which are out of the
prover's reach (`SavedIsJoined`, `ServerStops`, `PressHandled`, `AllReceived`,
`CommandIsExecuted`, `CommandIsAnswered`, `AnsweredIsReleased`, `Answered`,
`StopTakesEffect`, and that part of `ImplementsChannel`); and of `WebnetReceive`
`ImplementsExchange`: it needs that decoding undoes encoding, and which cells of a
part are written at every cut.

## 5. What does not hold

Besides the two violated runs, modelling showed these limits. They are why a
run has the instance it has.

* `ConfiguredIsWhole` fails with two provisioners: the SSID of one network and
  the password of the other can be written to flash, and a restart before the
  slower saver's own write keeps them. With one provisioner it fails when a save
  ends and the next begins between the two statements of a reset (`main.c:502`):
  the reset then writes a half-copied network with `is_config` set.
* `PressHandled` holds only until the second key is pressed: a press of it runs `led_breathing`
  (`main.c:529`, `:535`), whose loops have no exit, so the work task handles no
  further message, against `README_EN.md:9` and `:17`. The property names that state as its exception.
* A save behind the stop of the AP sends a second CLOSE; the station is then started
  again, with the later network. `wm_mqtt_client_reconnect` may fail without a
  trace, like the creation of the client: `mqtt` among the faults.
* `ResetEntersConfig` fails when a BLE save overlaps a long press: the save sets
  `is_config` again before the reboot, which then joins.
* `SwitchReported` fails with cloud commands: a report of the state before the
  command can arrive after it, and a command is not reported back. It fails with
  provisioners too: a save that ends while the device is online makes CLOSE blink
  the LED, which leaves it inverted, and nothing reports that.
* `JoinedIsSaved` (defined, in no run) fails when the blob cannot be written:
  `save_config` ignores the result, and the device joins a network that it will
  have forgotten after a restart.
* `FreshInOrder` fails when the MTU changes in the middle of a response: a
  frame's number is the data sent so far divided by the current MTU.
* `ExecutedInOrder` fails when frames of a command are lost for want of memory in a
  connection of more than `SeqMod` frames: the number the device waits for comes
  round again, in the middle of another command, and that middle is executed. The
  run has fewer frames; the theorem excludes the loss. It fails with a fast phone
  too: a frame the thread took before the link broke is executed in the next
  connection, which starts to count at the same number.
* `SessionPending` fails when the MQTT client cannot be created: the message is
  used up and nothing sends another.
* A damaged frame of a command is skipped and the next one appended behind the
  hole; only the disconnect that the error schedules ends this. No claim is made
  for damaged frames but `FreshInOrder` and `AllReceived`.
* `Answered` excludes by name requests that get no answer: an unknown method or a
  damaged request line (the phase stays METHOD, so the error page comes only when
  the client closes) and a configuration with fewer than two parameters (its CGI
  writes nothing). `OneAnswer` excludes two that get two: a refused configuration
  and a range, whose handlers leave a result other than 200 behind.
* Without memory for a request the result code is read through NULL
  (`wn_session.c:558`), against the comment at `:544`. The root without a
  registered `/index.html` compares a name with NULL (`wn_utils.c:148`). Both are
  undefined; the model crashes or goes on.
* After the request line was taken out of the buffer its last cells remain behind
  the rest: a header line that a packet cuts short can be completed by that old
  line end (`s.stale`). A packet that ends exactly between the line end and the
  boundary behind a part writes the line end to the file, and before the last
  boundary the upload never ends (`split`).
* Two file parts in a row go to one file. A form field of a single line is never
  stored. Text that begins like a boundary loops without end, and a part's head
  that fills a third of the buffer is read through NULL; both end the model
  (`FAULT`).
* A POST with a query in its request line and a body that is no form: the query is
  freed for the body (`wn_request.c:316-319`), `query_items` still point into it, and
  a CGI that asks for a field reads freed memory. `webnet_receive` shows that such a
  request, and no other, ends with `Freed` items.
* A POST with a length but no type compares NULL (`wn_request.c:310`), also when it
  is too long to be read; a query item without `=` decodes NULL. A body of 4096 to
  8191 bytes is terminated at its length, behind the session's buffer
  (`wn_request.c:512`). Data of a part without a field's name is written to
  `name_entries[-1]` (`wn_module_upload.c:384`), which ends the model; the others
  may fault or not. A head longer than the
  buffer closes the connection without an answer. A path that climbs above the
  root is left as it was.
* Opening the file of an upload reads from the socket until the part begins, so
  a slow client stalls every session.
* A got-IP event in a connection without a key encrypts with NULL, and the negative
  result becomes the length of a copy; the context can be freed while the
  other thread uses it (`torn`).
* `s_retry_num` and the delayed disconnect outlive their connection: a lost
  network sends an error to a phone that asked nothing, and the disconnect may
  hit the next connection. An answer may be about the network before.
* A name or a password of exactly its array's size is stored without a NUL
  (`wps_app.c:343`, `:351`), and a shorter item behind a longer one keeps the longer
  one's tail: `strcpy` (`main.c:101`) saves another text than was sent, or goes past
  `iot_config` (`SaveTorn`). A network whose name has 32 bytes cannot be relied on.
* A command with a password only, or with an SSID that is too long, saves an empty
  SSID. If `save_config` fails, or CLOSE is dropped, nobody answers the phone.
* Red 50, then green 0: the switch counts as off while red is lit. A brightness
  above 100 is dim or dark, and malformed JSON counts as -1, nearly full.
* Handlers that overlap leave the lamp half set and the cloud with either state. A
  report that crosses a switch command leaves the cloud with the older state, and
  CLOSE in a session (a second provisioner's save) leaves an inverted lamp that
  nobody reports, until the next command or press.
* An update is announced as verified (`ota.c:174`) although the SHA-256 is compared
  with nothing; failures are printed and not reported; the flag for a repeated
  request is never set. A PUB message that waits while an update ends puts INIT
  over UPDATE before the reboot.
* A response may say `Connection: Keep-Alive`; the server closes every connection
  after one request.

## 6. Not modelled

* SSI, ASP, alias, auth, log and directory index: per-request text substitution
  and lookups, off by default but for SSI, without state between requests. DAV
  and Lua cannot be selected. MIME types and the device tree are tables.
* RSA, AES and CRC: vendor code; the model distinguishes success and refusal.
* The RAM file of `wn_utils.c`, which nothing registers; the redirect of
  `wn_session.c` and `webnet_request_parse`, which nothing calls.
* `QUEUE_MSG_TYPE_TEMP` is never sent; `wps_app_uninit` is never called. The
  soft-AP and scan commands of the BLE service are empty.
* The JSON fields of an update, its reports and its SHA-256. The ramps of
  `led_breathing` are abstracted to their ends.
* The command of the BLE service that comes in plain text is taken by the code;
  the phones of `WpsProvision` encrypt.

## 7. What is left

The modelling is done. Every invariant and action property is proved but
`ConfiguredIsWhole`, which holds for one saver without resets and is left to TLC. What
is left is `WebnetReceive`'s refinement: that `urldecode` undoes the client's
encoding, so that the fields the parsers find are the client's, and that `Section`
writes a part's data, whatever the cut.
