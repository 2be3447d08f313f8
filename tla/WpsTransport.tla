---------------------------- MODULE WpsTransport ----------------------------
(***************************************************************************)
(* The packet layer of BLE provisioning: main/src/wps_app.c.               *)
(*                                                                         *)
(* wps_txrx_thread takes messages from proto_queue, frames received from   *)
(* the phone and responses to be sent to it.  A response longer than the   *)
(* MTU goes out in frames, one at a time: the thread waits 300 ms for the  *)
(* sent callback of the stack, and puts the message back at the head of    *)
(* the queue when it is not finished or has to be repeated.  Both sides    *)
(* number their frames; a frame with another number than the expected one  *)
(* is dropped.  The callbacks of the BLE stack run beside the thread.      *)
(*                                                                         *)
(* The BLE link (FIFO, reliable until it breaks) and the phone are outside *)
(* src/; the phone is taken to assemble frames as the device does.  The    *)
(* data of a message is its sequence of units <<message, unit, length>>.   *)
(***************************************************************************)
EXTENDS Naturals, Sequences

CONSTANTS
  SeqMod,    \* frame numbers are modulo this (256: uint8_t)
  BufCap,    \* units that fit in proto_cmd_buffer (256 bytes)
  Mtus,      \* units of data that fit in a frame
  Lens,      \* lengths of the device's responses
  CmdLens,   \* lengths of the phone's commands, in frames of one unit
  LinkCap,   \* buffers of the BLE stack, freed by the sent callback
  MaxSent,   \* bound: responses per connection
  MaxCmds,   \* bound: commands per connection
  MaxQueue,  \* bound: what callbacks put on proto_queue
  FastReconnect, \* the phone may be back before the thread's 300 ms wait is over
  Faults     \* "dup": the phone repeats a frame; "nomem": malloc fails in
             \* bt_receive_cb; "crc": a frame is damaged; "crypt": a command
             \* cannot be decrypted; "mtu": the MTU changes late

ASSUME SeqModAssumption == SeqMod \in Nat /\ SeqMod > 1
ASSUME BoundsAssumption ==
  /\ BufCap \in Nat \ {0} /\ LinkCap \in Nat \ {0}
  /\ MaxSent \in Nat /\ MaxCmds \in Nat /\ MaxQueue \in Nat
ASSUME LensAssumption   ==
  Mtus \subseteq Nat \ {0} /\ Lens \subseteq Nat \ {0} /\ CmdLens \subseteq Nat \ {0}
ASSUME ModeAssumption   == FastReconnect \in BOOLEAN /\ Faults \subseteq {"dup", "nomem", "crc", "crypt", "mtu"}

VARIABLES
  up,        \* the link
  conn,      \* local_conn: "none" is NULL; "drained" while disconnecting
  mtu,       \* what bt_gatt_get_mtu leaves for data
  queue,     \* proto_queue
  pc, hand,  \* wps_txrx_thread, and the message it holds
  left,      \* left_len: the units in the frame just sent
  sem,       \* proto_sem, 0 or 1
  txSeq, rxSeq,
  buf,       \* proto_cmd_buffer up to proto_cmd_buffer_offset
  air,       \* frames on their way to the phone
  owed,      \* sent callbacks the stack still has to make
  phone,     \* its expected number, its buffer, and the command it is sending
  sent, received, executed, spoilt
             \* history of this connection; spoilt: a frame or command was refused

linkVars  == <<up, conn, mtu>>
seqVars   == <<txSeq, rxSeq>>
stackVars == <<sem, air, owed>>
history   == <<sent, received, executed, spoilt>>
vars == <<linkVars, queue, pc, hand, left, seqVars, buf, stackVars, phone, history>>

TxMsg(id, len) == [dir |-> "tx", id |-> id, len |-> len, out |-> 0]
NoMsg == TxMsg(0, 0)

Unit == Nat \X Nat \X Nat
Messages ==
  {m \in [dir : {"tx"}, id : Nat, len : Nat, out : Nat] : m.out <= m.len}
    \cup [dir : {"rx"}, id : Nat, seq : Nat, no : Nat, len : Nat]
Frames == [seq : Nat, no : Nat, more : BOOLEAN, data : Seq(Unit)]
Phones == [seq : Nat, buf : Seq(Unit), txSeq : Nat, id : Nat, len : Nat, out : Nat]

\* n units of message m from unit k + 1 on
Units(m, k, n) == [i \in 1..n |-> <<m.id, k + i, m.len>>]

\* The number of the message whose units these are, 0 if it is not one whole message.
Number(units) ==
  IF units # <<>> /\ units = [i \in 1..units[1][3] |-> <<units[1][1], i, units[1][3]>>]
  THEN units[1][1] ELSE 0

NewPhone == [seq |-> 0, buf |-> <<>>, txSeq |-> 0, id |-> 0, len |-> 0, out |-> 0]

Lesser(a, b) == IF a < b THEN a ELSE b
SeqNext(n) == (n + 1) % SeqMod
SeqPrev(n) == (n + SeqMod - 1) % SeqMod

Init ==
  /\ up = FALSE /\ conn = "none" /\ mtu \in Mtus
  /\ queue = <<>> /\ pc = "idle" /\ hand = NoMsg /\ left = 0
  /\ txSeq = 0 /\ rxSeq = 0 /\ buf = <<>>
  /\ sem = 0 /\ air = <<>> /\ owed = 0
  /\ phone = NewPhone
  /\ sent = 0 /\ received = <<>> /\ executed = <<>> /\ spoilt = FALSE

-----------------------------------------------------------------------------
(* wps_send_ack, wps_send_response, wps_send_error_status: append to the   *)
(* queue.  A response made while there is no link counts for no connection *)
(* and has number 0.                                                       *)

Responses(lens) == [i \in 1..Len(lens) |-> TxMsg(IF up THEN sent + i ELSE 0, lens[i])]

Respond(lens) ==
  /\ sent + Len(lens) <= MaxSent
  /\ queue' = queue \o Responses(lens)
  /\ sent' = IF up THEN sent + Len(lens) ELSE sent

(* wps_handler_sta_got_ip and wps_handler_sta_disconnected, registered     *)
(* while there is a connection.                                            *)
WifiEvent ==
  /\ conn # "none" /\ Len(queue) < MaxQueue
  /\ \E n \in Lens : Respond(<<n>>)
  /\ UNCHANGED <<linkVars, pc, hand, left, seqVars, buf, stackVars, phone, received, executed, spoilt>>

-----------------------------------------------------------------------------
(* wps_txrx_thread.                                                        *)

Get ==
  /\ pc = "idle" /\ queue # <<>>
  /\ hand' = Head(queue) /\ queue' = Tail(queue)
  /\ pc' = Head(queue).dir
  /\ UNCHANGED <<linkVars, left, seqVars, buf, stackVars, phone, history>>

Free == pc' = "idle" /\ hand' = NoMsg /\ left' = 0

(* wps_proto_rx_process.  Whether the frame asks for an acknowledgement,   *)
(* and whether the command has an answer, is the phone's business.         *)
(* Slip: the number advances although the frame is refused.                *)
RxDropCounted ==
  /\ pc = "rx" /\ hand.seq # rxSeq
  /\ rxSeq' = SeqNext(rxSeq) /\ Free
  /\ UNCHANGED <<linkVars, queue, txSeq, buf, stackVars, phone, history>>

RxDrop ==
  /\ pc = "rx" /\ hand.seq # rxSeq
  /\ Free
  /\ UNCHANGED <<linkVars, queue, seqVars, buf, stackVars, phone, history>>

Acks == {<<>>, <<1>>}
Answers == {<<>>} \cup {<<n>> : n \in Lens}

RxError ==
  /\ pc = "rx" /\ hand.seq = rxSeq
  /\ "crc" \in Faults \/ (hand.no # 0 /\ Len(buf) + 1 > BufCap)
  /\ rxSeq' = SeqNext(rxSeq)
  /\ \E a \in Acks : Respond(a \o <<1>>)
  /\ spoilt' = TRUE /\ Free
  /\ UNCHANGED <<linkVars, txSeq, buf, stackVars, phone, received, executed>>

(* A frame of the phone is one unit of a command.  proto_cmd_buffer_offset *)
(* is a uint8_t: a full buffer is an empty one.                            *)
More == hand.no + 1 < hand.len
Assembled ==
  LET new == Append(IF hand.no = 0 THEN <<>> ELSE buf, <<hand.id, hand.no + 1, hand.len>>)
  IN  IF Len(new) = BufCap THEN <<>> ELSE new

(* Slip: the number is not looked at.                                      *)
RxAcceptAny ==
  /\ pc = "rx"
  /\ hand.no = 0 \/ Len(buf) + 1 <= BufCap
  /\ rxSeq' = SeqNext(rxSeq) /\ buf' = Assembled
  /\ \E a \in Acks :
       \/ More /\ Respond(a) /\ UNCHANGED <<executed, spoilt>>
       \/ /\ ~More /\ executed' = Append(executed, Number(Assembled))
          /\ (\E r \in Answers : Respond(a \o r)) /\ UNCHANGED spoilt
       \/ /\ ~More /\ "crypt" \in Faults /\ Respond(a \o <<1>>)
          /\ spoilt' = TRUE /\ UNCHANGED executed
  /\ Free
  /\ UNCHANGED <<linkVars, txSeq, stackVars, phone, received>>

RxAccept ==
  /\ pc = "rx" /\ hand.seq = rxSeq
  /\ hand.no = 0 \/ Len(buf) + 1 <= BufCap
  /\ rxSeq' = SeqNext(rxSeq) /\ buf' = Assembled
  /\ \E a \in Acks :
       \/ More /\ Respond(a) /\ UNCHANGED <<executed, spoilt>>
       \/ /\ ~More /\ executed' = Append(executed, Number(Assembled))
          /\ (\E r \in Answers : Respond(a \o r)) /\ UNCHANGED spoilt
       \/ /\ ~More /\ "crypt" \in Faults /\ Respond(a \o <<1>>)
          /\ spoilt' = TRUE /\ UNCHANGED executed
  /\ Free
  /\ UNCHANGED <<linkVars, txSeq, stackVars, phone, received>>

(* wps_proto_tx_process.  Without a connection the MTU is 0 and the        *)
(* message is dropped; on a link that is down it may already be.           *)
TxDrop ==
  /\ pc = "tx" /\ ~up
  /\ Free
  /\ UNCHANGED <<linkVars, queue, seqVars, buf, stackVars, phone, history>>

Single == hand.len <= mtu
Piece  == IF Single THEN hand.len ELSE Lesser(hand.len - hand.out, mtu)
Frame  ==
  [seq  |-> txSeq,
   no   |-> IF Single THEN 0 ELSE hand.out \div mtu,
   more |-> ~Single /\ hand.len - hand.out > mtu,
   data |-> Units(hand, IF Single THEN 0 ELSE hand.out, Piece)]

(* Slip: a message put back waits behind the others.                       *)
AppendBack(m) == queue' = Append(queue, m)

Prepend(m) == queue' = <<m>> \o queue

(* The frame went out: go on with the rest of the message, or free it.     *)
Continue(m, q) ==
  /\ IF q THEN Prepend(m) ELSE UNCHANGED queue
  /\ Free

TxSend ==
  /\ pc = "tx" /\ up /\ Len(air) + owed < LinkCap
  /\ air' = Append(air, Frame) /\ txSeq' = SeqNext(txSeq)
  /\ left' = (IF Single THEN 0 ELSE Piece) /\ pc' = "wait"
  /\ UNCHANGED <<linkVars, queue, hand, rxSeq, buf, sem, owed, phone, history>>

(* bt_wps_send fails: as if nothing happened; with -ENOTCONN the frame     *)
(* counts as sent and nobody waits for it.                                 *)
TxFull ==
  /\ pc = "tx" /\ up /\ Len(air) + owed >= LinkCap
  /\ Prepend(hand) /\ Free
  /\ UNCHANGED <<linkVars, seqVars, buf, stackVars, phone, history>>

TxNotConnected ==
  /\ pc = "tx" /\ ~up /\ conn # "none"
  /\ txSeq' = SeqNext(txSeq)
  /\ Continue([hand EXCEPT !.out = @ + Piece], Frame.more)
  /\ UNCHANGED <<linkVars, rxSeq, buf, stackVars, phone, history>>

(* k_sem_take: the sent callback came.                                     *)
Sent ==
  /\ pc = "wait" /\ sem = 1 /\ sem' = 0
  /\ Continue([hand EXCEPT !.out = @ + left], left # 0 /\ hand.out + left < hand.len)
  /\ UNCHANGED <<linkVars, seqVars, buf, air, owed, phone, history>>

(* Slips: the frame is not taken back; the number is not taken back.       *)
TimeoutKeepData ==
  /\ pc = "wait" /\ sem = 0
  /\ txSeq' = SeqPrev(txSeq)
  /\ Prepend([hand EXCEPT !.out = @ + left]) /\ Free
  /\ UNCHANGED <<linkVars, rxSeq, buf, stackVars, phone, history>>

TimeoutKeepSeq ==
  /\ pc = "wait" /\ sem = 0
  /\ Prepend(hand) /\ Free
  /\ UNCHANGED <<linkVars, seqVars, buf, stackVars, phone, history>>

(* 300 ms without it: take the frame and its number back, and repeat.      *)
Timeout ==
  /\ pc = "wait" /\ sem = 0
  /\ txSeq' = SeqPrev(txSeq)
  /\ Prepend(hand) /\ Free
  /\ UNCHANGED <<linkVars, rxSeq, buf, stackVars, phone, history>>

Thread ==
  \/ Get \/ RxDrop \/ RxError \/ RxAccept
  \/ TxDrop \/ TxSend \/ TxFull \/ TxNotConnected \/ Sent \/ Timeout

-----------------------------------------------------------------------------
(* The callbacks of the BLE stack.                                         *)

(* bt_connected_cb: sequence numbers restart, the semaphore, the command   *)
(* buffer and what the thread holds stay.                                  *)
Stale(m) == [m EXCEPT !.id = 0]

(* Slip: tx_seq goes on from the last connection.                          *)
ConnectKeepSeq ==
  /\ ~up /\ conn = "none"
  /\ FastReconnect \/ (pc = "idle" /\ queue = <<>>)
  /\ up' = TRUE /\ conn' = "open" /\ mtu' \in Mtus
  /\ rxSeq' = 0
  /\ hand' = Stale(hand) /\ queue' = [i \in 1..Len(queue) |-> Stale(queue[i])]
  /\ buf' = [i \in 1..Len(buf) |-> <<0, buf[i][2], buf[i][3]>>]
  /\ phone' = NewPhone
  /\ sent' = 0 /\ received' = <<>> /\ executed' = <<>> /\ spoilt' = FALSE
  /\ UNCHANGED <<pc, left, txSeq, stackVars>>

Connect ==
  /\ ~up /\ conn = "none"
  /\ FastReconnect \/ (pc = "idle" /\ queue = <<>>)
  /\ up' = TRUE /\ conn' = "open" /\ mtu' \in Mtus
  /\ txSeq' = 0 /\ rxSeq' = 0
  /\ hand' = Stale(hand) /\ queue' = [i \in 1..Len(queue) |-> Stale(queue[i])]
  /\ buf' = [i \in 1..Len(buf) |-> <<0, buf[i][2], buf[i][3]>>]
  /\ phone' = NewPhone
  /\ sent' = 0 /\ received' = <<>> /\ executed' = <<>> /\ spoilt' = FALSE
  /\ UNCHANGED <<pc, left, stackVars>>

(* The MTU exchange comes first in a connection.                           *)
MtuExchange ==
  /\ up /\ (sent = 0 \/ "mtu" \in Faults)
  /\ mtu' \in Mtus /\ mtu' > mtu
  /\ UNCHANGED <<up, conn, queue, pc, hand, left, seqVars, buf, stackVars, phone, history>>

LinkDown ==
  /\ up /\ up' = FALSE /\ air' = <<>> /\ owed' \in owed..(owed + Len(air))
  /\ UNCHANGED <<conn, mtu, queue, pc, hand, left, seqVars, buf, sem, phone, history>>

(* bt_disconnected_cb: empty the queue, then forget the connection.        *)
Drain ==
  /\ ~up /\ conn = "open" /\ conn' = "drained" /\ queue' = <<>>
  /\ UNCHANGED <<up, mtu, pc, hand, left, seqVars, buf, stackVars, phone, history>>

Disconnected ==
  /\ conn = "drained" /\ conn' = "none" /\ owed' = 0
  /\ UNCHANGED <<up, mtu, queue, pc, hand, left, seqVars, buf, sem, air, phone, history>>

(* Slip: the semaphore has no limit.                                       *)
SentCallbackCounts ==
  /\ owed > 0 /\ owed' = owed - 1 /\ sem' = sem + 1
  /\ UNCHANGED <<linkVars, queue, pc, hand, left, seqVars, buf, air, phone, history>>

SentCallback ==
  /\ owed > 0 /\ owed' = owed - 1 /\ sem' = 1
  /\ UNCHANGED <<linkVars, queue, pc, hand, left, seqVars, buf, air, phone, history>>

(* The phone gets a frame, and the stack owes the device a callback.       *)
Deliver ==
  /\ up /\ air # <<>> /\ air' = Tail(air) /\ owed' = owed + 1
  /\ LET f   == Head(air)
         new == IF f.no = 0 THEN f.data ELSE phone.buf \o f.data
     IN  IF f.seq # phone.seq
         THEN UNCHANGED <<phone, received>>
         ELSE /\ phone' = [phone EXCEPT !.seq = SeqNext(@), !.buf = IF f.more THEN new ELSE <<>>]
              /\ received' = IF f.more THEN received ELSE Append(received, Number(new))
  /\ UNCHANGED <<linkVars, queue, pc, hand, left, seqVars, buf, sem, sent, executed, spoilt>>

(* The phone sends a frame, bt_receive_cb queues it unless malloc fails.   *)
PhoneFrame(s, id, len, k) ==
  [dir |-> "rx", id |-> id, seq |-> s, no |-> k, len |-> len]

Received(f) ==
  /\ Len(queue) < MaxQueue
  /\ \/ queue' = Append(queue, f) /\ UNCHANGED spoilt
     \/ "nomem" \in Faults /\ spoilt' = TRUE /\ UNCHANGED queue

PhoneSend ==
  /\ up
  /\ \E len \in CmdLens :
       LET new == phone.out = phone.len
           id  == IF new THEN phone.id + 1 ELSE phone.id
           k   == IF new THEN 0 ELSE phone.out
       IN  /\ new => phone.id < MaxCmds
           /\ ~new => len = phone.len
           /\ Received(PhoneFrame(phone.txSeq, id, len, k))
           /\ phone' = [phone EXCEPT !.txSeq = SeqNext(@), !.id = id, !.len = len, !.out = k + 1]
  /\ UNCHANGED <<linkVars, pc, hand, left, seqVars, buf, stackVars, sent, received, executed>>

PhoneRepeat ==
  /\ "dup" \in Faults /\ up /\ phone.out > 0
  /\ Received(PhoneFrame(SeqPrev(phone.txSeq), phone.id, phone.len, phone.out - 1))
  /\ UNCHANGED <<linkVars, pc, hand, left, seqVars, buf, stackVars, phone, sent, received, executed>>

Next ==
  \/ WifiEvent \/ Thread
  \/ Connect \/ MtuExchange \/ LinkDown \/ Drain \/ Disconnected \/ SentCallback
  \/ Deliver \/ PhoneSend \/ PhoneRepeat

Spec == Init /\ [][Next]_vars

(* The thread runs and the stack works; phone, links and Wi-Fi do as they  *)
(* please.                                                                 *)
Fairness == WF_vars(Thread) /\ WF_vars(SentCallback) /\ WF_vars(Deliver)
FairSpec == Spec /\ Fairness

-----------------------------------------------------------------------------
(* Properties                                                              *)

LinkType    == up \in BOOLEAN /\ conn \in {"none", "open", "drained"} /\ mtu \in Mtus
QueueType   == queue \in Seq(Messages)
ThreadType  == pc \in {"idle", "rx", "tx", "wait"} /\ hand \in Messages /\ left \in Nat
RoleType    ==
  /\ pc = "rx" => hand.dir = "rx"
  /\ pc \in {"tx", "wait"} => hand.dir = "tx"
  /\ pc = "wait" => hand.out + left <= hand.len
SeqType     == txSeq \in 0..(SeqMod - 1) /\ rxSeq \in 0..(SeqMod - 1)
BufType     == buf \in Seq(Unit) /\ Len(buf) < BufCap
StackType   == sem \in 0..1 /\ owed \in Nat /\ air \in Seq(Frames)
PhoneType   == phone \in Phones
HistoryType ==
  /\ sent \in 0..MaxSent /\ spoilt \in BOOLEAN
  /\ received \in Seq(Nat) /\ executed \in Seq(Nat)

TypeOK ==
  /\ LinkType /\ QueueType /\ ThreadType /\ RoleType /\ SeqType
  /\ BufType /\ StackType /\ PhoneType /\ HistoryType

(* The transport keeps the promise of WpsChannel, in safety and liveness.  *)
(* (wps_proto_tx_process: retries, the semaphore, the sequence numbers.)   *)
Channel == INSTANCE WpsChannel WITH up <- up, sent <- sent, received <- received
ImplementsChannel == Channel!FairSpec

(* A message sent in part is at the head of the queue or in the thread's   *)
(* hand, alone: frames of two messages never mix.                          *)
(* (wps_proto_tx_process puts it back with k_queue_prepend.)               *)
PartIsHead ==
  \A i \in 1..Len(queue) :
    queue[i].dir = "tx" /\ queue[i].out > 0 => i = 1 /\ pc = "idle"

(* The device executes commands of the phone whole, once each and in       *)
(* order, whatever frames are repeated, not decrypted or, among the first  *)
(* SeqMod of a connection, lost for want of memory.                        *)
(* (wps_proto_rx_process: rx_seq, proto_cmd_buffer.)                       *)
ExecutedInOrder ==
  \A i \in 1..Len(executed) :
    executed[i] \in (IF i = 1 THEN 1 ELSE executed[i - 1] + 1)..phone.id

(* A command the phone sent to the end is executed while the link stays    *)
(* and nothing was refused. (wps_txrx_thread: responses that are repeated  *)
(* do not starve commands.)                                                *)
CommandIsExecuted ==
  \A c \in 1..MaxCmds :
    phone.id = c /\ phone.out = phone.len ~>
      \/ \E i \in 1..Len(executed) : executed[i] = c
      \/ ~up \/ spoilt

(* Even when the phone is back before the thread noticed that it was gone, *)
(* damaged or stale data comes first and the messages of the connection    *)
(* follow whole and in order. (bt_connected_cb, bt_disconnected_cb.)       *)
FreshInOrder ==
  \E k \in 0..Len(received) :
    \A i \in 1..Len(received) : received[i] = IF i <= k THEN 0 ELSE i - k

(* And all of them do follow, while the link stays. (wps_txrx_thread.)     *)
AllReceived ==
  \A m \in 1..MaxSent : sent >= m ~> (\E i \in 1..Len(received) : received[i] = m) \/ ~up \/ sent < m
=============================================================================
