------------------------------ MODULE WpsProofs ------------------------------
(***************************************************************************)
(* Theorems about WpsTransport, for every size of frame, message, buffer   *)
(* and queue, every set of faults and both modes of reconnection.          *)
(***************************************************************************)
EXTENDS WpsTransport, Integers, SequenceTheorems, TLAPS

-----------------------------------------------------------------------------
(* The helpers.                                                            *)

LEMMA SeqNextType ==
  ASSUME NEW n \in Nat
  PROVE  SeqNext(n) \in 0..(SeqMod - 1) /\ SeqPrev(n + 1) \in 0..(SeqMod - 1)
  BY SeqModAssumption, SMT DEF SeqNext, SeqPrev

LEMMA SeqPrevType ==
  ASSUME NEW n \in Nat
  PROVE  SeqPrev(n) \in 0..(SeqMod - 1)
  BY SeqModAssumption, SMT DEF SeqPrev

LEMMA NumberType ==
  ASSUME NEW u \in Seq(Unit)
  PROVE  Number(u) \in Nat
  BY DEF Number, Unit

LEMMA UnitsType ==
  ASSUME NEW m \in Messages, NEW k \in Nat, NEW n \in Nat
  PROVE  Units(m, k, n) \in Seq(Unit)
  BY DEF Units, Unit, Messages

LEMMA StaleType ==
  ASSUME NEW m \in Messages
  PROVE  Stale(m) \in Messages /\ Stale(m).dir = m.dir
         /\ (m.dir = "tx" => Stale(m).out = m.out)
  BY DEF Stale, Messages

LEMMA ResponsesType ==
  ASSUME TypeOK, NEW lens \in Seq(Nat)
  PROVE  /\ Responses(lens) \in Seq(Messages)
         /\ Len(Responses(lens)) = Len(lens)
         /\ \A i \in 1..Len(lens) : Responses(lens)[i].out = 0
  BY DEF Responses, TxMsg, Messages, TypeOK, HistoryType

LEMMA RespondType ==
  ASSUME TypeOK, NEW lens \in Seq(Nat), Respond(lens)
  PROVE  QueueType' /\ sent' \in 0..MaxSent
<1>1. Responses(lens) \in Seq(Messages)
  BY ResponsesType
<1>2. QueueType'
  BY <1>1 DEF Respond, TypeOK, QueueType
<1>3. sent' \in 0..MaxSent
  BY BoundsAssumption DEF Respond, TypeOK, HistoryType
<1>4. QED
  BY <1>2, <1>3

LEMMA PrependType ==
  ASSUME TypeOK, NEW m \in Messages, Prepend(m)
  PROVE  QueueType'
  BY DEF Prepend, TypeOK, QueueType

LEMMA FreeType ==
  ASSUME Free
  PROVE  ThreadType' /\ RoleType'
  BY DEF Free, NoMsg, TxMsg, Messages, ThreadType, RoleType

LEMMA AnswersType ==
  /\ \A a \in Acks : a \in Seq(Nat)
  /\ \A a \in Acks : a \o <<1>> \in Seq(Nat)
  /\ \A a \in Acks, r \in Answers : a \o r \in Seq(Nat)
<1>1. <<>> \in Seq(Nat) /\ <<1>> \in Seq(Nat)
  OBVIOUS
<1>2. \A a \in Acks : a \in Seq(Nat)
  BY <1>1 DEF Acks
<1>3. ASSUME NEW r \in Answers
      PROVE  r \in Seq(Nat)
  <2>1. CASE r = <<>>
    BY <1>1, <2>1
  <2>2. CASE r \in {<<n>> : n \in Lens}
    <3>1. PICK n \in Lens : r = <<n>>
      BY <2>2
    <3>2. n \in Nat
      BY LensAssumption
    <3>3. QED
      BY <3>1, <3>2
  <2>3. QED
    BY <2>1, <2>2 DEF Answers
<1>4. \A a, b \in Seq(Nat) : a \o b \in Seq(Nat)
  OBVIOUS
<1>5. QED
  BY <1>1, <1>2, <1>3, <1>4

LEMMA PieceType ==
  ASSUME TypeOK, pc = "tx"
  PROVE  /\ hand.out \in Nat /\ hand.len \in Nat /\ hand.out <= hand.len
         /\ mtu \in Nat \ {0} /\ Piece \in Nat
         /\ ~Single => hand.out + Piece <= hand.len
<1>1. mtu \in Nat \ {0}
  BY LensAssumption DEF TypeOK, LinkType
<1>2. hand.out \in Nat /\ hand.len \in Nat /\ hand.out <= hand.len
  BY DEF TypeOK, ThreadType, RoleType, Messages
<1>3. CASE Single
  BY <1>1, <1>2, <1>3 DEF Piece
<1>4. CASE ~Single
  BY <1>1, <1>2, <1>4 DEF Piece, Lesser
<1>5. QED
  BY <1>1, <1>2, <1>3, <1>4

LEMMA FrameType ==
  ASSUME TypeOK, pc = "tx"
  PROVE  Frame \in Frames
<1>1. txSeq \in Nat
  BY SeqModAssumption DEF TypeOK, SeqType
<1>2. hand.out \div mtu \in Nat
  BY PieceType
<1>3. \A k \in Nat : Units(hand, k, Piece) \in Seq(Unit)
  BY PieceType, UnitsType DEF TypeOK, ThreadType
<1>4. Units(hand, IF Single THEN 0 ELSE hand.out, Piece) \in Seq(Unit)
  BY <1>3, PieceType
<1>5. QED
  BY <1>1, <1>2, <1>4 DEF Frame, Frames

LEMMA AssembledType ==
  ASSUME TypeOK, pc = "rx", hand.no = 0 \/ Len(buf) + 1 <= BufCap
  PROVE  Assembled \in Seq(Unit) /\ Len(Assembled) < BufCap
<1> DEFINE old == IF hand.no = 0 THEN <<>> ELSE buf
           new == Append(old, <<hand.id, hand.no + 1, hand.len>>)
<1>1. <<hand.id, hand.no + 1, hand.len>> \in Unit
  BY DEF TypeOK, ThreadType, RoleType, Messages, Unit
<1>2. old \in Seq(Unit) /\ Len(old) + 1 <= BufCap
  BY BoundsAssumption DEF TypeOK, BufType
<1>3. new \in Seq(Unit) /\ Len(new) = Len(old) + 1
  BY <1>1, <1>2
<1>4. Assembled = IF Len(new) = BufCap THEN <<>> ELSE new
  BY DEF Assembled
<1>5. QED
  BY <1>2, <1>3, <1>4, BoundsAssumption

LEMMA PhoneFrameType ==
  ASSUME NEW s \in Nat, NEW id \in Nat, NEW n \in Nat, NEW k \in Nat
  PROVE  PhoneFrame(s, id, n, k) \in Messages
  BY DEF PhoneFrame, Messages

-----------------------------------------------------------------------------
(* Every variable keeps its type; the semaphore stays at most 1 and the    *)
(* command buffer below its size. (wps_app.c)                              *)

LEMMA TypeInit == Init => TypeOK
<1> SUFFICES ASSUME Init PROVE TypeOK
  OBVIOUS
<1>0. <<>> \in Seq(Messages) /\ <<>> \in Seq(Nat)
  OBVIOUS
<1>1. LinkType /\ QueueType
  BY <1>0 DEF Init, LinkType, QueueType
<1>2. ThreadType /\ RoleType
  BY DEF Init, ThreadType, RoleType, NoMsg, TxMsg, Messages
<1>3. SeqType /\ BufType
  BY SeqModAssumption, BoundsAssumption DEF Init, SeqType, BufType
<1>4. StackType /\ PhoneType
  BY DEF Init, StackType, PhoneType, Phones, NewPhone
<1>5. HistoryType
  <2>1. sent \in 0..MaxSent
    BY BoundsAssumption DEF Init
  <2>2. spoilt \in BOOLEAN /\ received \in Seq(Nat) /\ executed \in Seq(Nat)
    BY <1>0, Zenon DEF Init
  <2>3. QED
    BY <2>1, <2>2 DEF HistoryType
<1>6. QED
  BY <1>1, <1>2, <1>3, <1>4, <1>5 DEF TypeOK

LEMMA TypeStutter == TypeOK /\ UNCHANGED vars => TypeOK'
<1> SUFFICES ASSUME TypeOK, UNCHANGED vars PROVE TypeOK'
  OBVIOUS
<1>1. (LinkType /\ QueueType /\ ThreadType /\ RoleType)'
  BY DEF TypeOK, vars, linkVars, LinkType, QueueType, ThreadType, RoleType
<1>2. (SeqType /\ BufType /\ StackType)'
  BY DEF TypeOK, vars, seqVars, stackVars, SeqType, BufType, StackType
<1>3. (PhoneType /\ HistoryType)'
  BY DEF TypeOK, vars, history, PhoneType, HistoryType
<1>4. QED
  BY <1>1, <1>2, <1>3 DEF TypeOK

LEMMA TypeReceive == TypeOK /\ (WifiEvent \/ Get \/ RxDrop \/ RxError \/ RxAccept) => TypeOK'
<1> SUFFICES ASSUME TypeOK, WifiEvent \/ Get \/ RxDrop \/ RxError \/ RxAccept PROVE TypeOK'
  OBVIOUS
<1> USE DEF TypeOK
<1>1. CASE WifiEvent
  <2>1. PICK n \in Lens : Respond(<<n>>)
    BY <1>1 DEF WifiEvent
  <2>2. <<n>> \in Seq(Nat)
    BY LensAssumption
  <2>3. QueueType' /\ sent' \in 0..MaxSent
    BY <2>1, <2>2, RespondType
  <2>4. QED
    BY <1>1, <2>3 DEF WifiEvent, linkVars, seqVars, stackVars, LinkType, ThreadType, RoleType,
         SeqType, BufType, StackType, PhoneType, HistoryType
<1>2. CASE Get
  <2>1. Head(queue) \in Messages /\ Tail(queue) \in Seq(Messages)
    BY <1>2 DEF Get, QueueType
  <2>2. QueueType' /\ ThreadType' /\ RoleType'
    BY <1>2, <2>1 DEF Get, QueueType, ThreadType, RoleType, Messages
  <2>3. QED
    BY <1>2, <2>2 DEF Get, linkVars, seqVars, stackVars, history, LinkType,
         SeqType, BufType, StackType, PhoneType, HistoryType
<1>3. CASE RxDrop
  <2>1. ThreadType' /\ RoleType'
    BY <1>3, FreeType DEF RxDrop
  <2>2. QED
    BY <1>3, <2>1 DEF RxDrop, linkVars, seqVars, stackVars, history, LinkType, QueueType,
         SeqType, BufType, StackType, PhoneType, HistoryType
<1>4. CASE RxError
  <2>1. ThreadType' /\ RoleType'
    BY <1>4, FreeType DEF RxError
  <2>2. PICK a \in Acks : Respond(a \o <<1>>)
    BY <1>4 DEF RxError
  <2>3. QueueType' /\ sent' \in 0..MaxSent
    BY <2>2, AnswersType, RespondType
  <2>4. SeqType'
    BY <1>4, SeqNextType, SeqModAssumption DEF RxError, SeqType
  <2>5. QED
    BY <1>4, <2>1, <2>3, <2>4 DEF RxError, linkVars, stackVars, LinkType,
         BufType, StackType, PhoneType, HistoryType
<1>5. CASE RxAccept
  <2>1. ThreadType' /\ RoleType'
    BY <1>5, FreeType DEF RxAccept
  <2>2. SeqType'
    BY <1>5, SeqNextType, SeqModAssumption DEF RxAccept, SeqType
  <2>3. Assembled \in Seq(Unit) /\ Len(Assembled) < BufCap
    BY <1>5, AssembledType DEF RxAccept
  <2>4. BufType'
    BY <1>5, <2>3 DEF RxAccept, BufType
  <2>5. Append(executed, Number(Assembled)) \in Seq(Nat)
    BY <2>3, NumberType DEF HistoryType
  <2>6. PICK a \in Acks :
          \/ Respond(a) /\ UNCHANGED <<executed, spoilt>>
          \/ /\ executed' = Append(executed, Number(Assembled)) /\ UNCHANGED spoilt
             /\ \E r \in Answers : Respond(a \o r)
          \/ Respond(a \o <<1>>) /\ spoilt' = TRUE /\ UNCHANGED executed
    BY <1>5 DEF RxAccept
  <2>7. \E lens \in Seq(Nat) : Respond(lens)
    BY <2>6, AnswersType
  <2>8. QueueType' /\ sent' \in 0..MaxSent
    BY <2>7, RespondType
  <2>9. executed' \in Seq(Nat) /\ spoilt' \in BOOLEAN
    BY <2>5, <2>6 DEF HistoryType
  <2>10. QED
    BY <1>5, <2>1, <2>2, <2>4, <2>8, <2>9 DEF RxAccept, linkVars, stackVars, LinkType,
         StackType, PhoneType, HistoryType
<1>6. QED
  BY <1>1, <1>2, <1>3, <1>4, <1>5

LEMMA TypeTransmit ==
  TypeOK /\ (TxDrop \/ TxSend \/ TxFull \/ TxNotConnected \/ Sent \/ Timeout) => TypeOK'
<1> SUFFICES ASSUME TypeOK, TxDrop \/ TxSend \/ TxFull \/ TxNotConnected \/ Sent \/ Timeout
             PROVE  TypeOK'
  OBVIOUS
<1> USE DEF TypeOK
<1>1. CASE TxDrop
  <2>1. ThreadType' /\ RoleType'
    BY <1>1, FreeType DEF TxDrop
  <2>2. QED
    BY <1>1, <2>1 DEF TxDrop, linkVars, seqVars, stackVars, history, LinkType, QueueType,
         SeqType, BufType, StackType, PhoneType, HistoryType
<1>2. CASE TxSend
  <2>1. SeqType'
    BY <1>2, SeqNextType, SeqModAssumption DEF TxSend, SeqType
  <2>2. left' \in Nat /\ hand.out + left' <= hand.len
    BY <1>2, PieceType DEF TxSend
  <2>3. ThreadType' /\ RoleType'
    BY <1>2, <2>2 DEF TxSend, ThreadType, RoleType
  <2>4. StackType'
    BY <1>2, FrameType DEF TxSend, StackType
  <2>5. QED
    BY <1>2, <2>1, <2>3, <2>4 DEF TxSend, linkVars, history, LinkType, QueueType,
         BufType, PhoneType, HistoryType
<1>3. CASE TxFull
  <2>1. ThreadType' /\ RoleType'
    BY <1>3, FreeType DEF TxFull
  <2>2. QueueType'
    BY <1>3, PrependType DEF TxFull, ThreadType
  <2>3. QED
    BY <1>3, <2>1, <2>2 DEF TxFull, linkVars, seqVars, stackVars, history, LinkType,
         SeqType, BufType, StackType, PhoneType, HistoryType
<1>4. CASE TxNotConnected
  <2>1. ThreadType' /\ RoleType'
    BY <1>4, FreeType DEF TxNotConnected, Continue
  <2>2. SeqType'
    BY <1>4, SeqNextType, SeqModAssumption DEF TxNotConnected, SeqType
  <2>3. ASSUME Frame.more PROVE [hand EXCEPT !.out = @ + Piece] \in Messages
    <3>1. ~Single
      BY <2>3 DEF Frame
    <3>2. hand.dir = "tx"
      BY <1>4 DEF TxNotConnected, RoleType
    <3>3. QED
      BY <1>4, <3>1, <3>2, PieceType DEF TxNotConnected, ThreadType, Messages
  <2>4. QueueType'
    BY <1>4, <2>3, PrependType DEF TxNotConnected, Continue, QueueType
  <2>5. QED
    BY <1>4, <2>1, <2>2, <2>4 DEF TxNotConnected, linkVars, stackVars, history, LinkType,
         BufType, StackType, PhoneType, HistoryType
<1>5. CASE Sent
  <2>1. ThreadType' /\ RoleType'
    BY <1>5, FreeType DEF Sent, Continue
  <2>2. [hand EXCEPT !.out = @ + left] \in Messages
    BY <1>5 DEF Sent, ThreadType, RoleType, Messages
  <2>3. QueueType'
    BY <1>5, <2>2, PrependType DEF Sent, Continue, QueueType
  <2>4. QED
    BY <1>5, <2>1, <2>3 DEF Sent, linkVars, seqVars, history, LinkType,
         SeqType, BufType, StackType, PhoneType, HistoryType
<1>6. CASE Timeout
  <2>1. ThreadType' /\ RoleType'
    BY <1>6, FreeType DEF Timeout
  <2>2. SeqType'
    BY <1>6, SeqPrevType, SeqModAssumption DEF Timeout, SeqType
  <2>3. QueueType'
    BY <1>6, PrependType DEF Timeout, ThreadType
  <2>4. QED
    BY <1>6, <2>1, <2>2, <2>3 DEF Timeout, linkVars, stackVars, history, LinkType,
         BufType, StackType, PhoneType, HistoryType
<1>7. QED
  BY <1>1, <1>2, <1>3, <1>4, <1>5, <1>6

LEMMA TypeStack ==
  TypeOK /\ (Connect \/ MtuExchange \/ LinkDown \/ Drain \/ Disconnected \/ SentCallback) => TypeOK'
<1> SUFFICES ASSUME TypeOK, Connect \/ MtuExchange \/ LinkDown \/ Drain \/ Disconnected \/ SentCallback
             PROVE  TypeOK'
  OBVIOUS
<1> USE DEF TypeOK
<1>0. <<>> \in Seq(Messages) /\ <<>> \in Seq(Nat) /\ <<>> \in Seq(Frames)
  OBVIOUS
<1>1. CASE Connect
  <2>1. QueueType'
    <3>1. \A i \in 1..Len(queue) : Stale(queue[i]) \in Messages
      BY StaleType DEF QueueType
    <3>2. QED
      BY <1>1, <3>1 DEF Connect, QueueType
  <2>2. Stale(hand) \in Messages /\ Stale(hand).dir = hand.dir
    BY StaleType DEF ThreadType
  <2>3. pc = "wait" => Stale(hand).out + left <= Stale(hand).len
    BY DEF ThreadType, RoleType, Stale, Messages
  <2>4. ThreadType' /\ RoleType'
    BY <1>1, <2>2, <2>3 DEF Connect, ThreadType, RoleType
  <2>5. BufType'
    <3>1. \A i \in 1..Len(buf) : <<0, buf[i][2], buf[i][3]>> \in Unit
      BY DEF BufType, Unit
    <3>2. QED
      BY <1>1, <3>1 DEF Connect, BufType
  <2>6. PhoneType'
    BY <1>1 DEF Connect, PhoneType, NewPhone, Phones
  <2>7. HistoryType'
    <3>1. sent' \in 0..MaxSent
      BY <1>1, BoundsAssumption DEF Connect
    <3>2. spoilt' \in BOOLEAN /\ received' \in Seq(Nat) /\ executed' \in Seq(Nat)
      BY <1>0, <1>1, Zenon DEF Connect
    <3>3. QED
      BY <3>1, <3>2 DEF HistoryType
  <2>8. QED
    BY <1>1, <2>1, <2>4, <2>5, <2>6, <2>7, SeqModAssumption DEF Connect, stackVars, LinkType,
       SeqType, StackType
<1>2. CASE MtuExchange
  BY <1>2 DEF MtuExchange, seqVars, stackVars, history, LinkType, QueueType, ThreadType, RoleType,
     SeqType, BufType, StackType, PhoneType, HistoryType
<1>3. CASE LinkDown
  <2>1. StackType'
    BY <1>0, <1>3 DEF LinkDown, StackType
  <2>2. QED
    BY <1>3, <2>1 DEF LinkDown, seqVars, history, LinkType, QueueType, ThreadType, RoleType,
       SeqType, BufType, PhoneType, HistoryType
<1>4. CASE Drain
  BY <1>0, <1>4 DEF Drain, seqVars, stackVars, history, LinkType, QueueType, ThreadType, RoleType,
     SeqType, BufType, StackType, PhoneType, HistoryType
<1>5. CASE Disconnected
  BY <1>5 DEF Disconnected, seqVars, history, LinkType, QueueType, ThreadType, RoleType,
     SeqType, BufType, StackType, PhoneType, HistoryType
<1>6. CASE SentCallback
  BY <1>6 DEF SentCallback, linkVars, seqVars, history, LinkType, QueueType, ThreadType, RoleType,
     SeqType, BufType, StackType, PhoneType, HistoryType
<1>7. QED
  BY <1>1, <1>2, <1>3, <1>4, <1>5, <1>6

LEMMA TypePhone == TypeOK /\ (Deliver \/ PhoneSend \/ PhoneRepeat) => TypeOK'
<1> SUFFICES ASSUME TypeOK, Deliver \/ PhoneSend \/ PhoneRepeat PROVE TypeOK'
  OBVIOUS
<1> USE DEF TypeOK
<1>1. CASE Deliver
  <2> DEFINE f   == Head(air)
             new == IF f.no = 0 THEN f.data ELSE phone.buf \o f.data
  <2>1. f \in Frames /\ Tail(air) \in Seq(Frames)
    BY <1>1 DEF Deliver, StackType
  <2>2. new \in Seq(Unit)
    BY <2>1 DEF Frames, PhoneType, Phones
  <2>3. Append(received, Number(new)) \in Seq(Nat)
    <3>1. Number(new) \in Nat
      BY <2>2, NumberType
    <3>2. received \in Seq(Nat)
      BY DEF HistoryType
    <3> HIDE DEF new
    <3>3. QED
      BY <3>1, <3>2
  <2>4. SeqNext(phone.seq) \in Nat
    BY SeqNextType, SeqModAssumption DEF PhoneType, Phones
  <2>5. [phone EXCEPT !.seq = SeqNext(@), !.buf = IF f.more THEN new ELSE <<>>] \in Phones
    <3>1. (IF f.more THEN new ELSE <<>>) \in Seq(Unit)
      BY <2>2
    <3>2. QED
      BY <2>4, <3>1 DEF PhoneType, Phones
  <2>6. phone' \in Phones /\ received' \in Seq(Nat)
    BY <1>1, <2>3, <2>5 DEF Deliver, PhoneType, HistoryType
  <2>7. StackType'
    BY <1>1, <2>1 DEF Deliver, StackType
  <2>8. QED
    BY <1>1, <2>6, <2>7 DEF Deliver, linkVars, seqVars, LinkType, QueueType, ThreadType, RoleType,
       SeqType, BufType, PhoneType, HistoryType
<1>2. ASSUME NEW f \in Messages, Received(f)
      PROVE  QueueType' /\ spoilt' \in BOOLEAN
  <2>1. CASE queue' = Append(queue, f) /\ UNCHANGED spoilt
    BY <1>2, <2>1 DEF QueueType, HistoryType
  <2>2. CASE spoilt' = TRUE /\ UNCHANGED queue
    BY <2>2 DEF QueueType, HistoryType
  <2>3. QED
    BY <1>2, <2>1, <2>2 DEF Received
<1>3. CASE PhoneSend
  <2>1. PICK len \in CmdLens :
          LET new == phone.out = phone.len
              id  == IF new THEN phone.id + 1 ELSE phone.id
              k   == IF new THEN 0 ELSE phone.out
          IN  /\ Received(PhoneFrame(phone.txSeq, id, len, k))
              /\ phone' = [phone EXCEPT !.txSeq = SeqNext(@), !.id = id, !.len = len, !.out = k + 1]
    BY <1>3 DEF PhoneSend
  <2> DEFINE id == IF phone.out = phone.len THEN phone.id + 1 ELSE phone.id
             k  == IF phone.out = phone.len THEN 0 ELSE phone.out
  <2>2. id \in Nat /\ k \in Nat /\ len \in Nat /\ phone.txSeq \in Nat /\ phone \in Phones
    BY LensAssumption DEF PhoneType, Phones
  <2>3. PhoneFrame(phone.txSeq, id, len, k) \in Messages
    BY <2>2, PhoneFrameType
  <2>4. QueueType' /\ spoilt' \in BOOLEAN
    BY <1>2, <2>1, <2>3
  <2>5. SeqNext(phone.txSeq) \in Nat
    BY <2>2, SeqNextType, SeqModAssumption
  <2>6. phone' \in Phones
    <3>1. phone' = [phone EXCEPT !.txSeq = SeqNext(@), !.id = id, !.len = len, !.out = k + 1]
      BY <2>1
    <3>2. k + 1 \in Nat
      BY <2>2
    <3> HIDE DEF id, k
    <3>3. QED
      BY <2>2, <2>5, <3>1, <3>2 DEF Phones
  <2>7. QED
    BY <1>3, <2>4, <2>6 DEF PhoneSend, linkVars, seqVars, stackVars, LinkType, ThreadType, RoleType,
       SeqType, BufType, StackType, PhoneType, HistoryType
<1>4. CASE PhoneRepeat
  <2>1. SeqPrev(phone.txSeq) \in Nat /\ phone.out - 1 \in Nat /\ phone.id \in Nat /\ phone.len \in Nat
    <3>1. phone.txSeq \in Nat /\ phone.out \in Nat /\ phone.id \in Nat /\ phone.len \in Nat
      BY DEF PhoneType, Phones
    <3>2. SeqPrev(phone.txSeq) \in Nat
      BY <3>1, SeqPrevType, SeqModAssumption
    <3>3. phone.out > 0
      BY <1>4 DEF PhoneRepeat
    <3>4. QED
      BY <3>1, <3>2, <3>3
  <2>2. PhoneFrame(SeqPrev(phone.txSeq), phone.id, phone.len, phone.out - 1) \in Messages
    BY <2>1, PhoneFrameType
  <2>3. QueueType' /\ spoilt' \in BOOLEAN
    BY <1>2, <1>4, <2>2 DEF PhoneRepeat
  <2>4. QED
    BY <1>4, <2>3 DEF PhoneRepeat, linkVars, seqVars, stackVars, LinkType, ThreadType, RoleType,
       SeqType, BufType, StackType, PhoneType, HistoryType
<1>5. QED
  BY <1>1, <1>3, <1>4

(* Every variable of the transport keeps its type. (wps_app.c)             *)
THEOREM TransportTypeCorrect == Spec => []TypeOK
<1>1. TypeOK /\ Next => TypeOK'
  BY TypeReceive, TypeTransmit, TypeStack, TypePhone DEF Next, Thread
<1>2. TypeOK /\ [Next]_vars => TypeOK'
  BY <1>1, TypeStutter
<1>3. QED
  BY TypeInit, <1>2, PTL DEF Spec

-----------------------------------------------------------------------------
(* The order of the queue.                                                 *)

Whole(m) == m.dir = "tx" => m.out = 0

(* While the thread holds a message none on the queue was sent in part;    *)
(* PartIsHead says so of the queue of the next state too.                  *)
AllWhole == \A i \in 1..Len(queue) : Whole(queue[i])
RestWhole == \A i \in 1..Len(queue) : i # 1 => Whole(queue[i])

LEMMA PartMeans ==
  ASSUME TypeOK
  PROVE  PartIsHead <=> IF pc = "idle" THEN RestWhole ELSE AllWhole
<1>1. \A i \in 1..Len(queue) :
        Whole(queue[i]) <=> ~(queue[i].dir = "tx" /\ queue[i].out > 0)
  BY DEF TypeOK, QueueType, Messages, Whole
<1>2. QED
  BY <1>1 DEF PartIsHead, RestWhole, AllWhole

LEMMA PartMeansNext ==
  ASSUME TypeOK'
  PROVE  (IF pc' = "idle" THEN RestWhole' ELSE AllWhole') => PartIsHead'
<1>1. \A i \in 1..Len(queue') :
        Whole(queue'[i]) <=> ~(queue'[i].dir = "tx" /\ queue'[i].out > 0)
  BY DEF TypeOK, QueueType, Messages, Whole
<1>2. QED
  BY <1>1 DEF PartIsHead, RestWhole, AllWhole

LEMMA RespondsRest ==
  ASSUME TypeOK, NEW lens \in Seq(Nat), Respond(lens)
  PROVE  (AllWhole => AllWhole') /\ (RestWhole => RestWhole')
<1>1. \A i \in 1..Len(Responses(lens)) : Whole(Responses(lens)[i])
  BY ResponsesType DEF Whole
<1>2. Responses(lens) \in Seq(Messages) /\ queue \in Seq(Messages)
  BY ResponsesType DEF TypeOK, QueueType
<1>3. queue' = queue \o Responses(lens)
  BY DEF Respond
<1>4. QED
  BY <1>1, <1>2, <1>3 DEF AllWhole, RestWhole

LEMMA PrependRest ==
  ASSUME TypeOK, AllWhole, NEW m \in Messages, Prepend(m)
  PROVE  RestWhole'
  BY SMTT(30) DEF TypeOK, QueueType, Prepend, AllWhole, RestWhole

LEMMA PartReceive ==
  ASSUME TypeOK, TypeOK', PartIsHead, WifiEvent \/ Get \/ RxDrop \/ RxError \/ RxAccept
  PROVE  PartIsHead'
<1>1. IF pc = "idle" THEN RestWhole ELSE AllWhole
  BY PartMeans
<1>2. AllWhole => RestWhole
  BY DEF AllWhole, RestWhole
<1>3. CASE WifiEvent
  <2>1. PICK n \in Lens : Respond(<<n>>)
    BY <1>3 DEF WifiEvent
  <2>2. <<n>> \in Seq(Nat)
    BY LensAssumption
  <2>3. pc' = pc
    BY <1>3 DEF WifiEvent
  <2>4. QED
    BY <1>1, <2>1, <2>2, <2>3, RespondsRest, PartMeansNext
<1>4. CASE Get
  <2>1. pc' # "idle"
    BY <1>4 DEF Get, TypeOK, QueueType, Messages
  <2>2. RestWhole /\ queue \in Seq(Messages) /\ queue # <<>> /\ queue' = Tail(queue)
    BY <1>1, <1>4 DEF Get, TypeOK, QueueType
  <2>3. AllWhole'
    BY <2>2 DEF RestWhole, AllWhole
  <2>4. QED
    BY <2>1, <2>3, PartMeansNext
<1>5. CASE RxDrop
  <2>1. pc # "idle" /\ queue' = queue
    BY <1>5 DEF RxDrop
  <2>2. AllWhole' /\ RestWhole'
    BY <1>1, <1>2, <2>1 DEF AllWhole, RestWhole
  <2>3. QED
    BY <2>2, PartMeansNext
<1>6. CASE RxError
  <2>1. PICK a \in Acks : Respond(a \o <<1>>)
    BY <1>6 DEF RxError
  <2>2. AllWhole' /\ RestWhole'
    BY <1>1, <1>2, <1>6, <2>1, AnswersType, RespondsRest DEF RxError
  <2>3. QED
    BY <2>2, PartMeansNext
<1>7. CASE RxAccept
  <2>1. \E lens \in Seq(Nat) : Respond(lens)
    BY <1>7, AnswersType DEF RxAccept
  <2>2. AllWhole' /\ RestWhole'
    BY <1>1, <1>2, <1>7, <2>1, RespondsRest DEF RxAccept
  <2>3. QED
    BY <2>2, PartMeansNext
<1>8. QED
  BY <1>3, <1>4, <1>5, <1>6, <1>7

LEMMA PartTransmit ==
  ASSUME TypeOK, TypeOK', PartIsHead,
         TxDrop \/ TxSend \/ TxFull \/ TxNotConnected \/ Sent \/ Timeout
  PROVE  PartIsHead'
<1>1. AllWhole
  BY PartMeans DEF TxDrop, TxSend, TxFull, TxNotConnected, Sent, Timeout
<1>2. ASSUME UNCHANGED queue
      PROVE  PartIsHead'
  <2>1. AllWhole' /\ RestWhole'
    BY <1>1, <1>2 DEF AllWhole, RestWhole
  <2>2. QED
    BY <2>1, PartMeansNext
<1>3. ASSUME NEW m, Prepend(m), pc' = "idle"
      PROVE  PartIsHead'
  <2>1. queue' \in Seq(Messages) /\ queue \in Seq(Messages) /\ queue' = <<m>> \o queue
    BY <1>3 DEF TypeOK, QueueType, Prepend
  <2>2. RestWhole'
    BY <1>1, <2>1 DEF AllWhole, RestWhole
  <2>3. QED
    BY <1>3, <2>2, PartMeansNext
<1>4. CASE TxDrop \/ TxSend
  BY <1>2, <1>4 DEF TxDrop, TxSend
<1>5. CASE TxFull \/ Timeout
  BY <1>3, <1>5 DEF TxFull, Timeout, Free
<1>6. CASE TxNotConnected \/ Sent
  BY <1>2, <1>3, <1>6 DEF TxNotConnected, Sent, Continue, Free
<1>7. QED
  BY <1>4, <1>5, <1>6

LEMMA PartOthers ==
  ASSUME TypeOK, TypeOK', PartIsHead,
         \/ Connect \/ MtuExchange \/ LinkDown \/ Drain \/ Disconnected \/ SentCallback
         \/ Deliver \/ PhoneSend \/ PhoneRepeat \/ UNCHANGED vars
  PROVE  PartIsHead'
<1>1. IF pc = "idle" THEN RestWhole ELSE AllWhole
  BY PartMeans
<1>2. CASE Connect
  <2>1. queue' = [i \in 1..Len(queue) |-> Stale(queue[i])] /\ pc' = pc
    BY <1>2 DEF Connect
  <2>2. queue \in Seq(Messages) /\ queue' \in Seq(Messages)
    BY DEF TypeOK, QueueType
  <2>3. \A i \in 1..Len(queue) : Whole(queue[i]) => Whole(Stale(queue[i]))
    BY <2>2, StaleType DEF Whole
  <2>4. Len(queue') = Len(queue) /\ \A i \in 1..Len(queue) : queue'[i] = Stale(queue[i])
    BY <2>1, <2>2
  <2>5. (AllWhole => AllWhole') /\ (RestWhole => RestWhole')
    BY <2>3, <2>4 DEF AllWhole, RestWhole
  <2>6. QED
    BY <1>1, <2>1, <2>5, PartMeansNext
<1>3. CASE Drain
  <2>1. queue' = <<>>
    BY <1>3 DEF Drain
  <2>2. QED
    BY <2>1 DEF PartIsHead
<1>4. ASSUME UNCHANGED <<queue, pc>>
      PROVE  PartIsHead'
  BY <1>4 DEF PartIsHead
<1>5. CASE MtuExchange \/ LinkDown \/ Disconnected \/ SentCallback \/ Deliver \/ UNCHANGED vars
  BY <1>4, <1>5 DEF MtuExchange, LinkDown, Disconnected, SentCallback, Deliver, vars
<1>6. ASSUME NEW f \in Messages, f.dir = "rx", Received(f), UNCHANGED pc
      PROVE  PartIsHead'
  <2>1. CASE UNCHANGED queue
    BY <1>4, <1>6, <2>1
  <2>2. CASE queue' = Append(queue, f)
    <3>1. Whole(f) /\ queue \in Seq(Messages)
      BY <1>6 DEF Whole, TypeOK, QueueType
    <3>2. (AllWhole => AllWhole') /\ (RestWhole => RestWhole')
      BY <2>2, <3>1 DEF AllWhole, RestWhole
    <3>3. QED
      BY <1>1, <1>6, <3>2, PartMeansNext
  <2>3. QED
    BY <1>6, <2>1, <2>2 DEF Received
<1>7. CASE PhoneSend \/ PhoneRepeat
  <2>1. UNCHANGED pc
    BY <1>7 DEF PhoneSend, PhoneRepeat
  <2>2. PICK s, id, len, k : Received(PhoneFrame(s, id, len, k))
    BY <1>7 DEF PhoneSend, PhoneRepeat
  <2>3. PhoneFrame(s, id, len, k).dir = "rx"
    BY DEF PhoneFrame
  <2>4. CASE UNCHANGED queue
    BY <1>4, <2>1, <2>4
  <2>5. CASE queue' = Append(queue, PhoneFrame(s, id, len, k))
    <3>1. PhoneFrame(s, id, len, k) \in Messages
      <4>1. queue' \in Seq(Messages) /\ queue \in Seq(Messages)
        BY DEF TypeOK, QueueType
      <4>2. Len(queue') = Len(queue) + 1 /\ queue'[Len(queue) + 1] = PhoneFrame(s, id, len, k)
        BY <2>5, <4>1
      <4>3. QED
        BY <4>1, <4>2
    <3>2. QED
      BY <1>6, <2>1, <2>2, <2>3, <3>1
  <2>6. QED
    BY <2>2, <2>4, <2>5 DEF Received
<1>8. QED
  BY <1>2, <1>3, <1>5, <1>7

(* A message sent in part stays at the head of the queue until the thread  *)
(* has finished it. (wps_proto_tx_process, k_queue_prepend.)               *)
THEOREM PartStaysAtHead == Spec => []PartIsHead
<1>1. Init => PartIsHead
  BY DEF Init, PartIsHead
<1>2. TypeOK /\ TypeOK' /\ PartIsHead /\ [Next]_vars => PartIsHead'
  BY PartReceive, PartTransmit, PartOthers DEF Next, Thread
<1>3. QED
  BY <1>1, <1>2, TransportTypeCorrect, PTL DEF Spec

-----------------------------------------------------------------------------
(* The order of what arrives: how the frames on the air hang together and, *)
(* at the end, how the frames of the phone that wait for the device do.    *)
(*                                                                         *)
(* A frame is known by its number, where it starts and where the next one  *)
(* may: a place is a message and how much of it was sent.  Messages left   *)
(* over from another connection have number 0 and are all one place, Old.  *)

At(id, out, len) ==
  IF id = 0 THEN [id |-> 0, out |-> 0, len |-> 0]
  ELSE IF out = 0 THEN [id |-> id, out |-> 0, len |-> 0]
  ELSE [id |-> id, out |-> out, len |-> len]
Old    == At(0, 0, 0)
New(n) == At(n, 0, 0)

\* A message of the queue or in the thread's hand: where its next frame starts,
\* and where the one behind it may.
Start(m) == At(m.id, m.out, m.len)
Ends(m) ==
  IF m.id = 0 THEN {Old, New(1)}
  ELSE IF m.len - m.out > mtu THEN {At(m.id, m.out + mtu, m.len)} ELSE {New(m.id + 1)}

\* The same of a frame.
Id(f)    == f.data[1][1]
From(f)  == f.data[1][2] - 1
Total(f) == f.data[1][3]
FrameStart(f) == At(Id(f), From(f), Total(f))
FrameEnds(f) ==
  IF Id(f) = 0 THEN {Old, New(1)}
  ELSE IF f.more THEN {At(Id(f), From(f) + Len(f.data), Total(f))} ELSE {New(Id(f) + 1)}

\* Data is of one message: nothing of it, or a piece that fits.
FrameOK(f) ==
  /\ f.data # <<>> /\ Id(f) \in 0..sent /\ f.seq \in 0..(SeqMod - 1)
  /\ Id(f) = 0 => \A i \in 1..Len(f.data) : f.data[i][1] = 0
  /\ Id(f) # 0 =>
       /\ f.data = [i \in 1..Len(f.data) |-> <<Id(f), From(f) + i, Total(f)>>]
       /\ From(f) \in Nat /\ f.more = (From(f) + Len(f.data) < Total(f))
       /\ ~f.more => From(f) + Len(f.data) = Total(f)
       /\ f.no = 0 <=> From(f) = 0

\* What the phone must have received to go on with place p.
InOrder(n) ==
  \E k \in 0..Len(received) :
    /\ Len(received) = k + n
    /\ \A i \in 1..Len(received) : received[i] = IF i <= k THEN 0 ELSE i - k
Expects(p) ==
  /\ InOrder(IF p.id = 0 THEN 0 ELSE p.id - 1)
  /\ p.id = 0 => \A i \in 1..Len(phone.buf) : phone.buf[i][1] = 0
  /\ p.out > 0 => phone.buf = [i \in 1..p.out |-> <<p.id, i, p.len>>]

-----------------------------------------------------------------------------
(* The messages that wait, by number.                                      *)

Holds      == pc \in {"tx", "wait"}
Tx(j)      == j \in 1..Len(queue) /\ queue[j].dir = "tx"
Pending(n) ==
  /\ \A j \in 1..Len(queue) : Tx(j) => queue[j].id = 0 \/ queue[j].id >= n
  /\ \A m \in n..sent : \E j \in 1..Len(queue) : Tx(j) /\ queue[j].id = m

\* p is where the thread's next frame starts, or the one it waits for.
ThreadAt(p) ==
  IF Holds THEN p = Start(hand) /\ Pending(hand.id + 1)
  ELSE IF p.id = 0 THEN p = Old /\ Pending(1) /\ \E j \in 1..Len(queue) : Tx(j) /\ queue[j].id = 0
  ELSE /\ p.id \in 1..(sent + 1) /\ Pending(p.id)
       /\ p.id = sent + 1 => p = New(p.id)
       /\ \A j \in 1..Len(queue) : Tx(j) => queue[j].id # 0 /\ (queue[j].id = p.id => p = Start(queue[j]))

\* No message is kept when all of it was sent.
RestInv ==
  /\ \A j \in 1..Len(queue) : Tx(j) => queue[j].out < queue[j].len
  /\ Holds => hand.out < hand.len

\* A message that was begun was begun with this MTU.
Fits(m) ==
  /\ m.id \in 0..sent
  /\ m.id # 0 /\ m.out > 0 => m.out >= mtu /\ m.len > mtu

Before(m, n) == m.id = 0 \/ m.id < n.id
MessagesInv ==
  /\ \A j \in 1..Len(queue) : Tx(j) => Fits(queue[j])
  /\ \A i, j \in 1..Len(queue) : Tx(i) /\ Tx(j) /\ i < j => Before(queue[i], queue[j])
  /\ Holds => Fits(hand) /\ \A j \in 1..Len(queue) : Tx(j) => Before(hand, queue[j])
  /\ pc = "wait" /\ hand.id # 0 =>
       left = IF hand.len <= mtu THEN 0 ELSE Lesser(hand.len - hand.out, mtu)

-----------------------------------------------------------------------------
(* The frames on the air, from what the phone expects to what the thread    *)
(* sends next: each one is the one before again, or follows it.             *)

Link(f, g) ==
  \/ g.seq = f.seq /\ FrameStart(g) = FrameStart(f) /\ FrameEnds(g) = FrameEnds(f)
  \/ g.seq = SeqNext(f.seq) /\ FrameStart(g) \in FrameEnds(f)

\* The first frame is what the phone expects, or it has it already.
First(f) ==
  \/ f.seq = phone.seq /\ Expects(FrameStart(f))
  \/ SeqNext(f.seq) = phone.seq /\ \A p \in FrameEnds(f) : Expects(p)

\* Message m was sent with number s, and not confirmed yet.
Unconfirmed(m, s) ==
  IF air = <<>> THEN SeqNext(s) = phone.seq /\ \A p \in Ends(m) : Expects(p)
  ELSE LET e == air[Len(air)] IN
       s = e.seq /\ FrameStart(e) = Start(m) /\ FrameEnds(e) = Ends(m)

\* Everything sent was confirmed, and p is next.
Ready(p) ==
  IF air = <<>> THEN txSeq = phone.seq /\ Expects(p)
  ELSE LET e == air[Len(air)] IN txSeq = SeqNext(e.seq) /\ p \in FrameEnds(e)

Again ==
  \/ pc = "wait" /\ Unconfirmed(hand, SeqPrev(txSeq))
  \/ pc = "tx" /\ Unconfirmed(hand, txSeq)
  \/ pc = "idle" /\ Tx(1) /\ Unconfirmed(queue[1], txSeq)

FramesInv ==
  /\ \A i \in 1..Len(air) : FrameOK(air[i])
  /\ \A i \in 1..(Len(air) - 1) : Link(air[i], air[i + 1])
  /\ air # <<>> => First(air[1])
  /\ phone.seq \in 0..(SeqMod - 1)

\* The thread goes on where the last frame ends, or repeats it.
GoesOn == \E p : ThreadAt(p) /\ (Again \/ (pc # "wait" /\ Ready(p)))

SendInv == RestInv /\ (up => conn = "open" /\ MessagesInv /\ FramesInv /\ GoesOn) /\ (~up => air = <<>>)

\* Without a fast phone nothing is left over.
NothingOld ==
  /\ \A j \in 1..Len(queue) : Tx(j) => queue[j].id # 0
  /\ Holds => hand.id # 0
  /\ \A i \in 1..Len(air) : Id(air[i]) # 0
FreshInv == /\ up /\ ~FastReconnect => NothingOld
            /\ ~FastReconnect => \A i \in 1..Len(received) : received[i] # 0

-----------------------------------------------------------------------------
(* Numbers of frames, and places.                                          *)

LEMMA SeqIs ==
  ASSUME NEW n \in 0..(SeqMod - 1)
  PROVE  /\ SeqNext(n) = IF n = SeqMod - 1 THEN 0 ELSE n + 1
         /\ SeqPrev(n) = IF n = 0 THEN SeqMod - 1 ELSE n - 1
<1>1. SeqMod \in Nat /\ SeqMod > 1 /\ n \in Nat
  BY SeqModAssumption
<1>2. ASSUME NEW a \in Nat, NEW b \in Nat, a = b \/ a = b + SeqMod, b < SeqMod
      PROVE  a % SeqMod = b
  <2>1. CASE a = b
    BY <1>1, <1>2, <2>1
  <2>2. CASE a = b + SeqMod
    BY <1>1, <1>2, <2>2
  <2>3. QED
    BY <1>2, <2>1, <2>2
<1>3. CASE n = SeqMod - 1
  BY <1>1, <1>2, <1>3 DEF SeqNext, SeqPrev
<1>4. CASE n = 0
  BY <1>1, <1>2, <1>4 DEF SeqNext, SeqPrev
<1>5. CASE n # 0 /\ n # SeqMod - 1
  BY <1>1, <1>2, <1>5 DEF SeqNext, SeqPrev
<1>6. QED
  BY <1>1, <1>3, <1>4, <1>5, SeqNextType

LEMMA SeqSteps ==
  ASSUME NEW n \in 0..(SeqMod - 1)
  PROVE  /\ SeqNext(n) \in 0..(SeqMod - 1) /\ SeqNext(n) # n /\ SeqPrev(SeqNext(n)) = n
         /\ SeqPrev(n) \in 0..(SeqMod - 1) /\ SeqNext(SeqPrev(n)) = n
<1>1. SeqMod \in Nat /\ SeqMod > 1
  BY SeqModAssumption
<1>2. SeqNext(n) \in 0..(SeqMod - 1) /\ SeqNext(n) # n /\ SeqPrev(n) \in 0..(SeqMod - 1)
  BY <1>1, SeqIs
<1>3. SeqPrev(SeqNext(n)) = n /\ SeqNext(SeqPrev(n)) = n
  BY <1>1, <1>2, SeqIs
<1>4. QED
  BY <1>2, <1>3

LEMMA Places ==
  /\ \A n, k, l : At(n, k, l).id = IF n = 0 THEN 0 ELSE n
  /\ \A k, l : At(0, k, l) = Old
  /\ \A n, l : n # 0 => At(n, 0, l) = New(n)
  /\ Old.id = 0 /\ Old.out = 0 /\ \A n : New(n).out = 0 /\ New(n).id = n
  /\ \A n, k, l : n # 0 /\ k # 0 => At(n, k, l).out = k /\ At(n, k, l).len = l
  BY DEF At, Old, New

-----------------------------------------------------------------------------
(* The messages, step by step.                                             *)

\* What was put behind the queue was not begun.
Behind ==
  /\ queue' \in Seq(Messages) /\ Len(queue') >= Len(queue)
  /\ \A j \in 1..Len(queue) : queue'[j] = queue[j]
  /\ \A j \in 1..Len(queue') : j > Len(queue) /\ queue'[j].dir = "tx" => queue'[j].out = 0 /\ queue'[j].len > 0

\* And it is numbered on from what was sent, or the phone's.
Longer ==
  /\ Behind
  /\ sent <= sent' /\ sent' \in Nat
  /\ \A j \in 1..Len(queue') : j > Len(queue) /\ queue'[j].dir = "tx" => queue'[j].id \in (sent + 1)..sent'
  /\ \A i, j \in 1..Len(queue') :
       i > Len(queue) /\ i < j /\ queue'[i].dir = "tx" /\ queue'[j].dir = "tx" => queue'[i].id < queue'[j].id
  /\ \A m \in (sent + 1)..sent' :
       \E j \in 1..Len(queue') : j > Len(queue) /\ queue'[j].dir = "tx" /\ queue'[j].id = m

SameThread ==
  /\ pc' = pc \/ (pc = "rx" /\ pc' = "idle")
  /\ pc # "rx" => hand' = hand /\ left' = left

LEMMA LongerMessages ==
  ASSUME TypeOK, MessagesInv, Longer, SameThread, UNCHANGED mtu
  PROVE  MessagesInv'
<1>1. Len(queue) \in Nat /\ Len(queue') \in Nat /\ sent \in Nat /\ sent' \in Nat /\ sent <= sent'
  BY DEF Longer, Behind, TypeOK, QueueType, HistoryType
<1>2. \A j \in 1..Len(queue) : j \in 1..Len(queue') /\ queue'[j] = queue[j]
  BY <1>1 DEF Longer, Behind
<1>3. \A j \in 1..Len(queue') : j \in 1..Len(queue) \/ j > Len(queue)
  BY <1>1
<1>4. Holds' => Holds /\ hand' = hand /\ pc' = pc /\ left' = left
  BY DEF Holds, SameThread
<1>7. ASSUME NEW j \in 1..Len(queue'), Tx(j)'
      PROVE  \/ j \in 1..Len(queue) /\ Tx(j) /\ queue'[j] = queue[j]
             \/ j > Len(queue) /\ queue'[j].id \in (sent + 1)..sent' /\ queue'[j].out = 0
  BY <1>1, <1>2, <1>3, <1>7 DEF Longer, Behind, Tx
<1>8. ASSUME NEW j \in 1..Len(queue'), Tx(j)'
      PROVE  Fits(queue[j])'
  <2>1. CASE j \in 1..Len(queue) /\ Tx(j) /\ queue'[j] = queue[j]
    <3>1. Fits(queue[j])
      BY <2>1 DEF MessagesInv
    <3>2. QED
      BY <1>1, <2>1, <3>1 DEF Fits
  <2>2. CASE j > Len(queue) /\ queue'[j].id \in (sent + 1)..sent' /\ queue'[j].out = 0
    BY <1>1, <2>2 DEF Fits
  <2>3. QED
    BY <1>7, <1>8, <2>1, <2>2
<1>9. ASSUME NEW i \in 1..Len(queue'), NEW j \in 1..Len(queue'), Tx(i)', Tx(j)', i < j
      PROVE  Before(queue[i], queue[j])'
  <2>1. CASE i > Len(queue)
    BY <1>9, <2>1 DEF Longer, Behind, Before, Tx
  <2>2. CASE i \in 1..Len(queue) /\ Tx(i) /\ queue'[i] = queue[i]
    <3>1. CASE j \in 1..Len(queue) /\ Tx(j) /\ queue'[j] = queue[j]
      BY <1>9, <2>2, <3>1 DEF MessagesInv, Before
    <3>2. CASE j > Len(queue) /\ queue'[j].id \in (sent + 1)..sent'
      <4>1. Fits(queue[i])
        BY <2>2 DEF MessagesInv
      <4>2. QED
        BY <1>1, <2>2, <3>2, <4>1 DEF Before, Fits
    <3>3. QED
      BY <1>7, <1>9, <3>1, <3>2
  <2>3. QED
    BY <1>7, <1>9, <2>1, <2>2
<1>10. ASSUME Holds', NEW j \in 1..Len(queue'), Tx(j)'
       PROVE  Fits(hand)' /\ Before(hand, queue[j])'
  <2>1. Fits(hand) /\ Holds /\ hand' = hand
    BY <1>4, <1>10 DEF MessagesInv
  <2>2. Fits(hand)'
    BY <1>1, <2>1 DEF Fits
  <2>3. CASE j \in 1..Len(queue) /\ Tx(j) /\ queue'[j] = queue[j]
    BY <2>1, <2>2, <2>3 DEF MessagesInv, Before
  <2>4. CASE j > Len(queue) /\ queue'[j].id \in (sent + 1)..sent'
    BY <1>1, <2>1, <2>2, <2>4 DEF Before, Fits
  <2>5. QED
    BY <1>7, <1>10, <2>2, <2>3, <2>4
<1>11. Holds' => Fits(hand)'
  BY <1>1, <1>4 DEF MessagesInv, Fits
<1>12. pc' = "wait" /\ hand'.id # 0 => left' = IF hand'.len <= mtu' THEN 0 ELSE Lesser(hand'.len - hand'.out, mtu')
  BY <1>4 DEF MessagesInv, Holds
<1>13. QED
  BY <1>8, <1>9, <1>10, <1>11, <1>12 DEF MessagesInv

LEMMA LongerThread ==
  ASSUME TypeOK, MessagesInv, Longer, SameThread, UNCHANGED mtu, NEW p, ThreadAt(p)
  PROVE  ThreadAt(p)'
<1>1. Len(queue) \in Nat /\ Len(queue') \in Nat /\ sent \in Nat /\ sent' \in Nat /\ sent <= sent'
  BY DEF Longer, Behind, TypeOK, QueueType, HistoryType
<1>2. \A j \in 1..Len(queue) : j \in 1..Len(queue') /\ queue'[j] = queue[j] /\ (Tx(j) <=> Tx(j)')
  BY <1>1 DEF Longer, Behind, Tx
<1>3. ASSUME NEW j \in 1..Len(queue'), Tx(j)'
      PROVE  \/ j \in 1..Len(queue) /\ Tx(j) /\ queue'[j] = queue[j]
             \/ j > Len(queue) /\ queue'[j].id \in (sent + 1)..sent' /\ queue'[j].out = 0
  BY <1>1, <1>2, <1>3 DEF Longer, Behind, Tx
<1>4. ASSUME NEW n \in 0..(sent + 1), Pending(n)
      PROVE  Pending(n)'
  <2>1. ASSUME NEW j \in 1..Len(queue'), Tx(j)'
        PROVE  queue'[j].id = 0 \/ queue'[j].id >= n
    <3>1. CASE j \in 1..Len(queue) /\ Tx(j) /\ queue'[j] = queue[j]
      BY <1>4, <3>1 DEF Pending
    <3>2. CASE queue'[j].id \in (sent + 1)..sent'
      BY <1>1, <3>2
    <3>3. QED
      BY <1>3, <2>1, <3>1, <3>2
  <2>2. ASSUME NEW m \in n..sent'
        PROVE  \E j \in 1..Len(queue') : Tx(j)' /\ queue'[j].id = m
    <3>1. CASE m \in n..sent
      <4>1. PICK j \in 1..Len(queue) : Tx(j) /\ queue[j].id = m
        BY <1>4, <3>1 DEF Pending
      <4>2. QED
        BY <1>2, <4>1
    <3>2. CASE m \in (sent + 1)..sent'
      BY <3>2 DEF Longer, Behind, Tx
    <3>3. QED
      BY <1>1, <3>1, <3>2
  <2>3. QED
    BY <2>1, <2>2 DEF Pending
<1>5. CASE Holds
  <2>1. Holds' /\ hand' = hand
    BY <1>5 DEF Holds, SameThread
  <2>2. p = Start(hand) /\ Pending(hand.id + 1)
    BY <1>5 DEF ThreadAt
  <2>3. hand.id \in 0..sent
    BY <1>5 DEF MessagesInv, Fits
  <2>4. hand.id + 1 \in 0..(sent + 1)
    BY <1>1, <2>3
  <2>5. Pending(hand.id + 1)'
    BY <1>4, <2>1, <2>2, <2>4 DEF Pending
  <2>6. QED
    BY <2>1, <2>2, <2>5 DEF ThreadAt, Start
<1>6. CASE ~Holds
  <2>1. ~Holds'
    BY <1>6 DEF Holds, SameThread
  <2>2. CASE p.id = 0
    <3>1. p = Old /\ Pending(1) /\ \E j \in 1..Len(queue) : Tx(j) /\ queue[j].id = 0
      BY <1>6, <2>2 DEF ThreadAt
    <3>2. Pending(1)'
      BY <1>1, <1>4, <3>1
    <3>3. \E j \in 1..Len(queue') : Tx(j)' /\ queue'[j].id = 0
      BY <1>2, <3>1
    <3>4. QED
      BY <2>1, <2>2, <3>1, <3>2, <3>3 DEF ThreadAt
  <2>3. CASE p.id # 0
    <3>1. /\ p.id \in 1..(sent + 1) /\ Pending(p.id)
          /\ p.id = sent + 1 => p = New(p.id)
          /\ \A j \in 1..Len(queue) : Tx(j) => queue[j].id # 0 /\ (queue[j].id = p.id => p = Start(queue[j]))
      BY <1>6, <2>3 DEF ThreadAt
    <3>2. Pending(p.id)'
      BY <1>1, <1>4, <3>1
    <3>3. p.id \in 1..(sent' + 1) /\ (p.id = sent' + 1 => p = New(p.id))
      BY <1>1, <3>1
    <3>4. ASSUME NEW j \in 1..Len(queue'), Tx(j)'
          PROVE  queue'[j].id # 0 /\ (queue'[j].id = p.id => p = Start(queue'[j]))
      <4>1. CASE j \in 1..Len(queue) /\ Tx(j) /\ queue'[j] = queue[j]
        BY <3>1, <4>1
      <4>2. CASE queue'[j].id \in (sent + 1)..sent' /\ queue'[j].out = 0
        <5>1. queue'[j].id # 0
          BY <1>1, <4>2
        <5>2. queue'[j].id = p.id => p.id = sent + 1
          BY <1>1, <3>1, <4>2
        <5>3. Start(queue'[j]) = New(queue'[j].id)
          BY <4>2 DEF Start, New, At
        <5>4. QED
          BY <3>1, <5>1, <5>2, <5>3
      <4>3. QED
        BY <1>3, <3>4, <4>1, <4>2
    <3>5. QED
      BY <2>1, <2>3, <3>2, <3>3, <3>4 DEF ThreadAt, Start
  <2>4. QED
    BY <2>2, <2>3
<1>7. QED
  BY <1>5, <1>6

-----------------------------------------------------------------------------
(* The frames, while none is sent and none arrives.                        *)

\* The phone, the air and the size of frames stay.
SameAir ==
  /\ air' = air /\ received' = received /\ mtu' = mtu
  /\ phone'.seq = phone.seq /\ phone'.buf = phone.buf
  /\ sent <= sent' /\ sent' \in Nat

LEMMA SameExpects ==
  ASSUME SameAir, NEW p
  PROVE  Expects(p)' <=> Expects(p)
  BY DEF SameAir, Expects, InOrder

LEMMA SameFrames ==
  ASSUME TypeOK, SameAir, FramesInv
  PROVE  FramesInv'
<1>1. sent \in Nat /\ sent' \in Nat /\ sent <= sent' /\ air' = air
  BY DEF SameAir, TypeOK, HistoryType
<1>2. ASSUME NEW i \in 1..Len(air)
      PROVE  FrameOK(air[i])'
  <2>1. FrameOK(air[i])
    BY DEF FramesInv
  <2>2. QED
    BY <1>1, <2>1 DEF FrameOK, Id, From, Total
<1>3. ASSUME air # <<>>
      PROVE  First(air[1])'
  <2>1. First(air[1])
    BY <1>3 DEF FramesInv
  <2>2. \A p : Expects(p)' <=> Expects(p)
    BY SameExpects
  <2>3. phone'.seq = phone.seq
    BY DEF SameAir
  <2>4. FrameStart(air[1])' = FrameStart(air[1]) /\ FrameEnds(air[1])' = FrameEnds(air[1])
    BY <1>1 DEF FrameStart, FrameEnds, Id, From, Total
  <2>5. CASE air[1].seq = phone.seq /\ Expects(FrameStart(air[1]))
    BY <1>1, <2>2, <2>3, <2>4, <2>5 DEF First
  <2>6. CASE SeqNext(air[1].seq) = phone.seq /\ \A p \in FrameEnds(air[1]) : Expects(p)
    BY <1>1, <2>2, <2>3, <2>4, <2>6 DEF First
  <2>7. QED
    BY <2>1, <2>5, <2>6 DEF First
<1>4. \A i \in 1..(Len(air) - 1) : Link(air[i], air[i + 1])'
  BY <1>1 DEF FramesInv, Link, FrameStart, FrameEnds, Id, From, Total
<1>5. (phone.seq \in 0..(SeqMod - 1))'
  BY DEF SameAir, FramesInv
<1>6. QED
  BY <1>1, <1>2, <1>3, <1>4, <1>5 DEF FramesInv

LEMMA SameUnconfirmed ==
  ASSUME SameAir, NEW m, NEW s, Unconfirmed(m, s)
  PROVE  Unconfirmed(m, s)'
<1>1. \A p : Expects(p)' <=> Expects(p)
  BY SameExpects
<1>2. air' = air /\ phone'.seq = phone.seq /\ Ends(m)' = Ends(m) /\ Start(m)' = Start(m)
  BY DEF SameAir, Ends, Start
<1>3. CASE air = <<>>
  BY <1>1, <1>2, <1>3 DEF Unconfirmed
<1>4. CASE air # <<>>
  BY <1>2, <1>4 DEF Unconfirmed, FrameStart, FrameEnds, Id, From, Total
<1>5. QED
  BY <1>3, <1>4

LEMMA SameReady ==
  ASSUME SameAir, txSeq' = txSeq, NEW p, Ready(p)
  PROVE  Ready(p)'
<1>1. Expects(p)' <=> Expects(p)
  BY SameExpects
<1>2. air' = air /\ phone'.seq = phone.seq
  BY DEF SameAir
<1>3. CASE air = <<>>
  BY <1>1, <1>2, <1>3 DEF Ready
<1>4. CASE air # <<>>
  BY <1>2, <1>4 DEF Ready, FrameEnds, Id, From, Total
<1>5. QED
  BY <1>3, <1>4

LEMMA LongerGoesOn ==
  ASSUME TypeOK, MessagesInv, GoesOn, Longer, SameThread, SameAir, txSeq' = txSeq
  PROVE  GoesOn'
<1>1. PICK p : ThreadAt(p) /\ (Again \/ (pc # "wait" /\ Ready(p)))
  BY DEF GoesOn
<1>2. ThreadAt(p)'
  BY <1>1, LongerThread DEF SameAir
<1>3. ASSUME Again PROVE Again'
  <2>1. CASE pc = "wait" /\ Unconfirmed(hand, SeqPrev(txSeq))
    <3>1. Unconfirmed(hand, SeqPrev(txSeq))'
      BY <2>1, SameUnconfirmed DEF SameThread, Unconfirmed
    <3>2. QED
      BY <2>1, <3>1 DEF Again, SameThread
  <2>2. CASE pc = "tx" /\ Unconfirmed(hand, txSeq)
    <3>1. Unconfirmed(hand, txSeq)'
      BY <2>2, SameUnconfirmed DEF SameThread, Unconfirmed
    <3>2. QED
      BY <2>2, <3>1 DEF Again, SameThread
  <2>3. CASE pc = "idle" /\ Tx(1) /\ Unconfirmed(queue[1], txSeq)
    <3>1. Tx(1)' /\ queue'[1] = queue[1]
      BY <2>3 DEF Longer, Behind, Tx, TypeOK, QueueType
    <3>2. Unconfirmed(queue[1], txSeq)'
      BY <2>3, <3>1, SameUnconfirmed DEF Unconfirmed
    <3>3. QED
      BY <2>3, <3>1, <3>2 DEF Again, SameThread
  <2>4. QED
    BY <1>3, <2>1, <2>2, <2>3 DEF Again
<1>4. pc # "wait" => pc' # "wait"
  BY DEF SameThread
<1>5. Ready(p) => Ready(p)'
  BY SameReady
<1>6. QED
  BY <1>1, <1>2, <1>3, <1>4, <1>5 DEF GoesOn

-----------------------------------------------------------------------------
(* What is put behind the queue.                                           *)

LEMMA BehindRest ==
  ASSUME TypeOK, RestInv, Behind, SameThread
  PROVE  RestInv'
<1>1. Len(queue) \in Nat /\ Len(queue') \in Nat
  BY DEF Behind, TypeOK, QueueType
<1>2. ASSUME NEW j \in 1..Len(queue'), Tx(j)'
      PROVE  queue'[j].out < queue'[j].len
  <2>1. CASE j \in 1..Len(queue)
    BY <1>2, <2>1 DEF Behind, RestInv, Tx
  <2>2. CASE j > Len(queue)
    BY <1>2, <2>2 DEF Behind, Tx
  <2>3. QED
    BY <1>1, <2>1, <2>2
<1>3. Holds' => Holds /\ hand' = hand
  BY DEF Holds, SameThread
<1>4. QED
  BY <1>2, <1>3 DEF RestInv

LEMMA AnswersPositive ==
  /\ \A a \in Acks : \A i \in 1..Len(a) : a[i] > 0
  /\ \A a \in Acks : \A i \in 1..Len(a \o <<1>>) : (a \o <<1>>)[i] > 0
  /\ \A a \in Acks, r \in Answers : \A i \in 1..Len(a \o r) : (a \o r)[i] > 0
<1>1. ASSUME NEW a \in Acks
      PROVE  a \in Seq(Nat) /\ \A i \in 1..Len(a) : a[i] > 0
  <2>1. a = <<>> \/ a = <<1>>
    BY DEF Acks
  <2>2. CASE a = <<>>
    BY <2>2
  <2>3. CASE a = <<1>>
    BY <2>3
  <2>4. QED
    BY <2>1, <2>2, <2>3
<1>2. ASSUME NEW r \in Answers
      PROVE  r \in Seq(Nat) /\ \A i \in 1..Len(r) : r[i] > 0
  <2>1. CASE r = <<>>
    BY <2>1
  <2>2. CASE r \in {<<n>> : n \in Lens}
    <3>1. PICK n \in Lens : r = <<n>>
      BY <2>2
    <3>2. n \in Nat /\ n > 0
      BY LensAssumption
    <3>3. QED
      BY <3>1, <3>2
  <2>3. QED
    BY <2>1, <2>2 DEF Answers
<1>3. ASSUME NEW a \in Seq(Nat), NEW b \in Seq(Nat),
             \A i \in 1..Len(a) : a[i] > 0, \A i \in 1..Len(b) : b[i] > 0
      PROVE  \A i \in 1..Len(a \o b) : (a \o b)[i] > 0
  <2>1. ASSUME NEW i \in 1..Len(a \o b)
        PROVE  (a \o b)[i] > 0
    <3>1. Len(a) \in Nat /\ Len(b) \in Nat /\ Len(a \o b) = Len(a) + Len(b)
      OBVIOUS
    <3>2. CASE i <= Len(a)
      BY <1>3, <3>1, <3>2
    <3>3. CASE i > Len(a)
      <4>1. (a \o b)[i] = b[i - Len(a)] /\ i - Len(a) \in 1..Len(b)
        BY <3>1, <3>3
      <4>2. QED
        BY <1>3, <4>1
    <3>4. QED
      BY <3>1, <3>2, <3>3
  <2>2. QED
    BY <2>1
<1> DEFINE one == <<1>>
<1>4. one \in Seq(Nat) /\ \A i \in 1..Len(one) : one[i] > 0
  OBVIOUS
<1> HIDE DEF one
<1>5. \A a \in Acks : \A i \in 1..Len(a \o one) : (a \o one)[i] > 0
  BY <1>1, <1>3, <1>4
<1>6. QED
  BY <1>1, <1>2, <1>3, <1>5 DEF one

LEMMA ResponsesAre ==
  ASSUME TypeOK, NEW lens \in Seq(Nat), \A i \in 1..Len(lens) : lens[i] > 0
  PROVE  /\ Responses(lens) \in Seq(Messages) /\ Len(Responses(lens)) = Len(lens)
         /\ \A i \in 1..Len(lens) :
              /\ Responses(lens)[i].out = 0 /\ Responses(lens)[i].len > 0
              /\ Responses(lens)[i].dir = "tx"
              /\ up => Responses(lens)[i].id = sent + i
<1>1. Responses(lens) = [i \in 1..Len(lens) |-> TxMsg(IF up THEN sent + i ELSE 0, lens[i])]
  BY DEF Responses
<1>2. ASSUME NEW i \in 1..Len(lens)
      PROVE  Responses(lens)[i] = TxMsg(IF up THEN sent + i ELSE 0, lens[i])
  BY <1>1
<1>3. ASSUME NEW i \in 1..Len(lens)
      PROVE  /\ Responses(lens)[i].out = 0 /\ Responses(lens)[i].len > 0
             /\ Responses(lens)[i].dir = "tx"
             /\ up => Responses(lens)[i].id = sent + i
  <2>1. TxMsg(IF up THEN sent + i ELSE 0, lens[i]).len = lens[i]
    BY DEF TxMsg
  <2>2. \A k, n : TxMsg(k, n).dir = "tx" /\ TxMsg(k, n).out = 0 /\ TxMsg(k, n).id = k
    BY DEF TxMsg
  <2>3. QED
    BY <1>2, <2>1, <2>2
<1>4. QED
  BY <1>3, ResponsesType

LEMMA RespondBehind ==
  ASSUME TypeOK, NEW lens \in Seq(Nat), \A i \in 1..Len(lens) : lens[i] > 0, Respond(lens)
  PROVE  Behind /\ (up => Longer)
<1> DEFINE r == Responses(lens)
<1>1. /\ r \in Seq(Messages) /\ Len(r) = Len(lens)
      /\ \A i \in 1..Len(lens) : r[i].out = 0 /\ r[i].len > 0 /\ r[i].dir = "tx" /\ (up => r[i].id = sent + i)
  BY ResponsesAre
<1>2. queue' = queue \o r /\ sent' = IF up THEN sent + Len(lens) ELSE sent
  BY DEF Respond
<1>3. queue \in Seq(Messages) /\ Len(queue) \in Nat /\ Len(lens) \in Nat /\ sent \in Nat
  BY DEF TypeOK, QueueType, HistoryType
<1>10. queue' = queue \o r /\ r \in Seq(Messages) /\ Len(r) = Len(lens)
  BY <1>1, <1>2
<1> HIDE DEF r
<1>4. queue' \in Seq(Messages) /\ Len(queue') = Len(queue) + Len(lens)
  <2>1. queue \o r \in Seq(Messages) /\ Len(queue \o r) = Len(queue) + Len(r)
    BY <1>3, <1>10, ConcatProperties
  <2>2. QED
    BY <1>10, <2>1
<1>5. \A j \in 1..Len(queue) : queue'[j] = queue[j]
  BY <1>1, <1>2, <1>3, <1>4
<1>6. ASSUME NEW j \in 1..Len(queue'), j > Len(queue)
      PROVE  j - Len(queue) \in 1..Len(lens) /\ queue'[j] = r[j - Len(queue)]
  BY <1>1, <1>2, <1>3, <1>4, <1>6
<1>7. Behind
  <2>1. ASSUME NEW j \in 1..Len(queue'), j > Len(queue)
        PROVE  queue'[j].out = 0 /\ queue'[j].len > 0
    BY <1>1, <1>6, <2>1
  <2>2. Len(queue') >= Len(queue)
    BY <1>3, <1>4
  <2>3. QED
    BY <1>4, <1>5, <2>1, <2>2 DEF Behind
<1>8. ASSUME up PROVE Longer
  <2>1. sent' = sent + Len(lens)
    BY <1>2, <1>8
  <2>2. \A j \in 1..Len(queue') : j > Len(queue) => queue'[j].id = sent + (j - Len(queue))
    BY <1>1, <1>6, <1>8
  <2>3. \A j \in 1..Len(queue') : j > Len(queue) => queue'[j].id \in (sent + 1)..sent'
    BY <1>3, <1>4, <2>1, <2>2
  <2>4. \A i, j \in 1..Len(queue') : i > Len(queue) /\ i < j => queue'[i].id < queue'[j].id
    <3>1. ASSUME NEW i \in 1..Len(queue'), NEW j \in 1..Len(queue'), i > Len(queue), i < j
          PROVE  queue'[i].id < queue'[j].id
      <4>1. queue'[i].id = sent + (i - Len(queue))
        BY <2>2, <3>1
      <4>2. j > Len(queue)
        BY <1>3, <3>1
      <4>3. queue'[j].id = sent + (j - Len(queue))
        BY <2>2, <4>2
      <4>4. QED
        BY <1>3, <1>4, <3>1, <4>1, <4>3
    <3>2. QED
      BY <3>1
  <2>5. ASSUME NEW m \in (sent + 1)..sent'
        PROVE  \E j \in 1..Len(queue') : j > Len(queue) /\ queue'[j].dir = "tx" /\ queue'[j].id = m
    <3>1. Len(queue) + (m - sent) \in 1..Len(queue') /\ Len(queue) + (m - sent) > Len(queue)
      BY <1>3, <1>4, <2>1, <2>5
    <3>2. queue'[Len(queue) + (m - sent)].id = m
      BY <1>3, <2>2, <2>5, <3>1
    <3>3. queue'[Len(queue) + (m - sent)].dir = "tx"
      BY <1>1, <1>6, <3>1
    <3>4. QED
      BY <3>1, <3>2, <3>3
  <2>6. sent <= sent' /\ sent' \in Nat
    BY <1>3, <2>1
  <2>7. QED
    BY <1>7, <2>3, <2>4, <2>5, <2>6 DEF Longer
<1>9. QED
  BY <1>7, <1>8

LEMMA ReceivedBehind ==
  ASSUME TypeOK, TypeOK', NEW f, f.dir = "rx", Received(f), sent' = sent
  PROVE  Behind /\ Longer
<1>1. queue \in Seq(Messages) /\ queue' \in Seq(Messages) /\ sent \in Nat /\ Len(queue) \in Nat
  BY DEF TypeOK, QueueType, HistoryType
<1>2. CASE queue' = queue
  BY <1>1, <1>2 DEF Behind, Longer
<1>3. CASE queue' = Append(queue, f)
  <2>1. Len(queue') = Len(queue) + 1 /\ queue'[Len(queue) + 1] = f
    BY <1>1, <1>3
  <2>2. \A j \in 1..Len(queue) : queue'[j] = queue[j]
    BY <1>1, <1>3
  <2>3. ASSUME NEW j \in 1..Len(queue'), j > Len(queue)
        PROVE  queue'[j].dir # "tx"
    <3>1. j = Len(queue) + 1
      BY <1>1, <2>1, <2>3
    <3>2. QED
      BY <2>1, <3>1
  <2>4. Behind
    BY <1>1, <2>1, <2>2, <2>3 DEF Behind
  <2>5. QED
    BY <1>1, <2>3, <2>4 DEF Longer
<1>4. QED
  BY <1>2, <1>3 DEF Received

LEMMA SameBehind ==
  ASSUME TypeOK, queue' = queue, sent' = sent
  PROVE  Behind /\ Longer
<1>1. queue \in Seq(Messages) /\ sent \in Nat /\ Len(queue) \in Nat
  BY DEF TypeOK, QueueType, HistoryType
<1>2. QED
  BY <1>1 DEF Behind, Longer

-----------------------------------------------------------------------------
(* The message in the thread's hand is put back, let go, or taken.          *)

LEMMA FrontIs ==
  ASSUME TypeOK, NEW m \in Messages, Prepend(m)
  PROVE  /\ Len(queue) \in Nat /\ Len(queue') = Len(queue) + 1 /\ queue'[1] = m
         /\ \A j \in 1..Len(queue') : j # 1 => j - 1 \in 1..Len(queue) /\ queue'[j] = queue[j - 1]
         /\ \A j \in 1..Len(queue) : j + 1 \in 1..Len(queue') /\ queue'[j + 1] = queue[j]
<1> DEFINE one == <<m>>
<1>1. one \in Seq(Messages) /\ Len(one) = 1 /\ one[1] = m
  OBVIOUS
<1>2. queue \in Seq(Messages) /\ queue' = one \o queue /\ Len(queue) \in Nat
  BY DEF TypeOK, QueueType, Prepend
<1> HIDE DEF one
<1>3. Len(one \o queue) = Len(one) + Len(queue)
      /\ \A i \in 1..(Len(one) + Len(queue)) : (one \o queue)[i] = IF i <= Len(one) THEN one[i] ELSE queue[i - Len(one)]
  BY <1>1, <1>2, ConcatProperties
<1>4. Len(queue') = Len(queue) + 1 /\ \A i \in 1..(Len(queue) + 1) : queue'[i] = IF i <= 1 THEN m ELSE queue[i - 1]
  BY <1>1, <1>2, <1>3
<1>5. QED
  BY <1>2, <1>4

\* m is what is left of the message in the hand.
PutBack(m) ==
  /\ m \in Messages /\ m.dir = "tx" /\ m.id = hand.id /\ Fits(m) /\ m.out < m.len
  /\ Prepend(m) /\ pc' = "idle" /\ mtu' = mtu /\ sent' = sent

LEMMA FrontRest ==
  ASSUME TypeOK, RestInv, NEW m \in Messages, m.out < m.len, Prepend(m), pc' = "idle"
  PROVE  RestInv'
<1>1. /\ Len(queue) \in Nat /\ Len(queue') = Len(queue) + 1 /\ queue'[1] = m
      /\ \A j \in 1..Len(queue') : j # 1 => j - 1 \in 1..Len(queue) /\ queue'[j] = queue[j - 1]
  BY FrontIs
<1>2. ASSUME NEW j \in 1..Len(queue'), Tx(j)'
      PROVE  queue'[j].out < queue'[j].len
  <2>1. CASE j = 1
    BY <1>1, <2>1
  <2>2. CASE j # 1
    BY <1>1, <1>2, <2>2 DEF RestInv, Tx
  <2>3. QED
    BY <2>1, <2>2
<1>3. ~Holds'
  BY DEF Holds
<1>4. QED
  BY <1>2, <1>3 DEF RestInv

LEMMA FrontMessages ==
  ASSUME TypeOK, MessagesInv, Holds, NEW m, PutBack(m)
  PROVE  MessagesInv'
<1>1. /\ Len(queue) \in Nat /\ Len(queue') = Len(queue) + 1 /\ queue'[1] = m
      /\ \A j \in 1..Len(queue') : j # 1 => j - 1 \in 1..Len(queue) /\ queue'[j] = queue[j - 1]
  BY FrontIs DEF PutBack
<1>2. ASSUME NEW j \in 1..Len(queue'), Tx(j)', j # 1
      PROVE  Tx(j - 1) /\ queue'[j] = queue[j - 1] /\ j - 1 \in 1..Len(queue)
  BY <1>1, <1>2 DEF Tx
<1>3. ~Holds'
  BY DEF Holds, PutBack
<1>4. ASSUME NEW j \in 1..Len(queue'), Tx(j)'
      PROVE  Fits(queue[j])'
  <2>1. CASE j = 1
    BY <1>1, <2>1 DEF PutBack, Fits
  <2>2. CASE j # 1
    <3>1. Fits(queue[j - 1])
      BY <1>2, <1>4, <2>2 DEF MessagesInv
    <3>2. QED
      BY <1>2, <1>4, <2>2, <3>1 DEF Fits, PutBack
  <2>3. QED
    BY <2>1, <2>2
<1>5. ASSUME NEW i \in 1..Len(queue'), NEW j \in 1..Len(queue'), Tx(i)', Tx(j)', i < j
      PROVE  Before(queue[i], queue[j])'
  <2>1. Tx(j - 1) /\ queue'[j] = queue[j - 1] /\ j - 1 \in 1..Len(queue)
    BY <1>2, <1>5
  <2>2. CASE i = 1
    <3>1. Before(hand, queue[j - 1])
      BY <2>1 DEF MessagesInv
    <3>2. QED
      BY <1>1, <2>1, <2>2, <3>1 DEF Before, PutBack
  <2>3. CASE i # 1
    <3>1. Tx(i - 1) /\ queue'[i] = queue[i - 1] /\ i - 1 \in 1..Len(queue)
      BY <1>2, <1>5, <2>3
    <3>2. i - 1 < j - 1
      BY <1>1, <1>5
    <3>3. Before(queue[i - 1], queue[j - 1])
      BY <2>1, <3>1, <3>2 DEF MessagesInv
    <3>4. QED
      BY <2>1, <3>1, <3>3 DEF Before
  <2>4. QED
    BY <2>2, <2>3
<1>6. pc' # "wait"
  BY DEF PutBack
<1>7. QED
  BY <1>3, <1>4, <1>5, <1>6 DEF MessagesInv

LEMMA FrontThread ==
  ASSUME TypeOK, MessagesInv, Holds, NEW m, PutBack(m), NEW p, ThreadAt(p), NEW q, q = Start(m)
  PROVE  ThreadAt(q)'
<1>1. /\ Len(queue) \in Nat /\ Len(queue') = Len(queue) + 1 /\ queue'[1] = m
      /\ \A j \in 1..Len(queue') : j # 1 => j - 1 \in 1..Len(queue) /\ queue'[j] = queue[j - 1]
      /\ \A j \in 1..Len(queue) : j + 1 \in 1..Len(queue') /\ queue'[j + 1] = queue[j]
  BY FrontIs DEF PutBack
<1>2. ~Holds' /\ sent' = sent /\ sent \in Nat
  BY DEF Holds, PutBack, TypeOK, HistoryType
<1>3. Tx(1)' /\ 1 \in 1..Len(queue')
  BY <1>1 DEF Tx, PutBack
<1>4. m.id = hand.id /\ m.id \in 0..sent /\ q.id = m.id
  BY Places DEF PutBack, Fits, Start
<1>5. Pending(m.id + 1)
  BY <1>4 DEF ThreadAt
<1>6. ASSUME NEW j \in 1..Len(queue'), Tx(j)', j # 1
      PROVE  Tx(j - 1) /\ queue'[j] = queue[j - 1] /\ j - 1 \in 1..Len(queue)
  BY <1>1, <1>6 DEF Tx
<1>7. ASSUME NEW j \in 1..Len(queue), Tx(j)
      PROVE  Tx(j + 1)' /\ queue'[j + 1] = queue[j] /\ j + 1 \in 1..Len(queue')
  BY <1>1, <1>7 DEF Tx
<1>8. ASSUME NEW k \in (m.id + 1)..sent
      PROVE  \E j \in 1..Len(queue') : Tx(j)' /\ queue'[j].id = k
  <2>1. PICK j \in 1..Len(queue) : Tx(j) /\ queue[j].id = k
    BY <1>5, <1>8 DEF Pending
  <2>2. QED
    BY <1>7, <2>1
<1>9. CASE m.id = 0
  <2>1. ASSUME NEW j \in 1..Len(queue'), Tx(j)'
        PROVE  queue'[j].id = 0 \/ queue'[j].id >= 1
    <3>1. CASE j = 1
      BY <1>1, <1>9, <3>1
    <3>2. CASE j # 1
      BY <1>5, <1>6, <1>9, <2>1, <3>2 DEF Pending
    <3>3. QED
      BY <3>1, <3>2
  <2>2. Pending(1)'
    BY <1>2, <1>8, <1>9, <2>1 DEF Pending
  <2>3. q = Old
    BY <1>9, Places DEF Start
  <2>4. QED
    BY <1>1, <1>2, <1>3, <1>4, <1>9, <2>2, <2>3 DEF ThreadAt
<1>10. CASE m.id # 0
  <2>1. ASSUME NEW j \in 1..Len(queue'), Tx(j)', j # 1
        PROVE  queue'[j].id \in 1..sent /\ queue'[j].id > m.id
    <3>1. Tx(j - 1) /\ queue'[j] = queue[j - 1] /\ j - 1 \in 1..Len(queue)
      BY <1>6, <2>1
    <3>2. Before(hand, queue[j - 1]) /\ Fits(queue[j - 1])
      BY <3>1 DEF MessagesInv
    <3>3. QED
      BY <1>2, <1>4, <1>10, <3>1, <3>2 DEF Before, Fits
  <2>2. ASSUME NEW j \in 1..Len(queue'), Tx(j)'
        PROVE  /\ queue'[j].id >= m.id /\ queue'[j].id # 0
               /\ queue'[j].id = m.id => j = 1
    <3>1. CASE j = 1
      BY <1>1, <1>2, <1>4, <1>10, <3>1
    <3>2. CASE j # 1
      BY <1>2, <1>4, <2>1, <2>2, <3>2
    <3>3. QED
      BY <3>1, <3>2
  <2>3. ASSUME NEW k \in (m.id)..sent
        PROVE  \E j \in 1..Len(queue') : Tx(j)' /\ queue'[j].id = k
    <3>1. CASE k = m.id
      BY <1>1, <1>3, <3>1
    <3>2. CASE k # m.id
      BY <1>2, <1>4, <1>8, <2>3, <3>2
    <3>3. QED
      BY <3>1, <3>2
  <2>4. Pending(m.id)'
    BY <1>2, <2>2, <2>3 DEF Pending
  <2>5. q.id \in 1..(sent + 1) /\ q.id # sent + 1
    BY <1>2, <1>4, <1>10
  <2>6. ASSUME NEW j \in 1..Len(queue'), Tx(j)'
        PROVE  queue'[j].id # 0 /\ (queue'[j].id = q.id => q = Start(queue[j])')
    BY <1>1, <1>4, <2>2, <2>6 DEF Start
  <2>7. QED
    BY <1>2, <1>4, <1>10, <2>4, <2>5, <2>6 DEF ThreadAt
<1>11. QED
  BY <1>9, <1>10

LEMMA GetIs ==
  ASSUME TypeOK, Get
  PROVE  /\ Len(queue) \in Nat \ {0} /\ Len(queue') = Len(queue) - 1
         /\ hand' = queue[1] /\ pc' = queue[1].dir /\ pc' \in {"tx", "rx"} /\ 1 \in 1..Len(queue)
         /\ \A j \in 1..Len(queue') : j + 1 \in 1..Len(queue) /\ queue'[j] = queue[j + 1]
         /\ \A j \in 1..Len(queue) : j # 1 => j - 1 \in 1..Len(queue') /\ queue'[j - 1] = queue[j]
<1>1. queue \in Seq(Messages) /\ queue # <<>> /\ hand' = Head(queue) /\ queue' = Tail(queue) /\ pc' = Head(queue).dir
  BY DEF TypeOK, QueueType, Get
<1>2. Len(queue) \in Nat \ {0} /\ Head(queue) = queue[1] /\ queue[1] \in Messages
  BY <1>1
<1>3. queue[1].dir \in {"tx", "rx"}
  BY <1>2 DEF Messages
<1>4. /\ Len(queue') = Len(queue) - 1
      /\ \A j \in 1..Len(queue') : j + 1 \in 1..Len(queue) /\ queue'[j] = queue[j + 1]
  BY <1>1, <1>2
<1>5. ASSUME NEW j \in 1..Len(queue), j # 1
      PROVE  j - 1 \in 1..Len(queue') /\ queue'[j - 1] = queue[j]
  <2>1. j - 1 \in 1..Len(queue') /\ (j - 1) + 1 = j
    BY <1>2, <1>4, <1>5
  <2>2. QED
    BY <1>4, <2>1
<1>6. QED
  BY <1>1, <1>2, <1>3, <1>4, <1>5

LEMMA GetRest ==
  ASSUME TypeOK, RestInv, Get
  PROVE  RestInv'
<1>1. /\ hand' = queue[1] /\ pc' = queue[1].dir /\ 1 \in 1..Len(queue)
      /\ \A j \in 1..Len(queue') : j + 1 \in 1..Len(queue) /\ queue'[j] = queue[j + 1]
      /\ pc' \in {"tx", "rx"}
  BY GetIs
<1>2. \A j \in 1..Len(queue') : Tx(j)' => Tx(j + 1)
  BY <1>1 DEF Tx
<1>3. Holds' => Tx(1)
  BY <1>1 DEF Holds, Tx
<1>4. QED
  BY <1>1, <1>2, <1>3 DEF RestInv

LEMMA GetMessages ==
  ASSUME TypeOK, MessagesInv, Get
  PROVE  MessagesInv'
<1>1. /\ Len(queue) \in Nat \ {0}
      /\ hand' = queue[1] /\ pc' = queue[1].dir /\ 1 \in 1..Len(queue)
      /\ \A j \in 1..Len(queue') : j + 1 \in 1..Len(queue) /\ queue'[j] = queue[j + 1]
      /\ pc' \in {"tx", "rx"}
  BY GetIs
<1>2. mtu' = mtu /\ sent' = sent
  BY DEF Get, linkVars, history
<1>3. ASSUME NEW j \in 1..Len(queue'), Tx(j)'
      PROVE  Tx(j + 1) /\ queue'[j] = queue[j + 1] /\ j + 1 \in 1..Len(queue)
  BY <1>1, <1>3 DEF Tx
<1>4. Holds' => Tx(1)
  BY <1>1 DEF Holds, Tx
<1>5. ASSUME NEW j \in 1..Len(queue'), Tx(j)'
      PROVE  Fits(queue[j])'
  <2>1. Fits(queue[j + 1])
    BY <1>3, <1>5 DEF MessagesInv
  <2>2. QED
    BY <1>2, <1>3, <1>5, <2>1 DEF Fits
<1>6. ASSUME NEW i \in 1..Len(queue'), NEW j \in 1..Len(queue'), Tx(i)', Tx(j)', i < j
      PROVE  Before(queue[i], queue[j])'
  <2>1. Before(queue[i + 1], queue[j + 1])
    BY <1>3, <1>6 DEF MessagesInv
  <2>2. QED
    BY <1>3, <1>6, <2>1 DEF Before
<1>7. ASSUME Holds'
      PROVE  Fits(hand)'
  <2>1. Fits(queue[1])
    BY <1>1, <1>4, <1>7 DEF MessagesInv
  <2>2. QED
    BY <1>1, <1>2, <2>1 DEF Fits
<1>8. ASSUME Holds', NEW j \in 1..Len(queue'), Tx(j)'
      PROVE  Before(hand, queue[j])'
  <2>1. 1 < j + 1
    BY <1>8
  <2>2. Before(queue[1], queue[j + 1])
    BY <1>1, <1>3, <1>4, <1>8, <2>1 DEF MessagesInv
  <2>3. QED
    BY <1>1, <1>3, <1>8, <2>2 DEF Before
<1>9. QED
  BY <1>1, <1>5, <1>6, <1>7, <1>8 DEF MessagesInv

LEMMA GetAir ==
  ASSUME TypeOK, Get
  PROVE  SameAir /\ txSeq' = txSeq
  BY DEF Get, SameAir, linkVars, seqVars, stackVars, history, TypeOK, HistoryType

\* The head of the messages is what the thread goes on with.
LEMMA HeadIsNext ==
  ASSUME TypeOK, MessagesInv, ~Holds, Tx(1), NEW p, ThreadAt(p)
  PROVE  p = Start(queue[1]) /\ Pending(IF p.id = 0 THEN 1 ELSE p.id) /\ p.id = queue[1].id
<1>1. queue \in Seq(Messages) /\ Len(queue) \in Nat /\ sent \in Nat /\ 1 \in 1..Len(queue)
  BY DEF TypeOK, QueueType, HistoryType, Tx
<1>2. queue[1].id \in 0..sent
  BY <1>1 DEF MessagesInv, Fits
<1>3. ASSUME NEW j \in 1..Len(queue), Tx(j), j # 1
      PROVE  queue[1].id = 0 \/ queue[1].id < queue[j].id
  BY <1>1, <1>3 DEF MessagesInv, Before
<1>4. CASE p.id = 0
  <2>1. p = Old /\ Pending(1) /\ \E j \in 1..Len(queue) : Tx(j) /\ queue[j].id = 0
    BY <1>4 DEF ThreadAt
  <2>2. queue[1].id = 0
    BY <1>2, <1>3, <2>1
  <2>3. QED
    BY <1>4, <2>1, <2>2, Places DEF Start
<1>5. CASE p.id # 0
  <2>1. /\ p.id \in 1..(sent + 1) /\ Pending(p.id)
        /\ \A j \in 1..Len(queue) : Tx(j) => queue[j].id # 0 /\ (queue[j].id = p.id => p = Start(queue[j]))
    BY <1>5 DEF ThreadAt
  <2>2. queue[1].id # 0 /\ queue[1].id >= p.id
    BY <1>1, <2>1 DEF Pending
  <2>3. p.id \in (p.id)..sent
    BY <1>1, <1>2, <2>1, <2>2
  <2>4. PICK j \in 1..Len(queue) : Tx(j) /\ queue[j].id = p.id
    BY <2>1, <2>3 DEF Pending
  <2>5. queue[1].id = p.id
    BY <1>1, <1>2, <1>3, <2>1, <2>2, <2>4
  <2>6. QED
    BY <1>1, <1>5, <2>1, <2>5
<1>6. QED
  BY <1>4, <1>5

LEMMA GetGoesOn ==
  ASSUME TypeOK, MessagesInv, GoesOn, Get
  PROVE  GoesOn'
<1>1. PICK p : ThreadAt(p) /\ (Again \/ (pc # "wait" /\ Ready(p)))
  BY DEF GoesOn
<1>2. /\ Len(queue) \in Nat \ {0}
      /\ hand' = queue[1] /\ pc' = queue[1].dir /\ pc' \in {"tx", "rx"} /\ 1 \in 1..Len(queue)
      /\ \A j \in 1..Len(queue') : j + 1 \in 1..Len(queue) /\ queue'[j] = queue[j + 1]
      /\ \A j \in 1..Len(queue) : j # 1 => j - 1 \in 1..Len(queue') /\ queue'[j - 1] = queue[j]
  BY GetIs
<1>3. SameAir /\ txSeq' = txSeq /\ pc = "idle" /\ ~Holds /\ pc' # "wait" /\ sent' = sent /\ sent \in Nat
  BY <1>2, GetAir DEF Get, Holds, history, TypeOK, HistoryType
<1>4. ASSUME NEW j \in 1..Len(queue'), Tx(j)'
      PROVE  Tx(j + 1) /\ queue'[j] = queue[j + 1] /\ j + 1 \in 1..Len(queue) /\ j + 1 > 1
  BY <1>2, <1>4 DEF Tx
<1>5. ASSUME NEW j \in 1..Len(queue), Tx(j), j # 1
      PROVE  Tx(j - 1)' /\ queue'[j - 1] = queue[j] /\ j - 1 \in 1..Len(queue')
  BY <1>2, <1>5 DEF Tx
<1>6. Ready(p) => Ready(p)'
  BY <1>3, SameReady
<1>7. CASE Tx(1)
  <2>1. p = Start(queue[1]) /\ Pending(IF p.id = 0 THEN 1 ELSE p.id) /\ p.id = queue[1].id
    BY <1>1, <1>3, <1>7, HeadIsNext
  <2>2. Holds' /\ pc' = "tx"
    BY <1>2, <1>7 DEF Holds, Tx
  <2>3. queue[1].id \in 0..sent
    BY <1>2, <1>7 DEF MessagesInv, Fits
  <2>4. ASSUME NEW j \in 1..Len(queue'), Tx(j)'
        PROVE  queue'[j].id = 0 \/ queue'[j].id >= queue[1].id + 1
    <3>1. Before(queue[1], queue[j + 1]) /\ Fits(queue[j + 1])
      BY <1>2, <1>4, <1>7, <2>4 DEF MessagesInv
    <3>2. QED
      BY <1>3, <1>4, <2>3, <2>4, <3>1 DEF Before, Fits
  <2>5. ASSUME NEW k \in (queue[1].id + 1)..sent
        PROVE  \E j \in 1..Len(queue') : Tx(j)' /\ queue'[j].id = k
    <3>1. k \in (IF p.id = 0 THEN 1 ELSE p.id)..sent /\ k # queue[1].id
      BY <1>3, <2>1, <2>3, <2>5
    <3>2. PICK j \in 1..Len(queue) : Tx(j) /\ queue[j].id = k
      BY <2>1, <3>1 DEF Pending
    <3>3. j # 1
      BY <3>1, <3>2
    <3>4. QED
      BY <1>5, <3>2, <3>3
  <2>6. Pending(hand.id + 1)'
    BY <1>2, <1>3, <2>4, <2>5 DEF Pending
  <2>7. ThreadAt(p)'
    BY <1>2, <2>1, <2>2, <2>6 DEF ThreadAt, Start
  <2>8. ASSUME Again PROVE Again'
    <3>1. Unconfirmed(queue[1], txSeq)
      BY <1>3, <2>8 DEF Again
    <3>2. Unconfirmed(hand, txSeq)'
      BY <1>2, <1>3, <3>1, SameUnconfirmed DEF Unconfirmed
    <3>3. QED
      BY <2>2, <3>2 DEF Again
  <2>9. QED
    BY <1>1, <1>3, <1>6, <2>7, <2>8 DEF GoesOn
<1>8. CASE ~Tx(1)
  <2>1. pc' = "rx" /\ ~Holds'
    BY <1>2, <1>8 DEF Holds, Tx
  <2>2. ASSUME NEW n, Pending(n)
        PROVE  Pending(n)'
    <3>1. \A j \in 1..Len(queue') : Tx(j)' => queue'[j].id = 0 \/ queue'[j].id >= n
      BY <1>4, <2>2 DEF Pending
    <3>2. ASSUME NEW k \in n..sent
          PROVE  \E j \in 1..Len(queue') : Tx(j)' /\ queue'[j].id = k
      <4>1. PICK j \in 1..Len(queue) : Tx(j) /\ queue[j].id = k
        BY <2>2, <3>2 DEF Pending
      <4>2. QED
        BY <1>5, <1>8, <4>1
    <3>3. QED
      BY <1>3, <3>1, <3>2 DEF Pending
  <2>3. CASE p.id = 0
    <3>1. p = Old /\ Pending(1) /\ \E j \in 1..Len(queue) : Tx(j) /\ queue[j].id = 0
      BY <1>1, <1>3, <2>3 DEF ThreadAt
    <3>2. \E j \in 1..Len(queue') : Tx(j)' /\ queue'[j].id = 0
      BY <1>5, <1>8, <3>1
    <3>3. QED
      BY <1>1, <1>3, <1>6, <1>8, <2>1, <2>2, <2>3, <3>1, <3>2 DEF GoesOn, ThreadAt, Again
  <2>4. CASE p.id # 0
    <3>1. /\ p.id \in 1..(sent + 1) /\ Pending(p.id)
          /\ p.id = sent + 1 => p = New(p.id)
          /\ \A j \in 1..Len(queue) : Tx(j) => queue[j].id # 0 /\ (queue[j].id = p.id => p = Start(queue[j]))
      BY <1>1, <1>3, <2>4 DEF ThreadAt
    <3>2. \A j \in 1..Len(queue') : Tx(j)' => queue'[j].id # 0 /\ (queue'[j].id = p.id => p = Start(queue[j])')
      BY <1>4, <3>1 DEF Start
    <3>3. ThreadAt(p)'
      BY <1>3, <2>1, <2>2, <2>4, <3>1, <3>2 DEF ThreadAt
    <3>4. QED
      BY <1>1, <1>3, <1>6, <1>8, <3>3 DEF GoesOn, Again
  <2>5. QED
    BY <2>3, <2>4
<1>9. QED
  BY <1>7, <1>8

-----------------------------------------------------------------------------
(* The thread repeats a frame, or goes on to the next.                     *)

LEMMA HandIs ==
  ASSUME TypeOK, Holds
  PROVE  /\ hand \in Messages /\ hand.dir = "tx" /\ hand.id \in Nat /\ hand.len \in Nat
         /\ hand.out \in Nat /\ hand.out <= hand.len /\ left \in Nat
         /\ sent \in Nat /\ mtu \in Nat /\ mtu > 0 /\ txSeq \in 0..(SeqMod - 1)
<1>1. hand \in Messages /\ hand.dir = "tx" /\ left \in Nat
  BY DEF TypeOK, ThreadType, RoleType, Holds
<1>2. hand.id \in Nat /\ hand.len \in Nat /\ hand.out \in Nat /\ hand.out <= hand.len
  BY <1>1 DEF Messages
<1>3. mtu \in Nat /\ mtu > 0
  BY LensAssumption DEF TypeOK, LinkType
<1>4. sent \in Nat /\ txSeq \in 0..(SeqMod - 1)
  BY DEF TypeOK, HistoryType, SeqType
<1>5. QED
  BY <1>1, <1>2, <1>3, <1>4

LEMMA RepeatStep ==
  ASSUME TypeOK, RestInv, MessagesInv, FramesInv, GoesOn, TxFull \/ Timeout
  PROVE  MessagesInv' /\ FramesInv' /\ GoesOn'
<1>1. Holds /\ Prepend(hand) /\ pc' = "idle" /\ mtu' = mtu /\ sent' = sent /\ SameAir
  BY DEF TxFull, Timeout, Holds, Free, SameAir, linkVars, seqVars, stackVars, history, TypeOK, HistoryType
<1>2. hand \in Messages /\ hand.dir = "tx" /\ txSeq \in 0..(SeqMod - 1)
  BY <1>1, HandIs
<1>3. PutBack(hand)
  BY <1>1, <1>2 DEF PutBack, MessagesInv, RestInv
<1>4. MessagesInv' /\ FramesInv'
  BY <1>1, <1>3, FrontMessages, SameFrames
<1>5. PICK p : ThreadAt(p) /\ (Again \/ (pc # "wait" /\ Ready(p)))
  BY DEF GoesOn
<1>6. p = Start(hand)
  BY <1>1, <1>5 DEF ThreadAt
<1>7. ThreadAt(p)'
  BY <1>1, <1>3, <1>5, <1>6, FrontThread
<1>8. Tx(1)' /\ queue'[1] = hand
  BY <1>1, <1>2, FrontIs DEF Tx
<1>9. CASE Timeout
  <2>1. Unconfirmed(hand, SeqPrev(txSeq)) /\ txSeq' = SeqPrev(txSeq)
    BY <1>5, <1>9 DEF Again, Timeout
  <2>2. Unconfirmed(queue[1], txSeq)'
    BY <1>1, <1>8, <2>1, SameUnconfirmed DEF Unconfirmed
  <2>3. QED
    BY <1>1, <1>4, <1>7, <1>8, <2>2 DEF GoesOn, Again
<1>10. CASE TxFull
  <2>1. pc = "tx" /\ txSeq' = txSeq
    BY <1>10 DEF TxFull, seqVars
  <2>2. CASE Unconfirmed(hand, txSeq)
    <3>1. Unconfirmed(queue[1], txSeq)'
      BY <1>1, <1>8, <2>1, <2>2, SameUnconfirmed DEF Unconfirmed
    <3>2. QED
      BY <1>1, <1>4, <1>7, <1>8, <3>1 DEF GoesOn, Again
  <2>3. CASE Ready(p)
    BY <1>1, <1>4, <1>7, <2>1, <2>3, SameReady DEF GoesOn
  <2>4. QED
    BY <1>5, <2>1, <2>2, <2>3 DEF Again
<1>11. QED
  BY <1>9, <1>10

LEMMA RepeatRest ==
  ASSUME TypeOK, RestInv, TxFull \/ Timeout
  PROVE  RestInv'
<1>1. Holds /\ Prepend(hand) /\ pc' = "idle"
  BY DEF TxFull, Timeout, Holds, Free
<1>2. hand \in Messages /\ hand.out < hand.len
  BY <1>1, HandIs DEF RestInv
<1>3. QED
  BY <1>1, <1>2, FrontRest

\* What is left of the message in the hand after n units of it.
Rest(n) == [hand EXCEPT !.out = @ + n]

LEMMA RestIs ==
  ASSUME TypeOK, Holds, NEW n \in Nat, hand.out + n <= hand.len
  PROVE  /\ Rest(n) \in Messages /\ Rest(n).dir = "tx" /\ Rest(n).id = hand.id
         /\ Rest(n).len = hand.len /\ Rest(n).out = hand.out + n
  BY HandIs DEF Rest, Messages

LEMMA SentIs ==
  ASSUME Sent
  PROVE  /\ pc = "wait" /\ pc' = "idle"
         /\ IF left # 0 /\ hand.out + left < hand.len THEN Prepend(Rest(left)) ELSE queue' = queue
  BY DEF Sent, Continue, Free, Rest

LEMMA SentRest ==
  ASSUME TypeOK, RestInv, Sent
  PROVE  RestInv'
<1>1. CASE left # 0 /\ hand.out + left < hand.len
  <2>1. Holds /\ left \in Nat /\ hand.out + left <= hand.len
    BY <1>1, SentIs, HandIs DEF Holds
  <2>2. Rest(left) \in Messages /\ Rest(left).out < Rest(left).len
    BY <1>1, <2>1, RestIs
  <2>3. Prepend(Rest(left)) /\ pc' = "idle"
    BY <1>1, SentIs
  <2>4. QED
    BY <2>2, <2>3, FrontRest
<1>2. CASE ~(left # 0 /\ hand.out + left < hand.len)
  BY <1>2, SentIs DEF RestInv, Tx, Holds
<1>3. QED
  BY <1>1, <1>2

\* Nothing that waits was begun.
LEMMA OthersWhole ==
  ASSUME TypeOK, PartIsHead, Holds, NEW j \in 1..Len(queue), Tx(j)
  PROVE  queue[j].out = 0 /\ Start(queue[j]) = At(queue[j].id, 0, 0)
<1>1. queue[j] \in Messages /\ queue[j].dir = "tx"
  BY DEF TypeOK, QueueType, Tx
<1>2. queue[j].out \in Nat
  BY <1>1 DEF Messages
<1>3. ~(queue[j].out > 0)
  BY <1>1 DEF PartIsHead, Holds
<1>4. queue[j].out = 0
  BY <1>2, <1>3
<1>5. QED
  BY <1>4 DEF Start, At

LEMMA SentMessages ==
  ASSUME TypeOK, MessagesInv, Sent, left # 0 /\ hand.out + left < hand.len
  PROVE  PutBack(Rest(left)) /\ (hand.id # 0 => left = mtu /\ hand.len - hand.out > mtu)
<1>1. Holds /\ Prepend(Rest(left)) /\ pc' = "idle" /\ mtu' = mtu /\ sent' = sent /\ pc = "wait"
  BY SentIs DEF Sent, Holds, linkVars, history
<1>2. /\ hand.id \in Nat /\ hand.len \in Nat /\ hand.out \in Nat /\ left \in Nat
      /\ mtu \in Nat /\ mtu > 0
  BY <1>1, HandIs
<1>3. /\ Rest(left) \in Messages /\ Rest(left).dir = "tx" /\ Rest(left).id = hand.id
      /\ Rest(left).len = hand.len /\ Rest(left).out = hand.out + left
  BY <1>1, <1>2, RestIs
<1>4. hand.id # 0 => left = IF hand.len <= mtu THEN 0 ELSE Lesser(hand.len - hand.out, mtu)
  BY <1>1 DEF MessagesInv
<1>5. hand.id # 0 => left = mtu /\ hand.len - hand.out > mtu /\ hand.len > mtu
  BY <1>2, <1>4 DEF Lesser
<1>6. Fits(Rest(left))
  BY <1>1, <1>2, <1>3, <1>5 DEF Fits, MessagesInv
<1>7. QED
  BY <1>1, <1>2, <1>3, <1>5, <1>6 DEF PutBack

LEMMA DoneMessages ==
  ASSUME TypeOK, MessagesInv, queue' = queue, pc' = "idle", mtu' = mtu, sent' = sent
  PROVE  MessagesInv'
<1>1. ~Holds' /\ pc' # "wait"
  BY DEF Holds
<1>2. QED
  BY <1>1 DEF MessagesInv, Tx, Fits, Before

LEMMA Confirmed ==
  ASSUME TypeOK, Unconfirmed(hand, SeqPrev(txSeq)), NEW q \in Ends(hand)
  PROVE  Ready(q)
<1>1. SeqNext(SeqPrev(txSeq)) = txSeq
  BY SeqSteps DEF TypeOK, SeqType
<1>2. CASE air = <<>>
  BY <1>1, <1>2 DEF Unconfirmed, Ready
<1>3. CASE air # <<>>
  BY <1>1, <1>3 DEF Unconfirmed, Ready
<1>4. QED
  BY <1>2, <1>3

\* Where the thread goes on when a message is done.
LEMMA DoneThread ==
  ASSUME TypeOK, PartIsHead, MessagesInv, Holds, Pending(hand.id + 1),
         hand.id # 0 => hand.len - hand.out <= mtu,
         queue' = queue, pc' = "idle", sent' = sent
  PROVE  \E q \in Ends(hand) : ThreadAt(q)'
<1>1. hand.id \in Nat /\ sent \in Nat /\ ~Holds' /\ hand.id \in 0..sent
      /\ hand.len \in Nat /\ hand.out \in Nat /\ mtu \in Nat
  BY HandIs DEF Holds, MessagesInv, Fits
<1>2. ASSUME NEW j \in 1..Len(queue), Tx(j)
      PROVE  Start(queue[j]) = At(queue[j].id, 0, 0) /\ (hand.id # 0 => queue[j].id > hand.id) /\ queue[j].id \in 0..sent
  BY <1>1, <1>2, OthersWhole DEF MessagesInv, Before, Fits
<1>3. \A n : Pending(n) => Pending(n)'
  BY DEF Pending, Tx
<1>4. CASE hand.id = 0 /\ \E j \in 1..Len(queue) : Tx(j) /\ queue[j].id = 0
  <2>1. Old \in Ends(hand) /\ Old.id = 0
    BY <1>4, Places DEF Ends
  <2>2. Pending(1)'
    BY <1>3, <1>4
  <2>3. (\E j \in 1..Len(queue) : Tx(j) /\ queue[j].id = 0)'
    BY <1>4 DEF Tx
  <2>4. ThreadAt(Old)'
    BY <1>1, <2>1, <2>2, <2>3 DEF ThreadAt
  <2>5. QED
    BY <2>1, <2>4
<1>5. CASE hand.id # 0 \/ ~\E j \in 1..Len(queue) : Tx(j) /\ queue[j].id = 0
  <2>1. PICK n : n = hand.id + 1
    OBVIOUS
  <2>2. PICK q : q = New(n)
    OBVIOUS
  <2>3. q \in Ends(hand)
    <3>1. CASE hand.id = 0
      BY <2>1, <2>2, <3>1 DEF Ends
    <3>2. CASE hand.id # 0
      <4>1. ~(hand.len - hand.out > mtu)
        BY <1>1, <3>2
      <4>2. QED
        BY <2>1, <2>2, <3>2, <4>1 DEF Ends
    <3>3. QED
      BY <3>1, <3>2
  <2>4. n \in 1..(sent + 1) /\ n # 0 /\ q.id = n
    BY <1>1, <2>1, <2>2, Places
  <2>5. Pending(n)'
    BY <1>3, <2>1
  <2>6. ASSUME NEW j \in 1..Len(queue), Tx(j)
        PROVE  queue[j].id # 0 /\ (queue[j].id = n => q = Start(queue[j]))
    <3>1. queue[j].id # 0
      BY <1>1, <1>2, <1>5, <2>6
    <3>2. \A k : k # 0 => At(k, 0, 0) = New(k)
      BY Places
    <3>3. QED
      BY <1>2, <2>2, <2>4, <2>6, <3>1, <3>2
  <2>7. \A j \in 1..Len(queue') : Tx(j)' => queue'[j].id # 0 /\ (queue'[j].id = n => q = Start(queue[j])')
    BY <2>6 DEF Tx, Start
  <2>8. q.id = n /\ q.id # 0 /\ n \in 1..(sent' + 1) /\ q = New(n)
    BY <2>2, <2>4
  <2>9. ThreadAt(q)'
    BY <1>1, <2>5, <2>7, <2>8 DEF ThreadAt
  <2>10. QED
    BY <2>3, <2>9
<1>6. QED
  BY <1>4, <1>5

LEMMA SentStep ==
  ASSUME TypeOK, PartIsHead, MessagesInv, FramesInv, GoesOn, Sent
  PROVE  MessagesInv' /\ FramesInv' /\ GoesOn'
<1>1. SameAir /\ txSeq' = txSeq /\ pc = "wait" /\ pc' = "idle" /\ Holds /\ mtu' = mtu /\ sent' = sent
  BY DEF Sent, Holds, Continue, Free, SameAir, linkVars, seqVars, history, TypeOK, HistoryType
<1>2. PICK p : ThreadAt(p) /\ (Again \/ (pc # "wait" /\ Ready(p)))
  BY DEF GoesOn
<1>3. Unconfirmed(hand, SeqPrev(txSeq)) /\ Pending(hand.id + 1)
  BY <1>1, <1>2 DEF Again, ThreadAt
<1>4. \A q \in Ends(hand) : Ready(q)'
  BY <1>1, <1>3, Confirmed, SameReady
<1>5. FramesInv'
  BY <1>1, SameFrames
<1>6. /\ hand.id \in Nat /\ hand.len \in Nat /\ hand.out \in Nat /\ left \in Nat
      /\ mtu \in Nat /\ mtu > 0
  BY <1>1, HandIs
<1>7. CASE left # 0 /\ hand.out + left < hand.len
  <2>1. PutBack(Rest(left)) /\ (hand.id # 0 => left = mtu /\ hand.len - hand.out > mtu)
    BY <1>7, SentMessages
  <2>2. MessagesInv'
    BY <1>1, <2>1, FrontMessages
  <2>3. PICK q : q = Start(Rest(left))
    OBVIOUS
  <2>4. ThreadAt(q)'
    BY <1>1, <1>2, <2>1, <2>3, FrontThread
  <2>5. Rest(left).id = hand.id /\ Rest(left).out = hand.out + left /\ Rest(left).len = hand.len
    BY <1>1, <1>6, <1>7, RestIs
  <2>6. q \in Ends(hand)
    <3>1. CASE hand.id = 0
      BY <2>3, <2>5, <3>1, Places DEF Start, Ends
    <3>2. CASE hand.id # 0
      BY <2>1, <2>3, <2>5, <3>2 DEF Start, Ends
    <3>3. QED
      BY <3>1, <3>2
  <2>7. QED
    BY <1>1, <1>4, <1>5, <2>2, <2>4, <2>6 DEF GoesOn
<1>8. CASE ~(left # 0 /\ hand.out + left < hand.len)
  <2>1. queue' = queue
    BY <1>8, SentIs
  <2>2. MessagesInv'
    BY <1>1, <2>1, DoneMessages
  <2>3. ASSUME hand.id # 0
        PROVE  hand.len - hand.out <= mtu
    <3>1. left = IF hand.len <= mtu THEN 0 ELSE Lesser(hand.len - hand.out, mtu)
      BY <1>1, <2>3 DEF MessagesInv
    <3>2. QED
      BY <1>6, <1>8, <3>1 DEF Lesser
  <2>4. PICK q \in Ends(hand) : ThreadAt(q)'
    BY <1>1, <1>3, <2>1, <2>3, DoneThread
  <2>5. QED
    BY <1>1, <1>4, <1>5, <2>2, <2>4 DEF GoesOn
<1>9. QED
  BY <1>7, <1>8

-----------------------------------------------------------------------------
(* The frame the thread sends.                                             *)

LEMMA UnitsAre ==
  ASSUME NEW m, NEW k \in Nat, NEW n \in Nat, n > 0
  PROVE  /\ Len(Units(m, k, n)) = n /\ Units(m, k, n) # <<>>
         /\ \A i \in 1..n : Units(m, k, n)[i] = <<m.id, k + i, m.len>>
         /\ Units(m, k, n)[1] = <<m.id, k + 1, m.len>>
         /\ Units(m, k, n) = [i \in 1..n |-> <<m.id, k + i, m.len>>]
<1>1. Units(m, k, n) = [i \in 1..n |-> <<m.id, k + i, m.len>>]
  BY DEF Units
<1>2. Len(Units(m, k, n)) = n /\ \A i \in 1..n : Units(m, k, n)[i] = <<m.id, k + i, m.len>>
  BY <1>1
<1>3. 1 \in 1..n
  OBVIOUS
<1>4. Units(m, k, n) # <<>>
  BY <1>2
<1>5. QED
  BY <1>1, <1>2, <1>3, <1>4

LEMMA FrameIs ==
  ASSUME TypeOK, RestInv, MessagesInv, pc = "tx"
  PROVE  /\ FrameOK(Frame) /\ Frame.seq = txSeq
         /\ FrameStart(Frame) = Start(hand) /\ FrameEnds(Frame) = Ends(hand)
<1> DEFINE k == IF Single THEN 0 ELSE hand.out
<1>1. /\ hand.id \in Nat /\ hand.len \in Nat /\ hand.out \in Nat /\ sent \in Nat /\ hand.id <= sent
      /\ mtu \in Nat /\ mtu > 0 /\ txSeq \in 0..(SeqMod - 1) /\ hand.out < hand.len
      /\ hand.id # 0 /\ hand.out > 0 => hand.out >= mtu /\ hand.len > mtu
  BY HandIs DEF Holds, RestInv, MessagesInv, Fits
<1>2. Piece \in Nat /\ Piece > 0 /\ k \in Nat
  BY <1>1 DEF Piece, Single, Lesser
<1>3. Frame.data = Units(hand, k, Piece) /\ Frame.seq = txSeq
      /\ Frame.no = (IF Single THEN 0 ELSE hand.out \div mtu)
      /\ Frame.more = (~Single /\ hand.len - hand.out > mtu)
  BY DEF Frame
<1>4. hand.id # 0 => k = hand.out
  BY <1>1 DEF Single
<1>5. hand.id # 0 =>
        /\ (~Single /\ hand.len - hand.out > mtu) <=> hand.out + Piece < hand.len
        /\ ~(~Single /\ hand.len - hand.out > mtu) => hand.out + Piece = hand.len
        /\ hand.len - hand.out > mtu => hand.out + Piece = hand.out + mtu
        /\ ~Single \/ ~(hand.len - hand.out > mtu)
  <2>1. CASE Single
    BY <1>1, <1>4, <2>1 DEF Piece, Single
  <2>2. CASE ~Single
    BY <1>1, <2>2 DEF Piece, Single, Lesser
  <2>3. QED
    BY <2>1, <2>2
<1>6. hand.id # 0 => (Frame.no = 0 <=> hand.out = 0)
  <2>1. CASE Single
    BY <1>1, <1>3, <2>1 DEF Single
  <2>2. CASE ~Single /\ hand.out = 0
    <3>1. 0 \div mtu = 0
      BY <1>1
    <3>2. QED
      BY <1>3, <2>2, <3>1
  <2>3. CASE ~Single /\ hand.out > 0 /\ hand.id # 0
    <3>1. hand.out \div mtu # 0
      BY <1>1, <2>3
    <3>2. QED
      BY <1>1, <1>3, <2>3, <3>1
  <2>4. QED
    BY <1>1, <2>1, <2>2, <2>3
<1> HIDE DEF k
<1>7. /\ Len(Frame.data) = Piece /\ Frame.data # <<>>
      /\ \A i \in 1..Piece : Frame.data[i] = <<hand.id, k + i, hand.len>>
      /\ Frame.data[1] = <<hand.id, k + 1, hand.len>>
      /\ Frame.data = [i \in 1..Piece |-> <<hand.id, k + i, hand.len>>]
  <2>1. PICK u : u = Units(hand, k, Piece)
    OBVIOUS
  <2>2. /\ Len(u) = Piece /\ u # <<>>
        /\ \A i \in 1..Piece : u[i] = <<hand.id, k + i, hand.len>>
        /\ u[1] = <<hand.id, k + 1, hand.len>>
        /\ u = [i \in 1..Piece |-> <<hand.id, k + i, hand.len>>]
    BY <1>2, <2>1, UnitsAre, Zenon
  <2>3. Frame.data = u
    BY <1>3, <2>1
  <2>4. QED
    BY <2>2, <2>3, Zenon
<1>8. Id(Frame) = hand.id /\ From(Frame) = k /\ Total(Frame) = hand.len
  BY <1>2, <1>7 DEF Id, From, Total
<1>9. hand.id = 0 => \A i \in 1..Len(Frame.data) : Frame.data[i][1] = 0
  BY <1>7
<1>10. ASSUME hand.id # 0
       PROVE  Frame.more = (k + Piece < hand.len) /\ (~Frame.more => k + Piece = hand.len)
  <2>1. (~Single /\ hand.len - hand.out > mtu) <=> k + Piece < hand.len
    BY <1>4, <1>5, <1>10
  <2>2. ~(~Single /\ hand.len - hand.out > mtu) => k + Piece = hand.len
    BY <1>4, <1>5, <1>10
  <2>3. (k + Piece < hand.len) \in BOOLEAN
    BY <1>1, <1>2
  <2>4. Frame.more = (k + Piece < hand.len)
    BY <1>3, <2>1, <2>3, Zenon
  <2>5. ~Frame.more => k + Piece = hand.len
    BY <1>3, <2>2, Zenon
  <2>6. QED
    BY <2>4, <2>5
<1>11. FrameOK(Frame)
  <2>1. Frame.data # <<>> /\ Id(Frame) \in 0..sent /\ Frame.seq \in 0..(SeqMod - 1)
    BY <1>1, <1>3, <1>7, <1>8
  <2>2. ASSUME hand.id # 0
        PROVE  /\ Frame.data = [i \in 1..Len(Frame.data) |-> <<Id(Frame), From(Frame) + i, Total(Frame)>>]
               /\ From(Frame) \in Nat /\ Frame.more = (From(Frame) + Len(Frame.data) < Total(Frame))
               /\ ~Frame.more => From(Frame) + Len(Frame.data) = Total(Frame)
               /\ Frame.no = 0 <=> From(Frame) = 0
    <3>1. Frame.data = [i \in 1..Len(Frame.data) |-> <<Id(Frame), From(Frame) + i, Total(Frame)>>]
      BY <1>7, <1>8
    <3>2. From(Frame) \in Nat /\ (Frame.no = 0 <=> From(Frame) = 0)
      BY <1>2, <1>4, <1>6, <1>8, <2>2
    <3>3. QED
      BY <1>7, <1>8, <1>10, <2>2, <3>1, <3>2
  <2>3. QED
    BY <1>8, <1>9, <2>1, <2>2 DEF FrameOK
<1>12. FrameStart(Frame) = Start(hand)
  <2>1. CASE hand.id = 0
    BY <1>8, <2>1, Places DEF FrameStart, Start
  <2>2. CASE hand.id # 0
    BY <1>4, <1>8, <2>2 DEF FrameStart, Start
  <2>3. QED
    BY <2>1, <2>2
<1>13. FrameEnds(Frame) = Ends(hand)
  <2>1. CASE hand.id = 0
    BY <1>8, <2>1 DEF FrameEnds, Ends
  <2>2. CASE hand.id # 0 /\ hand.len - hand.out > mtu
    <3>1. Frame.more
      BY <1>3, <1>5, <2>2
    <3>2. k + Piece = hand.out + mtu
      BY <1>4, <1>5, <2>2
    <3>3. QED
      BY <1>7, <1>8, <2>2, <3>1, <3>2 DEF FrameEnds, Ends
  <2>3. CASE hand.id # 0 /\ ~(hand.len - hand.out > mtu)
    <3>1. ~Frame.more
      BY <1>3, <2>3
    <3>2. QED
      BY <1>8, <2>3, <3>1 DEF FrameEnds, Ends
  <2>4. QED
    BY <2>1, <2>2, <2>3
<1>14. QED
  BY <1>3, <1>11, <1>12, <1>13

LEMMA SendMessages ==
  ASSUME TypeOK, RestInv, MessagesInv, TxSend
  PROVE  MessagesInv' /\ RestInv'
<1>1. /\ pc = "tx" /\ pc' = "wait" /\ hand' = hand /\ queue' = queue /\ mtu' = mtu /\ sent' = sent
      /\ left' = IF Single THEN 0 ELSE Piece
  BY DEF TxSend, linkVars, history
<1>2. Holds /\ Holds'
  BY <1>1 DEF Holds
<1>3. left' = IF hand.len <= mtu THEN 0 ELSE Lesser(hand.len - hand.out, mtu)
  BY <1>1 DEF Single, Piece
<1>4. MessagesInv'
  BY <1>1, <1>2, <1>3 DEF MessagesInv, Fits, Tx, Before
<1>5. RestInv'
  BY <1>1, <1>2 DEF RestInv, Tx
<1>6. QED
  BY <1>4, <1>5

LEMMA AirGrows ==
  ASSUME TypeOK, NEW g, air' = Append(air, g)
  PROVE  /\ Len(air) \in Nat /\ Len(air') = Len(air) + 1 /\ air' # <<>> /\ air'[Len(air')] = g
         /\ \A i \in 1..Len(air) : air'[i] = air[i]
         /\ air # <<>> => air'[1] = air[1] /\ 1 \in 1..Len(air)
         /\ air = <<>> => air'[1] = g
  BY DEF TypeOK, StackType

LEMMA SendAir ==
  ASSUME TypeOK, RestInv, MessagesInv, FramesInv, GoesOn, TxSend
  PROVE  FramesInv' /\ GoesOn'
<1>1. /\ pc = "tx" /\ pc' = "wait" /\ hand' = hand /\ queue' = queue /\ mtu' = mtu /\ sent' = sent
      /\ txSeq' = SeqNext(txSeq) /\ phone' = phone /\ received' = received
  BY DEF TxSend, linkVars, history
<1>2. PICK g : g = Frame
  OBVIOUS
<1>3. FrameOK(g) /\ g.seq = txSeq /\ FrameStart(g) = Start(hand) /\ FrameEnds(g) = Ends(hand)
  BY <1>1, <1>2, FrameIs
<1>4. air' = Append(air, g)
  BY <1>2 DEF TxSend
<1>5. /\ Len(air) \in Nat /\ Len(air') = Len(air) + 1 /\ air' # <<>> /\ air'[Len(air')] = g
      /\ \A i \in 1..Len(air) : air'[i] = air[i]
      /\ air # <<>> => air'[1] = air[1] /\ 1 \in 1..Len(air)
      /\ air = <<>> => air'[1] = g
  BY <1>4, AirGrows
<1>6. Holds /\ Holds'
  BY <1>1 DEF Holds
<1>7. PICK p : ThreadAt(p) /\ (Again \/ (pc # "wait" /\ Ready(p)))
  BY DEF GoesOn
<1>8. p = Start(hand) /\ Pending(hand.id + 1)
  BY <1>6, <1>7 DEF ThreadAt
<1>9. Unconfirmed(hand, txSeq) \/ Ready(p)
  BY <1>1, <1>7 DEF Again
<1>10. SeqPrev(SeqNext(txSeq)) = txSeq
  BY SeqSteps DEF TypeOK, SeqType
<1>11. ThreadAt(p)'
  BY <1>1, <1>6, <1>8 DEF ThreadAt, Start, Pending, Tx
<1>12. Again'
  <2>1. Ends(hand)' = Ends(hand) /\ Start(hand)' = Start(hand)
    BY <1>1 DEF Ends, Start
  <2>2. (FrameStart(air[Len(air)]) = Start(hand))' /\ (FrameEnds(air[Len(air)]) = Ends(hand))'
    BY <1>3, <1>5, <2>1 DEF FrameStart, FrameEnds, Id, From, Total
  <2>3. SeqPrev(txSeq)' = (air[Len(air)].seq)'
    BY <1>1, <1>3, <1>5, <1>10 DEF SeqPrev
  <2>4. Unconfirmed(hand, SeqPrev(txSeq))'
    BY <1>5, <2>2, <2>3 DEF Unconfirmed
  <2>5. QED
    BY <1>1, <2>4 DEF Again
<1>13. GoesOn'
  BY <1>11, <1>12 DEF GoesOn
<1>14. \A q : Expects(q)' <=> Expects(q)
  BY <1>1 DEF Expects, InOrder
<1>15. ASSUME NEW i \in 1..Len(air')
       PROVE  FrameOK(air[i])'
  <2>1. CASE i \in 1..Len(air)
    <3>1. FrameOK(air[i]) /\ air'[i] = air[i]
      BY <1>5, <2>1 DEF FramesInv
    <3>2. QED
      BY <1>1, <3>1 DEF FrameOK, Id, From, Total
  <2>2. CASE i = Len(air')
    BY <1>1, <1>3, <1>5, <2>2 DEF FrameOK, Id, From, Total
  <2>3. QED
    BY <1>5, <2>1, <2>2
<1>16. ASSUME NEW i \in 1..(Len(air') - 1)
       PROVE  Link(air[i], air[i + 1])'
  <2>1. CASE i \in 1..(Len(air) - 1)
    <3>1. Link(air[i], air[i + 1]) /\ air'[i] = air[i] /\ air'[i + 1] = air[i + 1]
      BY <1>5, <2>1 DEF FramesInv
    <3>2. QED
      BY <3>1 DEF Link, FrameStart, FrameEnds, Id, From, Total
  <2>2. CASE i = Len(air)
    <3>1. air # <<>> /\ air'[i] = air[Len(air)] /\ air'[i + 1] = g
      BY <1>5, <2>2
    <3>2. Link(air[Len(air)], g)
      <4>1. CASE Unconfirmed(hand, txSeq)
        BY <1>3, <3>1, <4>1 DEF Unconfirmed, Link
      <4>2. CASE Ready(p)
        BY <1>3, <1>8, <3>1, <4>2 DEF Ready, Link
      <4>3. QED
        BY <1>9, <4>1, <4>2
    <3>3. QED
      BY <3>1, <3>2 DEF Link, FrameStart, FrameEnds, Id, From, Total
  <2>3. QED
    BY <1>5, <2>1, <2>2
<1>17. First(air[1])'
  <2>1. CASE air # <<>>
    <3>1. First(air[1]) /\ air'[1] = air[1]
      BY <1>5, <2>1 DEF FramesInv
    <3>2. FrameStart(air[1])' = FrameStart(air[1]) /\ FrameEnds(air[1])' = FrameEnds(air[1])
      BY <3>1 DEF FrameStart, FrameEnds, Id, From, Total
    <3>3. QED
      BY <1>1, <1>14, <3>1, <3>2 DEF First
  <2>2. CASE air = <<>>
    <3>1. First(g)
      <4>1. CASE Unconfirmed(hand, txSeq)
        BY <1>3, <2>2, <4>1 DEF Unconfirmed, First
      <4>2. CASE Ready(p)
        BY <1>3, <1>8, <2>2, <4>2 DEF Ready, First
      <4>3. QED
        BY <1>9, <4>1, <4>2
    <3>2. air'[1] = g
      BY <1>5, <2>2
    <3>3. FrameStart(air[1])' = FrameStart(g) /\ FrameEnds(air[1])' = FrameEnds(g)
      BY <3>2 DEF FrameStart, FrameEnds, Id, From, Total
    <3>4. QED
      BY <1>1, <1>14, <3>1, <3>2, <3>3 DEF First
  <2>3. QED
    BY <2>1, <2>2
<1>18. (phone.seq \in 0..(SeqMod - 1))'
  BY <1>1 DEF FramesInv
<1>19. QED
  BY <1>13, <1>15, <1>16, <1>17, <1>18 DEF FramesInv

-----------------------------------------------------------------------------
(* The phone gets a frame.                                                 *)

\* Arrays of units.
Piled(id, n, len) == [i \in 1..n |-> <<id, i, len>>]
Pile(id, k, n, len) == [i \in 1..n |-> <<id, k + i, len>>]

LEMMA NumberIs ==
  ASSUME NEW u \in Seq(Unit), u # <<>>
  PROVE  /\ u[1][1] = 0 => Number(u) = 0
         /\ \A id, len \in Nat : len > 0 /\ u = Piled(id, len, len) => Number(u) = id
<1>1. ASSUME u[1][1] = 0 PROVE Number(u) = 0
  BY <1>1 DEF Number
<1>2. ASSUME NEW id \in Nat, NEW len \in Nat, len > 0, u = Piled(id, len, len)
      PROVE  Number(u) = id
  <2>1. u[1] = <<id, 1, len>>
    BY <1>2 DEF Piled
  <2>2. u[1][1] = id /\ u[1][3] = len
    BY <2>1
  <2>3. u = [i \in 1..u[1][3] |-> <<u[1][1], i, u[1][3]>>]
    BY <1>2, <2>2 DEF Piled
  <2>4. QED
    BY <2>2, <2>3 DEF Number
<1>3. QED
  BY <1>1, <1>2

LEMMA Joined ==
  ASSUME NEW S, NEW a \in Seq(S), NEW b \in Seq(S), NEW c, c = a \o b
  PROVE  /\ c \in Seq(S) /\ Len(c) = Len(a) + Len(b) /\ Len(a) \in Nat /\ Len(b) \in Nat
         /\ \A i \in 1..Len(c) : (i \in 1..Len(a) /\ c[i] = a[i]) \/ (i - Len(a) \in 1..Len(b) /\ c[i] = b[i - Len(a)])
<1>1. /\ c \in Seq(S) /\ Len(c) = Len(a) + Len(b) /\ Len(a) \in Nat /\ Len(b) \in Nat
      /\ \A i \in 1..(Len(a) + Len(b)) : c[i] = IF i <= Len(a) THEN a[i] ELSE b[i - Len(a)]
  BY ConcatProperties
<1>2. ASSUME NEW i \in 1..Len(c)
      PROVE  \/ i \in 1..Len(a) /\ c[i] = a[i]
             \/ i - Len(a) \in 1..Len(b) /\ c[i] = b[i - Len(a)]
  <2>1. CASE i <= Len(a)
    BY <1>1, <2>1
  <2>2. CASE ~(i <= Len(a))
    BY <1>1, <2>2
  <2>3. QED
    BY <2>1, <2>2
<1>3. QED
  BY <1>1, <1>2

LEMMA Piling ==
  ASSUME NEW id \in Nat, NEW len \in Nat, NEW n \in Nat, NEW m \in Nat
  PROVE  Piled(id, n, len) \o Pile(id, n, m, len) = Piled(id, n + m, len)
<1>1. PICK b, d, c : b = Piled(id, n, len) /\ d = Pile(id, n, m, len) /\ c = b \o d
  OBVIOUS
<1>2. b \in Seq(Unit) /\ Len(b) = n /\ \A i \in 1..n : b[i] = <<id, i, len>>
  BY <1>1 DEF Piled, Unit
<1>3. d \in Seq(Unit) /\ Len(d) = m /\ \A i \in 1..m : d[i] = <<id, n + i, len>>
  BY <1>1 DEF Pile, Unit
<1>4. /\ c \in Seq(Unit) /\ Len(c) = n + m
      /\ \A i \in 1..Len(c) : (i \in 1..n /\ c[i] = b[i]) \/ (i - n \in 1..m /\ c[i] = d[i - n])
  <2>1. /\ c \in Seq(Unit) /\ Len(c) = Len(b) + Len(d)
        /\ \A i \in 1..Len(c) : (i \in 1..Len(b) /\ c[i] = b[i]) \/ (i - Len(b) \in 1..Len(d) /\ c[i] = d[i - Len(b)])
    <3>1. c = b \o d /\ b \in Seq(Unit) /\ d \in Seq(Unit)
      BY <1>1, <1>2, <1>3
    <3>2. QED
      BY <3>1, Joined
  <2>2. Len(b) = n /\ Len(d) = m
    BY <1>2, <1>3
  <2>3. QED
    BY <2>1, <2>2
<1>5. ASSUME NEW i \in 1..(n + m)
      PROVE  c[i] = <<id, i, len>>
  <2>1. CASE i \in 1..n /\ c[i] = b[i]
    BY <1>2, <2>1
  <2>2. CASE i - n \in 1..m /\ c[i] = d[i - n]
    <3>1. c[i] = <<id, n + (i - n), len>>
      BY <1>3, <2>2
    <3>2. n + (i - n) = i
      OBVIOUS
    <3>3. QED
      BY <3>1, <3>2
  <2>3. QED
    BY <1>4, <2>1, <2>2
<1>6. c = [i \in 1..(n + m) |-> c[i]]
  <2>1. \A s \in Seq(Unit) : s = [i \in 1..Len(s) |-> s[i]]
    OBVIOUS
  <2>2. QED
    BY <1>4, <2>1
<1>7. c = Piled(id, n + m, len)
  BY <1>5, <1>6 DEF Piled
<1>8. QED
  BY <1>1, <1>7

LEMMA InOrderGrows ==
  ASSUME received \in Seq(Nat), NEW n \in Nat, InOrder(n)
  PROVE  /\ received' = received => InOrder(n)'
         /\ received' = Append(received, n + 1) => InOrder(n + 1)'
         /\ received' = Append(received, 0) /\ n = 0 => InOrder(0)'
<1>1. PICK k \in 0..Len(received) :
        /\ Len(received) = k + n
        /\ \A i \in 1..Len(received) : received[i] = IF i <= k THEN 0 ELSE i - k
  BY DEF InOrder
<1>2. Len(received) \in Nat
  OBVIOUS
<1>3. ASSUME NEW v \in Nat, received' = Append(received, v)
      PROVE  /\ Len(received') = Len(received) + 1 /\ received'[Len(received) + 1] = v
             /\ \A i \in 1..Len(received) : received'[i] = received[i]
  BY <1>3
<1>4. ASSUME received' = Append(received, n + 1)
      PROVE  InOrder(n + 1)'
  <2>1. /\ Len(received') = Len(received) + 1 /\ received'[Len(received) + 1] = n + 1
        /\ \A i \in 1..Len(received) : received'[i] = received[i]
    BY <1>3, <1>4
  <2>2. k \in 0..Len(received') /\ Len(received') = k + (n + 1)
    BY <1>1, <1>2, <2>1
  <2>3. ASSUME NEW i \in 1..Len(received')
        PROVE  received'[i] = IF i <= k THEN 0 ELSE i - k
    <3>1. CASE i \in 1..Len(received)
      BY <1>1, <2>1, <3>1
    <3>2. CASE i = Len(received) + 1
      <4>1. ~(i <= k) /\ i - k = n + 1
        BY <1>1, <1>2, <3>2
      <4>2. QED
        BY <2>1, <3>2, <4>1
    <3>3. QED
      BY <1>2, <2>1, <3>1, <3>2
  <2>4. QED
    BY <2>2, <2>3 DEF InOrder
<1>5. ASSUME received' = Append(received, 0), n = 0
      PROVE  InOrder(0)'
  <2>1. /\ Len(received') = Len(received) + 1 /\ received'[Len(received) + 1] = 0
        /\ \A i \in 1..Len(received) : received'[i] = received[i]
    BY <1>3, <1>5
  <2>2. k + 1 \in 0..Len(received') /\ Len(received') = (k + 1) + 0
    BY <1>1, <1>2, <1>5, <2>1
  <2>3. ASSUME NEW i \in 1..Len(received')
        PROVE  received'[i] = IF i <= k + 1 THEN 0 ELSE i - (k + 1)
    <3>1. i <= k + 1
      BY <1>2, <2>2, <2>3
    <3>2. CASE i \in 1..Len(received)
      <4>1. i <= k
        BY <1>1, <1>2, <1>5, <3>2
      <4>2. QED
        BY <1>1, <2>1, <3>1, <3>2, <4>1
    <3>3. CASE i = Len(received) + 1
      BY <2>1, <3>1, <3>3
    <3>4. QED
      BY <1>2, <2>1, <3>2, <3>3
  <2>4. QED
    BY <2>2, <2>3 DEF InOrder
<1>6. received' = received => InOrder(n)'
  BY DEF InOrder
<1>7. QED
  BY <1>4, <1>5, <1>6

\* The phone takes a frame of the device's.
Takes(f) ==
  LET new == IF f.no = 0 THEN f.data ELSE phone.buf \o f.data
  IN  /\ phone'.seq = SeqNext(phone.seq) /\ phone'.buf = IF f.more THEN new ELSE <<>>
      /\ received' = IF f.more THEN received ELSE Append(received, Number(new))

LEMMA DeliverIs ==
  ASSUME TypeOK, Deliver, NEW f, f = air[1]
  PROVE  /\ f \in Frames /\ air # <<>> /\ Len(air) \in Nat \ {0} /\ Len(air') = Len(air) - 1
         /\ \A i \in 1..Len(air') : i + 1 \in 1..Len(air) /\ air'[i] = air[i + 1]
         /\ f.seq # phone.seq => phone' = phone /\ received' = received
         /\ f.seq = phone.seq => Takes(f)
<1>1. air \in Seq(Frames) /\ air # <<>> /\ air' = Tail(air)
  BY DEF TypeOK, StackType, Deliver
<1>2. Head(air) = f /\ f \in Frames /\ Len(air) \in Nat \ {0} /\ Len(air') = Len(air) - 1
      /\ \A i \in 1..Len(air') : i + 1 \in 1..Len(air) /\ air'[i] = air[i + 1]
  BY <1>1
<1>3. f.seq # phone.seq => phone' = phone /\ received' = received
  BY <1>2 DEF Deliver
<1>4. ASSUME f.seq = phone.seq PROVE Takes(f)
  <2> DEFINE new == IF f.no = 0 THEN f.data ELSE phone.buf \o f.data
  <2>1. /\ phone' = [phone EXCEPT !.seq = SeqNext(@), !.buf = IF f.more THEN new ELSE <<>>]
        /\ received' = IF f.more THEN received ELSE Append(received, Number(new))
    BY <1>2, <1>4 DEF Deliver
  <2>2. phone \in Phones
    BY DEF TypeOK, PhoneType
  <2> HIDE DEF new
  <2>3. phone'.seq = SeqNext(phone.seq)
    BY <2>1, <2>2 DEF Phones
  <2>4. phone'.buf = IF f.more THEN new ELSE <<>>
    BY <2>1, <2>2 DEF Phones
  <2>5. QED
    BY <2>1, <2>3, <2>4 DEF Takes, new
<1>5. QED
  BY <1>1, <1>2, <1>3, <1>4

\* A frame of an old message spoils what the phone gets, but not what it expects.
LEMMA OldTaken ==
  ASSUME TypeOK, NEW f \in Frames, FrameOK(f), Takes(f), Id(f) = 0, Expects(FrameStart(f)),
         NEW p \in FrameEnds(f)
  PROVE  Expects(p)'
<1> DEFINE new == IF f.no = 0 THEN f.data ELSE phone.buf \o f.data
<1>1. f.data \in Seq(Unit) /\ f.data # <<>> /\ phone.buf \in Seq(Unit) /\ f.more \in BOOLEAN
      /\ received \in Seq(Nat) /\ f.no \in Nat
  BY DEF FrameOK, Frames, TypeOK, PhoneType, Phones, HistoryType
<1>2. \A i \in 1..Len(f.data) : f.data[i][1] = 0
  BY DEF FrameOK
<1>3. FrameStart(f) = Old
  BY Places DEF FrameStart
<1>4. InOrder(0) /\ \A i \in 1..Len(phone.buf) : phone.buf[i][1] = 0
  BY <1>3, Places DEF Expects
<1>5. new \in Seq(Unit) /\ new # <<>> /\ \A i \in 1..Len(new) : new[i][1] = 0
  <2>1. CASE f.no = 0
    BY <1>1, <1>2, <2>1
  <2>2. CASE f.no # 0
    <3>1. new = phone.buf \o f.data
      BY <2>2
    <3>2. PICK b, d : b = phone.buf /\ d = f.data
      OBVIOUS
    <3> HIDE DEF new
    <3>3. b \in Seq(Unit) /\ d \in Seq(Unit) /\ d # <<>> /\ new = b \o d
      BY <1>1, <3>1, <3>2
    <3>4. /\ new \in Seq(Unit) /\ Len(new) = Len(b) + Len(d) /\ Len(b) \in Nat /\ Len(d) \in Nat
          /\ \A i \in 1..Len(new) : (i \in 1..Len(b) /\ new[i] = b[i]) \/ (i - Len(b) \in 1..Len(d) /\ new[i] = d[i - Len(b)])
      BY <3>3, Joined
    <3>5. new # <<>>
      BY <3>3, <3>4
    <3>6. (\A i \in 1..Len(b) : b[i][1] = 0) /\ (\A i \in 1..Len(d) : d[i][1] = 0)
      BY <1>2, <1>4, <3>2
    <3>7. QED
      BY <3>4, <3>5, <3>6
  <2>3. QED
    BY <2>1, <2>2
<1>6. /\ phone'.buf = IF f.more THEN new ELSE <<>>
      /\ received' = IF f.more THEN received ELSE Append(received, Number(new))
  BY DEF Takes
<1> HIDE DEF new
<1>7. Number(new) = 0
  <2>1. new[1][1] = 0
    BY <1>5
  <2>2. QED
    BY <1>5, <2>1, NumberIs
<1>8. InOrder(0)'
  <2>1. received' = received \/ received' = Append(received, 0)
    BY <1>6, <1>7
  <2>2. QED
    BY <1>1, <1>4, <2>1, InOrderGrows
<1>9. \A i \in 1..Len(phone'.buf) : phone'.buf[i][1] = 0
  <2>1. CASE f.more
    BY <1>5, <1>6, <2>1
  <2>2. CASE ~f.more
    BY <1>6, <2>2
  <2>3. QED
    BY <2>1, <2>2
<1>10. p.out = 0 /\ (IF p.id = 0 THEN 0 ELSE p.id - 1) = 0
  <2>1. p = Old \/ p = New(1)
    BY DEF FrameEnds
  <2>2. QED
    BY <2>1, Places
<1>11. QED
  BY <1>8, <1>9, <1>10 DEF Expects

LEMMA NewTaken ==
  ASSUME TypeOK, NEW f \in Frames, FrameOK(f), Takes(f), Id(f) # 0, Expects(FrameStart(f)),
         NEW p \in FrameEnds(f)
  PROVE  Expects(p)'
<1> DEFINE new == IF f.no = 0 THEN f.data ELSE phone.buf \o f.data
<1>1. PICK id, k, len, n : id = Id(f) /\ k = From(f) /\ len = Total(f) /\ n = Len(f.data)
  OBVIOUS
<1>2. f.data \in Seq(Unit) /\ f.data # <<>> /\ phone.buf \in Seq(Unit) /\ f.more \in BOOLEAN
      /\ received \in Seq(Nat) /\ f.no \in Nat
  BY DEF FrameOK, Frames, TypeOK, PhoneType, Phones, HistoryType
<1>3. n \in Nat /\ n > 0 /\ f.data[1] \in Unit
  BY <1>1, <1>2
<1>4. id \in Nat /\ len \in Nat /\ id # 0
  BY <1>1, <1>3 DEF Id, Total, Unit
<1>5. /\ f.data = [i \in 1..n |-> <<id, k + i, len>>]
      /\ k \in Nat /\ f.more = (k + n < len)
      /\ ~f.more => k + n = len
      /\ f.no = 0 <=> k = 0
  BY <1>1 DEF FrameOK
<1>6. FrameStart(f) = At(id, k, len)
  BY <1>1 DEF FrameStart
<1>7. FrameStart(f).id = id /\ (k # 0 => FrameStart(f).out = k /\ FrameStart(f).len = len)
  BY <1>4, <1>6, Places
<1>8. InOrder(id - 1) /\ (k # 0 => phone.buf = Piled(id, k, len))
  <2>1. PICK q : q = FrameStart(f)
    OBVIOUS
  <2>2. q.id = id /\ (k # 0 => q.out = k /\ q.len = len) /\ Expects(q)
    BY <1>7, <2>1
  <2>3. InOrder(id - 1)
    BY <1>4, <2>2 DEF Expects
  <2>4. ASSUME k # 0 PROVE phone.buf = Piled(id, k, len)
    <3>1. q.out > 0 /\ q.out = k /\ q.len = len /\ q.id = id
      BY <1>5, <2>2, <2>4
    <3>2. phone.buf = Piled(q.id, q.out, q.len)
      BY <2>2, <3>1 DEF Expects, Piled
    <3>3. QED
      BY <3>1, <3>2
  <2>5. QED
    BY <2>3, <2>4
<1>9. new = Piled(id, k + n, len)
  <2>1. CASE k = 0
    <3>1. new = f.data
      BY <1>5, <2>1
    <3>2. \A i \in 1..n : k + i = i
      BY <2>1
    <3>3. k + n = n
      BY <1>3, <2>1
    <3>4. QED
      BY <1>5, <3>1, <3>2, <3>3 DEF Piled
  <2>2. CASE k # 0
    <3>1. new = phone.buf \o f.data
      BY <1>5, <2>2
    <3>2. f.data = [i \in 1..Len(f.data) |-> <<id, k + i, len>>]
      BY <1>1, <1>5
    <3>3. f.data = Pile(id, k, n, len)
      BY <1>1, <3>2 DEF Pile
    <3>4. phone.buf = Piled(id, k, len)
      BY <1>8, <2>2
    <3>5. Piled(id, k, len) \o Pile(id, k, n, len) = Piled(id, k + n, len)
      <4>1. id \in Nat /\ k \in Nat /\ n \in Nat /\ len \in Nat
        BY <1>3, <1>4, <1>5
      <4>2. QED
        BY ZenonT(40), <4>1, Piling
    <3>6. QED
      BY <3>1, <3>3, <3>4, <3>5
  <2>3. QED
    BY <2>1, <2>2
<1>10. /\ phone'.buf = IF f.more THEN new ELSE <<>>
       /\ received' = IF f.more THEN received ELSE Append(received, Number(new))
  BY DEF Takes
<1>11. new \in Seq(Unit) /\ new # <<>>
  BY <1>2
<1> HIDE DEF new
<1>12. CASE f.more
  <2>1. p = At(id, k + n, len)
    BY <1>1, <1>4, <1>12 DEF FrameEnds
  <2>2. p.id = id /\ p.out = k + n /\ p.len = len
    BY <1>3, <1>4, <1>5, <2>1, Places
  <2>3. InOrder(id - 1)'
    BY <1>8, <1>10, <1>12 DEF InOrder
  <2>4. phone'.buf = Piled(id, k + n, len)
    BY <1>9, <1>10, <1>12
  <2>5. QED
    BY <1>4, <2>2, <2>3, <2>4 DEF Expects, Piled
<1>13. CASE ~f.more
  <2>1. p = New(id + 1)
    BY <1>1, <1>4, <1>13 DEF FrameEnds
  <2>2. p.id = id + 1 /\ p.out = 0 /\ p.id # 0 /\ p.id - 1 = id
    BY <1>4, <2>1, Places
  <2>3. k + n = len /\ len > 0
    BY <1>3, <1>5, <1>13
  <2>4. Number(new) = id
    BY <1>4, <1>9, <1>11, <2>3, NumberIs
  <2>5. received' = Append(received, (id - 1) + 1)
    BY <1>4, <1>10, <1>13, <2>4
  <2>6. id - 1 \in Nat /\ (id - 1) + 1 = id
    BY <1>4
  <2>7. PICK m : m = id - 1
    OBVIOUS
  <2>8. InOrder(m + 1)'
    BY <1>2, <1>8, <2>5, <2>6, <2>7, InOrderGrows
  <2>9. QED
    BY <2>2, <2>6, <2>7, <2>8 DEF Expects
<1>14. QED
  BY <1>2, <1>12, <1>13

LEMMA DeliverTaken ==
  ASSUME TypeOK, FramesInv, Deliver, NEW f, f = air[1]
  PROVE  phone'.seq = SeqNext(f.seq) /\ \A p \in FrameEnds(f) : Expects(p)'
<1>1. /\ f \in Frames /\ air # <<>> /\ Len(air) \in Nat \ {0}
      /\ f.seq # phone.seq => phone' = phone /\ received' = received
      /\ f.seq = phone.seq => Takes(f)
  BY DeliverIs
<1>2. FrameOK(f) /\ First(f) /\ phone.seq \in 0..(SeqMod - 1)
  BY <1>1 DEF FramesInv
<1>3. CASE f.seq = phone.seq
  <2>1. SeqNext(f.seq) # f.seq
    BY <1>2, <1>3, SeqSteps
  <2>2. Expects(FrameStart(f))
    BY <1>2, <1>3, <2>1 DEF First
  <2>3. phone'.seq = SeqNext(f.seq)
    BY <1>1, <1>3 DEF Takes
  <2>4. QED
    BY <1>1, <1>2, <1>3, <2>2, <2>3, OldTaken, NewTaken
<1>4. CASE f.seq # phone.seq
  <2>1. SeqNext(f.seq) = phone.seq /\ \A p \in FrameEnds(f) : Expects(p)
    BY <1>2, <1>4 DEF First
  <2>2. phone' = phone /\ received' = received
    BY <1>1, <1>4
  <2>3. \A p : Expects(p)' <=> Expects(p)
    BY <2>2 DEF Expects, InOrder
  <2>4. QED
    BY <2>1, <2>2, <2>3
<1>5. QED
  BY <1>3, <1>4

LEMMA DeliverStep ==
  ASSUME TypeOK, MessagesInv, FramesInv, GoesOn, Deliver
  PROVE  MessagesInv' /\ FramesInv' /\ GoesOn'
<1>1. /\ queue' = queue /\ pc' = pc /\ hand' = hand /\ left' = left /\ txSeq' = txSeq
      /\ mtu' = mtu /\ sent' = sent
  BY DEF Deliver, linkVars, seqVars
<1>2. PICK f : f = air[1]
  OBVIOUS
<1>3. /\ f \in Frames /\ Len(air) \in Nat \ {0} /\ Len(air') = Len(air) - 1
      /\ \A i \in 1..Len(air') : i + 1 \in 1..Len(air) /\ air'[i] = air[i + 1]
  BY <1>2, DeliverIs
<1>4. phone'.seq = SeqNext(f.seq) /\ \A p \in FrameEnds(f) : Expects(p)'
  BY <1>2, DeliverTaken
<1>5. FrameOK(f) /\ f.seq \in 0..(SeqMod - 1)
  BY <1>2, <1>3 DEF FramesInv, FrameOK
<1>6. MessagesInv'
  BY <1>1 DEF MessagesInv, Fits, Tx, Before, Holds
<1>7. air \in Seq(Frames) /\ air' \in Seq(Frames) /\ Len(air') \in Nat
  <2>1. air \in Seq(Frames) /\ air # <<>> /\ air' = Tail(air)
    BY DEF TypeOK, StackType, Deliver
  <2>2. QED
    BY <2>1
<1>8. ASSUME NEW i \in 1..Len(air')
      PROVE  FrameOK(air[i])'
  <2>1. FrameOK(air[i + 1]) /\ air'[i] = air[i + 1]
    BY <1>3 DEF FramesInv
  <2>2. QED
    BY <1>1, <2>1 DEF FrameOK, Id, From, Total
<1>9. ASSUME NEW i \in 1..(Len(air') - 1)
      PROVE  Link(air[i], air[i + 1])'
  <2>1. i + 1 \in 1..(Len(air) - 1) /\ air'[i] = air[i + 1] /\ air'[i + 1] = air[(i + 1) + 1]
    BY <1>3, <1>7
  <2>2. Link(air[i + 1], air[(i + 1) + 1])
    BY <2>1 DEF FramesInv
  <2>3. QED
    BY <2>1, <2>2 DEF Link, FrameStart, FrameEnds, Id, From, Total
<1>10. ASSUME air' # <<>>
       PROVE  First(air[1])'
  <2>1. 1 \in 1..(Len(air) - 1) /\ air'[1] = air[1 + 1]
    BY <1>3, <1>7, <1>10
  <2>2. PICK g : g = air'[1]
    OBVIOUS
  <2>3. Link(f, g)
    BY <1>2, <2>1, <2>2 DEF FramesInv
  <2>4. FrameStart(air[1])' = FrameStart(g) /\ FrameEnds(air[1])' = FrameEnds(g) /\ (air[1].seq)' = g.seq
    BY <2>2 DEF FrameStart, FrameEnds, Id, From, Total
  <2>5. CASE g.seq = f.seq /\ FrameEnds(g) = FrameEnds(f)
    <3>1. SeqNext(g.seq) = phone'.seq /\ \A p \in FrameEnds(g) : Expects(p)'
      BY <1>4, <2>5
    <3>2. QED
      BY <2>2, <2>4, <3>1 DEF First, SeqNext
  <2>6. CASE g.seq = SeqNext(f.seq) /\ FrameStart(g) \in FrameEnds(f)
    <3>1. PICK p : p = FrameStart(g)
      OBVIOUS
    <3>2. g.seq = phone'.seq /\ Expects(p)'
      BY <1>4, <2>6, <3>1
    <3>3. Expects(FrameStart(air[1]))'
      BY <2>4, <3>1, <3>2 DEF Expects
    <3>4. QED
      BY <2>2, <3>2, <3>3 DEF First
  <2>7. QED
    BY <2>3, <2>5, <2>6 DEF Link
<1>11. (phone.seq \in 0..(SeqMod - 1))'
  <2>1. SeqNext(f.seq) \in 0..(SeqMod - 1)
    BY <1>5, SeqSteps
  <2>2. QED
    BY <1>4, <2>1
<1>12. FramesInv'
  BY <1>8, <1>9, <1>10, <1>11 DEF FramesInv
<1>13. air' # <<>> => air # <<>> /\ air'[Len(air')] = air[Len(air)]
  BY <1>3, <1>7
<1>14. air' = <<>> => air[Len(air)] = f /\ air # <<>>
  <2>1. air' = <<>> => Len(air') = 0
    OBVIOUS
  <2>2. air' = <<>> => Len(air) = 1
    BY <1>3, <2>1
  <2>3. air # <<>>
    BY DEF Deliver
  <2>4. QED
    BY <1>2, <2>2, <2>3
<1>15. ASSUME NEW m, NEW s, Unconfirmed(m, s)
       PROVE  Unconfirmed(m, s)'
  <2>1. Ends(m)' = Ends(m) /\ Start(m)' = Start(m)
    BY <1>1 DEF Ends, Start
  <2>2. CASE air' # <<>>
    BY <1>13, <1>15, <2>1, <2>2 DEF Unconfirmed, FrameStart, FrameEnds, Id, From, Total
  <2>3. CASE air' = <<>>
    <3>1. s = f.seq /\ FrameEnds(f) = Ends(m)
      BY <1>14, <1>15, <2>3 DEF Unconfirmed
    <3>2. SeqNext(s) = phone'.seq /\ \A p \in Ends(m) : Expects(p)'
      BY <1>4, <3>1
    <3>3. QED
      BY <2>1, <2>3, <3>2 DEF Unconfirmed
  <2>4. QED
    BY <2>2, <2>3
<1>16. ASSUME NEW p, Ready(p)
       PROVE  Ready(p)'
  <2>1. CASE air' # <<>>
    BY <1>1, <1>13, <1>16, <2>1 DEF Ready, FrameEnds, Id
  <2>2. CASE air' = <<>>
    <3>1. txSeq = SeqNext(f.seq) /\ p \in FrameEnds(f)
      BY <1>14, <1>16, <2>2 DEF Ready
    <3>2. QED
      BY <1>1, <1>4, <2>2, <3>1 DEF Ready
  <2>3. QED
    BY <2>1, <2>2
<1>17. PICK p : ThreadAt(p) /\ (Again \/ (pc # "wait" /\ Ready(p)))
  BY DEF GoesOn
<1>18. ThreadAt(p)'
  BY <1>1, <1>17 DEF ThreadAt, Start, Pending, Tx, Holds
<1>19. Again => Again'
  <2>1. PICK h, q, s : h = hand /\ q = queue[1] /\ s = txSeq
    OBVIOUS
  <2>2. h = hand' /\ q = queue'[1] /\ s = txSeq'
    BY <1>1, <2>1
  <2>3. ASSUME Again
        PROVE  \/ pc = "wait" /\ Unconfirmed(h, SeqPrev(s))
               \/ pc = "tx" /\ Unconfirmed(h, s)
               \/ pc = "idle" /\ Tx(1) /\ Unconfirmed(q, s)
    BY <2>1, <2>3 DEF Again
  <2>4. ASSUME Again
        PROVE  \/ pc' = "wait" /\ Unconfirmed(h, SeqPrev(s))'
               \/ pc' = "tx" /\ Unconfirmed(h, s)'
               \/ pc' = "idle" /\ Tx(1)' /\ Unconfirmed(q, s)'
    BY <1>1, <1>15, <2>3, <2>4 DEF Tx
  <2>5. QED
    BY <2>2, <2>4 DEF Again, Unconfirmed
<1>20. GoesOn'
  BY <1>1, <1>16, <1>17, <1>18, <1>19 DEF GoesOn
<1>21. QED
  BY <1>6, <1>12, <1>20

-----------------------------------------------------------------------------
(* A connection begins: what is left over is old.                          *)

LEMMA ConnectIs ==
  ASSUME TypeOK, Connect
  PROVE  /\ pc' = pc /\ air' = air /\ txSeq' = 0 /\ phone'.seq = 0 /\ phone'.buf = <<>>
         /\ received' = <<>> /\ sent' = 0 /\ conn' = "open"
         /\ Len(queue) \in Nat /\ Len(queue') = Len(queue)
         /\ \A j \in 1..Len(queue) :
              /\ queue'[j].dir = queue[j].dir /\ queue'[j].id = 0
              /\ Tx(j) => queue'[j].out = queue[j].out /\ queue'[j].len = queue[j].len
         /\ hand'.id = 0 /\ hand'.dir = hand.dir
         /\ Holds => hand'.out = hand.out /\ hand'.len = hand.len
<1>1. /\ pc' = pc /\ air' = air /\ txSeq' = 0 /\ phone' = NewPhone
      /\ received' = <<>> /\ sent' = 0 /\ conn' = "open"
      /\ hand' = Stale(hand) /\ queue' = [i \in 1..Len(queue) |-> Stale(queue[i])]
  BY DEF Connect, stackVars
<1>2. queue \in Seq(Messages) /\ hand \in Messages
  BY DEF TypeOK, QueueType, ThreadType
<1>3. phone'.seq = 0 /\ phone'.buf = <<>>
  BY <1>1 DEF NewPhone
<1>4. \A m \in Messages : /\ Stale(m).id = 0 /\ Stale(m).dir = m.dir
                          /\ m.dir = "tx" => Stale(m).out = m.out /\ Stale(m).len = m.len
  BY DEF Stale, Messages
<1>5. Len(queue) \in Nat /\ Len(queue') = Len(queue)
      /\ \A j \in 1..Len(queue) : queue'[j] = Stale(queue[j]) /\ queue[j] \in Messages
  BY <1>1, <1>2
<1>6. Holds => hand.dir = "tx"
  BY HandIs
<1>7. QED
  BY <1>1, <1>2, <1>3, <1>4, <1>5, <1>6 DEF Tx

LEMMA ConnectStep ==
  ASSUME TypeOK, RestInv, air = <<>>, Connect
  PROVE  RestInv' /\ MessagesInv' /\ FramesInv' /\ GoesOn'
<1>1. /\ pc' = pc /\ air' = <<>> /\ txSeq' = 0 /\ phone'.seq = 0 /\ phone'.buf = <<>>
      /\ received' = <<>> /\ sent' = 0
      /\ Len(queue) \in Nat /\ Len(queue') = Len(queue) /\ hand'.id = 0
      /\ Holds => hand'.out = hand.out /\ hand'.len = hand.len
  BY ConnectIs
<1>2. \A j \in 1..Len(queue') :
        /\ Tx(j)' <=> Tx(j)
        /\ queue'[j].id = 0
        /\ Tx(j) => queue'[j].out = queue[j].out /\ queue'[j].len = queue[j].len
  BY ConnectIs DEF Tx
<1>3. Holds' <=> Holds
  BY <1>1 DEF Holds
<1>4. RestInv'
  BY <1>1, <1>2, <1>3 DEF RestInv
<1>5. MessagesInv'
  BY <1>1, <1>2 DEF MessagesInv, Fits, Before
<1>6. 0 \in 0..(SeqMod - 1)
  BY SeqModAssumption
<1>7. FramesInv'
  <2>1. Len(air') = 0
    BY <1>1
  <2>2. QED
    BY <1>1, <1>6, <2>1 DEF FramesInv
<1>8. InOrder(0)'
  <2>1. Len(received') = 0
    BY <1>1
  <2>2. QED
    BY <2>1 DEF InOrder
<1>9. Expects(Old)' /\ Expects(New(1))'
  <2>1. Len(phone'.buf) = 0
    BY <1>1
  <2>2. \A p : p.out = 0 /\ (p.id = 0 \/ p.id = 1) => Expects(p)'
    BY <1>8, <2>1 DEF Expects
  <2>3. PICK o, n : o = Old /\ n = New(1)
    OBVIOUS
  <2>4. Expects(o)' /\ Expects(n)'
    BY <2>2, <2>3, Places
  <2>5. QED
    BY <2>3, <2>4 DEF Old, New, At, Expects
<1>10. Pending(1)'
  BY <1>1, <1>2 DEF Pending
<1>11. CASE pc = "wait"
  <2>1. Start(hand)' = Old
    BY <1>1, Places DEF Start
  <2>2. ThreadAt(Old)'
    BY <1>1, <1>3, <1>10, <1>11, <2>1 DEF ThreadAt, Holds, Old, At
  <2>3. SeqNext(SeqPrev(0)) = 0
    BY <1>6, SeqSteps
  <2>4. Unconfirmed(hand, SeqPrev(txSeq))'
    <3>1. Ends(hand)' = {Old, New(1)}
      BY <1>1 DEF Ends
    <3>2. SeqNext(SeqPrev(txSeq))' = phone'.seq
      BY <1>1, <2>3 DEF SeqNext, SeqPrev
    <3>3. (\A p \in Ends(hand) : Expects(p))'
      <4>1. \A p : (p = Old \/ p = New(1)) => Expects(p)'
        BY <1>9 DEF Expects, Old, New, At
      <4>2. QED
        BY <3>1, <4>1
    <3>4. QED
      BY <1>1, <3>2, <3>3 DEF Unconfirmed
  <2>5. QED
    BY <1>1, <1>4, <1>5, <1>7, <1>11, <2>2, <2>4 DEF GoesOn, Again
<1>12. CASE pc # "wait"
  <2>1. \A p : (p = Old \/ p = New(1)) => Ready(p)'
    <3>1. \A p : (p = Old \/ p = New(1)) => Expects(p)'
      BY <1>9 DEF Expects, Old, New, At
    <3>2. QED
      BY <1>1, <3>1 DEF Ready
  <2>2. \E p : (p = Old \/ p = New(1)) /\ ThreadAt(p)'
    <3>1. CASE Holds
      <4>1. Start(hand)' = Old
        BY <1>1, Places DEF Start
      <4>2. ThreadAt(Old)'
        BY <1>1, <1>3, <1>10, <3>1, <4>1 DEF ThreadAt, Old, At
      <4>3. QED
        BY <4>2 DEF ThreadAt, Old, At
    <3>2. CASE ~Holds /\ \E j \in 1..Len(queue') : Tx(j)'
      <4>1. ThreadAt(Old)'
        BY <1>2, <1>3, <1>10, <3>2, Places DEF ThreadAt, Old, At
      <4>2. QED
        BY <4>1 DEF ThreadAt, Old, At
    <3>3. CASE ~Holds /\ ~\E j \in 1..Len(queue') : Tx(j)'
      <4>1. PICK q : q = New(1)
        OBVIOUS
      <4>2. q.id = 1 /\ q = New(q.id) /\ q.id \in 1..(sent' + 1)
        BY <1>1, <4>1, Places
      <4>3. ThreadAt(q)'
        BY <1>3, <1>10, <3>3, <4>1, <4>2 DEF ThreadAt
      <4>4. QED
        BY <4>1, <4>3
    <3>4. QED
      BY <3>1, <3>2, <3>3
  <2>3. QED
    BY <1>1, <1>4, <1>5, <1>7, <1>12, <2>1, <2>2 DEF GoesOn
<1>13. QED
  BY <1>11, <1>12

LEMMA MtuStep ==
  ASSUME TypeOK, MessagesInv, FramesInv, GoesOn, MtuExchange, "mtu" \notin Faults
  PROVE  MessagesInv' /\ FramesInv' /\ GoesOn'
<1>1. /\ queue' = queue /\ pc' = pc /\ hand' = hand /\ left' = left /\ txSeq' = txSeq
      /\ air' = air /\ phone' = phone /\ received' = received /\ sent' = sent /\ sent = 0
  BY DEF MtuExchange, seqVars, stackVars, history
<1>2. (\A j \in 1..Len(queue) : Tx(j) => queue[j].id = 0) /\ (Holds => hand.id = 0)
  BY <1>1 DEF MessagesInv, Fits
<1>3. MessagesInv'
  BY <1>1, <1>2 DEF MessagesInv, Fits, Before, Tx, Holds
<1>4. \A p : Expects(p)' <=> Expects(p)
  BY <1>1 DEF Expects, InOrder
<1>5. FramesInv'
  <2>1. \A i \in 1..Len(air) : FrameOK(air[i])'
    BY <1>1 DEF FramesInv, FrameOK
  <2>2. \A i \in 1..(Len(air) - 1) : Link(air[i], air[i + 1])'
    BY <1>1 DEF FramesInv, Link, FrameStart, FrameEnds, Id, From, Total
  <2>3. air # <<>> => First(air[1])'
    <3>1. FrameStart(air[1])' = FrameStart(air[1]) /\ FrameEnds(air[1])' = FrameEnds(air[1])
      BY <1>1 DEF FrameStart, FrameEnds, Id, From, Total
    <3>2. QED
      BY <1>1, <1>4, <3>1 DEF FramesInv, First
  <2>4. QED
    BY <1>1, <2>1, <2>2, <2>3 DEF FramesInv
<1>6. PICK p : ThreadAt(p) /\ (Again \/ (pc # "wait" /\ Ready(p)))
  BY DEF GoesOn
<1>7. ThreadAt(p)'
  BY <1>1, <1>6 DEF ThreadAt, Start, Pending, Tx, Holds
<1>8. Ready(p) => Ready(p)'
  BY <1>1, <1>4 DEF Ready, FrameEnds, Id
<1>9. ASSUME NEW m, m.id = 0, NEW s, Unconfirmed(m, s)
      PROVE  Unconfirmed(m, s)'
  <2>1. Ends(m)' = Ends(m) /\ Start(m)' = Start(m)
    BY <1>9 DEF Ends, Start
  <2>2. CASE air = <<>>
    BY <1>1, <1>4, <1>9, <2>1, <2>2 DEF Unconfirmed
  <2>3. CASE air # <<>>
    BY <1>1, <1>9, <2>1, <2>3 DEF Unconfirmed, FrameStart, FrameEnds, Id, From, Total
  <2>4. QED
    BY <2>2, <2>3
<1>10. Again => Again'
  <2>1. PICK h, q, s : h = hand /\ q = queue[1] /\ s = txSeq
    OBVIOUS
  <2>2. h = hand' /\ q = queue'[1] /\ s = txSeq'
    BY <1>1, <2>1
  <2>3. ASSUME Again
        PROVE  \/ pc = "wait" /\ h.id = 0 /\ Unconfirmed(h, SeqPrev(s))
               \/ pc = "tx" /\ h.id = 0 /\ Unconfirmed(h, s)
               \/ pc = "idle" /\ Tx(1) /\ q.id = 0 /\ Unconfirmed(q, s)
    BY <1>2, <2>1, <2>3 DEF Again, Holds, Tx
  <2>4. ASSUME Again
        PROVE  \/ pc' = "wait" /\ Unconfirmed(h, SeqPrev(s))'
               \/ pc' = "tx" /\ Unconfirmed(h, s)'
               \/ pc' = "idle" /\ Tx(1)' /\ Unconfirmed(q, s)'
    BY <1>1, <1>9, <2>3, <2>4 DEF Tx
  <2>5. QED
    BY <2>2, <2>4 DEF Again, Unconfirmed
<1>11. QED
  BY <1>1, <1>3, <1>5, <1>6, <1>7, <1>8, <1>10 DEF GoesOn

-----------------------------------------------------------------------------
(* Every step.                                                             *)

QuietStep ==
  /\ Behind /\ SameThread /\ air' = air /\ up' = up /\ conn' = conn
  /\ up => Longer /\ SameAir /\ txSeq' = txSeq

LEMMA QuietSend ==
  ASSUME TypeOK, SendInv, QuietStep
  PROVE  SendInv'
<1>1. RestInv'
  BY BehindRest DEF SendInv, QuietStep
<1>2. CASE up
  <2>1. /\ conn = "open" /\ MessagesInv /\ FramesInv /\ GoesOn /\ mtu' = mtu
        /\ Longer /\ SameThread /\ SameAir /\ txSeq' = txSeq
    BY <1>2 DEF SendInv, QuietStep, SameAir
  <2>2. MessagesInv'
    BY <2>1, LongerMessages
  <2>3. FramesInv' /\ GoesOn'
    BY <2>1, SameFrames, LongerGoesOn
  <2>4. QED
    BY <1>1, <1>2, <2>1, <2>2, <2>3 DEF SendInv, QuietStep
<1>3. CASE ~up
  BY <1>1, <1>3 DEF SendInv, QuietStep
<1>4. QED
  BY <1>2, <1>3

LEMMA RespondQuiet ==
  ASSUME TypeOK, TypeOK', NEW lens \in Seq(Nat), \A i \in 1..Len(lens) : lens[i] > 0, Respond(lens)
  PROVE  Behind /\ (up => Longer /\ sent <= sent' /\ sent' \in Nat)
<1>1. Behind /\ (up => Longer)
  BY RespondBehind
<1>2. QED
  BY <1>1 DEF Longer

LEMMA IsQuiet ==
  ASSUME TypeOK, TypeOK',
         \/ WifiEvent \/ RxDrop \/ RxError \/ RxAccept
         \/ SentCallback \/ PhoneSend \/ PhoneRepeat \/ UNCHANGED vars
  PROVE  QuietStep
<1>0. sent \in Nat /\ sent' \in Nat
  BY DEF TypeOK, HistoryType
<1>1. ASSUME NEW lens \in Seq(Nat), \A i \in 1..Len(lens) : lens[i] > 0, Respond(lens),
             SameThread, UNCHANGED <<linkVars, air, received, phone, txSeq>>
      PROVE  QuietStep
  <2>1. Behind /\ (up => Longer /\ sent <= sent' /\ sent' \in Nat)
    BY <1>1, RespondQuiet
  <2>2. QED
    BY <1>1, <2>1 DEF QuietStep, SameAir, linkVars
<1>2. CASE WifiEvent
  <2>1. PICK n \in Lens : Respond(<<n>>)
    BY <1>2 DEF WifiEvent
  <2>2. n \in Nat /\ n > 0
    BY LensAssumption
  <2>3. <<n>> \in Seq(Nat) /\ \A i \in 1..Len(<<n>>) : <<n>>[i] > 0
    BY <2>2
  <2>4. SameThread /\ UNCHANGED <<linkVars, air, received, phone, txSeq>>
    BY <1>2 DEF WifiEvent, SameThread, seqVars, stackVars
  <2>5. QED
    BY <1>1, <2>1, <2>3, <2>4
<1>3. CASE RxError
  <2>1. PICK a \in Acks : Respond(a \o <<1>>)
    BY <1>3 DEF RxError
  <2>2. SameThread /\ UNCHANGED <<linkVars, air, received, phone, txSeq>>
    BY <1>3 DEF RxError, Free, SameThread, stackVars
  <2>3. QED
    BY <1>1, <2>1, <2>2, AnswersType, AnswersPositive
<1>4. CASE RxAccept
  <2>1. PICK a \in Acks : Respond(a) \/ Respond(a \o <<1>>) \/ \E r \in Answers : Respond(a \o r)
    BY <1>4 DEF RxAccept
  <2>2. SameThread /\ UNCHANGED <<linkVars, air, received, phone, txSeq>>
    BY <1>4 DEF RxAccept, Free, SameThread, stackVars
  <2>3. QED
    BY <1>1, <2>1, <2>2, AnswersType, AnswersPositive
<1>5. CASE RxDrop \/ SentCallback \/ UNCHANGED vars
  <2>1. /\ queue' = queue /\ sent' = sent /\ SameThread
        /\ UNCHANGED <<linkVars, air, received, phone, txSeq>>
    BY <1>5 DEF RxDrop, SentCallback, vars, Free, SameThread, linkVars, seqVars, stackVars, history
  <2>2. QED
    BY <1>0, <2>1, SameBehind DEF QuietStep, SameAir, linkVars
<1>6. CASE PhoneSend \/ PhoneRepeat
  <2>1. /\ sent' = sent /\ SameThread
        /\ UNCHANGED <<linkVars, air, received, txSeq>>
    BY <1>6 DEF PhoneSend, PhoneRepeat, SameThread, linkVars, seqVars, stackVars
  <2>2. phone'.seq = phone.seq /\ phone'.buf = phone.buf
    <3>1. phone \in Phones
      BY DEF TypeOK, PhoneType
    <3>2. CASE PhoneSend
      <4>1. PICK len \in CmdLens :
              LET new == phone.out = phone.len
                  id  == IF new THEN phone.id + 1 ELSE phone.id
                  k   == IF new THEN 0 ELSE phone.out
              IN  phone' = [phone EXCEPT !.txSeq = SeqNext(@), !.id = id, !.len = len, !.out = k + 1]
        BY <3>2 DEF PhoneSend
      <4>2. QED
        BY <3>1, <4>1 DEF Phones
    <3>3. QED
      BY <1>6, <3>2 DEF PhoneRepeat
  <2>3. PICK f : f.dir = "rx" /\ Received(f)
    <3>1. PICK s, id, len, k : Received(PhoneFrame(s, id, len, k))
      BY <1>6 DEF PhoneSend, PhoneRepeat
    <3>2. PhoneFrame(s, id, len, k).dir = "rx"
      BY DEF PhoneFrame
    <3>3. QED
      BY <3>1, <3>2
  <2>4. Behind /\ Longer
    BY <2>1, <2>3, ReceivedBehind
  <2>5. QED
    BY <1>0, <2>1, <2>2, <2>4 DEF QuietStep, SameAir, linkVars
<1>7. QED
  BY <1>2, <1>3, <1>4, <1>5, <1>6

LEMMA SendInit ==
  ASSUME Init
  PROVE  SendInv
<1>1. ~up /\ queue = <<>> /\ pc = "idle" /\ air = <<>>
  BY DEF Init
<1>2. Len(queue) = 0
  BY <1>1
<1>3. RestInv
  BY <1>1, <1>2 DEF RestInv, Holds
<1>4. QED
  BY <1>1, <1>3 DEF SendInv

\* Steps of the thread that send nothing, or nothing that arrives.
LEMMA OffRest ==
  ASSUME TypeOK, RestInv, TxDrop \/ TxNotConnected \/ Drain \/ Disconnected \/ LinkDown
  PROVE  RestInv'
<1>1. CASE TxDrop
  BY <1>1 DEF TxDrop, Free, RestInv, Tx, Holds
<1>2. CASE Drain
  <2>1. Len(queue') = 0 /\ pc' = pc /\ hand' = hand
    BY <1>2 DEF Drain
  <2>2. QED
    BY <2>1 DEF RestInv, Holds
<1>3. CASE Disconnected \/ LinkDown
  BY <1>3 DEF Disconnected, LinkDown, RestInv, Tx, Holds
<1>4. CASE TxNotConnected
  <2>1. /\ pc = "tx" /\ pc' = "idle" /\ Holds
        /\ IF Frame.more THEN Prepend(Rest(Piece)) ELSE queue' = queue
    BY <1>4 DEF TxNotConnected, Continue, Free, Holds, Rest
  <2>2. CASE Frame.more
    <3>1. ~Single /\ hand.len - hand.out > mtu
      BY <2>2 DEF Frame
    <3>2. /\ hand.len \in Nat /\ hand.out \in Nat /\ mtu \in Nat
      BY <2>1, HandIs
    <3>3. Piece = mtu /\ hand.out + Piece < hand.len
      BY <3>1, <3>2 DEF Piece, Lesser
    <3>4. Rest(Piece) \in Messages /\ Rest(Piece).out < Rest(Piece).len
      BY <2>1, <3>2, <3>3, RestIs
    <3>5. QED
      BY <2>1, <2>2, <3>4, FrontRest
  <2>3. CASE ~Frame.more
    BY <2>1, <2>3 DEF RestInv, Tx, Holds
  <2>4. QED
    BY <2>2, <2>3
<1>5. QED
  BY <1>1, <1>2, <1>3, <1>4

LEMMA SendStep ==
  ASSUME TypeOK, TypeOK', PartIsHead, SendInv, "mtu" \notin Faults, [Next]_vars
  PROVE  SendInv'
<1>1. RestInv /\ (~up => air = <<>>) /\ (up => conn = "open" /\ MessagesInv /\ FramesInv /\ GoesOn)
  BY DEF SendInv
<1>2. CASE \/ WifiEvent \/ RxDrop \/ RxError \/ RxAccept
           \/ SentCallback \/ PhoneSend \/ PhoneRepeat \/ UNCHANGED vars
  BY <1>2, IsQuiet, QuietSend
<1>3. CASE TxDrop \/ TxNotConnected \/ Drain \/ Disconnected
  <2>1. ~up /\ up' = up /\ air' = air
    BY <1>1, <1>3 DEF TxDrop, TxNotConnected, Drain, Disconnected, linkVars, stackVars
  <2>2. QED
    BY <1>1, <1>3, <2>1, OffRest DEF SendInv
<1>4. CASE LinkDown
  <2>1. ~up' /\ air' = <<>>
    BY <1>4 DEF LinkDown
  <2>2. QED
    BY <1>1, <1>4, <2>1, OffRest DEF SendInv
<1>5. CASE Connect
  <2>1. ~up /\ up' /\ conn' = "open"
    BY <1>5 DEF Connect
  <2>2. RestInv' /\ MessagesInv' /\ FramesInv' /\ GoesOn'
    BY <1>1, <1>5, <2>1, ConnectStep
  <2>3. QED
    BY <2>1, <2>2 DEF SendInv
<1>6. ASSUME up, up' = up, conn' = conn, RestInv', MessagesInv' /\ FramesInv' /\ GoesOn'
      PROVE  SendInv'
  BY <1>1, <1>6 DEF SendInv
<1>7. ASSUME up' = up, conn' = conn, air' = air, RestInv', up => MessagesInv' /\ FramesInv' /\ GoesOn'
      PROVE  SendInv'
  BY <1>1, <1>7 DEF SendInv
<1>8. CASE MtuExchange
  <2>1. up /\ up' = up /\ conn' = conn /\ RestInv'
    BY <1>1, <1>8 DEF MtuExchange, RestInv, Tx, Holds
  <2>2. QED
    BY <1>1, <1>6, <1>8, <2>1, MtuStep
<1>9. CASE TxSend
  <2>1. up /\ up' = up /\ conn' = conn
    BY <1>9 DEF TxSend, linkVars
  <2>2. QED
    BY <1>1, <1>6, <1>9, <2>1, SendMessages, SendAir
<1>10. CASE Deliver
  <2>1. up /\ up' = up /\ conn' = conn /\ RestInv'
    BY <1>1, <1>10 DEF Deliver, linkVars, RestInv, Tx, Holds
  <2>2. QED
    BY <1>1, <1>6, <1>10, <2>1, DeliverStep
<1>11. CASE Get
  <2>1. up' = up /\ conn' = conn /\ air' = air
    BY <1>11 DEF Get, linkVars, stackVars
  <2>2. RestInv'
    BY <1>1, <1>11, GetRest
  <2>3. up => MessagesInv' /\ FramesInv' /\ GoesOn'
    BY <1>1, <1>11, GetMessages, GetAir, SameFrames, GetGoesOn
  <2>4. QED
    BY <1>7, <2>1, <2>2, <2>3
<1>12. CASE TxFull \/ Timeout
  <2>1. up' = up /\ conn' = conn /\ air' = air
    BY <1>12 DEF TxFull, Timeout, linkVars, stackVars
  <2>2. QED
    BY <1>1, <1>7, <1>12, <2>1, RepeatStep, RepeatRest
<1>13. CASE Sent
  <2>1. up' = up /\ conn' = conn /\ air' = air
    BY <1>13 DEF Sent, linkVars
  <2>2. QED
    BY <1>1, <1>7, <1>13, <2>1, SentStep, SentRest
<1>14. QED
  BY <1>2, <1>3, <1>4, <1>5, <1>8, <1>9, <1>10, <1>11, <1>12, <1>13 DEF Next, Thread

LEMMA SendAlways ==
  ASSUME "mtu" \notin Faults
  PROVE  Spec => []SendInv
<1>1. Init => SendInv
  BY SendInit
<1>2. TypeOK /\ TypeOK' /\ PartIsHead /\ SendInv /\ [Next]_vars => SendInv'
  BY SendStep
<1>3. QED
  BY <1>1, <1>2, TransportTypeCorrect, PartStaysAtHead, PTL DEF Spec

-----------------------------------------------------------------------------
(* What the phone gets.                                                    *)

\* Deliver tells the phone a message it may get, or nothing.
LEMMA DeliverOrder ==
  ASSUME TypeOK, TypeOK', FramesInv, FreshInOrder, Deliver
  PROVE  FreshInOrder'
<1>1. PICK f : f = air[1]
  OBVIOUS
<1>2. /\ f \in Frames /\ Len(air) \in Nat \ {0}
      /\ f.seq # phone.seq => phone' = phone /\ received' = received
      /\ f.seq = phone.seq => Takes(f)
  BY <1>1, DeliverIs
<1>3. FrameOK(f) /\ Id(f) \in Nat
  <2>1. FrameOK(f)
    BY <1>1, <1>2 DEF FramesInv
  <2>2. Id(f) \in 0..sent /\ sent \in Nat
    BY <2>1 DEF FrameOK, TypeOK, HistoryType
  <2>3. QED
    BY <2>1, <2>2
<1>4. \A p \in FrameEnds(f) : Expects(p)'
  BY <1>1, DeliverTaken
<1>5. received' \in Seq(Nat)
  BY DEF TypeOK, HistoryType
<1>6. PICK p \in FrameEnds(f) : (IF p.id = 0 THEN 0 ELSE p.id - 1) \in Nat
  <2>1. CASE Id(f) = 0
    BY <2>1, Places DEF FrameEnds
  <2>2. CASE Id(f) # 0
    <3>1. At(Id(f), From(f) + Len(f.data), Total(f)).id = Id(f) /\ New(Id(f) + 1).id = Id(f) + 1
      BY <2>2, Places
    <3>2. QED
      BY <1>3, <2>2, <3>1 DEF FrameEnds
  <2>3. QED
    BY <2>1, <2>2
<1>7. PICK n \in Nat : n = IF p.id = 0 THEN 0 ELSE p.id - 1
  BY <1>6
<1>8. InOrder(n)'
  BY <1>4, <1>6, <1>7 DEF Expects
<1>9. QED
  BY <1>5, <1>8 DEF InOrder, FreshInOrder

(* Whatever is left over from another connection, what the phone receives  *)
(* is old or damaged data first and then the messages of this connection,  *)
(* whole and in order, as long as the MTU does not change under way.       *)
(* (wps_proto_tx_process, bt_connected_cb)                                 *)
THEOREM MessagesInOrder == "mtu" \notin Faults => (Spec => []FreshInOrder)
<1> SUFFICES ASSUME "mtu" \notin Faults
             PROVE  Spec => []FreshInOrder
  OBVIOUS
<1>1. ASSUME received = <<>>
      PROVE  FreshInOrder
  <2>1. Len(received) = 0
    BY <1>1
  <2>2. QED
    BY <2>1 DEF FreshInOrder
<1>2. Init => FreshInOrder
  BY <1>1 DEF Init
<1>3. ASSUME TypeOK, TypeOK', SendInv, FreshInOrder, [Next]_vars
      PROVE  FreshInOrder'
  <2>1. CASE received' = received
    BY <1>3, <2>1 DEF FreshInOrder
  <2>2. CASE Connect
    <3>1. Len(received') = 0
      BY <2>2 DEF Connect
    <3>2. QED
      BY <3>1 DEF FreshInOrder
  <2>3. CASE Deliver
    BY <1>3, <2>3, DeliverOrder DEF SendInv, Deliver
  <2>4. Connect \/ Deliver \/ received' = received
    BY <1>3 DEF Next, Thread, vars, history, WifiEvent, Get, RxDrop, RxError, RxAccept, TxDrop, TxSend,
       TxFull, TxNotConnected, Sent, Timeout, MtuExchange, LinkDown, Drain, Disconnected, SentCallback,
       PhoneSend, PhoneRepeat
  <2>5. QED
    BY <2>1, <2>2, <2>3, <2>4
<1>4. QED
  BY <1>2, <1>3, SendAlways, TransportTypeCorrect, PTL DEF Spec

-----------------------------------------------------------------------------
(* A phone that is not faster than the thread: nothing is left over.       *)

LEMMA QuietFresh ==
  ASSUME TypeOK, NothingOld, QuietStep, up
  PROVE  NothingOld'
<1>1. Longer /\ SameThread /\ air' = air /\ sent \in Nat
  BY DEF QuietStep, TypeOK, HistoryType
<1>2. Len(queue) \in Nat /\ Len(queue') \in Nat
  BY <1>1 DEF Longer, Behind, TypeOK, QueueType
<1>3. ASSUME NEW j \in 1..Len(queue'), Tx(j)'
      PROVE  queue'[j].id # 0
  <2>1. CASE j \in 1..Len(queue)
    BY <1>1, <1>3, <2>1 DEF Longer, Behind, Tx, NothingOld
  <2>2. CASE j > Len(queue)
    <3>1. queue'[j].id \in (sent + 1)..sent'
      BY <1>1, <1>3, <2>2 DEF Longer, Tx
    <3>2. QED
      BY <1>1, <3>1
  <2>3. QED
    BY <1>2, <2>1, <2>2
<1>4. Holds' => Holds /\ hand' = hand
  BY <1>1 DEF Holds, SameThread
<1>5. QED
  BY <1>1, <1>3, <1>4 DEF NothingOld, Id

LEMMA FrontFresh ==
  ASSUME TypeOK, NothingOld, NEW m \in Messages, m.id # 0, Prepend(m), pc' = "idle", air' = air
  PROVE  NothingOld'
<1>1. /\ Len(queue) \in Nat /\ Len(queue') = Len(queue) + 1 /\ queue'[1] = m
      /\ \A j \in 1..Len(queue') : j # 1 => j - 1 \in 1..Len(queue) /\ queue'[j] = queue[j - 1]
  BY FrontIs
<1>2. ASSUME NEW j \in 1..Len(queue'), Tx(j)'
      PROVE  queue'[j].id # 0
  <2>1. CASE j = 1
    BY <1>1, <2>1
  <2>2. CASE j # 1
    BY <1>1, <1>2, <2>2 DEF NothingOld, Tx
  <2>3. QED
    BY <2>1, <2>2
<1>3. ~Holds'
  BY DEF Holds
<1>4. QED
  BY <1>2, <1>3 DEF NothingOld, Id

LEMMA ThreadFresh ==
  ASSUME TypeOK, RestInv, MessagesInv, NothingOld, up,
         Get \/ TxSend \/ TxFull \/ Sent \/ Timeout
  PROVE  NothingOld'
<1>1. CASE Get
  <2>1. /\ hand' = queue[1] /\ pc' = queue[1].dir /\ pc' \in {"tx", "rx"} /\ 1 \in 1..Len(queue)
        /\ \A j \in 1..Len(queue') : j + 1 \in 1..Len(queue) /\ queue'[j] = queue[j + 1]
    BY <1>1, GetIs
  <2>2. \A j \in 1..Len(queue') : Tx(j)' => Tx(j + 1)
    BY <2>1 DEF Tx
  <2>3. Holds' => Tx(1)
    BY <2>1 DEF Holds, Tx
  <2>4. air' = air
    BY <1>1 DEF Get, stackVars
  <2>5. QED
    BY <2>1, <2>2, <2>3, <2>4 DEF NothingOld, Id
<1>2. CASE TxSend
  <2>1. /\ pc = "tx" /\ hand' = hand /\ queue' = queue /\ air' = Append(air, Frame)
        /\ Holds /\ pc' = "wait"
    BY <1>2 DEF TxSend, Holds
  <2>2. PICK g : g = Frame
    OBVIOUS
  <2>3. FrameStart(g) = Start(hand)
    BY <2>1, <2>2, FrameIs
  <2>4. Id(g) = hand.id
    BY <2>3, Places DEF FrameStart, Start
  <2>5. hand.id # 0
    BY <2>1 DEF NothingOld
  <2>6. /\ Len(air) \in Nat /\ Len(air') = Len(air) + 1 /\ air'[Len(air')] = g
        /\ \A i \in 1..Len(air) : air'[i] = air[i]
    BY <2>1, <2>2, AirGrows
  <2>7. ASSUME NEW i \in 1..Len(air')
        PROVE  Id(air'[i]) # 0
    <3>1. CASE i \in 1..Len(air)
      BY <2>6, <3>1 DEF NothingOld
    <3>2. CASE i = Len(air')
      BY <2>4, <2>5, <2>6, <3>2
    <3>3. QED
      BY <2>6, <3>1, <3>2
  <2>8. QED
    BY <2>1, <2>5, <2>7 DEF NothingOld, Tx, Id
<1>3. CASE TxFull \/ Timeout
  <2>1. Holds /\ Prepend(hand) /\ pc' = "idle" /\ air' = air
    BY <1>3 DEF TxFull, Timeout, Holds, Free, stackVars
  <2>2. hand \in Messages /\ hand.id # 0
    BY <2>1, HandIs DEF NothingOld
  <2>3. QED
    BY <2>1, <2>2, FrontFresh
<1>4. CASE Sent
  <2>1. Holds /\ pc' = "idle" /\ air' = air
    BY <1>4 DEF Sent, Holds, Continue, Free
  <2>2. CASE left # 0 /\ hand.out + left < hand.len
    <3>1. left \in Nat /\ hand.out + left <= hand.len /\ hand.id # 0
      BY <2>1, <2>2, HandIs DEF NothingOld
    <3>2. Rest(left) \in Messages /\ Rest(left).id # 0
      BY <2>1, <3>1, RestIs
    <3>3. Prepend(Rest(left))
      BY <1>4, <2>2, SentIs
    <3>4. QED
      BY <2>1, <3>2, <3>3, FrontFresh
  <2>3. CASE ~(left # 0 /\ hand.out + left < hand.len)
    BY <1>4, <2>1, <2>3, SentIs DEF NothingOld, Tx, Holds, Id
  <2>4. QED
    BY <2>2, <2>3
<1>5. QED
  BY <1>1, <1>2, <1>3, <1>4

\* The phone gets the next message, or nothing.
LEMMA NextMessage ==
  ASSUME TypeOK, TypeOK', FramesInv, NothingOld, \A i \in 1..Len(received) : received[i] # 0, Deliver
  PROVE  \/ received' = received
         \/ received' = Append(received, Len(received) + 1) /\ Len(received) < sent
<1>1. PICK f : f = air[1]
  OBVIOUS
<1>2. /\ f \in Frames /\ Len(air) \in Nat \ {0}
      /\ f.seq # phone.seq => phone' = phone /\ received' = received
      /\ f.seq = phone.seq => Takes(f)
  BY <1>1, DeliverIs
<1>3. FrameOK(f) /\ Id(f) # 0
  BY <1>1, <1>2 DEF FramesInv, NothingOld
<1>4. Id(f) \in 1..sent /\ sent \in Nat /\ received \in Seq(Nat) /\ received' \in Seq(Nat) /\ Len(received) \in Nat
  BY <1>3 DEF FrameOK, TypeOK, HistoryType
<1>5. \A p \in FrameEnds(f) : Expects(p)'
  BY <1>1, DeliverTaken
<1>6. CASE f.more \/ f.seq # phone.seq
  BY <1>2, <1>6 DEF Takes
<1>7. CASE ~f.more /\ f.seq = phone.seq
  <2>1. PICK v : received' = Append(received, v)
    BY <1>2, <1>7 DEF Takes
  <2>2. PICK n : n = Id(f)
    OBVIOUS
  <2>3. PICK p : p = New(n + 1)
    OBVIOUS
  <2>4. p \in FrameEnds(f) /\ p.id = n + 1
    BY <1>3, <1>7, <2>2, <2>3, Places DEF FrameEnds
  <2>5. n \in Nat /\ n > 0 /\ n <= sent
    BY <1>4, <2>2
  <2>6. InOrder(n)'
    <3>1. (IF p.id = 0 THEN 0 ELSE p.id - 1) = n
      BY <2>4, <2>5
    <3>2. QED
      BY <1>5, <2>4, <3>1 DEF Expects
  <2>7. PICK k \in 0..Len(received') :
          /\ Len(received') = k + n
          /\ \A i \in 1..Len(received') : received'[i] = IF i <= k THEN 0 ELSE i - k
    BY <2>6 DEF InOrder
  <2>8. Len(received') = Len(received) + 1 /\ received'[Len(received) + 1] = v
        /\ \A i \in 1..Len(received) : received'[i] = received[i]
    BY <1>4, <2>1
  <2>9. k = 0
    <3>1. ASSUME k > 0 PROVE FALSE
      <4>1. 1 \in 1..Len(received) /\ 1 \in 1..Len(received')
        BY <1>4, <2>5, <2>7, <2>8, <3>1
      <4>2. received'[1] = 0
        BY <2>7, <3>1, <4>1
      <4>3. QED
        BY <2>8, <4>1, <4>2
    <3>2. QED
      BY <1>4, <2>7, <2>8, <3>1
  <2>10. v = Len(received) + 1 /\ Len(received) < sent
    BY <1>4, <2>5, <2>7, <2>8, <2>9
  <2>11. QED
    BY <2>1, <2>10
<1>8. QED
  BY <1>6, <1>7

LEMMA SameReceived ==
  ASSUME [Next]_vars
  PROVE  Connect \/ Deliver \/ received' = received
  BY DEF Next, Thread, vars, history, WifiEvent, Get, RxDrop, RxError, RxAccept, TxDrop, TxSend,
     TxFull, TxNotConnected, Sent, Timeout, MtuExchange, LinkDown, Drain, Disconnected, SentCallback,
     PhoneSend, PhoneRepeat

LEMMA FreshReceived ==
  ASSUME TypeOK, TypeOK', SendInv, FreshInv, ~FastReconnect, [Next]_vars
  PROVE  \A i \in 1..Len(received') : received'[i] # 0
<1>1. \A i \in 1..Len(received) : received[i] # 0
  BY DEF FreshInv
<1>2. CASE Connect
  <2>1. Len(received') = 0
    BY <1>2 DEF Connect
  <2>2. QED
    BY <2>1
<1>3. CASE Deliver
  <2>1. FramesInv /\ NothingOld
    BY <1>3 DEF Deliver, SendInv, FreshInv
  <2>2. \/ received' = received
        \/ received' = Append(received, Len(received) + 1)
    BY <1>1, <1>3, <2>1, NextMessage
  <2>3. received \in Seq(Nat) /\ Len(received) \in Nat
    BY DEF TypeOK, HistoryType
  <2>4. QED
    BY <1>1, <2>2, <2>3
<1>4. QED
  BY <1>1, <1>2, <1>3, SameReceived

LEMMA FreshStep ==
  ASSUME TypeOK, TypeOK', PartIsHead, SendInv, FreshInv, [Next]_vars
  PROVE  FreshInv'
<1> SUFFICES ASSUME ~FastReconnect PROVE FreshInv'
  BY DEF FreshInv
<1>1. \A i \in 1..Len(received') : received'[i] # 0
  BY FreshReceived
<1>2. RestInv /\ (up => MessagesInv /\ NothingOld)
  BY DEF SendInv, FreshInv
<1>3. ASSUME up' => NothingOld' PROVE FreshInv'
  BY <1>1, <1>3 DEF FreshInv
<1>4. CASE \/ WifiEvent \/ RxDrop \/ RxError \/ RxAccept
           \/ SentCallback \/ PhoneSend \/ PhoneRepeat \/ UNCHANGED vars
  <2>1. QuietStep
    BY <1>4, IsQuiet
  <2>2. up' = up
    BY <2>1 DEF QuietStep
  <2>3. QED
    BY <1>2, <1>3, <2>1, <2>2, QuietFresh
<1>5. CASE TxDrop \/ TxNotConnected \/ Drain \/ Disconnected \/ LinkDown
  <2>1. conn = "drained" => ~up
    BY DEF SendInv
  <2>2. ~up'
    BY <1>5, <2>1 DEF TxDrop, TxNotConnected, Drain, Disconnected, LinkDown, linkVars
  <2>3. QED
    BY <1>3, <2>2
<1>6. CASE Connect
  <2>1. pc = "idle" /\ queue = <<>> /\ air = <<>>
    BY <1>6 DEF Connect, SendInv
  <2>2. pc' = "idle" /\ Len(queue') = 0 /\ Len(air') = 0
    BY <1>6, <2>1, ConnectIs
  <2>3. NothingOld'
    BY <2>2 DEF NothingOld, Holds
  <2>4. QED
    BY <1>3, <2>3
<1>7. CASE MtuExchange
  <2>1. up' = up /\ queue' = queue /\ pc' = pc /\ hand' = hand /\ air' = air
    BY <1>7 DEF MtuExchange, stackVars
  <2>2. QED
    BY <1>2, <1>3, <2>1 DEF NothingOld, Tx, Holds, Id
<1>8. CASE Deliver
  <2>1. up' = up /\ queue' = queue /\ pc' = pc /\ hand' = hand
    BY <1>8 DEF Deliver, linkVars
  <2>2. \A i \in 1..Len(air') : i + 1 \in 1..Len(air) /\ air'[i] = air[i + 1]
    BY <1>8, DeliverIs
  <2>3. QED
    BY <1>2, <1>3, <2>1, <2>2 DEF NothingOld, Tx, Holds, Id
<1>9. CASE Get \/ TxSend \/ TxFull \/ Sent \/ Timeout
  <2>1. up' = up
    BY <1>9 DEF Get, TxSend, TxFull, Sent, Timeout, linkVars
  <2>2. QED
    BY <1>2, <1>3, <1>9, <2>1, ThreadFresh
<1>10. QED
  BY <1>4, <1>5, <1>6, <1>7, <1>8, <1>9 DEF Next, Thread

LEMMA FreshAlways ==
  ASSUME "mtu" \notin Faults
  PROVE  Spec => []FreshInv
<1>1. Init => FreshInv
  <2>1. received = <<>> => Len(received) = 0
    OBVIOUS
  <2>2. QED
    BY <2>1 DEF Init, FreshInv
<1>2. TypeOK /\ TypeOK' /\ PartIsHead /\ SendInv /\ FreshInv /\ [Next]_vars => FreshInv'
  BY FreshStep
<1>3. QED
  BY <1>1, <1>2, SendAlways, TransportTypeCorrect, PartStaysAtHead, PTL DEF Spec

-----------------------------------------------------------------------------
(* The transport implements the channel.                                   *)

LEMMA RespondSends ==
  ASSUME TypeOK, NEW lens \in Seq(Nat), Len(lens) <= 2, Respond(lens), up' = up, received' = received
  PROVE  [Channel!Next]_(Channel!vars)
<1>1. sent \in Nat /\ Len(lens) \in Nat
  BY DEF TypeOK, HistoryType
<1>2. sent' = IF up THEN sent + Len(lens) ELSE sent
  BY DEF Respond
<1>3. CASE ~up \/ Len(lens) = 0
  BY <1>1, <1>2, <1>3 DEF Channel!vars
<1>4. CASE up /\ Len(lens) # 0
  <2>1. Len(lens) \in 1..2
    <3>1. PICK n \in Nat : n = Len(lens)
      BY <1>1
    <3>2. n # 0 /\ n <= 2
      BY <1>4, <3>1
    <3>3. n \in 1..2
      BY <3>2
    <3>4. QED
      BY <3>1, <3>3
  <2>2. Channel!Send(Len(lens))
    BY <1>2, <1>4 DEF Channel!Send
  <2>3. QED
    BY <2>1, <2>2 DEF Channel!Next
<1>5. QED
  BY <1>3, <1>4

LEMMA AnswersShort ==
  /\ \A a \in Acks : Len(a) <= 2
  /\ \A a \in Acks : Len(a \o <<1>>) <= 2
  /\ \A a \in Acks, r \in Answers : Len(a \o r) <= 2
<1>1. ASSUME NEW a \in Acks
      PROVE  a \in Seq(Nat) /\ Len(a) <= 1 /\ Len(a) \in Nat
  <2>1. a = <<>> \/ a = <<1>>
    BY DEF Acks
  <2>2. CASE a = <<>>
    BY <2>2
  <2>3. CASE a = <<1>>
    BY <2>3
  <2>4. QED
    BY <2>1, <2>2, <2>3
<1>2. ASSUME NEW r \in Answers
      PROVE  r \in Seq(Nat) /\ Len(r) <= 1 /\ Len(r) \in Nat
  <2>1. CASE r = <<>>
    BY <2>1
  <2>2. CASE r \in {<<n>> : n \in Lens}
    <3>1. PICK n \in Lens : r = <<n>>
      BY <2>2
    <3>2. n \in Nat
      BY LensAssumption
    <3>3. QED
      BY <3>1, <3>2
  <2>3. QED
    BY <2>1, <2>2 DEF Answers
<1>3. ASSUME NEW a \in Seq(Nat), NEW b \in Seq(Nat), Len(a) <= 1, Len(b) <= 1
      PROVE  Len(a \o b) <= 2
  <2>1. Len(a \o b) = Len(a) + Len(b) /\ Len(a) \in Nat /\ Len(b) \in Nat
    BY ConcatProperties
  <2>2. QED
    BY <1>3, <2>1
<1> DEFINE one == <<1>>
<1>4. one \in Seq(Nat) /\ Len(one) <= 1
  OBVIOUS
<1> HIDE DEF one
<1>5. \A a \in Acks : Len(a \o one) <= 2
  BY <1>1, <1>3, <1>4
<1>6. QED
  BY <1>1, <1>2, <1>3, <1>5 DEF one

LEMMA ChannelStep ==
  ASSUME TypeOK, TypeOK', SendInv, FreshInv, ~FastReconnect, [Next]_vars
  PROVE  [Channel!Next]_(Channel!vars)
<1>1. CASE UNCHANGED <<up, sent, received>>
  BY <1>1 DEF Channel!vars
<1>2. CASE WifiEvent
  <2>1. PICK n \in Lens : Respond(<<n>>)
    BY <1>2 DEF WifiEvent
  <2>2. n \in Nat
    BY LensAssumption
  <2>3. <<n>> \in Seq(Nat) /\ Len(<<n>>) <= 2
    BY <2>2
  <2>4. up' = up /\ received' = received
    BY <1>2 DEF WifiEvent, linkVars
  <2>5. QED
    BY <2>1, <2>3, <2>4, RespondSends
<1>3. CASE RxError \/ RxAccept
  <2>1. up' = up /\ received' = received
    BY <1>3 DEF RxError, RxAccept, linkVars
  <2>2. PICK a \in Acks : Respond(a) \/ Respond(a \o <<1>>) \/ \E r \in Answers : Respond(a \o r)
    BY <1>3 DEF RxError, RxAccept
  <2>3. QED
    BY <2>1, <2>2, AnswersType, AnswersShort, RespondSends
<1>4. CASE Connect
  BY <1>4 DEF Connect, Channel!Open, Channel!Next
<1>5. CASE LinkDown
  BY <1>5 DEF LinkDown, history, Channel!Close, Channel!Next
<1>6. CASE Deliver
  <2>1. up /\ up' = up /\ sent' = sent
    BY <1>6 DEF Deliver, linkVars
  <2>2. FramesInv /\ NothingOld /\ \A i \in 1..Len(received) : received[i] # 0
    BY <2>1 DEF SendInv, FreshInv
  <2>3. \/ received' = received
        \/ received' = Append(received, Len(received) + 1) /\ Len(received) < sent
    BY <1>6, <2>2, NextMessage
  <2>4. QED
    BY <2>1, <2>3 DEF Channel!Receive, Channel!Next, Channel!vars
<1>7. CASE \/ Get \/ RxDrop \/ TxDrop \/ TxSend \/ TxFull \/ TxNotConnected \/ Sent \/ Timeout
           \/ MtuExchange \/ Drain \/ Disconnected \/ SentCallback \/ PhoneSend \/ PhoneRepeat
           \/ UNCHANGED vars
  BY <1>1, <1>7 DEF Get, RxDrop, TxDrop, TxSend, TxFull, TxNotConnected, Sent, Timeout, MtuExchange,
     Drain, Disconnected, SentCallback, PhoneSend, PhoneRepeat, linkVars, history, vars
<1>8. QED
  BY <1>2, <1>3, <1>4, <1>5, <1>6, <1>7 DEF Next, Thread

(* With a phone that is not back before the thread noticed that it was     *)
(* gone, the transport is the channel WpsChannel promises, in safety:      *)
(* every message whole, once, in order. (wps_app.c)                        *)
THEOREM TransportIsChannel ==
  ~FastReconnect /\ "mtu" \notin Faults => (Spec => Channel!Spec)
<1> SUFFICES ASSUME ~FastReconnect, "mtu" \notin Faults
             PROVE  Spec => Channel!Spec
  OBVIOUS
<1>1. Init => Channel!Init
  BY DEF Init, Channel!Init
<1>2. TypeOK /\ TypeOK' /\ SendInv /\ FreshInv /\ [Next]_vars => [Channel!Next]_(Channel!vars)
  BY ChannelStep
<1>3. QED
  BY <1>1, <1>2, SendAlways, FreshAlways, TransportTypeCorrect, PTL DEF Spec, Channel!Spec

-----------------------------------------------------------------------------
(* The commands of the phone.  What the thread holds is position 0 of the  *)
(* queue; the frames of the phone that wait are each the one before again, *)
(* or follow it, from what the device expects to what the phone sent last. *)

Waits(j) == j \in 1..Len(queue) /\ queue[j].dir = "rx"
Rx(j)    == (j = 0 /\ pc = "rx") \/ Waits(j)
Item(j)  == IF j = 0 THEN hand ELSE queue[j]
NoRx     == \A j \in Int : ~Rx(j)

Adjacent(i, j) == Rx(i) /\ Rx(j) /\ i < j /\ \A k \in (i + 1)..(j - 1) : ~Rx(k)
FirstRx(j)     == Rx(j) /\ \A k \in Int : k < j => ~Rx(k)
LastRx(j)      == Rx(j) /\ \A k \in Int : k > j => ~Rx(k)

\* The place behind the n-th unit of a command.
Reached(id, n, len) == IF n < len THEN At(id, n, len) ELSE New(id + 1)

\* What the device must have done to go on with place p.
Awaits(p) ==
  /\ \A i \in 1..Len(executed) : executed[i] < p.id
  /\ p.out > 0 => buf = Piled(p.id, p.out, p.len)

Command(f) ==
  f.no < f.len /\ f.len < BufCap /\ f.id \in 1..phone.id /\ f.seq \in 0..(SeqMod - 1)

Follows(f, g) ==
  \/ g = f
  \/ g.seq = SeqNext(f.seq) /\ Reached(g.id, g.no, g.len) = Reached(f.id, f.no + 1, f.len)

\* The device expects this frame, or had it already.
Comes(f) ==
  \/ f.seq = rxSeq /\ Awaits(Reached(f.id, f.no, f.len))
  \/ SeqNext(f.seq) = rxSeq /\ Awaits(Reached(f.id, f.no + 1, f.len))

LastSent(f) == f = PhoneFrame(SeqPrev(phone.txSeq), phone.id, phone.len, phone.out - 1)
UpToDate    == phone.txSeq = rxSeq /\ Awaits(Reached(phone.id, phone.out, phone.len))

PhoneInv ==
  /\ phone.txSeq \in 0..(SeqMod - 1)
  /\ phone.out <= phone.len /\ phone.len < BufCap /\ (phone.len > 0 => phone.id > 0)

CommandsInv ==
  /\ \A j \in Int : Rx(j) => Command(Item(j))
  /\ \A i, j \in Int : Adjacent(i, j) => Follows(Item(i), Item(j))
  /\ \A j \in Int : FirstRx(j) => Comes(Item(j))
  /\ up => /\ \A j \in Int : LastRx(j) => LastSent(Item(j))
           /\ NoRx => UpToDate

DoneInv == PhoneInv /\ CommandsInv /\ ExecutedInOrder

LEMMA Shifted ==
  ASSUME NEW d \in Int, \A j \in Int : Rx(j)' <=> Rx(j + d)
  PROVE  /\ \A i, j \in Int : Adjacent(i, j)' => Adjacent(i + d, j + d)
         /\ \A j \in Int : (FirstRx(j)' => FirstRx(j + d)) /\ (LastRx(j)' => LastRx(j + d))
         /\ NoRx' => NoRx
<1>1. ASSUME NEW k \in Int
      PROVE  k - d \in Int /\ (Rx(k) <=> Rx(k - d)')
  <2>1. k - d \in Int /\ k - d + d = k
    OBVIOUS
  <2>2. Rx(k - d)' <=> Rx(k - d + d)
    BY <2>1
  <2>3. QED
    BY <2>1, <2>2
<1>2. ASSUME NEW i \in Int, NEW j \in Int, Adjacent(i, j)'
      PROVE  Adjacent(i + d, j + d)
  <2>1. Rx(i + d) /\ Rx(j + d) /\ i + d < j + d
    BY <1>2 DEF Adjacent
  <2>2. ASSUME NEW k \in (i + d + 1)..(j + d - 1)
        PROVE  ~Rx(k)
    <3>1. k - d \in (i + 1)..(j - 1) /\ k \in Int
      OBVIOUS
    <3>2. ~Rx(k - d)'
      BY <1>2, <3>1 DEF Adjacent
    <3>3. QED
      BY <1>1, <3>1, <3>2
  <2>3. QED
    BY <2>1, <2>2 DEF Adjacent
<1>3. ASSUME NEW j \in Int, FirstRx(j)'
      PROVE  FirstRx(j + d)
  <2>1. ASSUME NEW k \in Int, k < j + d
        PROVE  ~Rx(k)
    <3>1. k - d < j /\ k - d \in Int
      BY <2>1
    <3>2. ~Rx(k - d)'
      BY <1>3, <3>1 DEF FirstRx
    <3>3. QED
      BY <1>1, <3>2
  <2>2. QED
    BY <1>3, <2>1 DEF FirstRx
<1>4. ASSUME NEW j \in Int, LastRx(j)'
      PROVE  LastRx(j + d)
  <2>1. ASSUME NEW k \in Int, k > j + d
        PROVE  ~Rx(k)
    <3>1. k - d > j /\ k - d \in Int
      BY <2>1
    <3>2. ~Rx(k - d)'
      BY <1>4, <3>1 DEF LastRx
    <3>3. QED
      BY <1>1, <3>2
  <2>2. QED
    BY <1>4, <2>1 DEF LastRx
<1>5. NoRx' => NoRx
  BY <1>1 DEF NoRx
<1>6. QED
  BY <1>2, <1>3, <1>4, <1>5

SamePhone ==
  /\ phone'.txSeq = phone.txSeq /\ phone'.id = phone.id
  /\ phone'.len = phone.len /\ phone'.out = phone.out

\* A step that moves the queue and the thread's hand only.
LEMMA CommandsKept ==
  ASSUME CommandsInv, NEW d \in Int, \A j \in Int : Rx(j)' <=> Rx(j + d),
         \A j \in Int : Rx(j)' => Item(j)' = Item(j + d),
         UNCHANGED <<rxSeq, executed, buf>>, SamePhone, up' => up
  PROVE  CommandsInv'
<1>1. ASSUME NEW j \in Int, Rx(j)'
      PROVE  j + d \in Int /\ Item(j)' = Item(j + d) /\ Rx(j + d)
  BY <1>1
<1>2. \A j \in Int : Rx(j)' => Command(Item(j))'
  <2>1. SUFFICES ASSUME NEW j \in Int, Rx(j)' PROVE Command(Item(j))'
    OBVIOUS
  <2>2. Command(Item(j + d))
    BY <1>1, <2>1 DEF CommandsInv
  <2>3. QED
    BY <1>1, <2>1, <2>2 DEF Command, SamePhone
<1>3. \A i, j \in Int : Adjacent(i, j)' => Follows(Item(i), Item(j))'
  <2>1. SUFFICES ASSUME NEW i \in Int, NEW j \in Int, Adjacent(i, j)' PROVE Follows(Item(i), Item(j))'
    OBVIOUS
  <2>2. Adjacent(i + d, j + d) /\ Rx(i)' /\ Rx(j)'
    BY <2>1, Shifted DEF Adjacent
  <2>3. Follows(Item(i + d), Item(j + d))
    BY <1>1, <2>2 DEF CommandsInv
  <2>4. QED
    BY <1>1, <2>2, <2>3 DEF Follows
<1>4. \A j \in Int : FirstRx(j)' => Comes(Item(j))'
  <2>1. SUFFICES ASSUME NEW j \in Int, FirstRx(j)' PROVE Comes(Item(j))'
    OBVIOUS
  <2>2. FirstRx(j + d) /\ Rx(j)'
    BY <2>1, Shifted DEF FirstRx
  <2>3. Comes(Item(j + d))
    BY <1>1, <2>2 DEF CommandsInv
  <2>4. QED
    BY <1>1, <2>2, <2>3 DEF Comes, Awaits
<1>5. ASSUME up'
      PROVE  /\ \A j \in Int : LastRx(j)' => LastSent(Item(j))'
             /\ NoRx' => UpToDate'
  <2>1. ASSUME NEW j \in Int, LastRx(j)'
        PROVE  LastSent(Item(j))'
    <3>1. LastRx(j + d) /\ Rx(j)'
      BY <2>1, Shifted DEF LastRx
    <3>2. LastSent(Item(j + d))
      BY <1>1, <1>5, <3>1 DEF CommandsInv
    <3>3. QED
      BY <1>1, <3>1, <3>2 DEF LastSent, SamePhone
  <2>2. ASSUME NoRx' PROVE UpToDate'
    <3>1. NoRx
      BY <2>2, Shifted
    <3>2. UpToDate
      BY <1>5, <3>1 DEF CommandsInv
    <3>3. QED
      BY <3>2 DEF UpToDate, Awaits, SamePhone
  <2>3. QED
    BY <2>1, <2>2
<1>6. QED
  BY <1>2, <1>3, <1>4, <1>5 DEF CommandsInv

\* What waits of the phone stays where it is.
SameWaits == \A j \in Int : (Waits(j)' <=> Waits(j)) /\ (Waits(j) => queue'[j] = queue[j])

LEMMA RespondWaits ==
  ASSUME TypeOK, NEW lens \in Seq(Nat), Respond(lens)
  PROVE  SameWaits
<1>1. PICK r : r = Responses(lens)
  OBVIOUS
<1>2. /\ r \in Seq(Messages) /\ Len(r) = Len(lens) /\ queue' = queue \o r
      /\ queue \in Seq(Messages)
  BY <1>1, ResponsesType DEF Respond, TypeOK, QueueType
<1>3. \A i \in 1..Len(r) : r[i].dir = "tx"
  <2>1. r = [i \in 1..Len(lens) |-> TxMsg(IF up THEN sent + i ELSE 0, lens[i])]
    BY <1>1 DEF Responses
  <2>2. \A k, n : TxMsg(k, n).dir = "tx"
    BY DEF TxMsg
  <2>3. QED
    BY <1>2, <2>1, <2>2
<1>8. PICK c : c = queue'
  OBVIOUS
<1>9. c = queue \o r
  BY <1>2, <1>8
<1>4. /\ Len(queue') = Len(queue) + Len(r) /\ Len(queue) \in Nat /\ Len(r) \in Nat
      /\ \A i \in 1..Len(queue') :
           \/ i \in 1..Len(queue) /\ queue'[i] = queue[i]
           \/ i - Len(queue) \in 1..Len(r) /\ queue'[i] = r[i - Len(queue)]
  <2>0. queue \in Seq(Messages) /\ r \in Seq(Messages)
    BY <1>2
  <2>1. /\ Len(c) = Len(queue) + Len(r) /\ Len(queue) \in Nat /\ Len(r) \in Nat
        /\ \A i \in 1..Len(c) :
             \/ i \in 1..Len(queue) /\ c[i] = queue[i]
             \/ i - Len(queue) \in 1..Len(r) /\ c[i] = r[i - Len(queue)]
    BY <2>0, <1>9, Joined
  <2>2. QED
    BY <1>8, <2>1
<1>5. ASSUME NEW j \in Int, Waits(j)'
      PROVE  Waits(j) /\ queue'[j] = queue[j]
  BY <1>3, <1>4, <1>5 DEF Waits
<1>6. ASSUME NEW j \in Int, Waits(j)
      PROVE  Waits(j)' /\ queue'[j] = queue[j]
  <2>1. j \in 1..Len(queue) /\ j \in 1..Len(queue') /\ ~(j - Len(queue) \in 1..Len(r))
    BY <1>4, <1>6 DEF Waits
  <2>2. queue'[j] = queue[j]
    BY <1>4, <2>1
  <2>3. QED
    BY <1>6, <2>1, <2>2 DEF Waits
<1>7. QED
  BY <1>5, <1>6 DEF SameWaits

LEMMA StayKept ==
  ASSUME CommandsInv, SameWaits, pc' = "rx" <=> pc = "rx", pc = "rx" => hand' = hand,
         UNCHANGED <<rxSeq, executed, buf>>, SamePhone, up' => up
  PROVE  CommandsInv'
<1>1. ASSUME NEW j \in Int
      PROVE  /\ j + 0 = j /\ (Rx(j)' <=> Rx(j))
             /\ Rx(j)' => Item(j)' = Item(j)
  BY DEF SameWaits, Rx, Item, Waits
<1>2. \A j \in Int : Rx(j)' <=> Rx(j + 0)
  BY <1>1
<1>3. \A j \in Int : Rx(j)' => Item(j)' = Item(j + 0)
  BY <1>1
<1>4. 0 \in Int
  OBVIOUS
<1>5. QED
  BY <1>2, <1>3, <1>4, CommandsKept

\* The thread takes the first message.
LEMMA GetKept ==
  ASSUME TypeOK, CommandsInv, Get
  PROVE  CommandsInv'
<1>1. /\ Len(queue) \in Nat \ {0} /\ Len(queue') = Len(queue) - 1
      /\ hand' = queue[1] /\ pc' = queue[1].dir
      /\ \A j \in 1..Len(queue') : j + 1 \in 1..Len(queue) /\ queue'[j] = queue[j + 1]
      /\ pc = "idle" /\ UNCHANGED <<up, rxSeq, executed, buf, phone>>
  BY GetIs DEF Get, linkVars, seqVars, history
<1>2. ASSUME NEW j \in Int
      PROVE  (Rx(j)' <=> Rx(j + 1)) /\ (Rx(j)' => Item(j)' = Item(j + 1))
  <2>1. CASE j = 0
    BY <1>1, <2>1 DEF Rx, Waits, Item
  <2>2. CASE j < 0
    BY <1>1, <2>2 DEF Rx, Waits
  <2>3. CASE j > 0
    <3>1. j \in 1..Len(queue') <=> j + 1 \in 1..Len(queue)
      BY <1>1, <2>3
    <3>2. j # 0 /\ j + 1 # 0
      BY <2>3
    <3>3. QED
      BY <1>1, <3>1, <3>2 DEF Rx, Waits, Item
  <2>4. QED
    BY <2>1, <2>2, <2>3
<1>3. 1 \in Int /\ SamePhone
  BY <1>1 DEF SamePhone
<1>4. QED
  BY <1>1, <1>2, <1>3, CommandsKept

\* It puts a response back.
LEMMA FrontKept ==
  ASSUME TypeOK, CommandsInv, NEW m \in Messages, m.dir = "tx", Prepend(m),
         pc # "rx", pc' # "rx", UNCHANGED <<up, rxSeq, executed, buf, phone>>
  PROVE  CommandsInv'
<1>1. /\ Len(queue) \in Nat /\ Len(queue') = Len(queue) + 1 /\ queue'[1] = m
      /\ \A j \in 1..Len(queue') : j # 1 => j - 1 \in 1..Len(queue) /\ queue'[j] = queue[j - 1]
  BY FrontIs
<1>2. ASSUME NEW j \in Int
      PROVE  (Rx(j)' <=> Rx(j + (-1))) /\ (Rx(j)' => Item(j)' = Item(j + (-1)))
  <2>0. j + (-1) = j - 1
    OBVIOUS
  <2>1. CASE j = 1
    BY <1>1, <2>1 DEF Rx, Waits
  <2>2. CASE j < 1
    BY <1>1, <2>2 DEF Rx, Waits
  <2>3. CASE j > 1
    <3>1. j \in 1..Len(queue') <=> j - 1 \in 1..Len(queue)
      BY <1>1, <2>3
    <3>2. j # 0 /\ j - 1 # 0 /\ j # 1
      BY <2>3
    <3>3. QED
      BY <1>1, <2>0, <3>1, <3>2 DEF Rx, Waits, Item
  <2>4. QED
    BY <2>1, <2>2, <2>3
<1>3. -1 \in Int /\ SamePhone
  BY DEF SamePhone
<1>4. QED
  BY <1>2, <1>3, CommandsKept

LEMMA MoveSame ==
  ASSUME TypeOK,
         \/ WifiEvent \/ Get \/ TxDrop \/ TxSend \/ TxFull \/ TxNotConnected \/ Sent \/ Timeout
         \/ MtuExchange \/ LinkDown \/ Disconnected \/ SentCallback \/ Deliver \/ UNCHANGED vars
  PROVE  SamePhone /\ executed' = executed
<1>1. CASE Deliver
  <2>1. phone \in Phones
    BY DEF TypeOK, PhoneType
  <2>2. PICK s, b : phone' = phone \/ phone' = [phone EXCEPT !.seq = s, !.buf = b]
    BY <1>1 DEF Deliver
  <2>3. QED
    BY <1>1, <2>1, <2>2 DEF Phones, SamePhone, Deliver
<1>2. CASE ~Deliver
  BY <1>2 DEF WifiEvent, Get, TxDrop, TxSend, TxFull, TxNotConnected, Sent, Timeout,
     MtuExchange, LinkDown, Disconnected, SentCallback, vars, history, SamePhone
<1>3. QED
  BY <1>1, <1>2

\* The steps that take none of the phone's frames.
LEMMA MoveKept ==
  ASSUME TypeOK, TypeOK', CommandsInv,
         \/ WifiEvent \/ Get \/ TxDrop \/ TxSend \/ TxFull \/ TxNotConnected \/ Sent \/ Timeout
         \/ MtuExchange \/ LinkDown \/ Disconnected \/ SentCallback \/ Deliver \/ UNCHANGED vars
  PROVE  CommandsInv'
<1>1. CASE Get
  BY <1>1, GetKept
<1>2. CASE WifiEvent
  <2>1. PICK n \in Lens : Respond(<<n>>)
    BY <1>2 DEF WifiEvent
  <2>2. n \in Nat
    BY LensAssumption
  <2>3. <<n>> \in Seq(Nat)
    BY <2>2
  <2>4. SameWaits
    BY <2>1, <2>3, RespondWaits
  <2>5. UNCHANGED <<up, pc, hand, rxSeq, executed, buf, phone>>
    BY <1>2 DEF WifiEvent, linkVars, seqVars
  <2>6. QED
    BY <2>4, <2>5, StayKept DEF SamePhone
<1>3. ASSUME Holds, pc' # "rx", UNCHANGED <<up, rxSeq, executed, buf, phone>>,
             queue' = queue \/ \E m \in Messages : m.dir = "tx" /\ Prepend(m)
      PROVE  CommandsInv'
  <2>1. pc # "rx"
    BY <1>3 DEF Holds
  <2>2. CASE queue' = queue
    <3>1. SameWaits /\ SamePhone
      BY <1>3, <2>2 DEF SameWaits, Waits, SamePhone
    <3>2. QED
      BY <1>3, <2>1, <3>1, StayKept
  <2>3. CASE \E m \in Messages : m.dir = "tx" /\ Prepend(m)
    BY <1>3, <2>1, <2>3, FrontKept
  <2>4. QED
    BY <1>3, <2>2, <2>3
<1>4. CASE TxDrop \/ TxSend
  BY <1>3, <1>4 DEF TxDrop, TxSend, Holds, Free, linkVars, seqVars, history
<1>5. CASE TxFull \/ Timeout
  <2>1. Holds /\ Prepend(hand) /\ pc' = "idle" /\ UNCHANGED <<up, rxSeq, executed, buf, phone>>
    BY <1>5 DEF TxFull, Timeout, Holds, Free, linkVars, seqVars, history
  <2>2. hand \in Messages /\ hand.dir = "tx"
    BY <2>1, HandIs
  <2>3. QED
    BY <1>3, <2>1, <2>2
<1>6. CASE Sent
  <2>1. Holds /\ pc' = "idle" /\ UNCHANGED <<up, rxSeq, executed, buf, phone>>
    BY <1>6 DEF Sent, Continue, Holds, Free, linkVars, seqVars, history
  <2>2. CASE left # 0 /\ hand.out + left < hand.len
    <3>1. left \in Nat /\ hand.out + left <= hand.len
      BY <2>1, <2>2, HandIs
    <3>2. Rest(left) \in Messages /\ Rest(left).dir = "tx"
      BY <2>1, <3>1, RestIs
    <3>3. Prepend(Rest(left))
      BY <1>6, <2>2, SentIs
    <3>4. QED
      BY <1>3, <2>1, <3>2, <3>3
  <2>3. CASE ~(left # 0 /\ hand.out + left < hand.len)
    BY <1>3, <1>6, <2>1, <2>3, SentIs
  <2>4. QED
    BY <2>2, <2>3
<1>7. CASE TxNotConnected
  <2>1. /\ pc = "tx" /\ Holds /\ pc' = "idle" /\ UNCHANGED <<up, rxSeq, executed, buf, phone>>
        /\ IF Frame.more THEN Prepend(Rest(Piece)) ELSE queue' = queue
    BY <1>7 DEF TxNotConnected, Continue, Holds, Free, Rest, linkVars, history
  <2>2. CASE Frame.more
    <3>1. ~Single
      BY <2>2 DEF Frame
    <3>2. Piece \in Nat /\ hand.out + Piece <= hand.len
      BY <2>1, <3>1, PieceType
    <3>3. Rest(Piece) \in Messages /\ Rest(Piece).dir = "tx"
      BY <2>1, <3>2, RestIs
    <3>4. QED
      BY <1>3, <2>1, <2>2, <3>3
  <2>3. CASE ~Frame.more
    BY <1>3, <2>1, <2>3
  <2>4. QED
    BY <2>2, <2>3
<1>8. CASE MtuExchange \/ LinkDown \/ Disconnected \/ SentCallback \/ Deliver \/ UNCHANGED vars
  <2>1. UNCHANGED <<queue, pc, hand, rxSeq, executed, buf>> /\ (up' => up)
    BY <1>8 DEF MtuExchange, LinkDown, Disconnected, SentCallback, Deliver, vars, linkVars, seqVars, history
  <2>2. SamePhone
    BY <1>8, MoveSame
  <2>3. SameWaits
    BY <2>1 DEF SameWaits, Waits
  <2>4. QED
    BY <2>1, <2>2, <2>3, StayKept
<1>9. QED
  BY <1>1, <1>2, <1>4, <1>5, <1>6, <1>7, <1>8

\* The thread is done with a frame of the phone.
Taken ==
  /\ pc = "rx" /\ pc' = "idle" /\ SameWaits /\ SamePhone /\ up' = up
  /\ rxSeq' = SeqNext(hand.seq)
  /\ \E p : p = Reached(hand.id, hand.no + 1, hand.len) /\ Awaits(p)'

LEMMA TakenIs ==
  ASSUME Taken
  PROVE  /\ Rx(0) /\ \A j \in Int : Rx(j)' <=> Waits(j)
         /\ \A j \in Int : Waits(j) => j > 0 /\ Rx(j) /\ Item(j)' = Item(j)
         /\ Item(0) = hand
  BY DEF Taken, SameWaits, Rx, Waits, Item

LEMMA TakenKept ==
  ASSUME TypeOK, PhoneInv, CommandsInv, Taken
  PROVE  CommandsInv'
<1>1. /\ Rx(0) /\ \A j \in Int : Rx(j)' <=> Waits(j)
      /\ \A j \in Int : Waits(j) => j > 0 /\ Rx(j) /\ Item(j)' = Item(j)
      /\ Item(0) = hand /\ \A j \in Int : Rx(j) => j = 0 \/ Waits(j)
  BY TakenIs DEF Rx
<1>2. Command(hand) /\ SamePhone /\ up' = up
  BY <1>1 DEF CommandsInv, Taken
<1>3. PICK p : p = Reached(hand.id, hand.no + 1, hand.len) /\ Awaits(p)' /\ rxSeq' = SeqNext(hand.seq)
  BY DEF Taken
<1>4. \A j \in Int : Rx(j)' => Command(Item(j))'
  BY <1>1, <1>2 DEF CommandsInv, Command, SamePhone
<1>5. ASSUME NEW i \in Int, NEW j \in Int, Adjacent(i, j)'
      PROVE  Follows(Item(i), Item(j))'
  <2>1. /\ Waits(i) /\ Waits(j) /\ i < j /\ i > 0
        /\ Item(i)' = Item(i) /\ Item(j)' = Item(j) /\ Rx(i) /\ Rx(j)
    BY <1>1, <1>5 DEF Adjacent
  <2>2. ASSUME NEW k \in (i + 1)..(j - 1) PROVE ~Rx(k)
    <3>1. k \in Int /\ k # 0 /\ ~Rx(k)'
      BY <1>5, <2>1 DEF Adjacent
    <3>2. QED
      BY <1>1, <3>1
  <2>3. Follows(Item(i), Item(j))
    BY <2>1, <2>2 DEF CommandsInv, Adjacent
  <2>4. QED
    BY <2>1, <2>3 DEF Follows
<1>6. ASSUME NEW j \in Int, FirstRx(j)'
      PROVE  Comes(Item(j))'
  <2>1. Waits(j) /\ j > 0 /\ Rx(j) /\ Item(j)' = Item(j)
    BY <1>1, <1>6 DEF FirstRx
  <2>2. ASSUME NEW k \in (0 + 1)..(j - 1) PROVE ~Rx(k)
    <3>1. k \in Int /\ k # 0 /\ k < j
      BY <2>1
    <3>2. ~Rx(k)'
      BY <1>6, <3>1 DEF FirstRx
    <3>3. QED
      BY <1>1, <3>1, <3>2
  <2>3. Adjacent(0, j)
    BY <1>1, <2>1, <2>2 DEF Adjacent
  <2>4. Follows(hand, Item(j))
    <3>1. Follows(Item(0), Item(j))
      BY <2>3 DEF CommandsInv
    <3>2. QED
      BY <1>1, <3>1
  <2>5. PICK g : g = Item(j)
    OBVIOUS
  <2>6. CASE g = hand
    <3>1. Item(j)' = g /\ SeqNext(g.seq) = rxSeq' /\ p = Reached(g.id, g.no + 1, g.len) /\ Awaits(p)'
      BY <1>3, <2>1, <2>5, <2>6
    <3>2. QED
      BY <3>1 DEF Comes, Awaits
  <2>7. CASE g.seq = SeqNext(hand.seq) /\ Reached(g.id, g.no, g.len) = Reached(hand.id, hand.no + 1, hand.len)
    <3>1. Item(j)' = g /\ g.seq = rxSeq' /\ p = Reached(g.id, g.no, g.len) /\ Awaits(p)'
      BY <1>3, <2>1, <2>5, <2>7
    <3>2. QED
      BY <3>1 DEF Comes, Awaits
  <2>8. QED
    BY <2>4, <2>5, <2>6, <2>7 DEF Follows
<1>7. ASSUME up', NEW j \in Int, LastRx(j)'
      PROVE  LastSent(Item(j))'
  <2>1. Waits(j) /\ j > 0 /\ Rx(j) /\ Item(j)' = Item(j)
    BY <1>1, <1>7 DEF LastRx
  <2>2. ASSUME NEW k \in Int, k > j PROVE ~Rx(k)
    <3>1. k # 0 /\ ~Rx(k)'
      BY <1>7, <2>1, <2>2 DEF LastRx
    <3>2. QED
      BY <1>1, <3>1
  <2>3. LastSent(Item(j))
    BY <1>2, <1>7, <2>1, <2>2 DEF CommandsInv, LastRx
  <2>4. QED
    BY <1>2, <2>1, <2>3 DEF LastSent, SamePhone
<1>8. ASSUME up', NoRx'
      PROVE  UpToDate'
  <2>1. ASSUME NEW k \in Int, k > 0 PROVE ~Rx(k)
    BY <1>1, <1>8, <2>1 DEF NoRx
  <2>2. LastRx(0)
    BY <1>1, <2>1 DEF LastRx
  <2>3. LastSent(hand)
    <3>1. LastSent(Item(0))
      BY <1>2, <1>8, <2>2 DEF CommandsInv
    <3>2. QED
      BY <1>1, <3>1
  <2>4. /\ hand.seq = SeqPrev(phone.txSeq) /\ hand.id = phone.id /\ hand.len = phone.len
        /\ hand.no = phone.out - 1
    BY <2>3 DEF LastSent, PhoneFrame
  <2>5. phone.txSeq = SeqNext(hand.seq) /\ p = Reached(phone.id, phone.out, phone.len)
    <3>1. phone.txSeq = SeqNext(hand.seq)
      BY <2>4, SeqSteps DEF PhoneInv
    <3>2. phone.out \in Nat
      BY DEF TypeOK, PhoneType, Phones
    <3>3. hand.no + 1 = phone.out
      BY <2>4, <3>2
    <3>4. QED
      BY <1>3, <2>4, <3>1, <3>3
  <2>6. phone'.txSeq = rxSeq' /\ p = Reached(phone'.id, phone'.out, phone'.len)
    BY <1>2, <1>3, <2>5 DEF SamePhone
  <2>7. QED
    BY <1>3, <2>6 DEF UpToDate, Awaits
<1>9. QED
  BY <1>4, <1>5, <1>6, <1>7, <1>8 DEF CommandsInv

\* The place of the frame in the thread's hand and the one behind it.
LEMMA HandExpected ==
  ASSUME TypeOK, CommandsInv, pc = "rx"
  PROVE  /\ hand.id \in Nat /\ hand.id > 0 /\ hand.id <= phone.id /\ hand.no \in Nat /\ hand.len \in Nat
         /\ hand.no < hand.len /\ hand.len < BufCap /\ hand.seq \in 0..(SeqMod - 1)
         /\ hand.seq # rxSeq => SeqNext(hand.seq) = rxSeq /\ Awaits(Reached(hand.id, hand.no + 1, hand.len))
         /\ hand.seq = rxSeq =>
              /\ \A i \in 1..Len(executed) : executed[i] < hand.id
              /\ hand.no > 0 => buf = Piled(hand.id, hand.no, hand.len)
<1>1. /\ hand.id \in Nat /\ hand.no \in Nat /\ hand.len \in Nat /\ phone.id \in Nat
  BY DEF TypeOK, ThreadType, RoleType, Messages, PhoneType, Phones
<1>2. Rx(0) /\ Item(0) = hand /\ \A k \in Int : k < 0 => ~Rx(k)
  BY DEF Rx, Item, Waits
<1>3. Command(hand) /\ Comes(hand)
  <2>1. Command(Item(0)) /\ Comes(Item(0))
    BY <1>2 DEF CommandsInv, FirstRx
  <2>2. QED
    BY <1>2, <2>1
<1>4. /\ hand.id > 0 /\ hand.id <= phone.id /\ hand.no < hand.len /\ hand.len < BufCap
      /\ hand.seq \in 0..(SeqMod - 1)
  BY <1>1, <1>3 DEF Command
<1>5. ASSUME hand.seq = rxSeq
      PROVE  /\ \A i \in 1..Len(executed) : executed[i] < hand.id
             /\ hand.no > 0 => buf = Piled(hand.id, hand.no, hand.len)
  <2>1. SeqNext(hand.seq) # rxSeq
    BY <1>4, <1>5, SeqSteps
  <2>2. PICK p : p = At(hand.id, hand.no, hand.len)
    OBVIOUS
  <2>3. Awaits(p)
    BY <1>3, <1>4, <2>1, <2>2 DEF Comes, Reached
  <2>4. p.id = hand.id /\ (hand.no > 0 => p.out = hand.no /\ p.len = hand.len)
    BY <1>1, <1>4, <2>2, Places
  <2>5. QED
    BY <1>1, <2>3, <2>4 DEF Awaits
<1>6. hand.seq # rxSeq => SeqNext(hand.seq) = rxSeq /\ Awaits(Reached(hand.id, hand.no + 1, hand.len))
  BY <1>3 DEF Comes
<1>7. QED
  BY <1>1, <1>4, <1>5, <1>6

LEMMA AssembledIs ==
  ASSUME TypeOK, CommandsInv, pc = "rx", hand.seq = rxSeq
  PROVE  Assembled = Piled(hand.id, hand.no + 1, hand.len)
<1>1. /\ hand.id \in Nat /\ hand.no \in Nat /\ hand.len \in Nat
      /\ hand.no < hand.len /\ hand.len < BufCap
      /\ hand.no > 0 => buf = Piled(hand.id, hand.no, hand.len)
  BY HandExpected
<1>2. PICK old, u, new : /\ old = (IF hand.no = 0 THEN <<>> ELSE buf)
                         /\ u = <<hand.id, hand.no + 1, hand.len>> /\ new = Append(old, u)
  OBVIOUS
<1>3. old \in Seq(Unit) /\ Len(old) = hand.no /\ \A i \in 1..hand.no : old[i] = <<hand.id, i, hand.len>>
  <2>1. CASE hand.no = 0
    BY <1>2, <2>1
  <2>2. CASE hand.no # 0
    BY <1>1, <1>2, <2>2 DEF Piled, Unit
  <2>3. QED
    BY <2>1, <2>2
<1>4. u \in Unit
  BY <1>1, <1>2 DEF Unit
<1>5. /\ new \in Seq(Unit) /\ Len(new) = hand.no + 1 /\ new[hand.no + 1] = u
      /\ \A i \in 1..hand.no : new[i] = old[i]
  BY <1>1, <1>2, <1>3, <1>4
<1>6. ASSUME NEW i \in 1..(hand.no + 1)
      PROVE  new[i] = <<hand.id, i, hand.len>>
  <2>1. CASE i \in 1..hand.no
    BY <1>3, <1>5, <2>1
  <2>2. CASE i = hand.no + 1
    BY <1>2, <1>5, <2>2
  <2>3. QED
    BY <1>1, <2>1, <2>2
<1>7. new = [i \in 1..(hand.no + 1) |-> new[i]]
  <2>1. \A s \in Seq(Unit) : s = [i \in 1..Len(s) |-> s[i]]
    OBVIOUS
  <2>2. QED
    BY <1>5, <2>1
<1>8. new = Piled(hand.id, hand.no + 1, hand.len)
  BY <1>6, <1>7 DEF Piled
<1>9. Len(new) # BufCap
  BY <1>1, <1>5, BoundsAssumption
<1>10. Assembled = new
  BY <1>2, <1>9 DEF Assembled
<1>11. QED
  BY <1>8, <1>10

LEMMA DropTaken ==
  ASSUME TypeOK, CommandsInv, RxDrop
  PROVE  Taken
<1>1. /\ pc = "rx" /\ hand.seq # rxSeq /\ pc' = "idle" /\ UNCHANGED <<up, queue, rxSeq, buf, phone, executed>>
  BY DEF RxDrop, Free, linkVars, seqVars, history
<1>2. PICK p : p = Reached(hand.id, hand.no + 1, hand.len)
  OBVIOUS
<1>3. SeqNext(hand.seq) = rxSeq /\ Awaits(p)
  BY <1>1, <1>2, HandExpected
<1>4. Awaits(p)'
  BY <1>1, <1>3 DEF Awaits
<1>5. SameWaits /\ SamePhone
  BY <1>1 DEF SameWaits, Waits, SamePhone
<1>6. QED
  BY <1>1, <1>2, <1>3, <1>4, <1>5 DEF Taken

\* A command is executed when its last frame came, and once.
LEMMA AcceptTaken ==
  ASSUME TypeOK, CommandsInv, ExecutedInOrder, RxAccept
  PROVE  Taken /\ ExecutedInOrder'
<1>1. /\ pc = "rx" /\ hand.seq = rxSeq /\ pc' = "idle" /\ UNCHANGED <<up, phone>>
      /\ rxSeq' = SeqNext(hand.seq) /\ buf' = Assembled
  BY DEF RxAccept, Free, linkVars
<1>2. /\ hand.id \in Nat /\ hand.id > 0 /\ hand.id <= phone.id /\ hand.no \in Nat /\ hand.len \in Nat
      /\ hand.no < hand.len /\ hand.len < BufCap
      /\ \A i \in 1..Len(executed) : executed[i] < hand.id
  BY <1>1, HandExpected
<1>3. executed \in Seq(Nat) /\ Len(executed) \in Nat /\ phone.id \in Nat
  BY DEF TypeOK, HistoryType, PhoneType, Phones
<1>4. Assembled = Piled(hand.id, hand.no + 1, hand.len)
  BY <1>1, AssembledIs
<1>5. PICK a \in Acks :
        \/ More /\ Respond(a) /\ executed' = executed
        \/ ~More /\ executed' = Append(executed, Number(Assembled)) /\ \E r \in Answers : Respond(a \o r)
        \/ ~More /\ Respond(a \o <<1>>) /\ executed' = executed
  BY DEF RxAccept
<1>6. SameWaits
  BY <1>5, AnswersType, RespondWaits
<1>7. ASSUME ~More
      PROVE  hand.no + 1 = hand.len /\ Number(Assembled) = hand.id
  <2>1. hand.no + 1 = hand.len
    BY <1>2, <1>7 DEF More
  <2>2. PICK u : u = Piled(hand.id, hand.len, hand.len)
    OBVIOUS
  <2>3. u \in Seq(Unit) /\ Len(u) > 0
    <3>1. hand.id \in Nat /\ hand.len \in Nat /\ hand.len > 0
      BY <1>2
    <3>2. \A i \in 1..hand.len : <<hand.id, i, hand.len>> \in Unit
      BY <3>1 DEF Unit
    <3>3. QED
      BY <2>2, <3>1, <3>2 DEF Piled
  <2>4. u # <<>>
    BY <2>3
  <2>5. Number(u) = hand.id
    BY <1>2, <2>2, <2>3, <2>4, NumberIs
  <2>6. QED
    BY <1>4, <2>1, <2>2, <2>5
<1>8. \/ executed' = executed
      \/ ~More /\ executed' = Append(executed, hand.id)
  BY <1>5, <1>7
<1>9. ASSUME NEW i \in 1..Len(executed')
      PROVE  \/ i \in 1..Len(executed) /\ executed'[i] = executed[i]
             \/ ~More /\ i = Len(executed) + 1 /\ executed'[i] = hand.id
  <2>1. CASE executed' = executed
    BY <2>1
  <2>2. CASE ~More /\ executed' = Append(executed, hand.id)
    <3>1. /\ Len(executed') = Len(executed) + 1 /\ executed'[Len(executed) + 1] = hand.id
          /\ \A j \in 1..Len(executed) : executed'[j] = executed[j]
      BY <1>2, <1>3, <2>2
    <3>2. i \in 1..Len(executed) \/ i = Len(executed) + 1
      BY <1>3, <3>1
    <3>3. QED
      BY <2>2, <3>1, <3>2
  <2>3. QED
    BY <1>8, <2>1, <2>2
<1>10. PICK p : p = Reached(hand.id, hand.no + 1, hand.len)
  OBVIOUS
<1>11. Awaits(p)'
  <2>1. CASE More
    <3>1. p = At(hand.id, hand.no + 1, hand.len) /\ hand.no + 1 # 0 /\ hand.id # 0
      BY <1>2, <1>10, <2>1 DEF More, Reached
    <3>2. p.id = hand.id /\ p.out = hand.no + 1 /\ p.len = hand.len
      BY <3>1, Places
    <3>3. \A i \in 1..Len(executed') : executed'[i] < p.id
      BY <1>2, <1>9, <2>1, <3>2
    <3>4. buf' = Piled(p.id, p.out, p.len)
      BY <1>1, <1>4, <3>2
    <3>5. QED
      BY <3>3, <3>4 DEF Awaits
  <2>2. CASE ~More
    <3>1. p = New(hand.id + 1)
      BY <1>2, <1>10, <2>2 DEF More, Reached
    <3>2. p.id = hand.id + 1 /\ p.out = 0
      BY <3>1, Places
    <3>3. \A i \in 1..Len(executed) : executed[i] \in Nat
      BY <1>3
    <3>4. \A i \in 1..Len(executed') : executed'[i] < p.id
      BY <1>2, <1>9, <3>2, <3>3
    <3>5. ~(p.out > 0)
      BY <3>2
    <3>6. QED
      BY <3>4, <3>5 DEF Awaits
  <2>3. QED
    BY <2>1, <2>2
<1>12. SamePhone
  BY <1>1 DEF SamePhone
<1>13. Taken
  BY <1>1, <1>6, <1>10, <1>11, <1>12 DEF Taken
<1>14. ASSUME NEW i \in 1..Len(executed')
       PROVE  executed'[i] \in (IF i = 1 THEN 1 ELSE executed'[i - 1] + 1)..phone'.id
  <2>1. \A j \in 1..Len(executed) : executed'[j] = executed[j] /\ executed[j] \in Nat
    BY SMTT(30), <1>3, <1>8, <1>2
  <2>2. CASE i \in 1..Len(executed)
    <3>1. i # 1 => i - 1 \in 1..Len(executed)
      BY <1>3, <2>2
    <3>2. QED
      BY <1>1, <2>1, <2>2, <3>1 DEF ExecutedInOrder
  <2>3. CASE i = Len(executed) + 1 /\ executed'[i] = hand.id
    <3>1. i # 1 => i - 1 \in 1..Len(executed)
      BY <1>3, <2>3
    <3>2. i # 1 => executed'[i - 1] + 1 <= hand.id /\ executed'[i - 1] \in Nat
      BY <1>2, <2>1, <3>1
    <3>3. QED
      BY <1>1, <1>2, <1>3, <2>3, <3>2
  <2>4. QED
    BY <1>9, <2>2, <2>3
<1>15. QED
  BY <1>13, <1>14 DEF ExecutedInOrder

\* Nothing is refused.
LEMMA NoError ==
  ASSUME TypeOK, CommandsInv, "crc" \notin Faults
  PROVE  ~RxError
<1>1. SUFFICES ASSUME RxError PROVE FALSE
  OBVIOUS
<1>2. pc = "rx" /\ hand.seq = rxSeq /\ hand.no # 0 /\ Len(buf) + 1 > BufCap
  BY <1>1 DEF RxError
<1>3. /\ hand.no \in Nat /\ hand.len \in Nat /\ hand.no < hand.len /\ hand.len < BufCap
      /\ hand.no > 0 => buf = Piled(hand.id, hand.no, hand.len)
  BY <1>2, HandExpected
<1>4. Len(buf) = hand.no
  BY <1>2, <1>3 DEF Piled
<1>5. QED
  BY <1>2, <1>3, <1>4, BoundsAssumption

LEMMA DrainKept ==
  ASSUME CommandsInv, Drain
  PROVE  CommandsInv'
<1>1. /\ queue' = <<>> /\ ~up' /\ UNCHANGED <<pc, hand, rxSeq, buf, phone, executed>>
  BY DEF Drain, seqVars, history
<1>2. ASSUME NEW j \in Int, Rx(j)'
      PROVE  j = 0 /\ Rx(0) /\ Item(0) = hand /\ Item(j)' = hand /\ FirstRx(0)
  <2>1. Len(queue') = 0
    BY <1>1
  <2>2. j = 0 /\ Rx(0) /\ Item(0) = hand /\ Item(j)' = hand
    BY <1>1, <1>2, <2>1 DEF Rx, Waits, Item
  <2>3. \A k \in Int : k < 0 => ~Rx(k)
    BY DEF Rx, Waits
  <2>4. QED
    BY <2>2, <2>3 DEF FirstRx
<1>3. \A j \in Int : Rx(j)' => Command(Item(j))'
  BY <1>1, <1>2 DEF CommandsInv, Command
<1>4. \A i, j \in Int : ~Adjacent(i, j)'
  BY <1>2 DEF Adjacent
<1>5. ASSUME NEW j \in Int, FirstRx(j)'
      PROVE  Comes(Item(j))'
  <2>1. Comes(Item(0)) /\ Item(0) = hand /\ Item(j)' = hand
    BY <1>2, <1>5 DEF CommandsInv, FirstRx
  <2>2. Comes(hand)
    BY <2>1
  <2>3. PICK g : g = hand
    OBVIOUS
  <2>4. Comes(g) /\ Item(j)' = g
    BY <2>1, <2>2, <2>3
  <2>5. QED
    BY <1>1, <2>4 DEF Comes, Awaits
<1>6. QED
  BY <1>1, <1>3, <1>4, <1>5 DEF CommandsInv

LEMMA ConnectKept ==
  ASSUME TypeOK, Connect, ~FastReconnect
  PROVE  CommandsInv' /\ PhoneInv' /\ ExecutedInOrder'
<1>1. /\ pc = "idle" /\ queue = <<>> /\ pc' = pc /\ Len(queue') = Len(queue)
      /\ rxSeq' = 0 /\ executed' = <<>> /\ phone' = NewPhone
  BY ConnectIs DEF Connect, stackVars
<1>2. /\ Len(queue') = 0 /\ Len(executed') = 0
      /\ phone'.txSeq = 0 /\ phone'.id = 0 /\ phone'.len = 0 /\ phone'.out = 0
  BY <1>1 DEF NewPhone
<1>3. \A j \in Int : ~Rx(j)'
  BY <1>1, <1>2 DEF Rx, Waits
<1>4. UpToDate'
  <2>1. Reached(phone.id, phone.out, phone.len)' = New(1)
    BY <1>2 DEF Reached
  <2>2. New(1).out = 0
    BY Places
  <2>3. PICK p : p = New(1)
    OBVIOUS
  <2>4. Awaits(p)'
    BY <1>2, <2>2, <2>3 DEF Awaits
  <2>5. QED
    BY <1>1, <1>2, <2>1, <2>3, <2>4 DEF UpToDate, Awaits
<1>5. CommandsInv'
  BY <1>3, <1>4 DEF CommandsInv, Adjacent, FirstRx, LastRx
<1>6. PhoneInv'
  BY <1>2, SeqModAssumption, BoundsAssumption DEF PhoneInv
<1>7. QED
  BY <1>2, <1>5, <1>6 DEF ExecutedInOrder

\* A frame of the phone joins those that wait.
LEMMA AddKept ==
  ASSUME TypeOK, CommandsInv, NEW f, f.dir = "rx", queue' = Append(queue, f), up,
         UNCHANGED <<pc, hand, rxSeq, executed, buf>>, phone'.id \in Nat, phone'.id >= phone.id,
         Command(f)', LastSent(f)',
         \A j \in Int : LastRx(j) => Follows(Item(j), f),
         NoRx => Comes(f)
  PROVE  CommandsInv'
<1>1. PICK n : n = Len(queue) + 1
  OBVIOUS
<1>2. /\ n \in Nat /\ n > 0 /\ phone.id \in Nat
      /\ Len(queue') = n /\ queue'[n] = f /\ \A j \in 1..Len(queue) : queue'[j] = queue[j]
  BY <1>1 DEF TypeOK, QueueType, PhoneType, Phones
<1>3. ASSUME NEW j \in Int
      PROVE  /\ j < n => (Rx(j)' <=> Rx(j)) /\ (Rx(j)' => Item(j)' = Item(j))
             /\ Rx(j)' => j <= n
             /\ Rx(j) => j < n
  <2>1. ASSUME j < n PROVE (Rx(j)' <=> Rx(j)) /\ (Rx(j)' => Item(j)' = Item(j))
    <3>1. j \in 1..Len(queue') <=> j \in 1..Len(queue)
      BY <1>1, <1>2, <2>1
    <3>2. QED
      BY <1>2, <3>1 DEF Rx, Waits, Item
  <2>2. Rx(j)' => j <= n
    BY <1>2 DEF Rx, Waits
  <2>3. Rx(j) => j < n
    BY <1>1, <1>2 DEF Rx, Waits
  <2>4. QED
    BY <2>1, <2>2, <2>3
<1>4. Rx(n)' /\ Item(n)' = f
  BY <1>2 DEF Rx, Waits, Item
<1>5. ASSUME NEW j \in Int, Rx(j)'
      PROVE  Command(Item(j))'
  <2>1. CASE j = n
    BY <1>4, <2>1 DEF Command
  <2>2. CASE j # n
    <3>1. Rx(j) /\ Item(j)' = Item(j)
      BY <1>2, <1>3, <1>5, <2>2
    <3>2. Command(Item(j))
      BY <3>1 DEF CommandsInv
    <3>3. QED
      BY <1>2, <3>1, <3>2 DEF Command
  <2>3. QED
    BY <2>1, <2>2
<1>6. ASSUME NEW i \in Int, NEW j \in Int, Adjacent(i, j)'
      PROVE  Follows(Item(i), Item(j))'
  <2>1. Rx(i)' /\ Rx(j)' /\ i < j /\ j <= n /\ \A k \in (i + 1)..(j - 1) : ~Rx(k)'
    BY <1>3, <1>6 DEF Adjacent
  <2>2. Rx(i) /\ Item(i)' = Item(i)
    BY <1>2, <1>3, <2>1
  <2>3. ASSUME NEW k \in (i + 1)..(j - 1) PROVE ~Rx(k)
    BY <1>2, <1>3, <2>1
  <2>4. Follows(Item(i), IF j = n THEN f ELSE Item(j))
    <3>1. CASE j = n
      <4>1. ASSUME NEW k \in Int, k > i PROVE ~Rx(k)
        <5>1. CASE k < n
          <6>1. k \in (i + 1)..(j - 1)
            BY <1>2, <3>1, <4>1, <5>1
          <6>2. QED
            BY <2>3, <6>1
        <5>2. CASE ~(k < n)
          BY <1>3, <5>2
        <5>3. QED
          BY <5>1, <5>2
      <4>2. LastRx(i)
        BY <2>2, <4>1 DEF LastRx
      <4>3. QED
        BY <3>1, <4>2
    <3>2. CASE j # n
      <4>1. Rx(j)
        BY <1>2, <1>3, <2>1, <3>2
      <4>2. Adjacent(i, j)
        BY <2>1, <2>2, <2>3, <4>1 DEF Adjacent
      <4>3. QED
        BY <3>2, <4>2 DEF CommandsInv
    <3>3. QED
      BY <3>1, <3>2
  <2>5. Item(j)' = IF j = n THEN f ELSE Item(j)
    BY <1>2, <1>3, <1>4, <2>1
  <2>6. QED
    BY <2>2, <2>4, <2>5 DEF Follows
<1>7. ASSUME NEW j \in Int, FirstRx(j)'
      PROVE  Comes(Item(j))'
  <2>1. Rx(j)' /\ \A k \in Int : k < j => ~Rx(k)'
    BY <1>7 DEF FirstRx
  <2>2. j <= n
    BY <1>3, <2>1
  <2>3. PICK g : g = IF j = n THEN f ELSE Item(j)
    OBVIOUS
  <2>4. Item(j)' = g
    BY <1>2, <1>3, <1>4, <2>1, <2>2, <2>3
  <2>5. Comes(g)
    <3>1. CASE j = n
      <4>1. NoRx
        BY <1>3, <2>1, <3>1 DEF NoRx
      <4>2. QED
        BY <2>3, <3>1, <4>1
    <3>2. CASE j # n
      <4>1. j < n /\ Rx(j)
        BY <1>2, <1>3, <2>1, <2>2, <3>2
      <4>2. ASSUME NEW k \in Int, k < j PROVE ~Rx(k)
        BY <1>2, <1>3, <2>1, <4>1, <4>2
      <4>3. FirstRx(j)
        BY <4>1, <4>2 DEF FirstRx
      <4>4. QED
        BY <2>3, <3>2, <4>3 DEF CommandsInv
    <3>3. QED
      BY <3>1, <3>2
  <2>6. QED
    BY <2>4, <2>5 DEF Comes, Awaits
<1>8. ASSUME NEW j \in Int, LastRx(j)'
      PROVE  LastSent(Item(j))'
  <2>1. j = n
    BY <1>2, <1>3, <1>4, <1>8 DEF LastRx
  <2>2. QED
    BY <1>4, <2>1 DEF LastSent
<1>9. ~NoRx'
  BY <1>2, <1>4 DEF NoRx
<1>10. QED
  BY <1>5, <1>6, <1>7, <1>8, <1>9 DEF CommandsInv

\* What the phone sent last, and where it goes on.
LEMMA PhoneIs ==
  ASSUME TypeOK, PhoneInv
  PROVE  /\ phone \in Phones /\ phone.id \in Nat /\ phone.len \in Nat /\ phone.out \in Nat
         /\ phone.txSeq \in 0..(SeqMod - 1)
  BY DEF TypeOK, PhoneType, Phones, PhoneInv

LEMMA SendKept ==
  ASSUME TypeOK, PhoneInv, CommandsInv, PhoneSend,
         "nomem" \notin Faults, \A n \in CmdLens : n < BufCap
  PROVE  CommandsInv' /\ PhoneInv' /\ phone'.id >= phone.id
<1>1. /\ phone \in Phones /\ phone.id \in Nat /\ phone.len \in Nat /\ phone.out \in Nat
      /\ phone.txSeq \in 0..(SeqMod - 1) /\ phone.out <= phone.len
  BY PhoneIs DEF PhoneInv
<1>2. /\ up /\ UNCHANGED <<up, pc, hand, rxSeq, executed, buf>>
  BY DEF PhoneSend, linkVars, seqVars
<1>3. PICK len, id, k, f :
        /\ len \in CmdLens
        /\ id = IF phone.out = phone.len THEN phone.id + 1 ELSE phone.id
        /\ k = IF phone.out = phone.len THEN 0 ELSE phone.out
        /\ phone.out # phone.len => len = phone.len
        /\ f = PhoneFrame(phone.txSeq, id, len, k) /\ Received(f)
        /\ phone' = [phone EXCEPT !.txSeq = SeqNext(@), !.id = id, !.len = len, !.out = k + 1]
  BY DEF PhoneSend
<1>4. len \in Nat /\ len > 0 /\ len < BufCap
  BY <1>3, LensAssumption
<1>5. id \in Nat /\ k \in Nat /\ k < len /\ id >= phone.id
  BY <1>1, <1>3, <1>4
<1>6. id > 0
  BY <1>1, <1>3 DEF PhoneInv
<1>7. /\ phone'.txSeq = SeqNext(phone.txSeq) /\ phone'.id = id /\ phone'.len = len /\ phone'.out = k + 1
  BY <1>1, <1>3 DEF Phones
<1>8. /\ SeqNext(phone.txSeq) \in 0..(SeqMod - 1) /\ SeqPrev(SeqNext(phone.txSeq)) = phone.txSeq
      /\ SeqNext(SeqPrev(phone.txSeq)) = phone.txSeq
  BY <1>1, SeqSteps
<1>9. PhoneInv'
  BY <1>4, <1>5, <1>6, <1>7, <1>8 DEF PhoneInv
<1>10. /\ f.dir = "rx" /\ f.seq = phone.txSeq /\ f.id = id /\ f.len = len /\ f.no = k
  BY <1>3 DEF PhoneFrame
<1>11. queue' = Append(queue, f)
  BY <1>3 DEF Received
<1>12. Command(f)'
  BY <1>1, <1>4, <1>5, <1>6, <1>7, <1>10 DEF Command
<1>13. LastSent(f)'
  <2>1. phone'.out - 1 = k
    BY <1>5, <1>7
  <2>2. SeqPrev(phone'.txSeq) = phone.txSeq
    BY <1>7, <1>8
  <2>3. f = PhoneFrame(SeqPrev(phone'.txSeq), phone'.id, phone'.len, phone'.out - 1)
    BY <1>3, <1>7, <2>1, <2>2
  <2>4. (SeqPrev(phone.txSeq))' = SeqPrev(phone'.txSeq)
    BY DEF SeqPrev
  <2>5. QED
    BY <2>3, <2>4 DEF LastSent
<1>14. Reached(id, k, len) = Reached(phone.id, phone.out, phone.len)
  <2>1. CASE phone.out = phone.len
    <3>1. Reached(id, k, len) = New(phone.id + 1)
      BY <1>1, <1>3, <1>4, <2>1, Places DEF Reached
    <3>2. QED
      BY <1>1, <2>1, <3>1 DEF Reached
  <2>2. CASE phone.out # phone.len
    BY <1>3, <2>2
  <2>3. QED
    BY <2>1, <2>2
<1>15. ASSUME NEW j \in Int, LastRx(j)
       PROVE  Follows(Item(j), f)
  <2>1. PICK g : g = Item(j)
    OBVIOUS
  <2>2. LastSent(g)
    BY <1>2, <1>15, <2>1 DEF CommandsInv
  <2>3. g.seq = SeqPrev(phone.txSeq) /\ g.id = phone.id /\ g.len = phone.len /\ g.no = phone.out - 1
    BY <2>2 DEF LastSent, PhoneFrame
  <2>4. g.no + 1 = phone.out
    BY <1>1, <2>3
  <2>5. f.seq = SeqNext(g.seq) /\ Reached(f.id, f.no, f.len) = Reached(g.id, g.no + 1, g.len)
    BY <1>8, <1>10, <1>14, <2>3, <2>4
  <2>6. QED
    BY <2>1, <2>5 DEF Follows
<1>16. ASSUME NoRx PROVE Comes(f)
  <2>1. UpToDate
    BY <1>2, <1>16 DEF CommandsInv
  <2>2. QED
    BY <1>10, <1>14, <2>1 DEF UpToDate, Comes
<1>17. phone'.id \in Nat /\ phone'.id >= phone.id
  BY <1>5, <1>7
<1>18. CommandsInv'
  BY <1>2, <1>10, <1>11, <1>12, <1>13, <1>15, <1>16, <1>17, AddKept
<1>19. QED
  BY <1>9, <1>17, <1>18

LEMMA RepeatKept ==
  ASSUME TypeOK, PhoneInv, CommandsInv, PhoneRepeat, "nomem" \notin Faults
  PROVE  CommandsInv'
<1>1. /\ phone.id \in Nat /\ phone.len \in Nat /\ phone.out \in Nat
      /\ phone.txSeq \in 0..(SeqMod - 1) /\ phone.out <= phone.len /\ phone.len < BufCap
  BY PhoneIs DEF PhoneInv
<1>2. /\ up /\ UNCHANGED <<up, pc, hand, rxSeq, executed, buf, phone>>
      /\ phone.out > 0 /\ phone.id > 0
  BY <1>1 DEF PhoneRepeat, PhoneInv, linkVars, seqVars
<1>3. PICK f : f = PhoneFrame(SeqPrev(phone.txSeq), phone.id, phone.len, phone.out - 1) /\ Received(f)
  BY DEF PhoneRepeat
<1>4. /\ f.dir = "rx" /\ f.seq = SeqPrev(phone.txSeq) /\ f.id = phone.id
      /\ f.len = phone.len /\ f.no = phone.out - 1
  BY <1>3 DEF PhoneFrame
<1>5. SeqPrev(phone.txSeq) \in 0..(SeqMod - 1) /\ SeqNext(SeqPrev(phone.txSeq)) = phone.txSeq
  BY <1>1, SeqSteps
<1>6. queue' = Append(queue, f)
  BY <1>3 DEF Received
<1>7. Command(f)'
  BY <1>1, <1>2, <1>4, <1>5, BoundsAssumption DEF Command
<1>8. LastSent(f) /\ LastSent(f)'
  BY <1>2, <1>3 DEF LastSent
<1>9. ASSUME NEW j \in Int, LastRx(j)
      PROVE  Follows(Item(j), f)
  <2>1. LastSent(Item(j))
    BY <1>2, <1>9 DEF CommandsInv
  <2>2. QED
    BY <1>8, <2>1 DEF LastSent, Follows
<1>10. ASSUME NoRx PROVE Comes(f)
  <2>1. UpToDate
    BY <1>2, <1>10 DEF CommandsInv
  <2>2. f.no + 1 = phone.out
    BY <1>1, <1>4
  <2>3. QED
    BY <1>4, <1>5, <2>1, <2>2 DEF UpToDate, Comes
<1>11. phone'.id \in Nat /\ phone'.id >= phone.id
  BY <1>1, <1>2
<1>12. QED
  BY <1>2, <1>4, <1>6, <1>7, <1>8, <1>9, <1>10, <1>11, AddKept

LEMMA DoneInit ==
  ASSUME Init
  PROVE  DoneInv
<1>1. /\ ~up /\ pc = "idle" /\ Len(queue) = 0 /\ Len(executed) = 0
      /\ phone.txSeq = 0 /\ phone.id = 0 /\ phone.len = 0 /\ phone.out = 0
  <2>1. queue = <<>> /\ executed = <<>> /\ phone = NewPhone /\ pc = "idle"
    BY DEF Init
  <2>2. up = FALSE
    BY DEF Init
  <2>3. QED
    BY <2>1, <2>2 DEF NewPhone
<1>2. \A j \in Int : ~Rx(j)
  BY <1>1 DEF Rx, Waits
<1>3. CommandsInv
  BY <1>1, <1>2 DEF CommandsInv, Adjacent, FirstRx
<1>4. PhoneInv
  BY <1>1, SeqModAssumption, BoundsAssumption DEF PhoneInv
<1>5. QED
  BY <1>1, <1>3, <1>4 DEF DoneInv, ExecutedInOrder

\* The history of the commands, while none is executed.
LEMMA SameDone ==
  ASSUME TypeOK, ExecutedInOrder, executed' = executed, phone'.id \in Nat, phone'.id >= phone.id
  PROVE  ExecutedInOrder'
<1>1. phone.id \in Nat /\ executed \in Seq(Nat) /\ Len(executed) \in Nat
  BY DEF TypeOK, PhoneType, Phones, HistoryType
<1>2. ASSUME NEW i \in 1..Len(executed)
      PROVE  executed[i] \in (IF i = 1 THEN 1 ELSE executed[i - 1] + 1)..phone'.id
  <2>1. i # 1 => i - 1 \in 1..Len(executed)
    BY <1>1
  <2>2. i # 1 => executed[i - 1] \in Nat
    BY <1>1, <2>1
  <2>3. QED
    BY <1>1, <2>2 DEF ExecutedInOrder
<1>3. QED
  BY <1>2 DEF ExecutedInOrder

LEMMA DoneStep ==
  ASSUME TypeOK, TypeOK', DoneInv, [Next]_vars,
         ~FastReconnect, Faults \cap {"crc", "nomem"} = {}, \A n \in CmdLens : n < BufCap
  PROVE  DoneInv'
<1>1. PhoneInv /\ CommandsInv /\ ExecutedInOrder /\ "crc" \notin Faults /\ "nomem" \notin Faults
  BY DEF DoneInv
<1>2. ASSUME SamePhone PROVE PhoneInv'
  BY <1>1, <1>2 DEF PhoneInv, SamePhone
<1>3. ASSUME SamePhone, executed' = executed PROVE ExecutedInOrder'
  BY <1>1, <1>3 DEF ExecutedInOrder, SamePhone
<1>4. CASE \/ WifiEvent \/ Get \/ TxDrop \/ TxSend \/ TxFull \/ TxNotConnected \/ Sent \/ Timeout
           \/ MtuExchange \/ LinkDown \/ Disconnected \/ SentCallback \/ Deliver \/ UNCHANGED vars
  <2>1. CommandsInv'
    BY <1>1, <1>4, MoveKept
  <2>2. SamePhone /\ executed' = executed
    BY <1>4, MoveSame
  <2>3. QED
    BY <1>2, <1>3, <2>1, <2>2 DEF DoneInv
<1>5. CASE RxDrop
  <2>1. Taken /\ executed' = executed
    BY <1>1, <1>5, DropTaken DEF RxDrop, history
  <2>2. CommandsInv' /\ SamePhone
    BY <1>1, <2>1, TakenKept DEF Taken
  <2>3. QED
    BY <1>2, <1>3, <2>1, <2>2 DEF DoneInv
<1>6. CASE RxAccept
  <2>1. Taken /\ ExecutedInOrder'
    BY <1>1, <1>6, AcceptTaken
  <2>2. CommandsInv' /\ SamePhone
    BY <1>1, <2>1, TakenKept DEF Taken
  <2>3. QED
    BY <1>2, <2>1, <2>2 DEF DoneInv
<1>7. CASE Drain
  <2>1. CommandsInv' /\ SamePhone /\ executed' = executed
    BY <1>1, <1>7, DrainKept DEF Drain, history, SamePhone
  <2>2. QED
    BY <1>2, <1>3, <2>1 DEF DoneInv
<1>8. CASE Connect
  BY <1>8, ConnectKept DEF DoneInv
<1>9. CASE PhoneSend
  <2>1. CommandsInv' /\ PhoneInv' /\ phone'.id >= phone.id
    BY <1>1, <1>9, SendKept
  <2>2. phone'.id \in Nat /\ executed' = executed
    BY <1>9 DEF PhoneSend, TypeOK, PhoneType, Phones
  <2>3. QED
    BY <1>1, <2>1, <2>2, SameDone DEF DoneInv
<1>10. CASE PhoneRepeat
  <2>1. CommandsInv' /\ SamePhone /\ executed' = executed
    BY <1>1, <1>10, RepeatKept DEF PhoneRepeat, SamePhone
  <2>2. QED
    BY <1>2, <1>3, <2>1 DEF DoneInv
<1>11. ~RxError
  BY <1>1, NoError
<1>12. QED
  BY <1>4, <1>5, <1>6, <1>7, <1>8, <1>9, <1>10, <1>11 DEF Next, Thread

(* The device executes the commands of the phone whole, once each and in   *)
(* order, whatever frames are repeated and whenever the link breaks, when  *)
(* no frame is lost or damaged between the stack and the thread and every  *)
(* command fits the buffer. (wps_proto_rx_process: rx_seq,                 *)
(* proto_cmd_buffer; bt_connected_cb, bt_disconnected_cb.)                 *)
THEOREM CommandsInOrder ==
  ~FastReconnect /\ Faults \cap {"crc", "nomem"} = {} /\ (\A n \in CmdLens : n < BufCap)
    => (Spec => []ExecutedInOrder)
<1> SUFFICES ASSUME ~FastReconnect, Faults \cap {"crc", "nomem"} = {}, \A n \in CmdLens : n < BufCap
             PROVE  Spec => []ExecutedInOrder
  OBVIOUS
<1>1. Init => DoneInv
  BY DoneInit
<1>2. TypeOK /\ TypeOK' /\ DoneInv /\ [Next]_vars => DoneInv'
  BY DoneStep
<1>3. DoneInv => ExecutedInOrder
  BY DEF DoneInv
<1>4. QED
  BY <1>1, <1>2, <1>3, TransportTypeCorrect, PTL DEF Spec

=============================================================================
