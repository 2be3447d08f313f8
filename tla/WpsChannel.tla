----------------------------- MODULE WpsChannel -----------------------------
(***************************************************************************)
(* What the BLE provisioning service promises the phone: over one          *)
(* connection the messages of the device arrive whole, once each and in    *)
(* the order the device sent them, and as long as the connection stays     *)
(* every one of them arrives.  Messages are numbered from 1 in every       *)
(* connection.                                                             *)
(***************************************************************************)
EXTENDS Naturals, Sequences

VARIABLES up, sent, received

vars == <<up, sent, received>>

Init == up = FALSE /\ sent = 0 /\ received = <<>>

Open == ~up /\ up' = TRUE /\ sent' = 0 /\ received' = <<>>

Close == up /\ up' = FALSE /\ UNCHANGED <<sent, received>>

Send(n) == up /\ sent' = sent + n /\ UNCHANGED <<up, received>>

Receive ==
  /\ up /\ Len(received) < sent
  /\ received' = Append(received, Len(received) + 1)
  /\ UNCHANGED <<up, sent>>

Next == Open \/ Close \/ Receive \/ \E n \in 1..2 : Send(n)

Spec == Init /\ [][Next]_vars

FairSpec == Spec /\ WF_vars(Receive)
=============================================================================
