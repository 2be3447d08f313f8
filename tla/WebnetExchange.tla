---------------------------- MODULE WebnetExchange ----------------------------
(***************************************************************************)
(* What a session promises about one request, whatever packets it came in: *)
(* the handler hears what the client asked, an upload's file grows as a    *)
(* part of the file that was sent and is whole when the upload is reported *)
(* done, and each of these happens once.  An exchange may be abandoned;    *)
(* then nothing is promised about the file.                                *)
(***************************************************************************)
EXTENDS Naturals, Sequences

CONSTANTS Asks, Meaning, FileOf, IsUpload(_), Nothing

VARIABLES ask, heard, saved, over

vars == <<ask, heard, saved, over>>

Init == ask \in Asks /\ heard = Nothing /\ saved = <<>> /\ over = "no"

Hear == over = "no" /\ heard = Nothing /\ heard' = Meaning[ask] /\ UNCHANGED ask

\* A handler that answers, and an upload that begins.
Answer == Hear /\ ~IsUpload(ask) /\ over' = "done" /\ UNCHANGED saved
Begin  == Hear /\ IsUpload(ask) /\ UNCHANGED <<saved, over>>

Grow == /\ over = "no" /\ heard # Nothing /\ IsUpload(ask)
        /\ \E n \in Len(saved) + 1..Len(FileOf[ask]) : saved' = SubSeq(FileOf[ask], 1, n)
        /\ UNCHANGED <<ask, heard, over>>

Finish == /\ over = "no" /\ heard # Nothing /\ IsUpload(ask)
          /\ saved' = FileOf[ask] /\ over' = "done" /\ UNCHANGED <<ask, heard>>

Abandon == over = "no" /\ over' = "abandoned" /\ saved' = <<>> /\ heard' = Nothing /\ UNCHANGED ask

Next == Answer \/ Begin \/ Grow \/ Finish \/ Abandon
Spec == Init /\ [][Next]_vars
=============================================================================
