----------------------------- MODULE WebnetUpload -----------------------------
(***************************************************************************)
(* The upload module, wn_module_upload.c: a multipart body is taken apart  *)
(* in the session's buffer while it arrives.  A part with a file name and  *)
(* a type goes to the upload entry (open, write, close), any other part is *)
(* a form field.                                                           *)
(*                                                                         *)
(* b is the buffer up to what was received: the code terminates it there.  *)
(* An upload is a record: at is upload_buffer, filename and content_type   *)
(* say which part the next data belongs to.                                *)
(***************************************************************************)
EXTENDS WebnetRequest

Boundary == <<"--b1", "b2">>
FIRST    == Boundary \o CRLF
COMMON   == CRLF \o Boundary
NORMAL   == COMMON \o CRLF
LAST     == COMMON \o <<"--">> \o CRLF

\* Less than this is not looked at before more has arrived.
Third == BufSize \div 3

\* file holds what the entry was given to write.
NewUpload ==
  [at |-> 1, filename |-> FALSE, ctype |-> FALSE, fields |-> <<>>, opened |-> FALSE,
   file |-> <<>>, opens |-> 0, closes |-> 0, done |-> 0, state |-> "more"]

\* memstrs: t somewhere from i on.
HasFrom(b, i, t) == \E j \in i..Len(b) : BeginsAt(b, j, t)

-----------------------------------------------------------------------------
(* _webnet_module_upload_parse_header                                      *)

\* Where a header behind a boundary starts, 0 when there is no boundary.
HeaderAt(b, i) ==
  CASE BeginsAt(b, i, NORMAL) -> i + Len(NORMAL)
    [] BeginsAt(b, i, FIRST)  -> i + Len(FIRST)
    [] OTHER                  -> 0

\* The header lines from i to the empty line.
PartLines(b, i) ==
  LET from[j \in 1..Len(b) + 1] ==
        IF j > Len(b) \/ BeginsAt(b, j, CRLF) \/ FindFrom(b, j, CRLF) = 0 THEN <<>>
        ELSE <<j>> \o from[FindFrom(b, j, CRLF) + 2]
  IN from[i]

PartEnd(b, i) == LET lines == PartLines(b, i)
                 IN IF lines = <<>> THEN i ELSE FindFrom(b, lines[Len(lines)], CRLF) + 2

\* "field" and "file" are Content-Disposition lines, with and without a file name.
PartHas(b, i, names) == \E k \in DOMAIN PartLines(b, i) : b[PartLines(b, i)[k]] \in names

\* A part's header replaces the file name and the type and adds a field whose
\* value is not known yet.  A line that does not end is cut off through NULL;
\* a header that stops behind a line only forgets the file before it.
WithHeader(u, b, i) ==
  LET end == PartEnd(b, i)
      in_file == u.filename /\ u.ctype
  IN CASE BeginsAt(b, end, CRLF) ->
            [u EXCEPT !.filename = PartHas(b, i, {"file"}), !.ctype = PartHas(b, i, {"type"}), !.at = end + 2,
                      !.fields = IF PartHas(b, i, {"field", "file"}) THEN Append(@, Nil) ELSE @]
       [] ~BeginsAt(b, end, CRLF) /\ end > Len(b) ->
            [u EXCEPT !.filename = @ /\ ~in_file, !.ctype = @ /\ ~in_file, !.at = end]
       [] OTHER -> [u EXCEPT !.state = "fault"]

\* A file is opened when its part begins, once, and closed when a part that
\* is no file begins.
OpenOrClose(u) ==
  IF u.filename /\ u.ctype
  THEN IF u.opened THEN u ELSE [u EXCEPT !.opened = TRUE, !.opens = @ + 1]
  ELSE IF u.opened THEN [u EXCEPT !.opened = FALSE, !.closes = @ + 1] ELSE u

-----------------------------------------------------------------------------
(* Data.                                                                   *)

\* Slip: a boundary that is only begun is data.
NextWhole(b, i) ==
  LET whole == {j \in i..Len(b) : BeginsAt(b, j, COMMON)} IN IF whole = {} THEN 0 ELSE Min(whole)

\* _next_possible_boundary: a boundary, or the last '\r' when what follows
\* may become one; 0 when everything is data.
NextBoundary(b, i) ==
  LET whole == {j \in i..Len(b) : BeginsAt(b, j, COMMON)}
      crs   == {j \in i..Len(b) : b[j] = CR}
      last  == Max(crs)
      tail  == SubSeq(b, last + 2, Len(b))
  IN CASE whole # {} -> Min(whole)
       [] whole = {} /\ crs = {} -> 0
       [] OTHER -> IF last = Len(b) THEN last
                   ELSE IF last = Len(b) - 1 /\ b[Len(b)] = LF THEN 0
                   ELSE IF IsPrefix(tail, Boundary) THEN last ELSE 0

\* _handle_section: the data up to j - 1.  A field takes its value up to a
\* line end inside the data; without a field the value goes in front of the
\* array, which is not there yet.
Section(u, b, j) ==
  LET data == SubSeq(b, u.at, j - 1)
      ends == {k \in 1..Len(data) - 1 : SubSeq(data, k, k + 1) = CRLF}
  IN IF u.filename /\ u.ctype /\ data # <<>> THEN [u EXCEPT !.file = @ \o data, !.at = j]
     ELSE IF ends = {} THEN [u EXCEPT !.at = j]
     ELSE IF u.fields = <<>> THEN [u EXCEPT !.at = j, !.state = "fault"]
     ELSE [u EXCEPT !.fields = [@ EXCEPT ![Len(@)] = SubSeq(data, 1, Min(ends) - 1)], !.at = j]

Data(u, b) == Section(u, b, IF NextBoundary(b, u.at) = 0 THEN Len(b) + 1 ELSE NextBoundary(b, u.at))

-----------------------------------------------------------------------------
(* _webnet_module_upload_handle: the loop over the buffer.                 *)

Part(u, b) == IF u.state = "fault" THEN u ELSE Data(OpenOrClose(u), b)

\* Slip: the last boundary is not looked for in a short rest.
UploadStepShort(u, b) ==
  CASE u.state # "more" \/ u.at > Len(b) -> u
    [] OTHER ->
       IF (Len(b) + 1) - u.at < Third THEN [u EXCEPT !.state = "wait"]
       ELSE IF BeginsAt(b, u.at, LAST) THEN [u EXCEPT !.done = @ + 1, !.state = "close"]
       ELSE IF HeaderAt(b, u.at) # 0 THEN Part(WithHeader(u, b, HeaderAt(b, u.at)), b)
       ELSE Data(u, b)

UploadStep(u, b) ==
  CASE u.state # "more" \/ u.at > Len(b) -> u
    [] OTHER ->
       IF BeginsAt(b, u.at, LAST) THEN [u EXCEPT !.done = @ + 1, !.state = "close"]
       ELSE IF (Len(b) + 1) - u.at < Third /\ ~HasFrom(b, u.at, LAST) THEN [u EXCEPT !.state = "wait"]
       ELSE IF HeaderAt(b, u.at) # 0 THEN Part(WithHeader(u, b, HeaderAt(b, u.at)), b)
       ELSE Data(u, b)

\* Each round takes something off the buffer, or the loop never ends: text
\* that begins like a boundary and is none is neither a part nor data.
UploadLoop(u, b) ==
  LET run[k \in 0..Len(b)] ==
        IF k = 0 THEN [u EXCEPT !.at = 1, !.state = "more"] ELSE UploadStep(run[k - 1], b)
  IN run[Len(b)]

Endless(u, b) == u.state = "more" /\ u.at <= Len(b)

\* Slip: the file of a broken upload stays open.
UploadCloseNot(u) == u

\* _webnet_module_upload_close
UploadClose(u) == IF u.opened THEN [u EXCEPT !.opened = FALSE, !.closes = @ + 1] ELSE u
=============================================================================
