---------------------------- MODULE WebnetReceive ----------------------------
(***************************************************************************)
(* One connection from its first byte to its answer: the client sends a    *)
(* request in packets cut anywhere, the session reads what has arrived and *)
(* parses it, and the request is answered or its upload is taken apart.    *)
(*                                                                         *)
(* The session's place in the server's list and the answers themselves are *)
(* in WebnetServer.                                                        *)
(***************************************************************************)
EXTENDS WebnetUpload

CONSTANTS
  Asks,        \* requests a client may make
  UploadUrl    \* the url of the one upload entry

VARIABLES
  ask,    \* the request this connection carries
  sent,   \* cells that have arrived
  got,    \* cells that were read
  gone,   \* the client has closed
  s,      \* the session
  up,     \* its upload session
  split   \* history: a boundary's line end was read without the boundary and written

vars == <<ask, sent, got, gone, s, up, split>>

-----------------------------------------------------------------------------
(* What a client sends and what it means by it.  A request has fields for  *)
(* its query, its headers in order, and form fields or parts for its body. *)

Encoded(v) ==
  LET from[i \in 1..Len(v) + 1] ==
        IF i > Len(v) THEN <<>>
        ELSE (CASE v[i] = SP -> <<"+">> [] v[i] = "&" -> <<"%", "2", "6">>
                [] v[i] = "=" -> <<"%", "3", "D">> [] OTHER -> <<v[i]>>) \o from[i + 1]
  IN from[1]

FieldText(f) == f.name \o (IF f.value = Nil THEN <<>> ELSE <<"=">> \o Encoded(f.value))
FormText(fs) ==
  LET upto[k \in 0..Len(fs)] ==
        IF k = 0 THEN <<>> ELSE upto[k - 1] \o (IF k > 1 THEN <<"&">> ELSE <<>>) \o FieldText(fs[k])
  IN upto[Len(fs)]

PartText(p) == (IF p.file THEN <<"file">> \o CRLF \o <<"type">> ELSE <<"field">>) \o CRLF \o CRLF \o p.data
PartsText(ps) ==
  LET upto[k \in 1..Len(ps)] == (IF k = 1 THEN FIRST ELSE upto[k - 1] \o NORMAL) \o PartText(ps[k])
  IN upto[Len(ps)] \o LAST

BodyText(r) == IF r.parts # <<>> THEN PartsText(r.parts) ELSE FormText(r.form)

HeadText(r) ==
  LET header(k) == <<r.headers[k].name, SP>> \o r.headers[k].value \o CRLF
      upto[k \in 0..Len(r.headers)] == IF k = 0 THEN <<>> ELSE upto[k - 1] \o header(k)
  IN <<r.method>> \o r.path \o (IF r.query = <<>> THEN <<>> ELSE <<"?">> \o FormText(r.query))
     \o <<SP, r.version>> \o CRLF \o upto[Len(r.headers)] \o CRLF

Wire == [r \in Asks |-> HeadText(r) \o BodyText(r)]

\* The file of an upload: the data of its file parts.
FileParts(r) == {k \in DOMAIN r.parts : r.parts[k].file}
FileOf == [r \in Asks |-> IF FileParts(r) = {} THEN <<>> ELSE r.parts[Min(FileParts(r))].data]

HeaderOf(r, name) == LET ks == {k \in DOMAIN r.headers : r.headers[k].name = name}
                     IN IF ks = {} THEN Nil ELSE r.headers[Min(ks)].value
LengthOf(r) == LET v == HeaderOf(r, "Content-Length:") IN IF v = Nil THEN 0 ELSE atoi(v)
TypeIs(r, t) == LET v == HeaderOf(r, "Content-Type:") IN v # Nil /\ BeginsAt(v, 1, <<t>>)

\* The fields a handler can ask for are the form's, or the query's when the
\* body is not declared a form or too long for one.  A body that is read and
\* no form leaves it with freed ones (see README).
IsForm(r)     == TypeIs(r, "form")
BodyIsRead(r) == r.method = "POST" /\ LengthOf(r) \in 1..PostMax - 1 /\ ~TypeIs(r, "multipart")
FieldsOf(r)   == IF ~BodyIsRead(r) \/ (r.query = <<>> /\ ~IsForm(r)) THEN r.query
                 ELSE IF IsForm(r) THEN r.form ELSE Freed
Meaning == [r \in Asks |-> [method |-> r.method, file |-> r.file, fields |-> FieldsOf(r)]]

IsUpload(r) == r.method = "POST" /\ r.path = UploadUrl

\* Requests that are refused without an answer, and those whose head does not
\* fit the buffer.
Refused(r)  == r.method \notin MethodWords \/ r.version # "HTTP/1"
Oversize(r) == Len(HeadText(r)) > BufSize

FormField == [name : Text, value : {Nil} \cup Text]
Request == [method : Cells, path : Text, query : Seq(FormField), version : Cells,
            headers : Seq([name : Cells, value : Text]), form : Seq(FormField),
            parts : Seq([file : BOOLEAN, data : Text]), file : Text]

\* A field's name and value have nothing in them that their encoding leaves
\* alone and a parser takes for a mark.
Without(v, marks) == \A k \in DOMAIN v : v[k] \notin marks
FieldsFit(fs) ==
  \A k \in DOMAIN fs :
    /\ fs[k].name # <<>> /\ Without(fs[k].name, {NUL, CR, SP, "&", "="})
    /\ fs[k].value # Nil => Without(fs[k].value, {NUL, CR, "+", "%"})

\* The head is one of HTTP, with each header once.
HeadFits(r) ==
  /\ Without(r.path, {NUL, CR, SP, "?"}) /\ FieldsFit(r.query) /\ FieldsFit(r.form)
  /\ \A k \in DOMAIN r.headers :
       /\ r.headers[k].name \notin {NUL, CR}
       /\ Without(r.headers[k].value, {NUL, CR}) /\ CharAt(r.headers[k].value, 1) # SP
       /\ \A j \in DOMAIN r.headers : r.headers[j].name = r.headers[k].name => j = k

\* The head says what the body is.  A form is posted with its length, parts
\* are posted as an upload.
BodyFits(r) ==
  /\ LengthOf(r) \in {0, Len(BodyText(r))}
  /\ IsForm(r) => r.method = "POST" /\ r.form # <<>> /\ LengthOf(r) = Len(BodyText(r))
  /\ IsUpload(r) <=> r.parts # <<>>
  /\ IsUpload(r) => TypeIs(r, "multipart")

\* The client chose a boundary that no part has in it, and the line that names
\* a file is in the heads of the file parts only.
PartsFit(r) ==
  /\ Without(HeadText(r) \o FormText(r.form), {"file"})
  /\ \A k \in DOMAIN r.parts : Without(r.parts[k].data, {"file"}) /\ ~HasFrom(r.parts[k].data, 1, Boundary)

ASSUME NilAssumption == Nil \notin Text /\ Nil \notin [method : Cells, file : Text, fields : Seq(FormField)]

ASSUME AsksAssumption ==
  Asks \subseteq Request /\ \A r \in Asks : HeadFits(r) /\ BodyFits(r) /\ PartsFit(r)

-----------------------------------------------------------------------------
TypeOK ==
  /\ ask \in Asks /\ sent \in 0..Len(Wire[ask]) /\ got \in 0..sent
  /\ gone \in BOOLEAN /\ split \in BOOLEAN
  /\ s.phase \in {"METHOD", "HEADER", "QUERY", "RESPONSE", "CLOSE", "FAULT"}
  /\ s.ops \in {"default", "upload", "none"}
  /\ s.off \in 0..Len(s.buf) /\ Len(s.buf) <= BufSize
  /\ s.req.qoff \in 0..s.req.clen
  /\ up.state \in {"more", "wait", "close", "fault"} /\ up.done \in 0..1

Init ==
  /\ ask \in Asks /\ sent = 0 /\ got = 0 /\ gone = FALSE
  /\ s = NewSession /\ up = NewUpload /\ split = FALSE

\* What a recvfrom with so much room returns; nothing when the client is gone.
Next1(room) == SubSeq(Wire[ask], got + 1, Min({sent, got + room}))
Readable == sent > got \/ gone

\* webnet_module_handle_uri: an upload starts on what was received and is left;
\* any other request gets its path under the root normalised, is answered at
\* once, and its session ends.
Dispatched(t) ==
  CASE t.phase # "RESPONSE" -> t
    [] t.phase = "RESPONSE" /\ t.req.method = "POST" /\ t.req.path = UploadUrl ->
         [Trimmed(t) EXCEPT !.ops = "upload"]
    [] OTHER -> [t EXCEPT !.ops = "none", !.req.path = str_normalize_path(<<"/", "/">> \o @).text]

ReadRequest ==
  /\ s.ops = "default" /\ Readable
  /\ LET cells == Next1(BufSize - s.off)
     IN /\ \E t \in Outcomes(HandleRead(s, cells)) :
             s' = IF t.phase = "CLOSE" THEN [t EXCEPT !.ops = "none"] ELSE Dispatched(t)
        /\ got' = got + Len(cells)
  /\ UNCHANGED <<ask, sent, gone, up, split>>

\* A boundary's line end at the end of what was read, and the boundary still
\* to come.
EndsBeforeBoundary(n) ==
  n >= 2 /\ SubSeq(Wire[ask], n - 1, n) = CRLF /\ BeginsAt(Wire[ask], n + 1, Boundary)

\* _webnet_module_upload_handle: with the last boundary in the buffer nothing
\* is read; otherwise a read that fails ends the session, after what is left
\* was looked at.
ReadUpload ==
  LET whole == HasFrom(s.buf, 1, LAST)
      cells == IF whole THEN <<>> ELSE Next1(BufSize - s.off - 1)
      b     == s.buf \o cells
      v     == UploadLoop(up, b)
      ends  == v.state = "close" \/ (cells = <<>> /\ ~whole)
      lost  == v.state = "fault" \/ Endless(v, b)
      rest  == SubSeq(b, v.at, Len(b))
  IN /\ s.ops = "upload" /\ (Readable \/ whole)
     /\ got' = got + Len(cells)
     /\ up' = IF ends /\ ~lost THEN UploadClose(v) ELSE v
     /\ s' = IF lost THEN Fault(s)
             ELSE IF ends THEN [s EXCEPT !.phase = "CLOSE", !.ops = "none"]
             ELSE [s EXCEPT !.buf = rest, !.off = Len(rest)]
     /\ split' = (split \/ (rest = <<>> /\ EndsBeforeBoundary(got + Len(cells))))
     /\ UNCHANGED <<ask, sent, gone>>

\* The two places where a request must not be cut (see README): its headers
\* were ended by a line end left behind in the buffer, or a boundary's line
\* end was taken for data.
Miscut == s.stale \/ split

\* The client: cells that arrive before a read belong to the packet before
\* them, so the next packet comes when the last one was read.  Bound: nothing
\* more is sent on a connection that was cut where it must not be.
Send ==
  /\ ~gone /\ s.ops # "none" /\ sent = got /\ ~Miscut
  /\ \E n \in sent + 1..Len(Wire[ask]) : sent' = n
  /\ UNCHANGED <<ask, got, gone, s, up, split>>

Leave ==
  /\ ~gone /\ s.ops # "none"
  /\ gone' = TRUE /\ UNCHANGED <<ask, sent, got, s, up, split>>

Next == ReadRequest \/ ReadUpload \/ Send \/ Leave

Spec == Init /\ [][Next]_vars

-----------------------------------------------------------------------------
(* Properties.                                                             *)

Answered == s.phase = "RESPONSE" /\ s.ops = "none"
Heard == IF s.phase = "RESPONSE" \/ s.ops = "upload" \/ up.done = 1
         THEN [method |-> s.req.method, file |-> s.req.path, fields |-> s.req.items]
         ELSE Nil
Over == CASE Miscut \/ s.phase = "FAULT" \/ (s.phase = "CLOSE" /\ up.done = 0) -> "abandoned"
          [] Answered \/ up.done = 1 -> "done"
          [] OTHER -> "no"

\* However a request is cut into packets (but for the two places of Miscut),
\* its handler hears the method, the file and the fields the client meant (but
\* for a query in front of a body that is no form: its fields are gone), an
\* upload writes a part of the file that was sent and nothing else, and is
\* reported done once, when all of it is written.
Exchange == INSTANCE WebnetExchange WITH
  ask <- ask, heard <- IF Over = "abandoned" THEN Nil ELSE Heard,
  saved <- IF Over = "abandoned" THEN <<>> ELSE up.file, over <- Over, Nothing <- Nil
ImplementsExchange == Exchange!Spec

\* The upload entry's calls pair up: a file is opened at most once per file
\* part, closed as often as it was opened when the session ends, whatever the
\* client does, and not closed twice.
FilesPaired ==
  /\ up.opens = up.closes + (IF up.opened THEN 1 ELSE 0)
  /\ up.opens <= Cardinality(FileParts(ask))
  /\ s.ops = "none" /\ s.phase # "FAULT" => ~up.opened

\* No request waits once it was read to its end: it is answered, or its
\* upload reported done, with the last of its cells.  Not those that are
\* refused without an answer or too long for the buffer, and not one that was
\* cut where it must not be.  (An upload that was whole when it began is done
\* in the same event.)
CompleteIsServed ==
  got = Len(Wire[ask]) =>
    \/ Over # "no" \/ Refused(ask) \/ Oversize(ask)
    \/ s.ops = "upload" /\ up = NewUpload /\ HasFrom(s.buf, 1, LAST)
=============================================================================
