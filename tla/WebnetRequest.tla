----------------------------- MODULE WebnetRequest -----------------------------
(***************************************************************************)
(* A session's buffer and the parsers of wn_request.c, as operators on a   *)
(* session record.  The parsers work on the buffer as a C string: they     *)
(* stop at a NUL or where the buffer was never written, and not at         *)
(* buffer_offset.  memmove leaves behind what it moved.                    *)
(***************************************************************************)
EXTENDS WebnetText

CONSTANTS
  BufSize,  \* WEBNET_SESSION_BUFSZ
  PostMax   \* POST_BUFSZ_MAX

ASSUME BufferAssumption == BufSize \in Nat \ {0} /\ PostMax \in Nat

MethodWords == {"GET", "POST", "HEAD"}  \* of methods[], with their space
Numerals == <<"0", "1", "2", "3", "4", "5", "6", "7", "8", "9">>
DigitOf(c) == CHOOSE d \in 0..9 : Numerals[d + 1] = c

\* atoi of a header's value: up to the first cell that is no digit.
atoi(v) ==
  LET ends == {i \in DOMAIN v : v[i] \notin Range(Numerals)}
      upto == IF ends = {} THEN Len(v) ELSE Min(ends) - 1
      value[k \in 0..upto] == IF k = 0 THEN 0 ELSE 10 * value[k - 1] + DigitOf(v[k])
  IN value[upto]

\* webnet_request_create, and the default of webnet_sessions_handle_fds.
NewRequest ==
  [method |-> Nil, path |-> Nil, query |-> Nil, items |-> <<>>, clen |-> 0, ctype |-> Nil,
   host |-> Nil, code |-> 200, qoff |-> 0]

NewSession == [buf |-> <<>>, off |-> 0, phase |-> "METHOD", ops |-> "default", req |-> NewRequest,
               stale |-> FALSE, undefined |-> FALSE]

\* The thread is lost.
Fault(s) == [s EXCEPT !.phase = "FAULT", !.ops = "none"]

\* What a step that met undefined behaviour may lead to.
Outcomes(s) == IF s.undefined THEN {[s EXCEPT !.undefined = FALSE], Fault(s)} ELSE {s}

-----------------------------------------------------------------------------
(* The buffer.                                                             *)

\* recvfrom into the buffer behind the offset.
Received(s, cells) ==
  [s EXCEPT !.buf = SubSeq(@, 1, s.off) \o cells \o SubSeq(@, s.off + Len(cells) + 1, Len(@)),
            !.off = @ + Len(cells)]

\* Slip: the offset is not taken back.
ConsumeKept(s, n) == IF n = 0 THEN s ELSE [s EXCEPT !.buf = SubSeq(@, n + 1, Len(@))]

\* Consume n cells.  What is left moves to the front, and the cells it comes
\* from stay; when nothing is left nothing moves.
Consume(s, n) ==
  IF n = 0 THEN s
  ELSE IF n < s.off
       THEN [s EXCEPT !.buf = SubSeq(@, n + 1, s.off) \o SubSeq(@, s.off - n + 1, Len(@)), !.off = @ - n]
       ELSE [s EXCEPT !.off = 0]

\* Behind the headers everything goes by buffer_offset: what is left there
\* does not matter any more and is forgotten.
Trimmed(s) == [s EXCEPT !.buf = SubSeq(@, 1, s.off)]

Terminated(b, places) == [k \in DOMAIN b |-> IF k \in places THEN NUL ELSE b[k]]

-----------------------------------------------------------------------------
(* webnet_request_parse_method *)

\* path up to a '?', the query behind it.
WithPath(r, text) ==
  LET marks == {k \in DOMAIN text : text[k] = "?"}
      query == SubSeq(text, Min(marks) + 1, Len(text))
  IN IF marks = {} THEN [r EXCEPT !.path = text]
     ELSE [r EXCEPT !.path = SubSeq(text, 1, Min(marks) - 1), !.query = query, !.items = QueryItems(query)]

PathUndecodable(text) ==
  \E k \in DOMAIN text : text[k] = "?" /\ text[k] \notin {text[j] : j \in 1..k - 1}
                         /\ Undecodable(SubSeq(text, k + 1, Len(text)))

ParseMethod(s) ==
  LET b     == s.buf
      space == FindFrom(b, 2, <<SP>>)
      line  == FindFrom(b, space + 1, CRLF)
      text  == SubSeq(b, 2, space - 1)
      r     == WithPath([s.req EXCEPT !.method = b[1]], text)
  IN CASE FindFrom(b, 1, CRLF) = 0 -> s
       [] CharAt(b, 1) \notin MethodWords /\ FindFrom(b, 1, CRLF) # 0 -> [s EXCEPT !.req.code = 501]
       [] OTHER ->
          IF space = 0 THEN Consume([s EXCEPT !.req.code = 400, !.req.method = b[1]], 1)
          ELSE IF PathUndecodable(text) THEN Fault(s)
          ELSE IF CharAt(b, space + 1) # "HTTP/1"
               THEN Consume([s EXCEPT !.buf = Terminated(@, {space}), !.req = [r EXCEPT !.code = 501]], space)
          ELSE IF line = 0 THEN Fault(s)
          ELSE Consume([s EXCEPT !.buf = Terminated(@, {space, line, line + 1}), !.req = r, !.phase = "HEADER"],
                       line + 1)

-----------------------------------------------------------------------------
(* webnet_request_parse_header *)

\* The lines the loop records: where each starts.  It stops at an empty
\* line, at a NUL and at a line that does not end.
HeaderLines(b) ==
  LET from[i \in 1..Len(b) + 1] ==
        IF BeginsAt(b, i, CRLF) \/ CharAt(b, i) = NUL \/ FindFrom(b, i, CRLF) = 0 THEN <<>>
        ELSE <<i>> \o from[FindFrom(b, i, CRLF) + 2]
  IN from[1]

\* The value of the line that starts at i: behind its name and the spaces.
ValueOf(b, i) ==
  LET last  == FindFrom(b, i, CRLF) - 1
      first == Min({j \in i + 1..last + 1 : CharAt(b, j) # SP})
  IN SubSeq(b, first, last)

Recorded(r, b, i) ==
  CASE b[i] = "Content-Length:" -> [r EXCEPT !.clen = atoi(ValueOf(b, i))]
    [] b[i] = "Content-Type:"   -> [r EXCEPT !.ctype = ValueOf(b, i)]
    [] b[i] = "Host:"           -> [r EXCEPT !.host = ValueOf(b, i)]
    [] OTHER                    -> r

\* Items whose query was freed under them: an item no query has, since what a
\* handler finds there is not known.
Freed == <<[name |-> <<>>, value |-> Nil]>>

\* The empty line: a POST with content goes on to its content, unless that is
\* an upload's or too long; everything else is answered.  A POST with content
\* and no Content-Type compares a NULL pointer.  The content takes the place of
\* the query, which is freed; the items into it stay.
IsMultipart(r) == r.ctype # Nil /\ BeginsAt(r.ctype, 1, <<"multipart">>)
EndOfHeaders(s) ==
  IF s.req.clen = 0 \/ s.req.method # "POST" THEN [s EXCEPT !.req.code = 200, !.phase = "RESPONSE"]
  ELSE IF IsMultipart(s.req) \/ s.req.clen >= PostMax
       THEN [s EXCEPT !.phase = "RESPONSE", !.undefined = s.req.ctype = Nil]
  ELSE [s EXCEPT !.phase = "QUERY", !.req.query = <<>>, !.req.qoff = 0, !.undefined = s.req.ctype = Nil,
                 !.req.items = IF @ = <<>> THEN @ ELSE Freed]

\* stale: a line end was found behind what was received.
ParseHeader(s) ==
  LET b     == s.buf
      lines == HeaderLines(b)
      ends  == [k \in DOMAIN lines |-> FindFrom(b, lines[k], CRLF)]
      after[k \in 0..Len(lines)] == IF k = 0 THEN s.req ELSE Recorded(after[k - 1], b, lines[k])
      next  == IF lines = <<>> THEN 1 ELSE ends[Len(ends)] + 2
      whole == BeginsAt(b, next, CRLF)
      read  == IF whole THEN next + 1 ELSE next - 1
      t     == [s EXCEPT !.buf = Terminated(@, {ends[k] : k \in DOMAIN ends} \cup {ends[k] + 1 : k \in DOMAIN ends}),
                         !.req = after[Len(lines)],
                         !.stale = @ \/ read > s.off]
  IN IF whole THEN Trimmed(Consume(EndOfHeaders(t), read)) ELSE Consume(t, read)

-----------------------------------------------------------------------------
(* webnet_request_parse_post *)

\* The content so far.  Complete, it is terminated in the session's buffer at
\* the content's length, which may lie behind the buffer's end.  Only a form
\* gets items of its own.
ParsePost(s) ==
  LET n     == IF s.req.qoff + s.off > s.req.clen THEN s.req.clen - s.req.qoff ELSE s.off
      query == s.req.query \o SubSeq(s.buf, 1, n)
      form  == s.req.ctype # Nil /\ BeginsAt(s.req.ctype, 1, <<"form">>)
      t     == [s EXCEPT !.req.query = query, !.req.qoff = @ + n]
  IN IF s.off = 0 THEN s
     ELSE IF t.req.qoff < s.req.clen THEN Trimmed(Consume(t, n))
     ELSE IF form /\ Undecodable(query) THEN Fault(s)
     ELSE Consume([t EXCEPT !.buf = Terminated(@, {s.req.clen + 1}),
                            !.undefined = @ \/ s.req.clen >= BufSize \/ s.req.ctype = Nil,
                            !.req.items = IF form THEN QueryItems(query) ELSE @,
                            !.req.code = 200, !.phase = "RESPONSE"], n)

-----------------------------------------------------------------------------
(* _webnet_session_handle_read: one read, then each phase after the other. *)

Parsed(s) ==
  LET m == IF s.phase = "METHOD" THEN ParseMethod(s) ELSE s
      h == IF m.phase = "HEADER" THEN ParseHeader(m) ELSE m
  IN IF h.phase = "QUERY" THEN ParsePost(h) ELSE h

\* recvfrom with nothing to read, or no room for it, closes the session.
HandleRead(s, cells) ==
  IF cells = <<>> THEN [s EXCEPT !.phase = "CLOSE"] ELSE Parsed(Received(s, cells))
=============================================================================
