---------------------------- MODULE WebnetServer ----------------------------
(***************************************************************************)
(* The web server of configuration mode: webnet.c, wn_session.c, the       *)
(* dispatcher wn_module.c with its CGI module, and the two CGIs that       *)
(* main.c registers, built without a file system (the default).            *)
(*                                                                         *)
(* One thread serves every connection.  A pass of its loop selects the     *)
(* ready sockets, accepts at most one connection and walks the list of     *)
(* sessions; each session gets a read event or a write event.  A request   *)
(* is parsed as its parts arrive, answered, and its connection closed.  A  *)
(* file is answered in two passes: the headers on the read event that      *)
(* completes the request, the content on a write event of a later pass,    *)
(* out of a buffer that all sessions share.                                *)
(*                                                                         *)
(* Clients and the TCP stack are outside src/: a client sends the parts of *)
(* one request, perhaps something after it, and may close at any time.     *)
(***************************************************************************)
EXTENDS Naturals, Sequences

CONSTANTS
  Conns,      \* connections clients make
  Files,      \* files registered with wn_associated_file_information, none empty
  Requests,   \* the requests each connection may carry
  Faults,     \* "listen", "nosession", "norequest": what may fail
  MaxStarts,  \* bound: how often webnet_init starts the thread
  Nil

Cgis    == {"status", "config", "refused", "few"}
Uris    == Files \cup Cgis \cup {"/", "absent"}
Methods == {"GET", "POST", "HEAD", "HEADER", "unknown"}

\* The Range header: absent, a part of the file, one byte, not understood,
\* or outside the file.
Ranges   == {"no", "part", "byte", "bad", "beyond"}
RequestSet == [method : Methods, uri : Uris, range : Ranges]

ASSUME ConnsAssumption    == Nil \notin Conns
ASSUME FilesAssumption    == Files \cap (Cgis \cup {"/", "absent", "none"}) = {}
ASSUME RequestsAssumption == Requests \in [Conns -> SUBSET RequestSet]
ASSUME ServerFaultsAssumption == Faults \subseteq {"listen", "nosession", "norequest"}
ASSUME MaxStartsAssumption == MaxStarts \in Nat

VARIABLES
  thread,     \* webnet_task: "off", "run", or "fault" once the device crashed
  closeFlag,  \* close_flag
  starts,     \* bounded by MaxStarts
  pc,         \* where the thread is
  ready,      \* tempfds, as select left it
  writers,    \* writeset
  list,       \* _session_list, newest first
  cursor,     \* the session webnet_sessions_handle_fds comes to next
  item,       \* module_file_item, shared by all sessions
  conn        \* the connections, with the client's and the session's state

threadVars == <<thread, closeFlag, starts>>
passVars   == <<ready, writers, cursor>>
vars == <<threadVars, pc, passVars, list, item, conn>>

NoRequest == [method |-> "none", uri |-> "none", range |-> "no"]
Items     == Files \cup {"none"}
Codes     == {200, 216, 400, 404, 416, 500, 501}
Part      == [part : {"head", "body"}, code : Codes, file : Items]
Phases    == {"METHOD", "HEADER", "QUERY", "RESPONSE", "CLOSE"}

Conn == [net  : {"none", "backlog", "open", "closed"},
         req  : RequestSet \cup {NoRequest}, sent : Nat, fin : BOOLEAN, got : Seq(Part),
         read : Nat, ops : {"none", "default", "file"}, phase : Phases,
         mask : BOOLEAN, code : Codes \cup {0}]

TypeOK ==
  /\ thread \in {"off", "run", "fault"} /\ closeFlag \in BOOLEAN /\ starts \in 0..MaxStarts
  /\ pc \in {"none", "setup", "select", "accept", "walk", "exit", "gone"}
  /\ ready \subseteq Conns /\ writers \subseteq Conns
  /\ list \in Seq(Conns) /\ cursor \in Conns \cup {Nil}
  /\ item \in Items /\ conn \in [Conns -> Conn]

Init ==
  /\ thread = "off" /\ closeFlag = FALSE /\ starts = 0 /\ pc = "none"
  /\ ready = {} /\ writers = {} /\ list = <<>> /\ cursor = Nil /\ item = "none"
  /\ conn = [c \in Conns |->
       [net |-> "none", req |-> NoRequest, sent |-> 0, fin |-> FALSE, got |-> <<>>,
        read |-> 0, ops |-> "none", phase |-> "METHOD", mask |-> FALSE, code |-> 0]]

-----------------------------------------------------------------------------
(* The parser, as far as the session sees it: a request is a method line,  *)
(* its headers and, for a POST, a body; a part is what completes one.      *)

PartsOf(r) == CASE r.method = "unknown" -> 1 [] r.method = "POST" -> 3 [] OTHER -> 2

\* The phase once n parts are in the buffer.  An unknown method is refused
\* without consuming the line, so the session stays where it is.
PhaseAfter(r, n) ==
  CASE n = 0 \/ r.method = "unknown" -> "METHOD"
    [] n = 1                         -> "HEADER"
    [] n = 2 /\ r.method = "POST"    -> "QUERY"
    [] OTHER                         -> "RESPONSE"

\* _webnet_session_handle_read: n parts arrive in one recvfrom, none when the
\* client has closed.
HandleRead(s, n) ==
  IF n = 0 THEN [s EXCEPT !.phase = "CLOSE"]
  ELSE [s EXCEPT !.read = @ + n, !.phase = PhaseAfter(s.req, s.read + n),
                 !.code = IF s.req.method = "unknown" THEN 501 ELSE @]

-----------------------------------------------------------------------------
(* Answers.                                                                *)

Headers(n, f)   == [part |-> "head", code |-> n, file |-> f]
ErrorPage(n) == [part |-> "head", code |-> n, file |-> "none"]
Body(f)      == [part |-> "body", code |-> 200, file |-> f]

\* webnet_module_cgi with cgi_status_handler and cgi_config_handler.  A
\* configuration with fewer than two parameters gets no answer, one with the
\* wrong names an error of the CGI's own.
Cgi(s) ==
  CASE s.req.uri = "refused" -> [s EXCEPT !.code = 500, !.got = Append(@, ErrorPage(500))]
    [] s.req.uri = "few"     -> s
    [] OTHER                 -> [s EXCEPT !.code = 200, !.got = Append(@, Headers(200, "none"))]

\* wn_get_file_name_from_uri: the root is /index.html, registered or not.
FileName(u) == IF u = "/" THEN "index" ELSE IF u \in Files THEN u ELSE "none"

\* webnet_module_handle_uri looks the file up only for a GET or a POST.
TriesDefaults(s) == s.req.method \in {"GET", "POST"} /\ FileName(s.req.uri) # "none"
\* Slips: the name is not looked for among the registered files; the item is
\* cleared before the search.
LookedUnchecked(s, it) == IF TriesDefaults(s) THEN FileName(s.req.uri) ELSE it
LookedCleared(s, it)   == IF TriesDefaults(s) /\ FileName(s.req.uri) \in Files THEN FileName(s.req.uri) ELSE "none"

Looked(s, it) == IF TriesDefaults(s) /\ FileName(s.req.uri) \in Files THEN FileName(s.req.uri) ELSE it

\* wn_get_file_information compares the name with that of the RAM file, which
\* is NULL: the build may crash or find the names unequal.
ComparesNull(s) == s.req.uri \notin Cgis /\ TriesDefaults(s) /\ FileName(s.req.uri) \notin Files

\* webnet_module_system_dofile: a range is judged against the shared item, and
\* one outside it is answered with a status line before the error page.
RangeOf(s, it) == IF s.req.range \in {"part", "byte"} /\ it = "none" THEN "beyond" ELSE s.req.range

SendHeaders(s, it, code) ==
  LET h == [s EXCEPT !.code = code, !.got = Append(@, Headers(code, it))]
  IN  IF it = "none" \/ s.req.method = "HEADER" THEN h
      ELSE [h EXCEPT !.ops = "file", !.mask = TRUE]

DoFile(s, it) ==
  CASE FileName(s.req.uri) = "none" -> [s EXCEPT !.code = 404]
    [] OTHER ->
       CASE RangeOf(s, it) = "bad"    -> [s EXCEPT !.code = 400]
         [] RangeOf(s, it) = "beyond" -> [s EXCEPT !.code = 416, !.got = Append(@, ErrorPage(416))]
         [] RangeOf(s, it) = "no"     -> SendHeaders(s, it, 200)
         [] OTHER                     -> SendHeaders(s, it, 216)

HandleUri(s) == IF s.req.uri \in Cgis THEN Cgi(s) ELSE DoFile(s, Looked(s, item))

\* webnet_session_close: the session's memory is freed.
Close(s) == [s EXCEPT !.net = "closed", !.ops = "none", !.mask = FALSE, !.phase = "METHOD", !.code = 0]

\* The end of the read branch of webnet_sessions_handle_fds.
Closes(s) == s.ops = "none" \/ s.phase = "CLOSE"
Settle(s) ==
  CASE ~Closes(s)             -> s
    [] Closes(s) /\ s.code # 200 -> Close([s EXCEPT !.got = Append(@, ErrorPage(s.code))])
    [] OTHER                  -> Close(s)

-----------------------------------------------------------------------------
(* The thread.                                                             *)

SessionSet == {list[i] : i \in 1..Len(list)}
Backlog    == {c \in Conns : conn[c].net = "backlog"}
Readable(c) == conn[c].sent > conn[c].read \/ conn[c].fin

webnet_init ==
  /\ thread = "off" /\ starts < MaxStarts
  /\ thread' = "run" /\ starts' = starts + 1 /\ pc' = "setup"
  /\ UNCHANGED <<closeFlag, passVars, list, item, conn>>

\* wm_close_webnet_thread, called by the work task: it does not wait for the
\* thread's end.
wm_close_webnet_thread ==
  /\ thread = "run" /\ ~closeFlag /\ closeFlag' = TRUE
  /\ UNCHANGED <<thread, starts, pc, passVars, list, item, conn>>

Setup ==
  /\ pc = "setup"
  /\ pc' \in {"select"} \cup (IF "listen" \in Faults THEN {"exit"} ELSE {})
  /\ UNCHANGED <<threadVars, passVars, list, item, conn>>

\* Slip: the thread waits for its sessions before it stops.
LeaveWhenEmpty ==
  /\ pc = "select" /\ closeFlag /\ list = <<>> /\ pc' = "exit"
  /\ UNCHANGED <<threadVars, passVars, list, item, conn>>

Leave ==
  /\ pc = "select" /\ closeFlag /\ pc' = "exit"
  /\ UNCHANGED <<threadVars, passVars, list, item, conn>>

\* The walk over the sessions l, which has nothing to do for a session that
\* is in neither set: its next stop, and the loop's top after the last one.
FirstIn(l, events) ==
  LET hits == {i \in 1..Len(l) : l[i] \in events}
  IN  IF hits = {} THEN Nil ELSE l[CHOOSE i \in hits : \A j \in hits : i <= j]
WalkTo(c) ==
  /\ cursor' = c
  /\ IF c = Nil THEN pc' = "select" /\ ready' = {} /\ writers' = {}
     ELSE pc' = "walk" /\ UNCHANGED <<ready, writers>>

\* The write set is taken as it was requested; what select made of it is not
\* used.  A timeout changes nothing.
Select ==
  /\ pc = "select" /\ ~closeFlag
  /\ ready'   = {c \in SessionSet : Readable(c)}
  /\ writers' = {c \in SessionSet : conn[c].mask}
  /\ \/ Backlog # {} /\ pc' = "accept" /\ UNCHANGED cursor
     \/ /\ Backlog = {} /\ ready' \cup writers' # {} /\ pc' = "walk"
        /\ cursor' = FirstIn(list, ready' \cup writers')
  /\ UNCHANGED <<threadVars, list, item, conn>>

\* webnet_session_create; without memory the connection is accepted and closed.
Accept ==
  /\ pc = "accept" /\ WalkTo(FirstIn(list, ready \cup writers))
  /\ \E c \in Backlog :
       \/ /\ list' = <<c>> \o list
          /\ conn' = [conn EXCEPT ![c].net = "open"]
       \/ /\ "nosession" \in Faults /\ UNCHANGED list
          /\ conn' = [conn EXCEPT ![c].net = "closed"]
  /\ UNCHANGED <<threadVars, item>>

\* session->next, read before the session is handled
Position(c)  == CHOOSE i \in 1..Len(list) : list[i] = c
Following(c) == SubSeq(list, Position(c) + 1, Len(list))

\* Slip: a closed session stays linked.
BecomesLinked(c, s) == conn' = [conn EXCEPT ![c] = s] /\ UNCHANGED list

Becomes(c, s) ==
  /\ conn' = [conn EXCEPT ![c] = s]
  /\ list' = IF s.net = "closed" THEN SubSeq(list, 1, Position(c) - 1) \o Following(c) ELSE list

\* A new request gets the default operations and result 200.
Opened(s) == IF s.ops = "none" THEN [s EXCEPT !.ops = "default", !.phase = "METHOD", !.code = 200] ELSE s

ReadDefault(c) ==
  LET s == Opened(conn[c])
  IN  /\ s.ops = "default"
      /\ \E n \in 0..(s.sent - s.read) :
           /\ n = 0 => s.sent = s.read
           /\ LET t == HandleRead(s, n)
                  answered == t.phase = "RESPONSE"
                  u == [t EXCEPT !.ops = "none"]
              IN  /\ Becomes(c, Settle(IF answered THEN HandleUri(u) ELSE t))
                  /\ item' = IF answered /\ t.req.uri \notin Cgis THEN Looked(t, item) ELSE item
                  /\ thread' \in {"run"} \cup
                       (IF answered /\ ComparesNull(t) THEN {"fault"} ELSE {})

\* Whatever the client sends or closes while its file is pending ends the session.
ReadFile(c) ==
  /\ conn[c].ops = "file"
  /\ Becomes(c, Settle([conn[c] EXCEPT !.mask = FALSE, !.phase = "CLOSE"]))
  /\ UNCHANGED <<item, thread>>

\* webnet_request_create fails: the result code is read through NULL.
ReadNoRequest(c) ==
  /\ conn[c].ops = "none" /\ "norequest" \in Faults
  /\ Becomes(c, Close([conn[c] EXCEPT !.phase = "CLOSE"]))
  /\ thread' \in {"run", "fault"} /\ UNCHANGED item

ReadEvent(c) == c \in ready /\ (ReadDefault(c) \/ ReadFile(c) \/ ReadNoRequest(c))

\* Slip: the phase is not set to close after the content.
WriteAgain(c) ==
  /\ c \in writers \ ready /\ item # "none"
  /\ Becomes(c, [conn[c] EXCEPT !.got = Append(@, Body(item))])
  /\ UNCHANGED <<item, thread>>

\* _webnet_dofile_handle sends what the shared item holds now, the whole of it
\* whatever the range; of a single byte it thinks that nothing is left.
HasContent(c) == item # "none" /\ conn[c].req.range # "byte"

WriteEvent(c) ==
  /\ c \in writers \ ready
  /\ Becomes(c, Close([conn[c] EXCEPT !.phase = "CLOSE",
                         !.got = IF HasContent(c) THEN Append(@, Body(item)) ELSE @]))
  /\ UNCHANGED <<item, thread>>

Serve ==
  /\ pc = "walk"
  /\ ReadEvent(cursor) \/ WriteEvent(cursor)
  /\ WalkTo(FirstIn(Following(cursor), ready \cup writers))
  /\ UNCHANGED <<closeFlag, starts>>

\* Slip: the thread forgets its sessions.
ExitForgets ==
  /\ pc = "exit" /\ pc' = "gone" /\ closeFlag' = FALSE /\ list' = <<>>
  /\ conn' = [c \in Conns |-> IF c \in Backlog THEN [conn[c] EXCEPT !.net = "closed"] ELSE conn[c]]
  /\ UNCHANGED <<thread, starts, passVars, item>>

\* Only the listening socket is closed; the sessions wait for the next thread.
Exit ==
  /\ pc = "exit" /\ pc' = "gone" /\ closeFlag' = FALSE
  /\ conn' = [c \in Conns |-> IF c \in Backlog THEN [conn[c] EXCEPT !.net = "closed"] ELSE conn[c]]
  /\ UNCHANGED <<thread, starts, passVars, list, item>>

Gone ==
  /\ pc = "gone" /\ pc' = "none" /\ thread' = "off"
  /\ UNCHANGED <<closeFlag, starts, passVars, list, item, conn>>

webnet_thread ==
  /\ thread = "run"
  /\ Setup \/ Leave \/ Select \/ Accept \/ Serve \/ Exit \/ Gone

-----------------------------------------------------------------------------
(* Clients.                                                                *)

Listening == thread = "run" /\ pc \in {"select", "accept", "walk"}

Connect(c) ==
  /\ Listening /\ conn[c].net = "none"
  /\ \E r \in Requests[c] : conn' = [conn EXCEPT ![c].net = "backlog", ![c].req = r]

\* The last part is one the request does not need.
Send(c) ==
  /\ conn[c].net \in {"backlog", "open"} /\ ~conn[c].fin
  /\ conn[c].sent <= PartsOf(conn[c].req)
  /\ conn' = [conn EXCEPT ![c].sent = @ + 1]

Finish(c) ==
  /\ conn[c].net \in {"backlog", "open"} /\ ~conn[c].fin
  /\ conn' = [conn EXCEPT ![c].fin = TRUE]

Client(c) ==
  /\ thread # "fault" /\ (Connect(c) \/ Send(c) \/ Finish(c))
  /\ UNCHANGED <<threadVars, pc, passVars, list, item>>

Next == webnet_init \/ wm_close_webnet_thread \/ webnet_thread \/ \E c \in Conns : Client(c)

\* The thread runs whenever it can; whether clients send and the work task
\* starts or stops the server is up to them.
Spec == Init /\ [][Next]_vars /\ WF_vars(webnet_thread)

-----------------------------------------------------------------------------
(* Properties.                                                             *)

\* The session list and the sockets agree: a session is linked once, and its
\* connection is open exactly while it is linked, across passes, stops and
\* restarts of the thread; the pass only follows a pointer to a linked
\* session and has events for linked sessions or ones it already left.
\* (webnet_session_create, webnet_session_close, webnet_sessions_handle_fds.)
ListSound ==
  thread # "fault" =>
    /\ \A i, j \in 1..Len(list) : list[i] = list[j] => i = j
    /\ SessionSet = {c \in Conns : conn[c].net = "open"}
    /\ cursor \in SessionSet \cup {Nil}

\* A connection gets one answer: nothing, one header block, or the headers of
\* a file and then one content.  The session answers again what it finds with
\* a result other than 200 when it closes it: a configuration that its CGI
\* refused and a request with a range, which leave such a result behind
\* although they have been answered.
\* (cgi_config_handler, webnet_module_system_dofile, _webnet_dofile_handle,
\* webnet_sessions_handle_fds.)
OneAnswer ==
  \A c \in Conns : LET got == conn[c].got IN
    \/ Len(got) <= 1 /\ \A i \in 1..Len(got) : got[i].part = "head"
    \/ Len(got) = 2 /\ got[1].part = "head" /\ got[1].file # "none" /\ got[2].part = "body"
    \/ /\ conn[c].req.uri = "refused" \/ conn[c].req.range # "no"
       /\ Len(got) = 2 /\ got[1].code # 200 /\ got[2] = ErrorPage(got[1].code)

\* Headers that announce a file are followed by content before the connection
\* is closed, whatever the other sessions ask for meanwhile, unless the client
\* asked for headers or a single byte only, sent more than its request or closed.
\* (webnet_module_system_dofile, _webnet_dofile_handle, module_file_item.)
ContentFollows ==
  \A c \in Conns : LET got == conn[c].got IN
    /\ conn[c].net = "closed" /\ conn[c].req.method # "HEADER" /\ conn[c].req.range # "byte"
    /\ got # <<>> /\ got[1].file # "none"
    => \/ Len(got) = 2 /\ got[2].part = "body"
       \/ conn[c].sent > PartsOf(conn[c].req) \/ conn[c].fin

\* While the thread runs, every complete request of an accepted connection is
\* answered and its connection closed, also one that an earlier run of the
\* thread accepted: the sessions outlive it.  Two requests get no answer: an unknown
\* method, refused only when its client closes, and a configuration with too
\* few parameters; and so does a session for which no request was allocated.
\* (webnet_thread, webnet_sessions_handle_fds.)
Complete(c) ==
  /\ conn[c].net = "open" /\ conn[c].sent >= PartsOf(conn[c].req)
  /\ conn[c].req.method # "unknown" /\ conn[c].req.uri # "few"
Finished(c) == conn[c].net = "closed" /\ (conn[c].got # <<>> \/ conn[c].read = 0)

Answered == \A c \in Conns : Complete(c) /\ thread = "run" ~> Finished(c) \/ thread # "run"

\* Once the work task has asked for it, the thread ends, whatever the clients do.
\* (wm_close_webnet_thread, webnet_thread.)
StopTakesEffect == thread = "run" /\ closeFlag ~> thread # "run"

\* A file's content is of the file that the headers announced.
\* (webnet_module_system_dofile: "send a file to http client".)
ContentIsAnnounced ==
  \A c \in Conns : Len(conn[c].got) = 2 /\ conn[c].got[2].part = "body" =>
    conn[c].got[2].file = conn[c].got[1].file


=============================================================================
