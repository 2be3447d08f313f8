---------------------------- MODULE MCWebnetReceive ----------------------------
(* An instance for TLC: one request of each kind.                           *)
EXTENDS WebnetReceive

Plain == [method |-> "GET", path |-> <<"/", "a">>, query |-> <<>>, version |-> "HTTP/1",
          headers |-> <<>>, form |-> <<>>, parts |-> <<>>, file |-> <<"/", "a">>]
Header(n, v) == [name |-> n, value |-> v]
Field(n, v)  == [name |-> <<n>>, value |-> v]
File(d)      == [file |-> TRUE, data |-> d]
Host == Header("Host:", <<"h">>)

\* The body's length in two digits, as the last header.
Measured(r, hs) ==
  LET n == Len(BodyText(r))
  IN [r EXCEPT !.headers = hs \o <<Header("Content-Length:", <<Numerals[(n \div 10) + 1], Numerals[(n % 10) + 1]>>)>>]
Typed(t) == <<Host, Header("Content-Type:", <<t>>)>>

\* A path with "..", "." and doubled slashes, and a query with both
\* characters that need an escape.
Get == [Plain EXCEPT !.path = <<"/", "/", "b", "/", ".", ".", "/", ".", "/", "a", "/">>,
          !.query = <<Field("n", <<"x", SP, "&">>), Field("m", <<"=">>)>>, !.headers = <<Host>>]
Bare == [Plain EXCEPT !.query = <<Field("n", Nil)>>]
Long == [Plain EXCEPT !.headers = <<Header("Host:", [k \in 1..50 |-> "h"])>>]
Old  == [Plain EXCEPT !.version = "HTTP/0", !.headers = <<Host>>]
Put  == [Plain EXCEPT !.method = "TRACE"]
Body == [Plain EXCEPT !.method = "POST", !.query = <<Field("n", <<"y">>)>>,
          !.form = <<Field("n", <<"x", SP>>), Field("m", <<"&", "v">>)>>]
Post    == Measured(Body, Typed("form"))
Untyped == Measured(Body, <<Host>>)
Other   == Measured(Body, Typed("text"))

\* Bodies longer than the buffer: one that is read, and one that is too long.
Value(n)  == [k \in 1..n |-> "v"]
Beyond    == Measured([Body EXCEPT !.query = <<>>, !.form = <<Field("k", Value(47))>>], Typed("form"))
TooLong   == Measured([Body EXCEPT !.form = <<Field("k", Value(62))>>], Typed("form"))

\* File content with line ends and a piece of a boundary in it.
Content == <<"x", CR, LF, "x", CR, "x", LF, CR, LF, "--b1", "x", "x", "x", "x", "x", "x", "x", "x", CR, LF, "x">>
Upload(ps) == Measured([Plain EXCEPT !.method = "POST", !.path = UploadUrl, !.file = <<"/", "u">>, !.parts = ps],
                       <<Header("Content-Type:", <<"multipart">>)>>)

MCCells == STRING
MCUploadUrl == <<"/", "u">>
MCAsks == {Get, Bare, Long, Old, Put, Post, Untyped, Other, Beyond, TooLong,
           Upload(<<[file |-> FALSE, data |-> <<"v">>], File(Content)>>),
           Upload(<<File(<<"x">>), [file |-> FALSE, data |-> <<"v", CR, LF, "w">>]>>)}
=============================================================================
