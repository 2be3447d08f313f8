------------------------------ MODULE WebnetText ------------------------------
(***************************************************************************)
(* The text functions a request goes through: the query parser of          *)
(* wn_request.c, urldecode and str_normalize_path of wn_utils.c.           *)
(*                                                                         *)
(* Text is a sequence of cells.  A cell is one character that the parsers  *)
(* look at, or a word they only compare (a method, a header's name).       *)
(***************************************************************************)
EXTENDS Naturals, Sequences, FiniteSets, FiniteSetsExt, SequencesExt, Functions

CONSTANTS Nil, Cells

Text == Seq(Cells)

NUL == "NUL"
CR  == "CR"
LF  == "LF"
SP  == "SP"

\* The cells that the parsers look at or write.
ASSUME CellsAssumption ==
  {NUL, CR, LF, SP, "/", "?", "&", "=", "+", "%", "#", "2", "3", "6", "D", "other",
   "file", "type", "field", "--b1", "b2", "--"} \subseteq Cells

\* A C string: the first NUL ends it, and what is behind the cells that were
\* ever written is zero.
CharAt(b, i) == IF i <= Len(b) THEN b[i] ELSE NUL

\* strncasecmp(b + i, t, strlen(t)) = 0
BeginsAt(b, i, t) == \A k \in 1..Len(t) : CharAt(b, i + k - 1) = t[k]

\* strchr and strstr from i on: the first place of t before the NUL, or 0.
StringEnd(b, i) == Min({j \in i..Len(b) : b[j] = NUL} \cup {Len(b) + 1})
FindFrom(b, i, t) ==
  LET places == {j \in i..StringEnd(b, i) - Len(t) : BeginsAt(b, j, t)}
  IN IF places = {} THEN 0 ELSE Min(places)

CRLF == <<CR, LF>>

-----------------------------------------------------------------------------
(* Form fields in a query or a body.                                       *)

HexDigits == {"2", "3", "6", "D"}
Escaped   == [p \in HexDigits \X HexDigits |->
                CASE p = <<"2", "6">> -> "&" [] p = <<"3", "D">> -> "="
                  [] p = <<"2", "3">> -> "#" [] OTHER -> "other"]

\* urldecode: '+' is a space, '%' with two digits the character, anything
\* else stays.  length is decremented before it is compared, so two cells
\* must follow the '%'.
urldecode(v) ==
  LET from[i \in 1..Len(v) + 3] ==
        IF i > Len(v) THEN <<>>
        ELSE IF v[i] = "+" THEN <<SP>> \o from[i + 1]
        ELSE IF v[i] = "%" /\ i + 2 <= Len(v) /\ {v[i + 1], v[i + 2]} \subseteq HexDigits
             THEN <<Escaped[<<v[i + 1], v[i + 2]>>]>> \o from[i + 3]
        ELSE <<v[i]>> \o from[i + 1]
  IN from[1]

\* Where the item behind p starts: behind the next run of '&'.
NextItem(q, p) ==
  LET ends == {e \in p..Len(q) : q[e] = "&"}
  IN IF ends = {} THEN Len(q) + 1 ELSE Min({j \in Min(ends)..Len(q) + 1 : CharAt(q, j) # "&"})

\* One item: its name ends at the first '=', its value starts after the last.
ItemAt(q, p) ==
  LET ends == {e \in p..Len(q) : q[e] = "&"}
      last == IF ends = {} THEN Len(q) ELSE Min(ends) - 1
      eqs  == {e \in p..last : q[e] = "="}
  IN IF eqs = {} THEN [name |-> SubSeq(q, p, last), value |-> Nil]
     ELSE [name |-> SubSeq(q, p, Min(eqs) - 1), value |-> urldecode(SubSeq(q, Max(eqs) + 1, last))]

\* _webnet_request_parse_query
QueryItems(q) ==
  LET from[p \in 1..Len(q) + 1] ==
        IF p > Len(q) THEN <<>> ELSE <<ItemAt(q, p)>> \o from[NextItem(q, p)]
  IN from[1]

\* An item without '=' is decoded through its NULL value.
Undecodable(q) == \E k \in DOMAIN QueryItems(q) : QueryItems(q)[k].value = Nil

\* webnet_request_get_query: the first item of exactly this name.
webnet_request_get_query(items, name) ==
  LET hits == {k \in DOMAIN items : items[k].name = name}
  IN IF hits = {} THEN Nil ELSE items[Min(hits)].value

-----------------------------------------------------------------------------
(* str_normalize_path, in place: mem is the text, src the next cell to     *)
(* read, n how many cells are written.                                     *)

SkipSlashes(p, i) == Min({j \in i..Len(p) + 1 : CharAt(p, j) # "/"})

\* The label up_one: back over the '/' written last and the name before it.
UpOne(p, n) == Max({0} \cup {j \in 1..n - 1 : p[j] = "/"})

\* Whatever is neither "." nor "..": copied up to and with the next '/'.
CopyName(x) ==
  LET stops == {j \in x.src..Len(x.mem) : x.mem[j] = "/"}
      stop  == IF stops = {} THEN Len(x.mem) ELSE Min(stops)
      width == (stop + 1) - x.src
  IN [x EXCEPT !.mem = [k \in DOMAIN x.mem |->
                          IF k \in x.n + 1..x.n + width THEN x.mem[k - x.n - 1 + x.src] ELSE x.mem[k]],
               !.n = @ + width, !.src = IF stops = {} THEN stop + 1 ELSE SkipSlashes(x.mem, stop),
               !.end = stops = {}]

NormalizeStep(x) ==
  LET next(k) == CharAt(x.mem, x.src + k)
      up(to)  == IF x.n = 0 THEN [x EXCEPT !.failed = TRUE, !.end = TRUE]
                 ELSE [x EXCEPT !.n = UpOne(x.mem, @), !.src = to]
  IN CASE next(0) = "." /\ next(1) = NUL -> [x EXCEPT !.end = TRUE]
       [] next(0) = "." /\ next(1) = "/" -> [x EXCEPT !.src = SkipSlashes(x.mem, @ + 2)]
       [] next(0) = "." /\ next(1) = "." /\ next(2) = NUL -> up(x.src + 2)
       [] next(0) = "." /\ next(1) = "." /\ next(2) = "/" -> up(SkipSlashes(x.mem, x.src + 3))
       [] OTHER -> CopyName(x)

\* The result: the text, whether the path climbed above its first '/', and
\* whether the last test reads the byte in front of the text.
str_normalize_path(p) ==
  LET run[k \in 0..Len(p) + 1] ==
        IF k = 0 THEN [mem |-> p, src |-> 1, n |-> 0, end |-> FALSE, failed |-> FALSE]
        ELSE LET x == run[k - 1] IN IF x.end THEN x ELSE NormalizeStep(x)
      r    == run[Len(p) + 1]
      text == SubSeq(r.mem, 1, r.n)
  IN IF r.failed THEN [text |-> r.mem, failed |-> TRUE, before |-> FALSE]
     ELSE [text |-> IF r.n > 1 /\ r.mem[r.n] = "/" THEN SubSeq(text, 1, r.n - 1) ELSE text,
           failed |-> FALSE, before |-> r.n = 0]
=============================================================================
