----------------------------- MODULE WebnetProofs -----------------------------
(***************************************************************************)
(* Theorems about WebnetServer, for every set of connections and of files,  *)
(* every request a connection may carry and every fault.  The list of       *)
(* sessions agrees with the sockets by itself; what a connection is         *)
(* answered rests on it and on the place a session has in the walk.         *)
(***************************************************************************)
EXTENDS WebnetServer, SequenceTheorems, LeastNumber, TLAPS

(***************************************************************************)
(* The inductive invariant of the list.                                    *)
(***************************************************************************)
Distinct(l) == \A i, j \in 1..Len(l) : l[i] = l[j] => i = j
Elems(l)    == {l[i] : i \in 1..Len(l)}

\* A list of sessions that is linked as the sockets c say.
Links(l, c) == l \in Seq(Conns) /\ Distinct(l) /\ Elems(l) = {d \in Conns : c[d].net = "open"}

ListInv ==
  /\ Links(list, conn)
  /\ cursor \in Elems(list) \cup {Nil}
  /\ pc = "walk" => cursor # Nil

(***************************************************************************)
(* What a session's connection has received, at each of its stages.        *)
(***************************************************************************)

\* The result while the request arrives.
Asking(s) ==
  /\ s.got = <<>> /\ ~s.mask
  /\ s.ops = "default" => s.code = 200 \/ (s.code = 501 /\ s.req.method = "unknown")

\* A file is pending: its headers were sent, for a request that was complete.
Pending(s) ==
  /\ s.mask /\ Len(s.got) = 1
  /\ s.got[1].part = "head" /\ s.got[1].file # "none" /\ s.got[1].code = s.code
  /\ s.code \in {200, 216} /\ (s.code = 216 => s.req.range # "no")
  /\ s.read >= PartsOf(s.req)

OneAnswerTo(s) ==
  \/ Len(s.got) <= 1 /\ \A i \in 1..Len(s.got) : s.got[i].part = "head"
  \/ Len(s.got) = 2 /\ s.got[1].part = "head" /\ s.got[1].file # "none" /\ s.got[2].part = "body"
  \/ /\ s.req.uri = "refused" \/ s.req.range # "no"
     /\ Len(s.got) = 2 /\ s.got[1].code # 200 /\ s.got[2] = ErrorPage(s.got[1].code)

ContentFollowsTo(s) ==
  /\ s.net = "closed" /\ s.req.method # "HEADER" /\ s.req.range # "byte"
  /\ s.got # <<>> /\ s.got[1].file # "none"
  => \/ Len(s.got) = 2 /\ s.got[2].part = "body"
     \/ s.sent > PartsOf(s.req) \/ s.fin

Received(s) ==
  /\ s.net \in {"none", "backlog"} => s.got = <<>> /\ s.ops = "none" /\ ~s.mask
  /\ s.net = "open" => /\ s.req \in RequestSet
                       /\ IF s.ops = "file" THEN Pending(s) ELSE Asking(s)
  /\ s.net = "backlog" => s.req \in RequestSet
  /\ OneAnswerTo(s) /\ ContentFollowsTo(s)

\* The sessions the walk still comes to are as select saw them.
Ahead(i) ==
  CASE pc = "accept" -> TRUE
    [] pc = "walk"   -> i >= Position(cursor)
    [] OTHER         -> FALSE
Seen(c) == (c \in ready => Readable(c)) /\ (c \in writers => conn[c].mask)

AnswerInv ==
  /\ \A c \in Conns : Received(conn[c])
  /\ \A i \in 1..Len(list) : Ahead(i) => Seen(list[i])
  /\ (\E c \in Conns : conn[c].ops = "file") => item # "none"

-----------------------------------------------------------------------------
(* The list: where the walk finds its next session, and what is left when  *)
(* a session is unlinked.                                                  *)

LEMMA FirstInIs ==
  ASSUME NEW l \in Seq(Conns), NEW E
  PROVE  FirstIn(l, E) = Nil \/ \E i \in 1..Len(l) : FirstIn(l, E) = l[i] /\ l[i] \in E
<1> DEFINE hits == {i \in 1..Len(l) : l[i] \in E}
<1>1. CASE hits = {}
  BY <1>1 DEF FirstIn
<1>2. CASE hits # {}
  <2>1. hits \in SUBSET Nat
    OBVIOUS
  <2>2. \E i \in hits : \A j \in hits : i <= j
    <3> HIDE DEF hits
    <3> QED
      BY <1>2, <2>1, Least
  <2>3. FirstIn(l, E) = l[CHOOSE i \in hits : \A j \in hits : i <= j]
    BY <1>2 DEF FirstIn
  <2>4. QED
    BY <2>2, <2>3
<1>3. QED
  BY <1>1, <1>2

\* Only a session with an event is a stop of the walk, if there is one.
LEMMA FirstInFinds ==
  ASSUME NEW l \in Seq(Conns), NEW E, NEW k \in 1..Len(l), l[k] \in E
  PROVE  FirstIn(l, E) # Nil
<1> DEFINE hits == {i \in 1..Len(l) : l[i] \in E}
<1>1. hits # {} /\ hits \in SUBSET Nat
  OBVIOUS
<1>2. \E i \in hits : \A j \in hits : i <= j
  <2> HIDE DEF hits
  <2> QED
    BY <1>1, Least
<1>3. FirstIn(l, E) = l[CHOOSE i \in hits : \A j \in hits : i <= j]
  BY <1>1 DEF FirstIn
<1>4. (CHOOSE i \in hits : \A j \in hits : i <= j) \in 1..Len(l)
  BY <1>2
<1>5. QED
  BY <1>3, <1>4, ConnsAssumption

LEMMA PositionIs ==
  ASSUME list \in Seq(Conns), Distinct(list), NEW k \in 1..Len(list)
  PROVE  Position(list[k]) = k
  BY DEF Position, Distinct

LEMMA FollowingIs ==
  ASSUME list \in Seq(Conns), Distinct(list), NEW k \in 1..Len(list)
  PROVE  /\ Following(list[k]) \in Seq(Conns) /\ Len(Following(list[k])) = Len(list) - k
         /\ \A i \in 1..(Len(list) - k) : Following(list[k])[i] = list[k + i]
<1>1. Position(list[k]) = k
  BY PositionIs
<1>2. Len(list) \in Nat /\ \A i \in (k + 1)..Len(list) : list[i] \in Conns
  OBVIOUS
<1>3. Following(list[k]) = SubSeq(list, k + 1, Len(list))
  BY <1>1 DEF Following
<1> DEFINE F == SubSeq(list, k + 1, Len(list))
<1>4. /\ F \in Seq(Conns) /\ Len(F) = IF k + 1 <= Len(list) THEN Len(list) - (k + 1) + 1 ELSE 0
      /\ \A i \in 1..(Len(list) - (k + 1) + 1) : F[i] = list[(k + 1) + i - 1]
  BY <1>2, SubSeqProperties
<1> HIDE DEF F
<1>5. /\ F \in Seq(Conns) /\ Len(F) = Len(list) - k
      /\ \A i \in 1..(Len(list) - k) : F[i] = list[k + i]
  BY <1>2, <1>4
<1>6. QED
  BY <1>3, <1>5 DEF F

Unlinked(c) == SubSeq(list, 1, Position(c) - 1) \o Following(c)

LEMMA UnlinkedIs ==
  ASSUME list \in Seq(Conns), Distinct(list), NEW k \in 1..Len(list)
  PROVE  /\ Unlinked(list[k]) \in Seq(Conns) /\ Len(Unlinked(list[k])) = Len(list) - 1
         /\ \A i \in 1..(Len(list) - 1) : Unlinked(list[k])[i] = IF i < k THEN list[i] ELSE list[i + 1]
<1> DEFINE A == SubSeq(list, 1, k - 1)
           F == Following(list[k])
<1>1. Unlinked(list[k]) = A \o F
  BY PositionIs DEF Unlinked
<1>2. /\ F \in Seq(Conns) /\ Len(F) = Len(list) - k
      /\ \A i \in 1..(Len(list) - k) : F[i] = list[k + i]
  BY FollowingIs
<1>3. Len(list) \in Nat /\ \A i \in 1..(k - 1) : list[i] \in Conns
  OBVIOUS
<1>4. /\ A \in Seq(Conns) /\ Len(A) = IF 1 <= k - 1 THEN (k - 1) - 1 + 1 ELSE 0
      /\ \A i \in 1..((k - 1) - 1 + 1) : A[i] = list[1 + i - 1]
  BY <1>3, SubSeqProperties
<1> HIDE DEF A, F
<1>5. Len(A) = k - 1 /\ \A i \in 1..(k - 1) : A[i] = list[i]
  BY <1>4
<1>6. /\ A \o F \in Seq(Conns) /\ Len(A \o F) = Len(A) + Len(F)
      /\ \A i \in 1..(Len(A) + Len(F)) : (A \o F)[i] = IF i <= Len(A) THEN A[i] ELSE F[i - Len(A)]
  BY <1>2, <1>4, ConcatProperties
<1> DEFINE U == A \o F
<1> HIDE DEF U
<1>7. U \in Seq(Conns) /\ Len(U) = Len(list) - 1
  BY <1>2, <1>3, <1>5, <1>6 DEF U
<1>8. ASSUME NEW i \in 1..(Len(list) - 1)
      PROVE  U[i] = IF i < k THEN list[i] ELSE list[i + 1]
  <2>1. i \in 1..(Len(A) + Len(F))
    BY <1>2, <1>3, <1>5
  <2>2. U[i] = IF i <= k - 1 THEN A[i] ELSE F[i - (k - 1)]
    BY <1>5, <1>6, <2>1 DEF U
  <2>3. CASE i < k
    BY <1>5, <2>2, <2>3
  <2>4. CASE i >= k
    <3>1. i - (k - 1) \in 1..(Len(list) - k)
      BY <1>3, <2>4
    <3>2. F[i - (k - 1)] = list[k + (i - (k - 1))] /\ k + (i - (k - 1)) = i + 1
      BY <1>2, <3>1
    <3>3. QED
      BY <2>2, <2>4, <3>2
  <2>5. QED
    BY <2>3, <2>4
<1>9. QED
  BY <1>1, <1>7, <1>8 DEF U

\* A session stays linked while its socket is open, and only then.
LEMMA BecomesLinks ==
  ASSUME NEW c, NEW s, Links(list, conn), c \in Elems(list), conn \in [Conns -> Conn],
         Becomes(c, s), s.net \in {"open", "closed"}
  PROVE  Links(list', conn')
<1>1. PICK k \in 1..Len(list) : list[k] = c
  BY DEF Elems
<1>2. list \in Seq(Conns) /\ Distinct(list) /\ c \in Conns /\ Len(list) \in Nat
      /\ Elems(list) = {d \in Conns : conn[d].net = "open"}
  BY DEF Links
<1>3. conn' = [conn EXCEPT ![c] = s]
  BY DEF Becomes
<1>4. CASE s.net = "open"
  <2>1. list' = list
    BY <1>4 DEF Becomes
  <2>2. {d \in Conns : conn'[d].net = "open"} = {d \in Conns : conn[d].net = "open"}
    BY <1>2, <1>3, <1>4
  <2>3. QED
    BY <1>2, <2>1, <2>2 DEF Links
<1>5. CASE s.net = "closed"
  <2>1. list' = Unlinked(c)
    BY <1>5 DEF Becomes, Unlinked
  <2>2. /\ list' \in Seq(Conns) /\ Len(list') = Len(list) - 1
        /\ \A i \in 1..(Len(list) - 1) : list'[i] = IF i < k THEN list[i] ELSE list[i + 1]
    BY <1>1, <1>2, <2>1, UnlinkedIs
  <2>3. Distinct(list')
    BY <1>2, <2>2 DEF Distinct
  <2>4. {d \in Conns : conn'[d].net = "open"} = Elems(list) \ {c}
    BY <1>2, <1>3, <1>5
  <2>5. \A d \in Elems(list') : d \in Elems(list) \ {c}
    BY <1>1, <1>2, <2>2 DEF Distinct, Elems
  <2>6. ASSUME NEW d \in Elems(list), d # c
        PROVE  d \in Elems(list')
    <3>1. PICK i \in 1..Len(list) : list[i] = d
      BY <2>6 DEF Elems
    <3>2. i # k
      BY <1>1, <2>6, <3>1
    <3>3. CASE i < k
      BY <1>2, <2>2, <3>1, <3>3 DEF Elems
    <3>4. CASE i > k
      <4>1. i - 1 \in 1..Len(list') /\ list'[i - 1] = list[i]
        BY <1>2, <2>2, <3>4
      <4>2. QED
        BY <3>1, <4>1 DEF Elems
    <3>5. QED
      BY <1>2, <3>2, <3>3, <3>4
  <2>7. QED
    BY <2>2, <2>3, <2>4, <2>5, <2>6 DEF Links
<1>6. QED
  BY <1>4, <1>5

-----------------------------------------------------------------------------
(* What a session becomes.                                                 *)

LEMMA AppendIs ==
  ASSUME NEW g \in Seq(Part), NEW x \in Part
  PROVE  /\ Append(g, x) \in Seq(Part) /\ Len(Append(g, x)) = Len(g) + 1
         /\ Append(g, x)[Len(g) + 1] = x /\ \A i \in 1..Len(g) : Append(g, x)[i] = g[i]
  OBVIOUS

LEMMA PartsTyped ==
  ASSUME NEW n \in Codes, NEW f \in Items
  PROVE  Headers(n, f) \in Part /\ ErrorPage(n) \in Part /\ Body(f) \in Part
  BY DEF Headers, ErrorPage, Body, Part, Codes, Items

LEMMA CloseIs ==
  ASSUME NEW s \in Conn, OneAnswerTo(s),
         \/ s.req.method = "HEADER" \/ s.req.range = "byte" \/ s.got = <<>> \/ s.got[1].file = "none"
         \/ Len(s.got) = 2 /\ s.got[2].part = "body"
         \/ s.sent > PartsOf(s.req) \/ s.fin
  PROVE  Close(s) \in Conn /\ Received(Close(s)) /\ Close(s).net = "closed" /\ Close(s).ops = "none"
<1> DEFINE t == Close(s)
<1>1. /\ t \in Conn /\ t.net = "closed" /\ t.ops = "none"
      /\ t.got = s.got /\ t.req = s.req /\ t.sent = s.sent /\ t.fin = s.fin
  BY DEF Close, Conn, Phases
<1> HIDE DEF t
<1>2. OneAnswerTo(t) /\ ContentFollowsTo(t)
  BY <1>1 DEF OneAnswerTo, ContentFollowsTo
<1>3. QED
  BY <1>1, <1>2 DEF Received, t

\* HandleRead leaves the answer alone; it completes a request only when all
\* its parts have arrived.
LEMMA HandleReadIs ==
  ASSUME NEW s \in Conn, s.req \in RequestSet, NEW n \in Nat
  PROVE  LET t == HandleRead(s, n) IN
         /\ t \in Conn /\ t.net = s.net /\ t.req = s.req /\ t.sent = s.sent /\ t.fin = s.fin
         /\ t.got = s.got /\ t.ops = s.ops /\ t.mask = s.mask
         /\ t.code = s.code \/ (t.code = 501 /\ s.req.method = "unknown")
         /\ t.phase = "RESPONSE" => /\ t.code = s.code /\ s.req.method # "unknown"
                                    /\ t.read >= PartsOf(s.req)
         /\ t.phase = "CLOSE" <=> n = 0
<1> DEFINE t == HandleRead(s, n)
<1>1. s.read \in Nat /\ s.req.method \in Methods
  BY DEF Conn, RequestSet
<1>2. PhaseAfter(s.req, s.read + n) \in Phases \ {"CLOSE"}
  BY DEF PhaseAfter, Phases
<1>3. CASE n = 0
  BY <1>3 DEF HandleRead, Conn, Phases
<1>4. CASE n # 0
  <2>1. t = [s EXCEPT !.read = s.read + n, !.phase = PhaseAfter(s.req, s.read + n),
                      !.code = IF s.req.method = "unknown" THEN 501 ELSE s.code]
    BY <1>4 DEF HandleRead
  <2>2. t \in Conn
    <3> DEFINE ph == PhaseAfter(s.req, s.read + n)
               co == IF s.req.method = "unknown" THEN 501 ELSE s.code
    <3>1. ph \in Phases /\ co \in Codes \cup {0} /\ s.read + n \in Nat
      BY <1>1, <1>2 DEF Conn, Codes
    <3> HIDE DEF ph, co
    <3>2. [s EXCEPT !.read = s.read + n, !.phase = ph, !.code = co] \in Conn
      BY <3>1 DEF Conn
    <3>3. QED
      BY <2>1, <3>2 DEF ph, co
  <2>3. /\ t.net = s.net /\ t.req = s.req /\ t.sent = s.sent /\ t.fin = s.fin
        /\ t.got = s.got /\ t.ops = s.ops /\ t.mask = s.mask /\ t.read = s.read + n
        /\ t.phase = PhaseAfter(s.req, s.read + n)
        /\ t.code = IF s.req.method = "unknown" THEN 501 ELSE s.code
    BY <2>1 DEF Conn
  <2>4. t.phase = "RESPONSE" => s.req.method # "unknown" /\ t.read >= PartsOf(s.req)
    BY <1>1, <1>4, <2>3 DEF PhaseAfter, PartsOf
  <2>5. QED
    BY <1>2, <1>4, <2>2, <2>3, <2>4
<1>5. QED
  BY <1>3, <1>4

LEMMA LookedTyped ==
  ASSUME NEW s, NEW it \in Items
  PROVE  Looked(s, it) \in Items /\ (it # "none" => Looked(s, it) # "none")
<1>1. "none" \notin Files
  BY FilesAssumption
<1>2. QED
  BY <1>1 DEF Looked, Items

\* The session of a complete request, as HandleUri gets it.
Complete200(s) ==
  /\ s \in Conn /\ s.net = "open" /\ s.req \in RequestSet /\ s.ops = "none" /\ s.phase = "RESPONSE"
  /\ s.got = <<>> /\ ~s.mask /\ s.code = 200 /\ s.read >= PartsOf(s.req)

\* What every handler leaves to the end of the read branch.
Settled(s) == s \in Conn /\ Received(s) /\ s.net \in {"open", "closed"}

\* An answer of one header block without a file, or none, is final.
LEMMA SettlesFinal ==
  ASSUME NEW s \in Conn, s.ops = "none" \/ s.phase = "CLOSE",
         \/ s.got = <<>>
         \/ Len(s.got) = 1 /\ s.got[1].part = "head" /\ s.code = 200
              /\ (s.got[1].file = "none" \/ s.req.method = "HEADER")
         \/ Len(s.got) = 1 /\ s.got[1].part = "head" /\ s.got[1].code = s.code
              /\ (s.got[1].file = "none" \/ s.req.method = "HEADER")
              /\ (s.req.uri = "refused" \/ s.req.range # "no"),
         s.code \in Codes
  PROVE  Settled(Settle(s)) /\ Settle(s).ops = "none"
<1>1. CASE s.code = 200
  <2>1. Settle(s) = Close(s)
    BY <1>1 DEF Settle, Closes
  <2>2. OneAnswerTo(s)
    BY EmptySeq DEF OneAnswerTo
  <2>3. QED
    BY <2>1, <2>2, CloseIs DEF Settled
<1>2. CASE s.code # 200
  <2> DEFINE x == ErrorPage(s.code)
             g == Append(s.got, x)
             t == [s EXCEPT !.got = g]
  <2>1. Settle(s) = Close(t)
    BY <1>2 DEF Settle, Closes
  <2>2. x \in Part /\ x.part = "head" /\ x.file = "none" /\ s.got \in Seq(Part)
    BY PartsTyped DEF ErrorPage, Conn, Items
  <2>3. /\ g \in Seq(Part) /\ Len(g) = Len(s.got) + 1 /\ g[Len(s.got) + 1] = x
        /\ \A i \in 1..Len(s.got) : g[i] = s.got[i]
    <3> HIDE DEF x
    <3> QED
      BY <2>2, AppendIs
  <2>4. t \in Conn /\ t.got = g /\ t.req = s.req /\ t.sent = s.sent /\ t.fin = s.fin
    <3> HIDE DEF g
    <3> QED
      BY <2>3 DEF Conn
  <2>5. CASE s.got = <<>>
    <3>1. Len(g) = 1 /\ g[1] = x
      BY <2>3, <2>5, EmptySeq
    <3>2. OneAnswerTo(t)
      <4> HIDE DEF g, x, t
      <4> QED
        BY <2>2, <2>4, <3>1 DEF OneAnswerTo
    <3>3. QED
      <4> HIDE DEF g, x, t
      <4> QED
        BY <2>1, <2>2, <2>4, <3>1, <3>2, CloseIs DEF Settled
  <2>6. CASE Len(s.got) = 1
    <3>1. Len(g) = 2 /\ g[1] = s.got[1] /\ g[2] = x
      BY <2>3, <2>6
    <3>2. s.got # <<>>
      BY <2>6, EmptySeq
    <3>3. /\ s.got[1].part = "head" /\ s.got[1].code = s.code
          /\ s.got[1].file = "none" \/ s.req.method = "HEADER"
          /\ s.req.uri = "refused" \/ s.req.range # "no"
      BY <1>2, <3>2
    <3>4. OneAnswerTo(t)
      <4> HIDE DEF g, t
      <4> QED
        BY <1>2, <2>4, <3>1, <3>3 DEF OneAnswerTo
    <3>5. QED
      <4> HIDE DEF g, x, t
      <4> QED
        BY <2>1, <2>4, <3>1, <3>3, <3>4, CloseIs DEF Settled
  <2>7. QED
    BY <2>5, <2>6
<1>3. QED
  BY <1>1, <1>2

Answers(u, n, g) == [u EXCEPT !.code = n, !.got = g]

LEMMA AnswersIs ==
  ASSUME NEW u \in Conn, NEW n \in Codes, NEW g \in Seq(Part)
  PROVE  /\ Answers(u, n, g) \in Conn
         /\ Answers(u, n, g).code = n /\ Answers(u, n, g).got = g
         /\ Answers(u, n, g).net = u.net /\ Answers(u, n, g).req = u.req
         /\ Answers(u, n, g).ops = u.ops /\ Answers(u, n, g).phase = u.phase
         /\ Answers(u, n, g).read = u.read
<1> DEFINE v == [u EXCEPT !.code = n, !.got = g]
<1>1. n \in Codes \cup {0}
  OBVIOUS
<1>2. v \in Conn
  <2> HIDE DEF Codes
  <2> QED
    BY <1>1 DEF Conn
<1>3. /\ v.code = n /\ v.got = g /\ v.net = u.net /\ v.req = u.req
      /\ v.ops = u.ops /\ v.phase = u.phase /\ v.read = u.read
  BY DEF Conn
<1> HIDE DEF v
<1>4. Answers(u, n, g) = v
  BY DEF Answers, v
<1>5. QED
  BY <1>2, <1>3, <1>4

LEMMA CgiSettles ==
  ASSUME NEW u, Complete200(u)
  PROVE  Settled(Settle(Cgi(u))) /\ Settle(Cgi(u)).ops = "none"
<1>1. u \in Conn /\ u.ops = "none" /\ u.got = <<>> /\ u.got \in Seq(Part) /\ u.code = 200
  BY DEF Complete200, Conn
<1>2. CASE u.req.uri = "few"
  <2>1. Cgi(u) = u
    BY <1>2 DEF Cgi
  <2>2. QED
    BY <1>1, <2>1, SettlesFinal DEF Codes
<1>3. ASSUME NEW x \in Part, NEW n \in {200, 500}, x.part = "head", x.file = "none", x.code = n,
             n = 500 => u.req.uri = "refused",
             Cgi(u) = Answers(u, n, Append(u.got, x))
      PROVE  Settled(Settle(Cgi(u))) /\ Settle(Cgi(u)).ops = "none"
  <2> DEFINE g == Append(u.got, x)
             v == Answers(u, n, g)
  <2>1. g \in Seq(Part)
    BY <1>1, AppendIs
  <2>0. Len(g) = 1 /\ g[1] = x
    BY <1>1, AppendIs, EmptySeq
  <2> HIDE DEF g
  <2>2. v \in Conn /\ v.ops = "none" /\ v.got = g /\ v.code = n /\ v.req = u.req
    <3>1. n \in Codes
      BY DEF Codes
    <3>2. QED
      BY <1>1, <2>1, <3>1, AnswersIs
  <2> HIDE DEF v
  <2>3. Settled(Settle(v)) /\ Settle(v).ops = "none"
    BY <1>3, <2>0, <2>2, SettlesFinal DEF Codes
  <2>4. QED
    BY <1>3, <2>3 DEF v, g
<1>4. CASE u.req.uri = "refused"
  <2>1. ErrorPage(500) \in Part
    BY PartsTyped DEF Codes, Items
  <2>2. ErrorPage(500).part = "head" /\ ErrorPage(500).file = "none" /\ ErrorPage(500).code = 500
    BY DEF ErrorPage
  <2>3. Cgi(u) = Answers(u, 500, Append(u.got, ErrorPage(500)))
    BY <1>4 DEF Cgi, Answers
  <2>4. QED
    BY <1>3, <1>4, <2>1, <2>2, <2>3
<1>5. CASE u.req.uri \notin {"refused", "few"}
  <2> DEFINE x == Headers(200, "none")
  <2>1. x \in Part /\ x.part = "head" /\ x.file = "none" /\ x.code = 200
    BY PartsTyped DEF Headers, Codes, Items
  <2>2. Cgi(u) = Answers(u, 200, Append(u.got, x))
    BY <1>5 DEF Cgi, Answers
  <2> HIDE DEF x
  <2>3. QED
    BY <1>3, <2>1, <2>2
<1>6. QED
  BY <1>2, <1>4, <1>5

\* The headers of a file leave it pending; without a file, or for headers
\* only, they are the answer.
LEMMA SendHeadersSettles ==
  ASSUME NEW u, Complete200(u), NEW it \in Items, NEW code \in {200, 216},
         code = 216 => u.req.range # "no" /\ it # "none"
  PROVE  LET w == Settle(SendHeaders(u, it, code))
         IN  Settled(w) /\ w.ops \in {"none", "file"} /\ (w.ops = "file" => it # "none")
<1> DEFINE g == Append(u.got, Headers(code, it))
           h == Answers(u, code, g)
           v == SendHeaders(u, it, code)
<1>1. /\ u \in Conn /\ u.ops = "none" /\ u.got = <<>> /\ u.got \in Seq(Part) /\ u.phase = "RESPONSE"
      /\ u.net = "open" /\ u.req \in RequestSet /\ u.read >= PartsOf(u.req)
  BY DEF Complete200, Conn
<1>2. /\ Headers(code, it) \in Part /\ Headers(code, it).part = "head"
      /\ Headers(code, it).code = code /\ Headers(code, it).file = it
  BY PartsTyped DEF Headers, Codes
<1>0. g \in Seq(Part)
  BY <1>1, <1>2, AppendIs
<1>3. Len(g) = 1 /\ g[1].part = "head" /\ g[1].code = code /\ g[1].file = it
  <2> DEFINE x == Headers(code, it)
  <2> HIDE DEF x
  <2>1. Len(g) = 1 /\ g[1] = x
    BY <1>1, <1>2, AppendIs, EmptySeq DEF x
  <2>2. QED
    BY <1>2, <2>1 DEF x
<1> HIDE DEF g
<1>4. /\ h \in Conn /\ h.ops = "none" /\ h.got = g /\ h.code = code /\ h.req = u.req
      /\ h.phase = "RESPONSE" /\ h.net = "open" /\ h.read = u.read
  <2>1. code \in Codes
    BY DEF Codes
  <2>2. QED
    BY <1>0, <1>1, <2>1, AnswersIs
<1>5. v = IF it = "none" \/ u.req.method = "HEADER" THEN h ELSE [h EXCEPT !.ops = "file", !.mask = TRUE]
  BY DEF SendHeaders, Answers, g
<1> HIDE DEF h, v
<1>6. CASE it = "none" \/ u.req.method = "HEADER"
  <2>1. Settled(Settle(h)) /\ Settle(h).ops = "none"
    BY <1>3, <1>4, <1>6, SettlesFinal DEF Codes
  <2>2. v = h
    BY <1>5, <1>6
  <2>3. QED
    BY <2>1, <2>2 DEF v
<1>7. CASE it # "none" /\ u.req.method # "HEADER"
  <2> DEFINE w == [h EXCEPT !.ops = "file", !.mask = TRUE]
  <2>1. /\ w \in Conn /\ w.ops = "file" /\ w.mask /\ w.got = g /\ w.code = code /\ w.req = u.req
        /\ w.phase = "RESPONSE" /\ w.net = "open" /\ w.read = u.read
    BY ZenonT(40), <1>4 DEF Conn
  <2> HIDE DEF w
  <2>2. v = w
    BY <1>5, <1>7 DEF w
  <2>3. Settle(w) = w
    BY <2>1 DEF Settle, Closes
  <2>4. OneAnswerTo(w)
    <3>1. Len(g) <= 1 /\ \A i \in 1..Len(g) : g[i].part = "head"
      BY <1>3
    <3>2. w.got = g
      BY <2>1
    <3>3. QED
      BY <3>1, <3>2 DEF OneAnswerTo
  <2>5. ContentFollowsTo(w)
    BY <2>1 DEF ContentFollowsTo
  <2>6. Pending(w)
    BY <1>1, <1>3, <1>7, <2>1 DEF Pending
  <2>7. Received(w)
    BY <1>1, <2>1, <2>4, <2>5, <2>6 DEF Received
  <2>8. QED
    BY <1>7, <2>1, <2>2, <2>3, <2>7 DEF v, Settled
<1>8. QED
  BY <1>6, <1>7

LEMMA DoFileSettles ==
  ASSUME NEW u, Complete200(u), NEW it \in Items
  PROVE  LET w == Settle(DoFile(u, it))
         IN  Settled(w) /\ w.ops \in {"none", "file"} /\ (w.ops = "file" => it # "none")
<1>1. /\ u \in Conn /\ u.ops = "none" /\ u.got = <<>> /\ u.got \in Seq(Part) /\ u.req.range \in Ranges
  BY DEF Complete200, Conn, RequestSet
<1>2. ASSUME NEW n \in {400, 404}, DoFile(u, it) = [u EXCEPT !.code = n]
      PROVE  Settled(Settle(DoFile(u, it))) /\ Settle(DoFile(u, it)).ops = "none"
  <2> DEFINE v == [u EXCEPT !.code = n]
  <2>1. v \in Conn /\ v.ops = "none" /\ v.got = <<>> /\ v.code = n
    BY <1>1 DEF Conn, Codes
  <2> HIDE DEF v
  <2>2. Settled(Settle(v)) /\ Settle(v).ops = "none"
    BY <2>1, SettlesFinal DEF Codes
  <2>3. QED
    BY <1>2, <2>2 DEF v
<1>3. CASE FileName(u.req.uri) = "none"
  BY <1>2, <1>3 DEF DoFile
<1>4. CASE FileName(u.req.uri) # "none" /\ RangeOf(u, it) = "bad"
  BY <1>2, <1>4 DEF DoFile
<1>5. CASE FileName(u.req.uri) # "none" /\ RangeOf(u, it) = "beyond"
  <2> DEFINE x == ErrorPage(416)
             g == Append(u.got, x)
             v == Answers(u, 416, g)
  <2>1. x \in Part /\ x.part = "head" /\ x.file = "none" /\ x.code = 416
    BY PartsTyped DEF ErrorPage, Codes, Items
  <2>2. DoFile(u, it) = v
    BY <1>5 DEF DoFile, Answers
  <2> HIDE DEF x
  <2>3. g \in Seq(Part)
    BY <1>1, <2>1, AppendIs
  <2>0. Len(g) = 1 /\ g[1] = x
    BY <1>1, <2>1, AppendIs, EmptySeq
  <2> HIDE DEF g
  <2>4. v \in Conn /\ v.ops = "none" /\ v.got = g /\ v.code = 416 /\ v.req = u.req
    <3>1. 416 \in Codes
      BY DEF Codes
    <3>2. QED
      BY <1>1, <2>3, <3>1, AnswersIs
  <2>5. u.req.range # "no"
    BY <1>5 DEF RangeOf
  <2> HIDE DEF v
  <2>6. Settled(Settle(v)) /\ Settle(v).ops = "none"
    BY <2>0, <2>1, <2>4, <2>5, SettlesFinal DEF Codes
  <2>7. QED
    BY <2>2, <2>6
<1>6. CASE FileName(u.req.uri) # "none" /\ RangeOf(u, it) = "no"
  <2>1. DoFile(u, it) = SendHeaders(u, it, 200)
    BY <1>6 DEF DoFile
  <2>2. QED
    BY <2>1, SendHeadersSettles
<1>7. CASE FileName(u.req.uri) # "none" /\ RangeOf(u, it) \notin {"bad", "beyond", "no"}
  <2>1. DoFile(u, it) = SendHeaders(u, it, 216)
    BY <1>7 DEF DoFile
  <2>2. u.req.range # "no" /\ it # "none"
    BY <1>1, <1>7 DEF RangeOf, Ranges
  <2>3. QED
    BY <2>1, <2>2, SendHeadersSettles
<1>8. QED
  BY <1>3, <1>4, <1>5, <1>6, <1>7

LEMMA HandleUriSettles ==
  ASSUME NEW u, Complete200(u), item \in Items
  PROVE  LET w == Settle(HandleUri(u))
         IN  /\ Settled(w) /\ w.ops \in {"none", "file"}
             /\ w.ops = "file" => u.req.uri \notin Cgis /\ Looked(u, item) # "none"
<1>1. CASE u.req.uri \in Cgis
  <2>1. HandleUri(u) = Cgi(u)
    BY <1>1 DEF HandleUri
  <2>2. QED
    BY <2>1, CgiSettles
<1>2. CASE u.req.uri \notin Cgis
  <2>1. HandleUri(u) = DoFile(u, Looked(u, item)) /\ Looked(u, item) \in Items
    BY <1>2, LookedTyped DEF HandleUri
  <2>2. QED
    BY <1>2, <2>1, DoFileSettles
<1>3. QED
  BY <1>1, <1>2

-----------------------------------------------------------------------------
(* One stop of the walk.                                                   *)

\* What a stop of the walk at session c does to it and to the shared item.
Effect(c) ==
  /\ \E s : Settled(s) /\ Becomes(c, s) /\ (s.ops = "file" => item' # "none")
  /\ item' \in Items /\ (item # "none" => item' # "none")
  /\ thread' \in {"run", "fault"}

LEMMA OpenIs ==
  ASSUME NEW c \in Conns, TypeOK, AnswerInv, conn[c].net = "open"
  PROVE  /\ conn[c] \in Conn /\ Received(conn[c]) /\ conn[c].req \in RequestSet
         /\ OneAnswerTo(conn[c])
         /\ IF conn[c].ops = "file" THEN Pending(conn[c]) /\ item # "none" ELSE Asking(conn[c])
<1>1. conn[c] \in Conn /\ Received(conn[c])
  BY DEF TypeOK, AnswerInv
<1>2. conn[c].ops = "file" => item # "none"
  BY DEF AnswerInv
<1>3. QED
  BY <1>1, <1>2 DEF Received

LEMMA ReadDefaultEffect ==
  ASSUME NEW c \in Conns, TypeOK, AnswerInv, conn[c].net = "open", ReadDefault(c)
  PROVE  Effect(c)
<1> DEFINE s0 == Opened(conn[c])
<1>0. conn[c] \in Conn /\ conn[c].req \in RequestSet
      /\ IF conn[c].ops = "file" THEN Pending(conn[c]) ELSE Asking(conn[c])
  BY OpenIs
<1>1. s0 \in Conn
  <2>1. 200 \in Codes \cup {0} /\ "METHOD" \in Phases
    BY DEF Codes, Phases
  <2>2. [conn[c] EXCEPT !.ops = "default", !.phase = "METHOD", !.code = 200] \in Conn
    BY <1>0, <2>1 DEF Conn
  <2>3. QED
    BY <1>0, <2>2 DEF Opened
<1>2. /\ s0.ops = "default" /\ s0.net = "open" /\ s0.req = conn[c].req /\ s0.got = <<>> /\ ~s0.mask
      /\ s0.code = 200 \/ (s0.code = 501 /\ s0.req.method = "unknown")
  <2>1. s0.ops = "default"
    BY DEF ReadDefault
  <2>2. CASE conn[c].ops = "none"
    BY <1>0, <2>2 DEF Opened, Asking, Conn
  <2>3. CASE conn[c].ops # "none"
    BY <1>0, <2>1, <2>3 DEF Opened, Asking
  <2>4. QED
    BY <2>2, <2>3
<1>3. PICK n \in 0..(s0.sent - s0.read) :
        LET t == HandleRead(s0, n)
            answered == t.phase = "RESPONSE"
            u == [t EXCEPT !.ops = "none"]
        IN  /\ Becomes(c, Settle(IF answered THEN HandleUri(u) ELSE t))
            /\ item' = IF answered /\ t.req.uri \notin Cgis THEN Looked(t, item) ELSE item
            /\ thread' \in {"run"} \cup
                 (IF answered /\ ComparesNull(t) THEN {"fault"} ELSE {})
  BY DEF ReadDefault
<1> DEFINE t == HandleRead(s0, n)
           u == [t EXCEPT !.ops = "none"]
<1>4. n \in Nat
  OBVIOUS
<1> HIDE DEF s0
<1>5. /\ t \in Conn /\ t.net = "open" /\ t.req = s0.req /\ t.req \in RequestSet
      /\ t.got = <<>> /\ t.ops = "default" /\ ~t.mask
      /\ t.code = 200 \/ (t.code = 501 /\ t.req.method = "unknown")
      /\ t.phase = "RESPONSE" => t.code = 200 /\ t.read >= PartsOf(t.req)
  <2>1. s0.req \in RequestSet
    BY <1>0, <1>2
  <2>2. /\ t \in Conn /\ t.net = s0.net /\ t.req = s0.req /\ t.got = s0.got /\ t.ops = s0.ops
        /\ t.mask = s0.mask
        /\ t.code = s0.code \/ (t.code = 501 /\ s0.req.method = "unknown")
        /\ t.phase = "RESPONSE" => /\ t.code = s0.code /\ s0.req.method # "unknown"
                                   /\ t.read >= PartsOf(s0.req)
    BY <1>1, <1>4, <2>1, HandleReadIs
  <2>3. QED
    BY <1>2, <2>1, <2>2
<1> HIDE DEF t
<1>6. item \in Items /\ thread' \in {"run", "fault"}
  BY <1>3 DEF TypeOK
<1>7. CASE t.phase = "RESPONSE"
  <2>1. Complete200(u) /\ u.req = t.req
    BY <1>5, <1>7 DEF Complete200, Conn
  <2>2. Becomes(c, Settle(HandleUri(u)))
    BY <1>3, <1>7 DEF t
  <2>3. item' = IF t.req.uri \notin Cgis THEN Looked(t, item) ELSE item
    BY <1>3, <1>7 DEF t
  <2> HIDE DEF u
  <2> DEFINE w == Settle(HandleUri(u))
  <2>4. Settled(w) /\ (w.ops = "file" => u.req.uri \notin Cgis /\ Looked(u, item) # "none")
    BY <1>6, <2>1, HandleUriSettles
  <2>5. Looked(u, item) = Looked(t, item)
    BY <2>1 DEF Looked, TriesDefaults
  <2>6. item' \in Items /\ (item # "none" => item' # "none")
    BY <1>6, <2>3, LookedTyped
  <2>7. w.ops = "file" => item' # "none"
    BY <2>1, <2>3, <2>4, <2>5
  <2> HIDE DEF w
  <2>8. QED
    BY <1>6, <2>2, <2>4, <2>6, <2>7 DEF Effect, w
<1>8. CASE t.phase # "RESPONSE"
  <2>1. Becomes(c, Settle(t)) /\ item' = item
    BY <1>3, <1>8 DEF t
  <2>2. Settled(Settle(t)) /\ Settle(t).ops # "file"
    <3>1. CASE t.phase = "CLOSE"
      BY <1>5, <3>1, SettlesFinal DEF Codes
    <3>2. CASE t.phase # "CLOSE"
      <4>1. Settle(t) = t
        BY <1>5, <3>2 DEF Settle, Closes
      <4>2. OneAnswerTo(t) /\ ContentFollowsTo(t) /\ Asking(t)
        BY <1>5, EmptySeq DEF OneAnswerTo, ContentFollowsTo, Asking
      <4>3. Received(t)
        BY <1>5, <4>2 DEF Received
      <4>4. QED
        BY <1>5, <4>1, <4>3 DEF Settled
    <3>3. QED
      BY <3>1, <3>2
  <2>3. QED
    BY <1>6, <2>1, <2>2 DEF Effect
<1>9. QED
  BY <1>7, <1>8

LEMMA ReadFileEffect ==
  ASSUME NEW c \in Conns, TypeOK, AnswerInv, conn[c].net = "open", Readable(c), thread = "run",
         ReadFile(c)
  PROVE  Effect(c)
<1> DEFINE s == conn[c]
           v == [s EXCEPT !.mask = FALSE, !.phase = "CLOSE"]
<1>1. /\ s \in Conn /\ s.req \in RequestSet /\ OneAnswerTo(s) /\ Pending(s) /\ item \in Items
  BY OpenIs DEF ReadFile, TypeOK
<1>2. s.sent > PartsOf(s.req) \/ s.fin
  <2>1. PartsOf(s.req) \in Nat /\ s.sent \in Nat /\ s.read \in Nat
    BY <1>1 DEF PartsOf, Conn
  <2>2. s.sent > s.read \/ s.fin
    BY DEF Readable
  <2>3. QED
    BY <1>1, <2>1, <2>2 DEF Pending
<1>3. Becomes(c, Settle(v)) /\ item' = item /\ thread' = thread
  BY DEF ReadFile
<1>4. v \in Conn
  BY <1>1 DEF Conn, Phases
<1>5. /\ v.got = s.got /\ v.req = s.req /\ v.code = s.code /\ v.sent = s.sent /\ v.fin = s.fin
      /\ v.phase = "CLOSE"
  BY <1>1 DEF Conn
<1> HIDE DEF s, v
<1>6. OneAnswerTo(v)
  BY <1>1, <1>5 DEF OneAnswerTo
<1>7. CASE s.code = 200
  <2>1. Settle(v) = Close(v)
    BY <1>5, <1>7 DEF Settle, Closes
  <2>2. Settled(Close(v)) /\ Close(v).ops = "none"
    BY <1>2, <1>4, <1>5, <1>6, CloseIs DEF Settled
  <2>3. QED
    BY <1>1, <1>3, <2>1, <2>2 DEF Effect
<1>8. CASE s.code = 216
  <2> DEFINE x == ErrorPage(216)
             g == Append(v.got, x)
             w == [v EXCEPT !.got = g]
  <2>1. Settle(v) = Close(w)
    BY <1>5, <1>8 DEF Settle, Closes
  <2>2. x \in Part /\ v.got \in Seq(Part)
    BY <1>4, PartsTyped DEF Codes, Items, Conn
  <2> HIDE DEF x
  <2>3. g \in Seq(Part)
    BY <2>2, AppendIs
  <2>4. Len(g) = 2 /\ g[1] = v.got[1] /\ g[2] = x
    BY <1>1, <1>5, <2>2, AppendIs DEF Pending
  <2> HIDE DEF g
  <2>5. w \in Conn
    BY <1>4, <2>3 DEF Conn
  <2>6. w.got = g /\ w.req = v.req /\ w.sent = v.sent /\ w.fin = v.fin
    BY <1>4 DEF Conn
  <2> HIDE DEF w
  <2>7. g[1].code = 216 /\ s.req.range # "no"
    BY <1>1, <1>5, <1>8, <2>4 DEF Pending
  <2>8. OneAnswerTo(w)
    BY <1>5, <2>4, <2>6, <2>7 DEF OneAnswerTo, x
  <2>9. Settled(Close(w)) /\ Close(w).ops = "none"
    BY <1>2, <1>5, <2>5, <2>6, <2>8, CloseIs DEF Settled
  <2>10. QED
    BY <1>1, <1>3, <2>1, <2>9 DEF Effect
<1>9. QED
  BY <1>1, <1>7, <1>8 DEF Pending

LEMMA ReadNoRequestEffect ==
  ASSUME NEW c \in Conns, TypeOK, AnswerInv, conn[c].net = "open", ReadNoRequest(c)
  PROVE  Effect(c)
<1> DEFINE s == conn[c]
           v == [s EXCEPT !.phase = "CLOSE"]
<1>1. s \in Conn /\ s.got = <<>> /\ item \in Items
  BY OpenIs DEF ReadNoRequest, Asking, TypeOK
<1>2. Becomes(c, Close(v)) /\ item' = item /\ thread' \in {"run", "fault"}
  BY DEF ReadNoRequest
<1>3. v \in Conn
  BY <1>1 DEF Conn, Phases
<1>4. v.got = <<>>
  BY <1>1 DEF Conn
<1> HIDE DEF v
<1>5. OneAnswerTo(v)
  BY <1>4, EmptySeq DEF OneAnswerTo
<1>6. Settled(Close(v)) /\ Close(v).ops = "none"
  BY <1>3, <1>4, <1>5, CloseIs DEF Settled
<1>7. QED
  BY <1>1, <1>2, <1>6 DEF Effect

LEMMA WriteEffect ==
  ASSUME NEW c \in Conns, TypeOK, AnswerInv, conn[c].net = "open", conn[c].mask, thread = "run",
         WriteEvent(c)
  PROVE  Effect(c)
<1> DEFINE s == conn[c]
           v == [s EXCEPT !.phase = "CLOSE", !.got = IF HasContent(c) THEN Append(s.got, Body(item)) ELSE s.got]
<1>1. s \in Conn /\ OneAnswerTo(s) /\ Pending(s) /\ item \in Items /\ item # "none"
  BY OpenIs DEF Asking, TypeOK
<1>2. Becomes(c, Close(v)) /\ item' = item /\ thread' = thread
  BY DEF WriteEvent
<1> DEFINE g == IF HasContent(c) THEN Append(s.got, Body(item)) ELSE s.got
<1>3. s.got \in Seq(Part) /\ Body(item) \in Part
  BY <1>1, PartsTyped DEF Conn, Codes
<1>4. g \in Seq(Part)
  <2> DEFINE x == Body(item)
  <2> HIDE DEF x
  <2> QED
    BY <1>3, AppendIs DEF x
<1>5. \/ g = s.got /\ s.req.range = "byte"
      \/ Len(g) = 2 /\ g[1] = s.got[1] /\ g[2].part = "body"
  <2>1. CASE ~HasContent(c)
    BY <1>1, <2>1 DEF HasContent
  <2>2. CASE HasContent(c)
    <3> DEFINE x == Body(item)
    <3>1. x.part = "body" /\ x \in Part
      BY <1>3 DEF Body
    <3> HIDE DEF x
    <3>2. Append(s.got, x)[1] = s.got[1] /\ Append(s.got, x)[2] = x /\ Len(Append(s.got, x)) = 2
      BY <1>1, <1>3, <3>1, AppendIs DEF Pending
    <3>3. g = Append(s.got, x)
      BY <2>2 DEF x
    <3> HIDE DEF g
    <3>4. QED
      BY <3>1, <3>2, <3>3
  <2>3. QED
    BY <2>1, <2>2
<1>6. v = [s EXCEPT !.phase = "CLOSE", !.got = g]
  OBVIOUS
<1> HIDE DEF g, v
<1>7. v \in Conn
  BY <1>1, <1>4, <1>6 DEF Conn, Phases
<1>8. v.got = g /\ v.req = s.req
  BY <1>1, <1>6 DEF Conn
<1>9. OneAnswerTo(v)
  <2>1. CASE g = s.got
    BY <1>1, <1>8, <2>1 DEF OneAnswerTo
  <2>2. CASE Len(g) = 2 /\ g[1] = s.got[1] /\ g[2].part = "body"
    BY <1>1, <1>8, <2>2 DEF OneAnswerTo, Pending
  <2>3. QED
    BY <1>5, <2>1, <2>2
<1>10. Settled(Close(v)) /\ Close(v).ops = "none"
  BY <1>5, <1>7, <1>8, <1>9, CloseIs DEF Settled
<1>11. QED
  BY <1>1, <1>2, <1>10 DEF Effect

LEMMA ServeEffect ==
  ASSUME NEW c \in Conns, TypeOK, AnswerInv, conn[c].net = "open", Seen(c), thread = "run",
         ReadEvent(c) \/ WriteEvent(c)
  PROVE  Effect(c)
  BY ReadDefaultEffect, ReadFileEffect, ReadNoRequestEffect, WriteEffect
     DEF ReadEvent, WriteEvent, Seen

-----------------------------------------------------------------------------
(* Every step keeps the invariant.                                         *)

Inv == TypeOK /\ ListInv /\ AnswerInv

\* The place of c in l; Position(c) is its place in the list.
Place(l, c) == CHOOSE i \in 1..Len(l) : l[i] = c

LEMMA PlaceIs ==
  ASSUME NEW l \in Seq(Conns), Distinct(l), NEW c \in Elems(l)
  PROVE  Place(l, c) \in 1..Len(l) /\ l[Place(l, c)] = c
         /\ \A i \in 1..Len(l) : l[i] = c => Place(l, c) = i
  BY DEF Place, Distinct, Elems

LEMMA InitInv == Init => Inv
<1> SUFFICES ASSUME Init
             PROVE  Inv
  OBVIOUS
<1> DEFINE s0 == [net |-> "none", req |-> NoRequest, sent |-> 0, fin |-> FALSE, got |-> <<>>,
                  read |-> 0, ops |-> "none", phase |-> "METHOD", mask |-> FALSE, code |-> 0]
<1>1. s0 \in Conn
  BY EmptySeq DEF Conn, Phases
<1>2. conn = [c \in Conns |-> s0] /\ list = <<>> /\ cursor = Nil /\ pc = "none"
  BY DEF Init
<1>3. TypeOK
  <2>1. conn \in [Conns -> Conn]
    <3> HIDE DEF s0
    <3> QED
      BY <1>1, <1>2
  <2>2. list \in Seq(Conns)
    BY <1>2, EmptySeq
  <2>3. /\ thread = "off" /\ closeFlag = FALSE /\ starts = 0 /\ pc = "none"
        /\ ready = {} /\ writers = {} /\ cursor = Nil /\ item = "none"
    BY DEF Init
  <2>4. closeFlag \in BOOLEAN
    BY <2>3
  <2>5. starts \in 0..MaxStarts
    BY <2>3, MaxStartsAssumption
  <2>6. item \in Items
    BY <2>3 DEF Items
  <2>7. QED
    BY <2>1, <2>2, <2>3, <2>4, <2>5, <2>6 DEF TypeOK
<1>4. Len(list) = 0
  BY <1>2, EmptySeq
<1>5. ListInv
  <2>1. list \in Seq(Conns)
    BY <1>2, EmptySeq
  <2>2. Distinct(list) /\ Elems(list) = {}
    BY <1>4 DEF Distinct, Elems
  <2>3. QED
    BY <1>2, <2>1, <2>2 DEF ListInv, Links
<1>6. AnswerInv
  <2>1. OneAnswerTo(s0) /\ ContentFollowsTo(s0)
    BY EmptySeq DEF OneAnswerTo, ContentFollowsTo
  <2>2. Received(s0)
    BY <2>1 DEF Received
  <2>3. s0.ops # "file"
    OBVIOUS
  <2> HIDE DEF s0
  <2>4. QED
    BY <1>2, <1>4, <2>2, <2>3 DEF AnswerInv
<1>7. QED
  BY <1>3, <1>5, <1>6 DEF Inv

\* What happens away from the sessions: the thread's own steps.
LEMMA StillInv ==
  ASSUME Inv, UNCHANGED <<passVars, list, item, conn>>,
         pc' = pc \/ pc' \in {"none", "setup", "select", "exit", "gone"},
         thread' \in {"off", "run", "fault"}, closeFlag' \in BOOLEAN, starts' \in 0..MaxStarts
  PROVE  Inv'
<1> USE DEF passVars
<1>1. TypeOK'
  BY DEF Inv, TypeOK
<1>2. ListInv'
  BY DEF Inv, ListInv
<1>3. \A i \in 1..Len(list) : Ahead(i)' => Ahead(i)
  BY DEF Ahead, Position
<1>4. \A c : Seen(c)' <=> Seen(c)
  BY DEF Seen, Readable
<1>5. AnswerInv'
  BY <1>3, <1>4 DEF Inv, AnswerInv
<1>6. QED
  BY <1>1, <1>2, <1>5 DEF Inv

LEMMA SelectInv ==
  ASSUME Inv, Select, thread = "run"
  PROVE  Inv'
<1> USE DEF threadVars
<1>0. TypeOK /\ ListInv /\ AnswerInv /\ list \in Seq(Conns)
  BY DEF Inv, TypeOK
<1>1. UNCHANGED <<thread, closeFlag, starts, list, item, conn>>
  BY DEF Select
<1>2. /\ SessionSet = Elems(list) /\ Elems(list) \subseteq Conns
      /\ ready' = {c \in SessionSet : Readable(c)} /\ writers' = {c \in SessionSet : conn[c].mask}
  BY <1>0 DEF Select, SessionSet, Elems
<1>3. CASE Backlog # {} /\ pc' = "accept" /\ UNCHANGED cursor
  <2>1. TypeOK'
    BY <1>0, <1>1, <1>2, <1>3 DEF TypeOK
  <2>2. ListInv'
    BY <1>0, <1>1, <1>3 DEF ListInv
  <2>3. \A c : Seen(c)'
    BY <1>1, <1>2 DEF Seen, Readable
  <2>4. AnswerInv'
    BY <1>0, <1>1, <2>3 DEF AnswerInv
  <2>5. QED
    BY <2>1, <2>2, <2>4 DEF Inv
<1>4. CASE /\ Backlog = {} /\ ready' \cup writers' # {} /\ pc' = "walk"
           /\ cursor' = FirstIn(list, ready' \cup writers')
  <2>1. cursor' \in Elems(list)
    <3>1. PICK k \in 1..Len(list) : list[k] \in ready' \cup writers'
      BY <1>2, <1>4 DEF Elems
    <3>2. FirstIn(list, ready' \cup writers') # Nil
      BY <1>0, <3>1, FirstInFinds
    <3>3. QED
      BY <1>0, <1>4, <3>2, FirstInIs DEF Elems
  <2>2. TypeOK'
    BY <1>0, <1>1, <1>2, <1>4, <2>1 DEF TypeOK
  <2>3. ListInv'
    BY <1>0, <1>1, <1>2, <2>1, ConnsAssumption DEF ListInv
  <2>4. \A c : Seen(c)'
    BY <1>1, <1>2 DEF Seen, Readable
  <2>5. AnswerInv'
    BY <1>0, <1>1, <2>4 DEF AnswerInv
  <2>6. QED
    BY <2>2, <2>3, <2>5 DEF Inv
<1>5. QED
  BY <1>3, <1>4 DEF Select

\* A client touches its own connection only, and there nothing of the session.
LEMMA ClientInv ==
  ASSUME Inv, NEW c \in Conns, Client(c)
  PROVE  Inv'
<1> USE DEF threadVars, passVars
<1>0. TypeOK /\ ListInv /\ AnswerInv /\ conn \in [Conns -> Conn] /\ conn[c] \in Conn /\ Received(conn[c])
  BY DEF Inv, TypeOK, AnswerInv
<1>1. UNCHANGED <<thread, closeFlag, starts, pc, ready, writers, cursor, list, item>>
  BY DEF Client
<1> DEFINE s == conn[c]
           t == conn'[c]
<1>2. /\ conn' = [conn EXCEPT ![c] = t] /\ t \in Conn
      /\ t.net = s.net \/ (s.net = "none" /\ t.net = "backlog" /\ t.req \in RequestSet)
      /\ t.net = s.net => t.req = s.req /\ s.net \in {"backlog", "open"}
      /\ t.got = s.got /\ t.ops = s.ops /\ t.code = s.code /\ t.read = s.read
      /\ t.sent >= s.sent /\ (s.fin => t.fin)
  <2>1. CASE Connect(c)
    <3>1. PICK r \in Requests[c] : conn' = [conn EXCEPT ![c].net = "backlog", ![c].req = r]
      BY <2>1 DEF Connect
    <3>2. r \in RequestSet
      BY RequestsAssumption
    <3>3. s.net = "none"
      BY <2>1 DEF Connect
    <3>4. t = [s EXCEPT !.net = "backlog", !.req = r]
      BY <1>0, <3>1
    <3>5. t \in Conn
      BY <1>0, <3>2, <3>4 DEF Conn
    <3>6. conn' = [conn EXCEPT ![c] = t]
      BY <1>0, <3>1
    <3>7. QED
      BY <1>0, <3>2, <3>3, <3>4, <3>5, <3>6 DEF Conn
  <2>2. CASE Send(c)
    <3> DEFINE n == s.sent + 1
    <3>0. n \in Nat
      BY <1>0 DEF Conn
    <3>1. t = [s EXCEPT !.sent = n] /\ s.net \in {"backlog", "open"}
      BY <1>0, <2>2 DEF Send
    <3>2. t \in Conn
      <4> HIDE DEF n
      <4> QED
        BY <1>0, <3>0, <3>1 DEF Conn
    <3>3. conn' = [conn EXCEPT ![c] = t]
      BY <1>0, <2>2 DEF Send
    <3>4. QED
      BY <1>0, <3>1, <3>2, <3>3 DEF Conn
  <2>3. CASE Finish(c)
    <3>1. t = [s EXCEPT !.fin = TRUE] /\ s.net \in {"backlog", "open"}
      BY <1>0, <2>3 DEF Finish
    <3>2. t \in Conn
      BY <1>0, <3>1 DEF Conn
    <3>3. conn' = [conn EXCEPT ![c] = t]
      BY <1>0, <2>3 DEF Finish
    <3>4. QED
      BY <1>0, <3>1, <3>2, <3>3 DEF Conn
  <2>4. QED
    BY <2>1, <2>2, <2>3 DEF Client
<1>3. t.mask <=> s.mask
  <2>1. CASE Connect(c)
    BY <1>0, <2>1 DEF Connect, Conn
  <2>2. CASE Send(c)
    BY <1>0, <2>2 DEF Send, Conn
  <2>3. CASE Finish(c)
    BY <1>0, <2>3 DEF Finish, Conn
  <2>4. QED
    BY <2>1, <2>2, <2>3 DEF Client
<1>4. Received(t)
  <2>1. OneAnswerTo(t)
    <3>1. CASE t.net = s.net
      BY <1>0, <1>2, <3>1 DEF Received, OneAnswerTo
    <3>2. CASE s.net = "none"
      <4>1. t.got = <<>>
        BY <1>0, <1>2, <3>2 DEF Received
      <4>2. QED
        BY <4>1, EmptySeq DEF OneAnswerTo
    <3>3. QED
      BY <1>2, <3>1, <3>2
  <2>2. ContentFollowsTo(t)
    BY <1>2 DEF ContentFollowsTo
  <2>3. t.net = "open" => t.req \in RequestSet /\ (IF t.ops = "file" THEN Pending(t) ELSE Asking(t))
    BY <1>0, <1>2, <1>3 DEF Received, Pending, Asking
  <2>4. t.net \in {"none", "backlog"} => t.got = <<>> /\ t.ops = "none" /\ ~t.mask
    BY <1>0, <1>2, <1>3 DEF Received
  <2>5. t.net = "backlog" => t.req \in RequestSet
    BY <1>0, <1>2 DEF Received
  <2>6. QED
    BY <2>1, <2>2, <2>3, <2>4, <2>5 DEF Received
<1>5. conn' \in [Conns -> Conn] /\ \A d \in Conns : d # c => conn'[d] = conn[d]
  BY <1>0, <1>2
<1>6. TypeOK'
  BY <1>0, <1>1, <1>5 DEF TypeOK
<1>7. ListInv'
  <2>1. {d \in Conns : conn'[d].net = "open"} = {d \in Conns : conn[d].net = "open"}
    BY <1>0, <1>2, <1>5
  <2>2. QED
    BY <1>0, <1>1, <2>1 DEF ListInv, Links
<1>8. AnswerInv'
  <2>1. \A d \in Conns : Received(conn'[d])
    BY <1>0, <1>4, <1>5 DEF AnswerInv
  <2>2. \A i : Ahead(i)' <=> Ahead(i)
    BY <1>1 DEF Ahead, Position
  <2>3. ASSUME NEW d \in Conns, Seen(d)
        PROVE  Seen(d)'
    <3>1. CASE d = c
      <4>1. s.sent \in Nat /\ t.sent \in Nat /\ s.read \in Nat
        BY <1>0, <1>2 DEF Conn
      <4>2. d \in ready' => Readable(d)'
        BY <1>1, <1>2, <2>3, <3>1, <4>1 DEF Seen, Readable
      <4>3. d \in writers' => conn'[d].mask
        BY <1>1, <1>3, <2>3, <3>1 DEF Seen
      <4>4. QED
        BY <4>2, <4>3 DEF Seen
    <3>2. CASE d # c
      <4>1. conn'[d] = conn[d]
        BY <1>5, <3>2
      <4>2. QED
        BY <1>1, <2>3, <4>1 DEF Seen, Readable
    <3>3. QED
      BY <3>1, <3>2
  <2>4. \A i \in 1..Len(list) : list[i] \in Conns
    BY <1>0 DEF TypeOK
  <2>5. \A i \in 1..Len(list') : Ahead(i)' => Seen(list[i])'
    BY <1>0, <1>1, <2>2, <2>3, <2>4 DEF AnswerInv
  <2>6. (\E d \in Conns : conn'[d].ops = "file") => item' # "none"
    BY <1>0, <1>1, <1>2, <1>5 DEF AnswerInv
  <2>7. QED
    BY <1>1, <2>1, <2>5, <2>6 DEF AnswerInv
<1>9. QED
  BY <1>6, <1>7, <1>8 DEF Inv

LEMMA AcceptInv ==
  ASSUME Inv, Accept, thread = "run"
  PROVE  Inv'
<1> USE DEF threadVars
<1>0. TypeOK /\ ListInv /\ AnswerInv /\ conn \in [Conns -> Conn] /\ Links(list, conn)
  BY DEF Inv, TypeOK, ListInv
<1>1. /\ UNCHANGED <<thread, closeFlag, starts, item>> /\ pc = "accept"
      /\ WalkTo(FirstIn(list, ready \cup writers))
  BY DEF Accept
<1> DEFINE n == FirstIn(list, ready \cup writers)
<1>2. n = Nil \/ n \in Elems(list)
  BY <1>0, FirstInIs DEF Elems, Links
<1>3. /\ cursor' = n
      /\ n = Nil => pc' = "select" /\ ready' = {} /\ writers' = {}
      /\ n # Nil => pc' = "walk" /\ ready' = ready /\ writers' = writers
  BY <1>1 DEF WalkTo
<1> HIDE DEF n
<1>4. PICK c \in Backlog :
        \/ list' = <<c>> \o list /\ conn' = [conn EXCEPT ![c].net = "open"]
        \/ list' = list /\ conn' = [conn EXCEPT ![c].net = "closed"]
  BY DEF Accept
<1>5. c \in Conns /\ conn[c].net = "backlog" /\ conn[c] \in Conn /\ Received(conn[c]) /\ c \notin Elems(list)
  BY <1>0 DEF Backlog, AnswerInv, Links
<1>6. PICK w \in {"open", "closed"} :
        /\ conn' = [conn EXCEPT ![c].net = w]
        /\ w = "open" => list' = <<c>> \o list
        /\ w = "closed" => list' = list
  BY <1>4
<1> DEFINE t == [conn[c] EXCEPT !.net = w]
<1>7. t \in Conn /\ Received(t) /\ t.net = w /\ t.ops = "none"
  <2>1. t \in Conn
    BY <1>5 DEF Conn
  <2>2. t.net = w /\ t.got = <<>> /\ t.ops = "none" /\ ~t.mask /\ t.req \in RequestSet
    BY <1>5 DEF Received, Conn
  <2> HIDE DEF t
  <2>3. OneAnswerTo(t) /\ ContentFollowsTo(t) /\ Asking(t)
    BY <2>2, EmptySeq DEF OneAnswerTo, ContentFollowsTo, Asking
  <2>4. QED
    BY <2>1, <2>2, <2>3 DEF Received
<1>8. conn' = [conn EXCEPT ![c] = t] /\ conn' \in [Conns -> Conn]
  BY <1>0, <1>5, <1>6, <1>7
<1> HIDE DEF t
<1>9. conn'[c] = t /\ \A d \in Conns : d # c => conn'[d] = conn[d]
  BY <1>0, <1>5, <1>8
\* The new session stands in front of the others.
<1>10. ASSUME w = "open"
       PROVE  /\ list' \in Seq(Conns) /\ Len(list') = Len(list) + 1 /\ list'[1] = c
              /\ \A i \in 2..Len(list') : i - 1 \in 1..Len(list) /\ list'[i] = list[i - 1]
  <2>1. <<c>> \in Seq(Conns) /\ Len(<<c>>) = 1 /\ <<c>>[1] = c /\ list \in Seq(Conns) /\ Len(list) \in Nat
    BY <1>0, <1>5 DEF Links
  <2> DEFINE S == <<c>>
  <2>2. S \in Seq(Conns) /\ Len(S) = 1 /\ S[1] = c
    BY <2>1
  <2>3. list' = S \o list
    BY <1>6, <1>10
  <2> HIDE DEF S
  <2>4. /\ S \o list \in Seq(Conns) /\ Len(S \o list) = Len(S) + Len(list)
        /\ \A i \in 1..(Len(S) + Len(list)) : (S \o list)[i] = IF i <= Len(S) THEN S[i] ELSE list[i - Len(S)]
    BY <2>1, <2>2, ConcatProperties
  <2>5. QED
    BY <2>1, <2>2, <2>3, <2>4
<1>11. Links(list', conn')
  <2>1. CASE w = "open"
    <3>1. list \in Seq(Conns) /\ Distinct(list) /\ Len(list) \in Nat
      BY <1>0 DEF Links
    <3>2. Distinct(list')
      <4>1. ASSUME NEW i \in 1..Len(list'), NEW j \in 1..Len(list'), list'[i] = list'[j], i # 1
            PROVE  i = j
        <5>1. i - 1 \in 1..Len(list) /\ list'[i] = list[i - 1]
          BY <1>10, <2>1, <4>1
        <5>2. j # 1
          BY <1>5, <1>10, <2>1, <4>1, <5>1 DEF Elems
        <5>3. j - 1 \in 1..Len(list) /\ list'[j] = list[j - 1]
          BY <1>10, <2>1, <5>2
        <5>4. i - 1 = j - 1
          BY <3>1, <4>1, <5>1, <5>3 DEF Distinct
        <5>5. QED
          BY <5>4
      <4>2. QED
        BY <4>1 DEF Distinct
    <3>3. {d \in Conns : conn'[d].net = "open"} = Elems(list) \cup {c}
      BY <1>0, <1>5, <1>7, <1>9, <2>1 DEF Links
    <3>4. \A d \in Elems(list') : d \in Elems(list) \cup {c}
      <4>1. ASSUME NEW i \in 1..Len(list')
            PROVE  list'[i] \in Elems(list) \cup {c}
        <5>1. CASE i = 1
          BY <1>10, <2>1, <5>1
        <5>2. CASE i # 1
          BY <1>10, <2>1, <5>2 DEF Elems
        <5>3. QED
          BY <5>1, <5>2
      <4>2. QED
        BY <4>1 DEF Elems
    <3>5. c \in Elems(list')
      <4>1. 1 \in 1..Len(list')
        BY <1>10, <2>1, <3>1
      <4>2. QED
        BY <1>10, <2>1, <4>1 DEF Elems
    <3>6. ASSUME NEW i \in 1..Len(list)
          PROVE  list[i] \in Elems(list')
      <4>1. i + 1 \in 2..Len(list') /\ i + 1 \in 1..Len(list') /\ (i + 1) - 1 = i
        BY <1>10, <2>1, <3>1
      <4>2. list'[i + 1] = list[i]
        BY <1>10, <2>1, <4>1
      <4>3. QED
        BY <4>1, <4>2 DEF Elems
    <3>7. \A d \in Elems(list) : d \in Elems(list')
      BY <3>6 DEF Elems
    <3>8. QED
      BY <1>10, <2>1, <3>2, <3>3, <3>4, <3>5, <3>7 DEF Links
  <2>2. CASE w = "closed"
    <3>1. {d \in Conns : conn'[d].net = "open"} = {d \in Conns : conn[d].net = "open"}
      BY <1>0, <1>5, <1>7, <1>9, <2>2
    <3>2. QED
      BY <1>0, <1>6, <2>2, <3>1 DEF Links
  <2>3. QED
    BY <2>1, <2>2
<1>12. n = Nil \/ (n \in Elems(list') /\ n # c)
  <2>1. ASSUME n \in Elems(list)
        PROVE  n \in Elems(list') /\ n # c
    <3>1. n \in Conns /\ conn[n].net = "open" /\ n # c
      BY <1>0, <1>5, <2>1 DEF Links
    <3>2. conn'[n].net = "open"
      BY <1>9, <3>1
    <3>3. QED
      BY <1>11, <3>1, <3>2 DEF Links
  <2>2. QED
    BY <1>2, <2>1
<1>13. TypeOK'
  <2>1. list' \in Seq(Conns) /\ \A d \in Elems(list') : d \in Conns
    BY <1>11 DEF Links
  <2>2. QED
    BY <1>0, <1>1, <1>3, <1>8, <1>12, <2>1 DEF TypeOK
<1>14. ListInv'
  BY <1>3, <1>11, <1>12, ConnsAssumption DEF ListInv
<1>15. AnswerInv'
  <2>1. \A d \in Conns : Received(conn'[d])
    BY <1>0, <1>7, <1>9 DEF AnswerInv
  <2>2. (\E d \in Conns : conn'[d].ops = "file") => item' # "none"
    BY <1>0, <1>1, <1>7, <1>9 DEF AnswerInv
  <2>3. ASSUME NEW i \in 1..Len(list'), Ahead(i)'
        PROVE  Seen(list[i])'
    <3>1. n # Nil /\ i >= Place(list', n) /\ ready' = ready /\ writers' = writers
      BY <1>3, <2>3 DEF Ahead, Position, Place
    <3>2. \A j \in 1..Len(list) : Seen(list[j]) /\ list[j] \in Conns /\ list[j] # c
      BY <1>0, <1>1, <1>5 DEF AnswerInv, Ahead, Elems, Links
    <3>3. ASSUME NEW d, \E j \in 1..Len(list) : d = list[j]
          PROVE  Seen(d)'
      <4>1. conn'[d] = conn[d] /\ Seen(d)
        BY <1>9, <3>2, <3>3
      <4>2. QED
        BY <3>1, <4>1 DEF Seen, Readable
    <3>4. \E j \in 1..Len(list) : list'[i] = list[j]
      <4>1. CASE w = "open"
        <5>1. list' \in Seq(Conns) /\ Distinct(list') /\ n \in Elems(list') /\ n # c
          BY <1>11, <1>12, <3>1 DEF Links
        <5>2. Place(list', n) \in 1..Len(list') /\ list'[Place(list', n)] = n
          BY <5>1, PlaceIs
        <5>3. Place(list', n) # 1
          BY <1>10, <4>1, <5>1, <5>2
        <5>4. i \in 2..Len(list')
          BY <3>1, <5>2, <5>3
        <5>5. i - 1 \in 1..Len(list) /\ list'[i] = list[i - 1]
          BY <1>10, <4>1, <5>4
        <5>6. QED
          BY <5>5
      <4>2. CASE w = "closed"
        BY <1>6, <4>2
      <4>3. QED
        BY <4>1, <4>2
    <3>5. PICK d : d = list'[i]
      OBVIOUS
    <3>6. QED
      BY <3>3, <3>4, <3>5 DEF Seen, Readable
  <2>4. QED
    BY <2>1, <2>2, <2>3 DEF AnswerInv
<1>16. QED
  BY <1>13, <1>14, <1>15 DEF Inv

LEMMA ServeInv ==
  ASSUME Inv, Serve, thread = "run"
  PROVE  Inv'
<1>0. /\ TypeOK /\ ListInv /\ AnswerInv /\ conn \in [Conns -> Conn] /\ Links(list, conn)
      /\ list \in Seq(Conns) /\ Distinct(list) /\ Len(list) \in Nat
  BY DEF Inv, TypeOK, ListInv, Links
<1>1. pc = "walk" /\ cursor \in Elems(list) /\ cursor # Nil
  BY <1>0 DEF Serve, ListInv
<1>2. PICK c \in Conns : c = cursor /\ c \in Elems(list) /\ conn[c].net = "open"
  BY <1>0, <1>1 DEF Links
<1>3. PICK k \in 1..Len(list) : list[k] = c
  BY <1>2 DEF Elems
<1>4. Seen(c)
  <2>1. Position(cursor) = k
    BY <1>0, <1>2, <1>3, PositionIs
  <2>2. Ahead(k)
    BY <1>1, <2>1 DEF Ahead
  <2>3. QED
    BY <1>0, <1>3, <2>2 DEF AnswerInv
<1>5. Effect(c)
  <2>1. ReadEvent(c) \/ WriteEvent(c)
    BY <1>2 DEF Serve
  <2>2. QED
    BY <1>0, <1>2, <1>4, <2>1, ServeEffect
<1>6. PICK s : Settled(s) /\ Becomes(c, s) /\ (s.ops = "file" => item' # "none")
  BY <1>5 DEF Effect
<1>7. /\ s \in Conn /\ Received(s) /\ s.net \in {"open", "closed"}
      /\ conn' = [conn EXCEPT ![c] = s] /\ conn' \in [Conns -> Conn]
      /\ conn'[c] = s /\ \A d \in Conns : d # c => conn'[d] = conn[d]
  BY <1>0, <1>6 DEF Settled, Becomes
<1>8. /\ item' \in Items /\ (item # "none" => item' # "none") /\ thread' \in {"run", "fault"}
      /\ UNCHANGED <<closeFlag, starts>>
  BY <1>5 DEF Effect, Serve
<1>9. Links(list', conn')
  BY <1>0, <1>2, <1>7, <1>6, BecomesLinks
<1> DEFINE F == Following(c)
           n == FirstIn(F, ready \cup writers)
<1>10. F \in Seq(Conns) /\ Len(F) = Len(list) - k /\ \A i \in 1..(Len(list) - k) : F[i] = list[k + i]
  BY <1>0, <1>3, FollowingIs
<1>11. n = Nil \/ \E i \in (k + 1)..Len(list) : n = list[i]
  <2> HIDE DEF F
  <2>1. CASE n = Nil
    BY <2>1
  <2>2. CASE n # Nil
    <3>1. PICK i \in 1..Len(F) : n = F[i]
      BY <1>10, <2>2, FirstInIs
    <3>2. i \in 1..(Len(list) - k) /\ k + i \in (k + 1)..Len(list) /\ n = list[k + i]
      BY <1>0, <1>10, <3>1
    <3>3. QED
      BY <3>2
  <2>3. QED
    BY <2>1, <2>2
<1>12. /\ cursor' = n
       /\ n = Nil => pc' = "select" /\ ready' = {} /\ writers' = {}
       /\ n # Nil => pc' = "walk" /\ ready' = ready /\ writers' = writers
  BY <1>2 DEF Serve, WalkTo
<1> HIDE DEF n, F
<1>13. n = Nil \/ n \in Elems(list')
  <2>1. ASSUME n # Nil
        PROVE  n \in Elems(list')
    <3>1. PICK i \in (k + 1)..Len(list) : n = list[i]
      BY <1>11, <2>1
    <3>2. n # c /\ n \in Elems(list)
      BY <1>0, <1>3, <3>1 DEF Distinct, Elems
    <3>3. n \in Conns /\ conn'[n].net = "open"
      BY <1>0, <1>7, <3>2 DEF Links
    <3>4. QED
      BY <1>9, <3>3 DEF Links
  <2>2. QED
    BY <2>1
<1>14. TypeOK'
  <2>1. list' \in Seq(Conns) /\ \A d \in Elems(list') : d \in Conns
    BY <1>9 DEF Links
  <2>2. QED
    BY <1>0, <1>7, <1>8, <1>12, <1>13, <2>1 DEF TypeOK
<1>15. ListInv'
  BY <1>9, <1>12, <1>13, ConnsAssumption DEF ListInv
<1>16. AnswerInv'
  <2>1. \A d \in Conns : Received(conn'[d])
    BY <1>0, <1>7 DEF AnswerInv
  <2>2. (\E d \in Conns : conn'[d].ops = "file") => item' # "none"
    BY <1>0, <1>6, <1>7, <1>8 DEF AnswerInv
  <2>3. ASSUME NEW i \in 1..Len(list'), Ahead(i)'
        PROVE  Seen(list[i])'
    <3>1. n # Nil /\ i >= Place(list', n) /\ ready' = ready /\ writers' = writers
      BY <1>12, <2>3 DEF Ahead, Position, Place
    <3>2. \A j \in (k + 1)..Len(list) : Seen(list[j]) /\ list[j] \in Conns /\ list[j] # c
      <4>1. Position(cursor) = k
        BY <1>0, <1>2, <1>3, PositionIs
      <4>2. \A j \in (k + 1)..Len(list) : Ahead(j) /\ j \in 1..Len(list) /\ j # k
        BY <1>1, <4>1 DEF Ahead
      <4>3. QED
        BY <1>0, <1>3, <4>2 DEF AnswerInv, Distinct
    <3>3. ASSUME NEW d, \E j \in (k + 1)..Len(list) : d = list[j]
          PROVE  Seen(d)'
      <4>1. conn'[d] = conn[d] /\ Seen(d)
        BY <1>7, <3>2, <3>3
      <4>2. QED
        BY <3>1, <4>1 DEF Seen, Readable
    <3>4. PICK m \in (k + 1)..Len(list) : n = list[m]
      BY <1>11, <3>1
    <3>5. list' \in Seq(Conns) /\ Distinct(list') /\ n \in Elems(list')
      BY <1>9, <1>13, <3>1 DEF Links
    <3>6. Place(list', n) \in 1..Len(list') /\ list'[Place(list', n)] = n
      BY <3>5, PlaceIs
    <3>7. \E j \in (k + 1)..Len(list) : list'[i] = list[j]
      <4>1. CASE s.net = "open"
        <5>1. list' = list
          BY <1>6, <4>1 DEF Becomes
        <5>2. Place(list', n) = m
          BY <3>4, <3>5, <5>1, PlaceIs
        <5>3. i \in (k + 1)..Len(list)
          BY <1>0, <3>1, <5>1, <5>2
        <5>4. QED
          BY <5>1, <5>3
      <4>2. CASE s.net = "closed"
        <5>1. list' = Unlinked(c)
          BY <1>6, <4>2 DEF Becomes, Unlinked
        <5>2. /\ Len(list') = Len(list) - 1
              /\ \A j \in 1..(Len(list) - 1) : list'[j] = IF j < k THEN list[j] ELSE list[j + 1]
          BY <1>0, <1>3, <5>1, UnlinkedIs
        <5>3. m - 1 \in 1..Len(list') /\ list'[m - 1] = n
          BY <1>0, <3>4, <5>2
        <5>4. Place(list', n) = m - 1
          BY <3>5, <5>3, PlaceIs
        <5>5. i >= k /\ i + 1 \in (k + 1)..Len(list) /\ list'[i] = list[i + 1]
          BY <1>0, <3>1, <5>2, <5>4
        <5>6. QED
          BY <5>5
      <4>3. QED
        BY <1>7, <4>1, <4>2
    <3>8. PICK d : d = list'[i]
      OBVIOUS
    <3>9. QED
      BY <3>3, <3>7, <3>8 DEF Seen, Readable
  <2>4. QED
    BY <2>1, <2>2, <2>3 DEF AnswerInv
<1>17. QED
  BY <1>14, <1>15, <1>16 DEF Inv

LEMMA ExitInv ==
  ASSUME Inv, Exit, thread = "run"
  PROVE  Inv'
<1>0. /\ TypeOK /\ ListInv /\ AnswerInv /\ conn \in [Conns -> Conn]
      /\ Links(list, conn) /\ list \in Seq(Conns)
  BY DEF Inv, TypeOK, ListInv, Links
<1>1. /\ UNCHANGED <<thread, starts, passVars, list, item>> /\ pc' = "gone" /\ closeFlag' = FALSE
      /\ conn' = [c \in Conns |-> IF c \in Backlog THEN [conn[c] EXCEPT !.net = "closed"] ELSE conn[c]]
  BY DEF Exit
<1>2. ASSUME NEW c \in Conns
      PROVE  /\ conn'[c] \in Conn /\ Received(conn'[c]) /\ conn'[c].ops = conn[c].ops
             /\ conn'[c].net = "open" <=> conn[c].net = "open"
  <2>1. CASE c \notin Backlog
    <3>1. conn'[c] = conn[c]
      BY <1>1, <2>1
    <3>2. QED
      BY <1>0, <3>1 DEF AnswerInv
  <2>2. CASE c \in Backlog
    <3> DEFINE s == conn[c]
               t == [s EXCEPT !.net = "closed"]
    <3>1. conn'[c] = t
      BY <1>1, <2>2
    <3>2. s \in Conn /\ Received(s) /\ s.net = "backlog"
      BY <1>0, <2>2 DEF AnswerInv, Backlog
    <3> HIDE DEF s
    <3>3. t \in Conn
      BY <3>2 DEF Conn
    <3>4. t.got = <<>> /\ t.net = "closed" /\ t.ops = s.ops
      BY <3>2 DEF Received, Conn
    <3> HIDE DEF t
    <3>5. OneAnswerTo(t) /\ ContentFollowsTo(t)
      BY <3>4, EmptySeq DEF OneAnswerTo, ContentFollowsTo
    <3>6. Received(t)
      BY <3>4, <3>5 DEF Received
    <3>7. QED
      BY <3>1, <3>2, <3>3, <3>4, <3>6 DEF s
  <2>3. QED
    BY <2>1, <2>2
<1>3. conn' \in [Conns -> Conn]
  <2>1. conn' = [c \in Conns |-> conn'[c]]
    BY <1>1
  <2>2. QED
    BY <1>2, <2>1
<1>4. closeFlag' \in BOOLEAN
  BY <1>1
<1>5. TypeOK'
  BY <1>0, <1>1, <1>3, <1>4 DEF TypeOK, passVars
<1>6. ListInv'
  <2>1. {d \in Conns : conn'[d].net = "open"} = {d \in Conns : conn[d].net = "open"}
    BY <1>2
  <2>2. QED
    BY <1>0, <1>1, <2>1 DEF ListInv, Links, passVars
<1>7. AnswerInv'
  <2>1. (\E d \in Conns : conn'[d].ops = "file") => item' # "none"
    BY <1>0, <1>1, <1>2 DEF AnswerInv
  <2>2. \A i : ~Ahead(i)'
    BY <1>1 DEF Ahead
  <2>3. QED
    BY <1>2, <2>1, <2>2 DEF AnswerInv
<1>8. QED
  BY <1>5, <1>6, <1>7 DEF Inv

LEMMA StepInv == Inv /\ [Next]_vars => Inv'
<1> SUFFICES ASSUME Inv, [Next]_vars
             PROVE  Inv'
  OBVIOUS
<1>0. thread \in {"off", "run", "fault"} /\ closeFlag \in BOOLEAN /\ starts \in 0..MaxStarts
  BY DEF Inv, TypeOK
<1>1. CASE webnet_init
  <2>1. starts' \in 0..MaxStarts
    BY <1>0, <1>1, MaxStartsAssumption DEF webnet_init
  <2>2. QED
    BY <1>0, <1>1, <2>1, StillInv DEF webnet_init
<1>2. CASE wm_close_webnet_thread
  <2>1. closeFlag' \in BOOLEAN
    BY <1>2 DEF wm_close_webnet_thread
  <2>2. QED
    BY <1>0, <1>2, <2>1, StillInv DEF wm_close_webnet_thread
<1>3. CASE webnet_thread
  <2>0. thread = "run"
    BY <1>3 DEF webnet_thread
  <2>1. CASE Setup
    BY <1>0, <2>1, StillInv DEF Setup, threadVars
  <2>2. CASE Leave
    BY <1>0, <2>2, StillInv DEF Leave, threadVars
  <2>3. CASE Select
    BY <2>0, <2>3, SelectInv
  <2>4. CASE Accept
    BY <2>0, <2>4, AcceptInv
  <2>5. CASE Serve
    BY <2>0, <2>5, ServeInv
  <2>6. CASE Exit
    BY <2>0, <2>6, ExitInv
  <2>7. CASE Gone
    BY <1>0, <2>7, StillInv DEF Gone
  <2>8. QED
    BY <1>3, <2>1, <2>2, <2>3, <2>4, <2>5, <2>6, <2>7 DEF webnet_thread
<1>4. CASE \E c \in Conns : Client(c)
  BY <1>4, ClientInv
<1>5. CASE UNCHANGED vars
  BY <1>0, <1>5, StillInv DEF vars, threadVars
<1>6. QED
  BY <1>1, <1>2, <1>3, <1>4, <1>5 DEF Next

LEMMA InvHolds == Spec => []Inv
  BY InitInv, StepInv, PTL DEF Spec

\* The variables of the web server keep their types: a session is never closed
\* with no result, and the list holds connections.
\* (webnet_thread, webnet_sessions_handle_fds.)
THEOREM WebnetTypeCorrect == Spec => []TypeOK
<1>1. Inv => TypeOK
  BY DEF Inv
<1>2. QED
  BY <1>1, InvHolds, PTL

\* The session list and the sockets agree, across passes, stops and restarts
\* of the thread. (webnet_session_create, webnet_session_close,
\* webnet_sessions_handle_fds.)
THEOREM ListCorrect == Spec => []ListSound
<1>1. Inv => ListSound
  BY DEF Inv, ListInv, Links, Distinct, Elems, ListSound, SessionSet
<1>2. QED
  BY <1>1, InvHolds, PTL

\* No connection gets a second answer, but for the two kinds of request whose
\* result other than 200 is answered again. (cgi_config_handler,
\* webnet_module_system_dofile, _webnet_dofile_handle, webnet_sessions_handle_fds.)
THEOREM AnsweredOnce == Spec => []OneAnswer
<1>1. Inv => OneAnswer
  BY DEF Inv, AnswerInv, Received, OneAnswerTo, OneAnswer
<1>2. QED
  BY <1>1, InvHolds, PTL

\* The headers of a file are followed by content, whatever the other sessions
\* ask for meanwhile. (webnet_module_system_dofile, _webnet_dofile_handle.)
THEOREM FileIsSent == Spec => []ContentFollows
<1>1. Inv => ContentFollows
  BY DEF Inv, AnswerInv, Received, ContentFollowsTo, ContentFollows
<1>2. QED
  BY <1>1, InvHolds, PTL

=============================================================================
