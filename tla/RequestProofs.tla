---------------------------- MODULE RequestProofs ----------------------------
(***************************************************************************)
(* Lemmas about the text functions and the parsers of a request: what they *)
(* return, for every text.                                                 *)
(***************************************************************************)
EXTENDS WebnetReceive, SequenceTheorems, LeastNumber, TLAPS

-----------------------------------------------------------------------------
(* Numbers and text.                                                       *)

LEMMA MinIs ==
  ASSUME NEW S \in SUBSET Nat, NEW n \in S, \A m \in S : n <= m
  PROVE  Min(S) = n
<1> DEFINE c == CHOOSE x \in S : \A y \in S : x <= y
<1>1. c \in S /\ \A y \in S : c <= y
  OBVIOUS
<1>2. c = n
  <2> HIDE DEF c
  <2> QED
    BY <1>1
<1>3. QED
  BY <1>2 DEF Min

LEMMA MinIn ==
  ASSUME NEW S \in SUBSET Nat, S # {}
  PROVE  Min(S) \in S /\ \A m \in S : Min(S) <= m
<1>1. PICK n \in S : \A m \in S : n <= m
  BY Least
<1>2. QED
  BY <1>1, MinIs

LEMMA MaxIn ==
  ASSUME NEW n \in Nat, NEW S \in SUBSET (0..n), S # {}
  PROVE  Max(S) \in S /\ \A m \in S : m <= Max(S)
<1>1. PICK x \in S : \A m \in S : m <= x
  BY Greatest
<1>2. QED
  BY <1>1 DEF Max

LEMMA SubText ==
  ASSUME NEW v \in Text, NEW m \in Nat \ {0}, NEW n \in Nat, n <= Len(v)
  PROVE  /\ SubSeq(v, m, n) \in Text
         /\ Len(SubSeq(v, m, n)) = IF m <= n THEN n - m + 1 ELSE 0
         /\ \A i \in 1..(n - m + 1) : SubSeq(v, m, n)[i] = v[m + i - 1]
<1>1. \A i \in m..n : v[i] \in Cells
  BY DEF Text
<1>2. QED
  BY <1>1, SubSeqProperties DEF Text

LEMMA CatText ==
  ASSUME NEW u \in Text, NEW v \in Text
  PROVE  /\ u \o v \in Text
         /\ Len(u \o v) = Len(u) + Len(v)
         /\ \A i \in 1..(Len(u) + Len(v)) : (u \o v)[i] = IF i <= Len(u) THEN u[i] ELSE v[i - Len(u)]
BY ConcatProperties DEF Text

LEMMA TextLen ==
  ASSUME NEW v \in Text
  PROVE  Len(v) \in Nat /\ DOMAIN v = 1..Len(v) /\ \A i \in 1..Len(v) : v[i] \in Cells
BY DEF Text

LEMMA SameText ==
  ASSUME NEW u \in Text, NEW v \in Text, Len(u) = Len(v), \A i \in 1..Len(u) : u[i] = v[i]
  PROVE  u = v
BY SeqEqual DEF Text

LEMMA Words ==
  /\ <<>> \in Text /\ Len(<<>>) = 0
  /\ \A c \in Cells : <<c>> \in Text /\ Len(<<c>>) = 1 /\ <<c>>[1] = c
<1>1. <<>> \in Text /\ Len(<<>>) = 0
  BY DEF Text
<1>2. ASSUME NEW c \in Cells
      PROVE  <<c>> \in Text /\ Len(<<c>>) = 1 /\ <<c>>[1] = c
  BY <1>2 DEF Text
<1>3. QED
  BY <1>1, <1>2

LEMMA CRLFIs ==
  CRLF \in Text /\ Len(CRLF) = 2 /\ CRLF[1] = CR /\ CRLF[2] = LF /\ CR # LF /\ CR # NUL /\ LF # NUL /\ SP # NUL /\ CR # SP
<1>1. CR # LF /\ CR # NUL /\ LF # NUL /\ SP # NUL /\ CR # SP /\ CR \in Cells /\ LF \in Cells
  BY CellsAssumption DEF CR, LF, NUL, SP
<1>2. Len(CRLF) = 2 /\ CRLF[1] = CR /\ CRLF[2] = LF
  BY DEF CRLF
<1>3. CRLF \in Text
  BY <1>1 DEF CRLF, Text
<1>4. QED
  BY <1>1, <1>2, <1>3

LEMMA CharAtIn ==
  ASSUME NEW b \in Text, NEW i \in Nat \ {0}
  PROVE  CharAt(b, i) \in Cells /\ (CharAt(b, i) # NUL => i <= Len(b) /\ CharAt(b, i) = b[i])
<1>1. NUL \in Cells
  BY CellsAssumption
<1>2. QED
  BY <1>1, TextLen DEF CharAt

\* What begins with a word that has no NUL ends within the text.
LEMMA BeginsWithin ==
  ASSUME NEW b \in Text, NEW i \in Nat \ {0}, NEW t \in Text, \A k \in 1..Len(t) : t[k] # NUL
  PROVE  BeginsAt(b, i, t) <=> \A k \in 1..Len(t) : i + k - 1 <= Len(b) /\ b[i + k - 1] = t[k]
<1>1. Len(b) \in Nat /\ Len(t) \in Nat
  BY TextLen
<1>2. \A k \in 1..Len(t) : i + k - 1 \in Nat \ {0}
  BY <1>1
<1>3. QED
  BY <1>1, <1>2 DEF BeginsAt, CharAt

LEMMA CRLFAt ==
  ASSUME NEW b \in Text, NEW i \in Nat \ {0}
  PROVE  BeginsAt(b, i, CRLF) <=> i + 1 <= Len(b) /\ b[i] = CR /\ b[i + 1] = LF
<1>1. \A k \in 1..Len(CRLF) : CRLF[k] # NUL
  BY CRLFIs
<1>2. BeginsAt(b, i, CRLF) <=> \A k \in 1..2 : i + k - 1 <= Len(b) /\ b[i + k - 1] = CRLF[k]
  BY <1>1, CRLFIs, BeginsWithin
<1>3. i + 1 - 1 = i /\ i + 2 - 1 = i + 1 /\ Len(b) \in Nat
  BY TextLen
<1>4. QED
  BY <1>2, <1>3, CRLFIs

-----------------------------------------------------------------------------
(* Searching.                                                              *)

LEMMA StringEndIn ==
  ASSUME NEW b \in Text, NEW i \in Nat \ {0}
  PROVE  /\ StringEnd(b, i) \in Nat \ {0} /\ StringEnd(b, i) <= Len(b) + 1
         /\ \A j \in i..Len(b) : j < StringEnd(b, i) => b[j] # NUL
         /\ StringEnd(b, i) # Len(b) + 1 => StringEnd(b, i) >= i /\ b[StringEnd(b, i)] = NUL
<1> DEFINE S == {j \in i..Len(b) : b[j] = NUL} \cup {Len(b) + 1}
<1>1. Len(b) \in Nat
  BY TextLen
<1>2. S \in SUBSET Nat /\ S # {}
  BY <1>1
<1>3. Min(S) \in S /\ \A m \in S : Min(S) <= m
  <2> HIDE DEF S
  <2> QED
    BY <1>2, MinIn
<1>4. StringEnd(b, i) = Min(S)
  BY DEF StringEnd
<1>5. \A j \in i..Len(b) : j < Min(S) => b[j] # NUL
  <2> SUFFICES ASSUME NEW j \in i..Len(b), b[j] = NUL
               PROVE  ~(j < Min(S))
    OBVIOUS
  <2>1. j \in S /\ j \in Nat /\ Min(S) \in Nat
    BY <1>2, <1>3
  <2> HIDE DEF S
  <2>2. QED
    BY <1>3, <2>1
<1>6. Min(S) <= Len(b) + 1
  BY <1>3
<1>7. Min(S) # Len(b) + 1 => Min(S) >= i /\ b[Min(S)] = NUL
  BY <1>3
<1>8. Min(S) \in Nat \ {0}
  BY <1>1, <1>3
<1> HIDE DEF S
<1>9. QED
  BY <1>4, <1>5, <1>6, <1>7, <1>8

LEMMA FindIn ==
  ASSUME NEW b \in Text, NEW i \in Nat \ {0}, NEW t \in Text
  PROVE  /\ FindFrom(b, i, t) \in Nat
         /\ FindFrom(b, i, t) # 0 =>
              /\ FindFrom(b, i, t) >= i /\ FindFrom(b, i, t) + Len(t) <= StringEnd(b, i)
              /\ FindFrom(b, i, t) + Len(t) <= Len(b) + 1
              /\ BeginsAt(b, FindFrom(b, i, t), t)
              /\ \A j \in i..(FindFrom(b, i, t) - 1) : ~BeginsAt(b, j, t)
<1> DEFINE S == {j \in i..StringEnd(b, i) - Len(t) : BeginsAt(b, j, t)}
<1>1. Len(b) \in Nat /\ Len(t) \in Nat /\ StringEnd(b, i) \in Nat /\ StringEnd(b, i) <= Len(b) + 1
  BY TextLen, StringEndIn
<1>2. S \in SUBSET Nat
  BY <1>1
<1>3. FindFrom(b, i, t) = IF S = {} THEN 0 ELSE Min(S)
  BY DEF FindFrom
<1>4. CASE S = {}
  BY <1>3, <1>4
<1>5. CASE S # {}
  <2>1. Min(S) \in S /\ \A m \in S : Min(S) <= m
    <3> HIDE DEF S
    <3> QED
      BY <1>2, <1>5, MinIn
  <2>2. \A j \in i..(Min(S) - 1) : ~BeginsAt(b, j, t)
    <3> SUFFICES ASSUME NEW j \in i..(Min(S) - 1), BeginsAt(b, j, t)
                 PROVE  FALSE
      OBVIOUS
    <3>1. Min(S) \in i..StringEnd(b, i) - Len(t)
      BY <2>1
    <3>2. j \in i..StringEnd(b, i) - Len(t) /\ j < Min(S)
      BY <1>1, <3>1
    <3>3. j \in S
      BY <3>2
    <3>4. QED
      BY <2>1, <3>1, <3>2, <3>3
  <2>3. FindFrom(b, i, t) = Min(S)
    BY <1>3, <1>5
  <2>4. Min(S) \in Nat /\ Min(S) >= i /\ Min(S) + Len(t) <= StringEnd(b, i) /\ BeginsAt(b, Min(S), t)
    BY <1>1, <2>1
  <2> HIDE DEF S
  <2>5. QED
    BY <1>1, <2>2, <2>3, <2>4
<1>6. QED
  BY <1>4, <1>5

\* The first place is found, if no NUL comes before its end.
LEMMA FindsFirst ==
  ASSUME NEW b \in Text, NEW i \in Nat \ {0}, NEW t \in Text, NEW p \in Nat, i <= p,
         BeginsAt(b, p, t), p + Len(t) <= Len(b) + 1, \A j \in i..(p + Len(t) - 1) : b[j] # NUL,
         \A j \in i..(p - 1) : ~BeginsAt(b, j, t)
  PROVE  FindFrom(b, i, t) = p
<1> DEFINE S == {j \in i..StringEnd(b, i) - Len(t) : BeginsAt(b, j, t)}
<1>1. Len(b) \in Nat /\ Len(t) \in Nat /\ StringEnd(b, i) \in Nat
  BY TextLen, StringEndIn
<1>2. p + Len(t) <= StringEnd(b, i)
  <2>1. SUFFICES ASSUME StringEnd(b, i) < p + Len(t)
                 PROVE  FALSE
    BY <1>1
  <2>2. StringEnd(b, i) # Len(b) + 1
    BY <1>1, <2>1, TextLen
  <2>3. StringEnd(b, i) >= i /\ b[StringEnd(b, i)] = NUL
    BY <2>2, StringEndIn
  <2>4. StringEnd(b, i) \in i..(p + Len(t) - 1)
    BY <1>1, <2>1, <2>3
  <2>5. QED
    BY <2>3, <2>4
<1>3. S \in SUBSET Nat /\ p \in S
  BY <1>1, <1>2
<1>4. \A m \in S : p <= m
  BY <1>1
<1>5. Min(S) = p
  <2> HIDE DEF S
  <2> QED
    BY <1>3, <1>4, MinIs
<1>6. FindFrom(b, i, t) = IF S = {} THEN 0 ELSE Min(S)
  BY DEF FindFrom
<1>7. QED
  BY <1>3, <1>5, <1>6

LEMMA FindsSome ==
  ASSUME NEW b \in Text, NEW i \in Nat \ {0}, NEW t \in Text, NEW p \in Nat, i <= p,
         BeginsAt(b, p, t), p + Len(t) <= Len(b) + 1, \A j \in i..(p + Len(t) - 1) : b[j] # NUL
  PROVE  FindFrom(b, i, t) # 0
<1> DEFINE S == {j \in i..StringEnd(b, i) - Len(t) : BeginsAt(b, j, t)}
<1>1. Len(b) \in Nat /\ Len(t) \in Nat /\ StringEnd(b, i) \in Nat
  BY TextLen, StringEndIn
<1>2. p + Len(t) <= StringEnd(b, i)
  <2>1. SUFFICES ASSUME StringEnd(b, i) < p + Len(t)
                 PROVE  FALSE
    BY <1>1
  <2>2. StringEnd(b, i) # Len(b) + 1
    BY <1>1, <2>1, TextLen
  <2>3. StringEnd(b, i) >= i /\ b[StringEnd(b, i)] = NUL
    BY <2>2, StringEndIn
  <2>4. StringEnd(b, i) \in i..(p + Len(t) - 1)
    BY <1>1, <2>1, <2>3
  <2>5. QED
    BY <2>3, <2>4
<1>3. S \in SUBSET Nat /\ p \in S
  BY <1>1, <1>2
<1>4. Min(S) \in S
  <2> HIDE DEF S
  <2> QED
    BY <1>3, MinIn
<1>5. FindFrom(b, i, t) = IF S = {} THEN 0 ELSE Min(S)
  BY DEF FindFrom
<1>6. QED
  BY <1>1, <1>3, <1>4, <1>5

\* The end of a line, and where the next one starts.
LEMMA LineEnd ==
  ASSUME NEW b \in Text, NEW i \in Nat \ {0}
  PROVE  /\ FindFrom(b, i, CRLF) \in Nat
         /\ FindFrom(b, i, CRLF) # 0 =>
              /\ FindFrom(b, i, CRLF) \in i..Len(b) /\ FindFrom(b, i, CRLF) + 1 \in i..Len(b)
              /\ b[FindFrom(b, i, CRLF)] = CR /\ b[FindFrom(b, i, CRLF) + 1] = LF
<1> DEFINE e == FindFrom(b, i, CRLF)
<1>1. e \in Nat /\ Len(b) \in Nat
  BY FindIn, CRLFIs, TextLen
<1>2. CASE e # 0
  <2>1. e >= i /\ e + 2 <= Len(b) + 1 /\ BeginsAt(b, e, CRLF)
    BY <1>2, FindIn, CRLFIs
  <2> HIDE DEF e
  <2>2. QED
    BY <1>1, <1>2, <2>1, CRLFAt DEF e
<1>3. QED
  BY <1>1, <1>2

-----------------------------------------------------------------------------
(* Decoding.                                                               *)

LEMMA EscapedType ==
  ASSUME NEW c, NEW d, {c, d} \subseteq HexDigits
  PROVE  Escaped[<<c, d>>] \in Cells
<1>1. <<c, d>> \in HexDigits \X HexDigits
  OBVIOUS
<1> DEFINE E(p) == CASE p = <<"2", "6">> -> "&" [] p = <<"3", "D">> -> "="
                     [] p = <<"2", "3">> -> "#" [] OTHER -> "other"
<1>2. Escaped[<<c, d>>] = E(<<c, d>>)
  BY <1>1 DEF Escaped
<1>3. \A p : E(p) \in {"&", "=", "#", "other"}
  OBVIOUS
<1>4. E(<<c, d>>) \in Cells
  <2> HIDE DEF E
  <2> QED
    BY <1>3, CellsAssumption
<1>5. QED
  BY <1>2, <1>4

\* Two cells follow the '%' at i, and are digits.
IsEscape(v, i) == v[i] # "+" /\ v[i] = "%" /\ i + 2 <= Len(v) /\ {v[i + 1], v[i + 2]} \subseteq HexDigits
Decoded(v, i) == IF v[i] = "+" THEN SP ELSE IF IsEscape(v, i) THEN Escaped[<<v[i + 1], v[i + 2]>>] ELSE v[i]
Behind(v, i)  == IF IsEscape(v, i) THEN i + 3 ELSE i + 1

LEMMA DecodedType ==
  ASSUME NEW v \in Text, NEW i \in 1..Len(v)
  PROVE  Decoded(v, i) \in Cells /\ Behind(v, i) \in (i + 1)..(Len(v) + 1)
<1>1. v[i] \in Cells /\ SP \in Cells /\ Len(v) \in Nat
  BY TextLen, CellsAssumption
<1>2. IsEscape(v, i) => Escaped[<<v[i + 1], v[i + 2]>>] \in Cells
  BY EscapedType DEF IsEscape
<1>3. Decoded(v, i) \in Cells
  BY <1>1, <1>2 DEF Decoded
<1>4. Behind(v, i) \in (i + 1)..(Len(v) + 1)
  BY <1>1 DEF Behind, IsEscape
<1>5. QED
  BY <1>3, <1>4

\* urldecode is one cell, and what it makes of the text behind it.
LEMMA DecodeIs ==
  ASSUME NEW v \in Text
  PROVE  \E f \in [1..(Len(v) + 1) -> Text] :
            /\ urldecode(v) = f[1] /\ f[Len(v) + 1] = <<>>
            /\ \A i \in 1..Len(v) : f[i] = <<Decoded(v, i)>> \o f[Behind(v, i)]
<1> DEFINE n == Len(v)
           D == 1..n + 3
           B(g, i) == IF i > Len(v) THEN <<>>
                      ELSE IF v[i] = "+" THEN <<SP>> \o g[i + 1]
                      ELSE IF v[i] = "%" /\ i + 2 <= Len(v) /\ {v[i + 1], v[i + 2]} \subseteq HexDigits
                           THEN <<Escaped[<<v[i + 1], v[i + 2]>>]>> \o g[i + 3]
                      ELSE <<v[i]>> \o g[i + 1]
           Eq(g) == g = [i \in D |-> B(g, i)]
           c == CHOOSE g : Eq(g)
           F == [i \in 1..n |-> [x \in Text |-> <<Decoded(v, i)>> \o x]]
           G == [i \in 1..n |-> Behind(v, i)]
<1>1. n \in Nat
  BY TextLen
<1>2. F \in [1..n -> [Text -> Text]]
  <2>1. \A i \in 1..n, x \in Text : <<Decoded(v, i)>> \o x \in Text
    BY DecodedType, Words, CatText
  <2>2. QED
    BY <2>1
<1>3. G \in [1..n -> Nat] /\ \A i \in 1..n : G[i] \in (i + 1)..(n + 1)
  BY <1>1, DecodedType
<1>4. PICK f \in [1..(n + 1) -> Text] : GoesDown(f, n, <<>>, F, G)
  <2>1. <<>> \in Text
    BY Words
  <2> HIDE DEF n, F, G
  <2> QED
    BY <1>1, <1>2, <1>3, <2>1, RecursionDown
<1>5. f[n + 1] = <<>> /\ \A i \in 1..n : f[i] = <<Decoded(v, i)>> \o f[Behind(v, i)]
  <2>1. \A i \in 1..n : f[Behind(v, i)] \in Text
    BY <1>1, DecodedType
  <2>2. f[n + 1] = <<>> /\ \A i \in 1..n : f[i] = F[i][f[G[i]]]
    BY <1>4 DEF GoesDown
  <2>3. QED
    BY <2>1, <2>2
<1>6. \A g, i : i \in 1..n => B(g, i) = <<Decoded(v, i)>> \o g[Behind(v, i)]
  BY <1>1 DEF Decoded, Behind, IsEscape
<1>7. \A g, i : i \in (n + 1)..(n + 3) => B(g, i) = <<>>
  BY <1>1
<1> DEFINE h == [i \in D |-> IF i <= n THEN f[i] ELSE <<>>]
<1>8. Eq(h)
  <2> HIDE DEF B, n
  <2>1. \A i \in 1..n : h[i] = f[i] /\ h[Behind(v, i)] = f[Behind(v, i)]
    <3>1. \A i \in 1..n : Behind(v, i) \in 1..(n + 1)
      BY <1>1, DecodedType DEF n
    <3>2. QED
      BY <1>1, <1>5, <3>1
  <2>2. \A i \in D : h[i] = B(h, i)
    <3> SUFFICES ASSUME NEW i \in D
                 PROVE  h[i] = B(h, i)
      OBVIOUS
    <3>1. CASE i \in 1..n
      <4>1. B(h, i) = <<Decoded(v, i)>> \o h[Behind(v, i)]
        BY <1>6, <3>1
      <4>2. QED
        BY <1>5, <2>1, <3>1, <4>1
    <3>2. CASE i \in (n + 1)..(n + 3)
      <4>1. B(h, i) = <<>>
        BY <1>7, <3>2
      <4>2. QED
        BY <1>1, <3>2, <4>1
    <3>3. QED
      BY <1>1, <3>1, <3>2
  <2>3. QED
    BY <2>2
<1>9. Eq(c)
  <2> HIDE DEF Eq, h
  <2> QED
    BY <1>8
<1>10. urldecode(v) = c[1]
  BY DEF urldecode
<1> HIDE DEF c, B, n
<1>11. \A i \in D : c[i] = B(c, i)
  BY <1>9
<1>12. c[n + 1] = <<>> /\ \A i \in 1..n : c[i] = <<Decoded(v, i)>> \o c[Behind(v, i)]
  <2>1. \A i \in 1..n : c[i] = B(c, i)
    BY <1>1, <1>11
  <2>2. n + 1 \in D /\ n + 1 \in (n + 1)..(n + 3)
    BY <1>1
  <2> HIDE DEF D
  <2>3. c[n + 1] = <<>>
    BY <1>7, <1>11, <2>2
  <2>4. QED
    BY <1>6, <2>1, <2>3
<1> HIDE DEF Eq, D, F, G, h
<1> DEFINE T == {i \in 1..n : c[i] = f[i]}
<1>13. \A k \in 1..n : (\A j \in (k + 1)..n : j \in T) => k \in T
  <2> SUFFICES ASSUME NEW k \in 1..n, \A j \in (k + 1)..n : j \in T
               PROVE  k \in T
    OBVIOUS
  <2>1. Behind(v, k) \in (k + 1)..(n + 1)
    BY DecodedType DEF n
  <2>2. c[Behind(v, k)] = f[Behind(v, k)]
    BY <1>1, <1>5, <1>12, <2>1
  <2>3. QED
    BY <1>5, <1>12, <2>2
<1>14. \A k \in 1..n : k \in T
  <2> HIDE DEF T
  <2> QED
    BY <1>1, <1>13, DownFrom
<1>15. c[1] = f[1]
  BY <1>1, <1>5, <1>12, <1>14
<1>16. QED
  BY <1>4, <1>5, <1>10, <1>15 DEF n

LEMMA DecodeType ==
  ASSUME NEW v \in Text
  PROVE  urldecode(v) \in Text
<1>1. PICK f \in [1..(Len(v) + 1) -> Text] : urldecode(v) = f[1]
  BY DecodeIs
<1>2. 1 \in 1..(Len(v) + 1)
  BY TextLen
<1>3. QED
  BY <1>1, <1>2

-----------------------------------------------------------------------------
(* The items of a query.                                                   *)

\* The last cell of the item at p.
ItemEnd(q, p) == LET ends == {e \in p..Len(q) : q[e] = "&"} IN IF ends = {} THEN Len(q) ELSE Min(ends) - 1

LEMMA ItemEndIn ==
  ASSUME NEW q \in Text, NEW p \in 1..Len(q)
  PROVE  /\ ItemEnd(q, p) \in (p - 1)..Len(q)
         /\ \A e \in p..ItemEnd(q, p) : q[e] # "&"
         /\ ItemEnd(q, p) < Len(q) => q[ItemEnd(q, p) + 1] = "&"
<1> DEFINE ends == {e \in p..Len(q) : q[e] = "&"}
<1>1. Len(q) \in Nat /\ ends \in SUBSET Nat
  BY TextLen
<1>2. CASE ends = {}
  BY <1>1, <1>2 DEF ItemEnd
<1>3. CASE ends # {}
  <2>1. Min(ends) \in ends /\ \A m \in ends : Min(ends) <= m
    <3> HIDE DEF ends
    <3> QED
      BY <1>1, <1>3, MinIn
  <2>2. ItemEnd(q, p) = Min(ends) - 1
    BY <1>3 DEF ItemEnd
  <2>3. \A e \in p..Len(q) : q[e] = "&" => e \in ends
    OBVIOUS
  <2>4. Min(ends) \in p..Len(q) /\ q[Min(ends)] = "&"
    BY <2>1
  <2> HIDE DEF ends
  <2>5. \A e \in p..(Min(ends) - 1) : q[e] # "&"
    BY <1>1, <2>1, <2>3, <2>4
  <2>6. QED
    BY <1>1, <2>2, <2>4, <2>5
<1>4. QED
  BY <1>2, <1>3

LEMMA NextItemIn ==
  ASSUME NEW q \in Text, NEW p \in 1..Len(q)
  PROVE  /\ NextItem(q, p) \in (p + 1)..(Len(q) + 1)
         /\ ItemEnd(q, p) = Len(q) => NextItem(q, p) = Len(q) + 1
         /\ ItemEnd(q, p) + 2 <= Len(q) /\ q[ItemEnd(q, p) + 2] # "&" => NextItem(q, p) = ItemEnd(q, p) + 2
<1> DEFINE ends == {e \in p..Len(q) : q[e] = "&"}
           S == {j \in Min(ends)..Len(q) + 1 : CharAt(q, j) # "&"}
<1>1. Len(q) \in Nat /\ ends \in SUBSET Nat
  BY TextLen
<1>2. CASE ends = {}
  <2>1. NextItem(q, p) = Len(q) + 1 /\ ItemEnd(q, p) = Len(q)
    BY <1>2 DEF NextItem, ItemEnd
  <2>2. QED
    BY <1>1, <2>1
<1>3. CASE ends # {}
  <2>1. Min(ends) \in ends
    <3> HIDE DEF ends
    <3> QED
      BY <1>1, <1>3, MinIn
  <2>2. NextItem(q, p) = Min(S) /\ ItemEnd(q, p) = Min(ends) - 1
    BY <1>3 DEF NextItem, ItemEnd
  <2>3. Min(ends) \in p..Len(q) /\ q[Min(ends)] = "&"
    BY <2>1
  <2> HIDE DEF ends
  <2>4. CharAt(q, Len(q) + 1) # "&"
    BY <1>1 DEF CharAt, NUL
  <2>5. Len(q) + 1 \in S /\ S \in SUBSET Nat
    BY <1>1, <2>3, <2>4
  <2>6. Min(S) \in S /\ \A m \in S : Min(S) <= m
    <3> HIDE DEF S
    <3> QED
      BY <2>5, MinIn
  <2>7. CharAt(q, Min(ends)) = "&"
    BY <1>1, <2>3 DEF CharAt
  <2>8. Min(S) \in Min(ends)..(Len(q) + 1) /\ Min(S) # Min(ends)
    BY <2>6, <2>7
  <2>9. Min(S) \in (Min(ends) + 1)..(Len(q) + 1)
    BY <2>3, <2>8
  <2>10. Min(ends) + 1 <= Len(q) /\ q[Min(ends) + 1] # "&" => Min(ends) + 1 \in S
    BY <1>1, <2>3 DEF CharAt
  <2> HIDE DEF S
  <2>11. QED
    BY <1>1, <2>2, <2>3, <2>6, <2>9, <2>10
<1>4. QED
  BY <1>2, <1>3

\* An item is its name, up to the first '=', and its value, from the last.
LEMMA ItemIs ==
  ASSUME NEW q \in Text, NEW p \in 1..Len(q)
  PROVE  /\ (\A e \in p..ItemEnd(q, p) : q[e] # "=") =>
              ItemAt(q, p) = [name |-> SubSeq(q, p, ItemEnd(q, p)), value |-> Nil]
         /\ \A m \in p..ItemEnd(q, p) :
              q[m] = "=" /\ (\A e \in p..ItemEnd(q, p) : q[e] = "=" => e = m) =>
              ItemAt(q, p) = [name |-> SubSeq(q, p, m - 1), value |-> urldecode(SubSeq(q, m + 1, ItemEnd(q, p)))]
         /\ ItemAt(q, p) \in FormField
<1> DEFINE last == ItemEnd(q, p)
           eqs == {e \in p..last : q[e] = "="}
<1>1. Len(q) \in Nat /\ last \in (p - 1)..Len(q) /\ last \in Nat /\ p \in Nat \ {0}
  BY TextLen, ItemEndIn
<1>2. ItemAt(q, p) = IF eqs = {} THEN [name |-> SubSeq(q, p, last), value |-> Nil]
                     ELSE [name |-> SubSeq(q, p, Min(eqs) - 1), value |-> urldecode(SubSeq(q, Max(eqs) + 1, last))]
  BY DEF ItemAt, ItemEnd
<1> HIDE DEF last
<1>3. eqs \in SUBSET Nat /\ eqs \in SUBSET (0..last)
  BY <1>1
<1>4. eqs # {} => /\ Min(eqs) \in eqs /\ Max(eqs) \in eqs
                  /\ \A m \in eqs : Min(eqs) <= m /\ m <= Max(eqs)
  <2> HIDE DEF eqs
  <2> QED
    BY <1>1, <1>3, MinIn, MaxIn
<1>5. ASSUME \A e \in p..last : q[e] # "="
      PROVE  ItemAt(q, p) = [name |-> SubSeq(q, p, last), value |-> Nil]
  BY <1>2, <1>5
<1>6. ASSUME NEW m \in p..last, q[m] = "=", \A e \in p..last : q[e] = "=" => e = m
      PROVE  ItemAt(q, p) = [name |-> SubSeq(q, p, m - 1), value |-> urldecode(SubSeq(q, m + 1, last))]
  <2>1. eqs # {} /\ Min(eqs) = m /\ Max(eqs) = m
    BY <1>4, <1>6
  <2>2. QED
    BY <1>2, <2>1
<1>7. ItemAt(q, p) \in FormField
  <2>1. CASE eqs = {}
    <3>1. SubSeq(q, p, last) \in Text
      BY <1>1, SubText
    <3>2. QED
      BY <1>2, <2>1, <3>1 DEF FormField
  <2>2. CASE eqs # {}
    <3>1. Min(eqs) \in p..last /\ Max(eqs) \in p..last
      BY <1>4, <2>2
    <3>2. Min(eqs) - 1 \in Nat /\ Min(eqs) - 1 <= Len(q) /\ Max(eqs) + 1 \in Nat \ {0}
      BY <1>1, <3>1
    <3>3. SubSeq(q, p, Min(eqs) - 1) \in Text /\ SubSeq(q, Max(eqs) + 1, last) \in Text
      BY <1>1, <3>2, SubText
    <3>4. urldecode(SubSeq(q, Max(eqs) + 1, last)) \in Text
      BY <3>3, DecodeType
    <3> HIDE DEF eqs
    <3>5. QED
      BY <1>2, <2>2, <3>3, <3>4 DEF FormField
  <2>3. QED
    BY <2>1, <2>2
<1>8. QED
  BY <1>5, <1>6, <1>7 DEF last

\* The items of the text from p on.
LEMMA ItemsAre ==
  ASSUME NEW q \in Text
  PROVE  \E f \in [1..(Len(q) + 1) -> Seq(FormField)] :
            /\ QueryItems(q) = f[1] /\ f[Len(q) + 1] = <<>>
            /\ \A p \in 1..Len(q) : f[p] = <<ItemAt(q, p)>> \o f[NextItem(q, p)]
<1> DEFINE n == Len(q)
           D == 1..n + 1
           B(g, p) == IF p > Len(q) THEN <<>> ELSE <<ItemAt(q, p)>> \o g[NextItem(q, p)]
           Eq(g) == g = [p \in D |-> B(g, p)]
           c == CHOOSE g : Eq(g)
           F == [p \in 1..n |-> [x \in Seq(FormField) |-> <<ItemAt(q, p)>> \o x]]
           G == [p \in 1..n |-> NextItem(q, p)]
<1>1. n \in Nat
  BY TextLen
<1>2. F \in [1..n -> [Seq(FormField) -> Seq(FormField)]]
  <2>1. ASSUME NEW p \in 1..n, NEW x \in Seq(FormField)
        PROVE  <<ItemAt(q, p)>> \o x \in Seq(FormField)
    <3>1. <<ItemAt(q, p)>> \in Seq(FormField)
      BY ItemIs
    <3>2. QED
      BY <3>1
  <2>2. QED
    BY <2>1
<1>3. G \in [1..n -> Nat] /\ \A i \in 1..n : G[i] \in (i + 1)..(n + 1)
  BY <1>1, NextItemIn
<1>4. PICK f \in [1..(n + 1) -> Seq(FormField)] : GoesDown(f, n, <<>>, F, G)
  <2>1. <<>> \in Seq(FormField)
    OBVIOUS
  <2> HIDE DEF n, F, G
  <2> QED
    BY <1>1, <1>2, <1>3, <2>1, RecursionDown
<1>5. f[n + 1] = <<>> /\ \A p \in 1..n : f[p] = <<ItemAt(q, p)>> \o f[NextItem(q, p)]
  <2>1. \A p \in 1..n : f[NextItem(q, p)] \in Seq(FormField)
    BY <1>1, NextItemIn
  <2>2. f[n + 1] = <<>> /\ \A p \in 1..n : f[p] = F[p][f[G[p]]]
    BY <1>4 DEF GoesDown
  <2>3. QED
    BY <2>1, <2>2
<1>6. Eq(f)
  <2>1. \A p \in D : f[p] = B(f, p)
    BY <1>1, <1>5
  <2>2. QED
    BY <1>4, <2>1
<1>7. Eq(c)
  <2> HIDE DEF Eq
  <2> QED
    BY <1>6
<1>8. QueryItems(q) = c[1]
  BY DEF QueryItems
<1> HIDE DEF c
<1>9. c[n + 1] = <<>> /\ \A p \in 1..n : c[p] = <<ItemAt(q, p)>> \o c[NextItem(q, p)]
  <2>1. \A g : B(g, n + 1) = <<>> /\ \A p \in 1..n : B(g, p) = <<ItemAt(q, p)>> \o g[NextItem(q, p)]
    BY <1>1
  <2> HIDE DEF B, n
  <2>2. \A p \in D : c[p] = B(c, p)
    BY <1>7
  <2>3. n + 1 \in D /\ \A p \in 1..n : p \in D
    BY <1>1
  <2> HIDE DEF D
  <2>4. QED
    BY <2>1, <2>2, <2>3
<1> HIDE DEF Eq, D, F, G, B, n
<1> DEFINE T == {p \in 1..n : c[p] = f[p]}
<1>10. \A k \in 1..n : (\A j \in (k + 1)..n : j \in T) => k \in T
  <2> SUFFICES ASSUME NEW k \in 1..n, \A j \in (k + 1)..n : j \in T
               PROVE  k \in T
    OBVIOUS
  <2>1. NextItem(q, k) \in (k + 1)..(n + 1)
    BY NextItemIn DEF n
  <2>2. c[NextItem(q, k)] = f[NextItem(q, k)]
    <3>1. CASE NextItem(q, k) = n + 1
      BY <1>5, <1>9, <3>1
    <3>2. CASE NextItem(q, k) # n + 1
      <4>1. \A z \in (k + 1)..(n + 1) : z # n + 1 => z \in (k + 1)..n
        BY <1>1
      <4> HIDE DEF T
      <4>2. NextItem(q, k) \in (k + 1)..n
        BY <2>1, <3>2, <4>1
      <4>3. QED
        BY <4>2 DEF T
    <3>3. QED
      BY <3>1, <3>2
  <2>3. QED
    BY <1>5, <1>9, <2>2
<1>11. \A k \in 1..n : k \in T
  <2> HIDE DEF T
  <2> QED
    BY <1>1, <1>10, DownFrom
<1>12. c[1] = f[1]
  BY <1>1, <1>5, <1>9, <1>11
<1>13. QED
  BY <1>4, <1>5, <1>8, <1>12 DEF n

LEMMA ItemsType ==
  ASSUME NEW q \in Text
  PROVE  QueryItems(q) \in Seq(FormField)
<1>1. PICK f \in [1..(Len(q) + 1) -> Seq(FormField)] : QueryItems(q) = f[1]
  BY ItemsAre
<1>2. 1 \in 1..(Len(q) + 1)
  BY TextLen
<1>3. QED
  BY <1>1, <1>2

-----------------------------------------------------------------------------
(* Lines.                                                                  *)

HeaderStops(b) == {i \in 1..Len(b) + 1 : BeginsAt(b, i, CRLF) \/ CharAt(b, i) = NUL \/ FindFrom(b, i, CRLF) = 0}
PartStops(b)   == {i \in 1..Len(b) + 1 : i > Len(b) \/ BeginsAt(b, i, CRLF) \/ FindFrom(b, i, CRLF) = 0}

\* Where the line behind the lines l starts, when the first starts at i.
NextLine(b, i, l) == IF l = <<>> THEN i ELSE FindFrom(b, l[Len(l)], CRLF) + 2

\* l are the starts of the lines from i to the first that stops.
IsLines(b, stops, i, l) ==
  /\ l \in Seq(1..Len(b)) /\ NextLine(b, i, l) \in stops
  /\ \A k \in 1..Len(l) : l[k] \notin stops /\ l[k] = IF k = 1 THEN i ELSE FindFrom(b, l[k - 1], CRLF) + 2

LEMMA LinesExist ==
  ASSUME NEW b \in Text, NEW Z, Len(b) + 1 \in Z, \A i \in 1..Len(b) : i \notin Z => FindFrom(b, i, CRLF) # 0
  PROVE  \E f \in [1..(Len(b) + 1) -> Seq(1..Len(b))] : \A i \in 1..(Len(b) + 1) :
            f[i] = IF i \in Z THEN <<>> ELSE <<i>> \o f[FindFrom(b, i, CRLF) + 2]
<1> DEFINE n == Len(b)
           S == Seq(1..n)
           F == [i \in 1..n |-> [x \in S |-> IF i \in Z THEN <<>> ELSE <<i>> \o x]]
           G == [i \in 1..n |-> IF i \in Z THEN i + 1 ELSE FindFrom(b, i, CRLF) + 2]
<1>1. n \in Nat
  BY TextLen
<1>2. F \in [1..n -> [S -> S]]
  <2>1. ASSUME NEW i \in 1..n, NEW x \in S
        PROVE  <<i>> \o x \in S
    <3>1. <<i>> \in S
      OBVIOUS
    <3>2. QED
      BY <3>1
  <2>2. <<>> \in S
    OBVIOUS
  <2> HIDE DEF S
  <2>3. QED
    BY <2>1, <2>2
<1>3. G \in [1..n -> Nat] /\ \A i \in 1..n : G[i] \in (i + 1)..(n + 1)
  <2>1. ASSUME NEW i \in 1..n
        PROVE  (IF i \in Z THEN i + 1 ELSE FindFrom(b, i, CRLF) + 2) \in (i + 1)..(n + 1)
    <3>1. CASE i \in Z
      BY <1>1, <3>1
    <3>2. CASE i \notin Z
      <4>1. FindFrom(b, i, CRLF) # 0 /\ i \in Nat \ {0}
        BY <3>2
      <4>2. FindFrom(b, i, CRLF) \in i..n /\ FindFrom(b, i, CRLF) + 1 \in i..n
        BY <4>1, LineEnd
      <4>3. QED
        BY <1>1, <3>2, <4>2
    <3>3. QED
      BY <3>1, <3>2
  <2>2. QED
    BY <1>1, <2>1
<1>4. PICK f \in [1..(n + 1) -> S] : GoesDown(f, n, <<>>, F, G)
  <2>1. <<>> \in S
    OBVIOUS
  <2> HIDE DEF n, F, G, S
  <2> QED
    BY <1>1, <1>2, <1>3, <2>1, RecursionDown
<1>5. ASSUME NEW i \in 1..(n + 1)
      PROVE  f[i] = IF i \in Z THEN <<>> ELSE <<i>> \o f[FindFrom(b, i, CRLF) + 2]
  <2>1. CASE i = n + 1
    BY <1>4, <2>1 DEF GoesDown
  <2>2. CASE i \in 1..n
    <3>1. f[i] = F[i][f[G[i]]] /\ f[G[i]] \in S
      <4> HIDE DEF F, G
      <4> QED
        BY <1>1, <1>3, <1>4, <2>2 DEF GoesDown
    <3>2. \A x \in S : F[i][x] = IF i \in Z THEN <<>> ELSE <<i>> \o x
      BY <2>2
    <3>3. i \notin Z => G[i] = FindFrom(b, i, CRLF) + 2
      BY <2>2
    <3> HIDE DEF F, G, S
    <3>4. QED
      BY <3>1, <3>2, <3>3
  <2>3. QED
    BY <1>1, <2>1, <2>2
<1>6. QED
  BY <1>5

LEMMA LinesAre ==
  ASSUME NEW b \in Text, NEW Z \in SUBSET Nat, Len(b) + 1 \in Z, \A i \in 1..Len(b) : i \notin Z => FindFrom(b, i, CRLF) # 0,
         NEW g, \A i \in 1..(Len(b) + 1) : g[i] = IF i \in Z THEN <<>> ELSE <<i>> \o g[FindFrom(b, i, CRLF) + 2]
  PROVE  \A i \in 1..(Len(b) + 1) : IsLines(b, Z, i, g[i])
<1> DEFINE n == Len(b)
           T == {i \in 1..n + 1 : IsLines(b, Z, i, g[i])}
<1>1. n \in Nat
  BY TextLen
<1>2. ASSUME NEW i \in 1..(n + 1), i \in Z
      PROVE  i \in T
  <2>1. g[i] = <<>>
    BY <1>2
  <2>2. <<>> \in Seq(1..n) /\ Len(<<>>) = 0
    OBVIOUS
  <2>3. IsLines(b, Z, i, <<>>)
    BY <1>2, <2>2 DEF IsLines, NextLine
  <2>4. QED
    BY <2>1, <2>3
<1>3. ASSUME NEW i \in 1..n, i \notin Z, FindFrom(b, i, CRLF) + 2 \in T
      PROVE  i \in T
  <2> DEFINE j == FindFrom(b, i, CRLF) + 2
             x == g[j]
             l == <<i>> \o x
  <2>1. IsLines(b, Z, j, x)
    BY <1>3
  <2>2. x \in Seq(1..n)
    BY <2>1 DEF IsLines
  <2>3. g[i] = l
    <3>1. i \in 1..(Len(b) + 1)
      BY <1>1
    <3> HIDE DEF n, T
    <3>2. QED
      BY <1>3, <3>1
  <2> HIDE DEF x, T, j
  <2>4. l \in Seq(1..n) /\ Len(l) = Len(x) + 1 /\ l[1] = i /\ l # <<>> /\ \A k \in 2..Len(l) : l[k] = x[k - 1]
    BY <2>2
  <2>5. Len(x) \in Nat
    BY <2>2
  <2> HIDE DEF l
  <2>6. NextLine(b, i, l) = NextLine(b, j, x)
    <3>1. CASE x = <<>>
      <4>1. Len(l) = 1 /\ l[Len(l)] = i
        BY <2>4, <3>1
      <4>2. QED
        BY <2>4, <3>1, <4>1 DEF NextLine, j
    <3>2. CASE x # <<>>
      <4>1. Len(x) # 0 /\ l[Len(l)] = x[Len(x)]
        BY <2>2, <2>4, <2>5, <3>2
      <4>2. QED
        BY <2>4, <3>2, <4>1 DEF NextLine
    <3>3. QED
      BY <3>1, <3>2
  <2>7. ASSUME NEW k \in 1..Len(l)
        PROVE  l[k] \notin Z /\ l[k] = IF k = 1 THEN i ELSE FindFrom(b, l[k - 1], CRLF) + 2
    <3>1. CASE k = 1
      BY <1>3, <2>4, <3>1
    <3>2. CASE k # 1
      <4>1. k \in 2..Len(l) /\ k - 1 \in 1..Len(x)
        BY <2>4, <2>5, <3>2
      <4>2. x[k - 1] \notin Z /\ x[k - 1] = IF k - 1 = 1 THEN j ELSE FindFrom(b, x[k - 1 - 1], CRLF) + 2
        BY <2>1, <4>1 DEF IsLines
      <4>3. k # 2 => k - 1 \in 2..Len(l) /\ l[k - 1] = x[k - 1 - 1]
        <5>1. k # 2 => k - 1 \in 2..Len(l)
          BY <2>5, <3>2, <4>1
        <5>2. QED
          BY <2>4, <5>1
      <4>4. QED
        BY <2>4, <4>1, <4>2, <4>3 DEF j
    <3>3. QED
      BY <3>1, <3>2
  <2>8. IsLines(b, Z, i, l)
    BY <2>1, <2>4, <2>6, <2>7 DEF IsLines
  <2>9. QED
    BY <2>3, <2>8 DEF T
<1>4. \A k \in 1..(n + 1) : (\A j \in (k + 1)..(n + 1) : j \in T) => k \in T
  <2> SUFFICES ASSUME NEW k \in 1..(n + 1), \A j \in (k + 1)..(n + 1) : j \in T
               PROVE  k \in T
    OBVIOUS
  <2>1. CASE k \in Z
    BY <1>2, <2>1
  <2>2. CASE k \notin Z
    <3>1. k \in 1..n
      BY <1>1, <2>2
    <3>2. FindFrom(b, k, CRLF) + 1 \in k..n
      BY <2>2, <3>1, LineEnd
    <3>3. FindFrom(b, k, CRLF) \in Nat
      BY <2>2, <3>1, LineEnd
    <3>4. FindFrom(b, k, CRLF) + 2 \in (k + 1)..(n + 1)
      BY <1>1, <3>1, <3>2, <3>3
    <3>5. QED
      BY <1>3, <2>2, <3>1, <3>4
  <2>3. QED
    BY <2>1, <2>2
<1>5. \A k \in 1..(n + 1) : k \in T
  <2> HIDE DEF T
  <2>1. n + 1 \in Nat
    BY <1>1
  <2> HIDE DEF n
  <2> QED
    BY <1>4, <2>1, DownFrom
<1>6. QED
  BY <1>5

LEMMA HeaderLinesAre ==
  ASSUME NEW b \in Text
  PROVE  IsLines(b, HeaderStops(b), 1, HeaderLines(b))
<1> DEFINE D == 1..Len(b) + 1
           B(g, i) == IF BeginsAt(b, i, CRLF) \/ CharAt(b, i) = NUL \/ FindFrom(b, i, CRLF) = 0 THEN <<>>
                      ELSE <<i>> \o g[FindFrom(b, i, CRLF) + 2]
           Eq(g) == g = [i \in D |-> B(g, i)]
           c == CHOOSE g : Eq(g)
           Z == HeaderStops(b)
<1>1. Len(b) \in Nat /\ Z \in SUBSET Nat
  BY TextLen DEF HeaderStops
<1>2. Len(b) + 1 \in Z /\ \A i \in 1..Len(b) : i \notin Z => FindFrom(b, i, CRLF) # 0
  BY <1>1 DEF HeaderStops, CharAt
<1>3. \A g : \A i \in D : B(g, i) = IF i \in Z THEN <<>> ELSE <<i>> \o g[FindFrom(b, i, CRLF) + 2]
  BY DEF HeaderStops
<1> HIDE DEF B, Z
<1>4. \E g : Eq(g)
  <2>1. PICK f \in [D -> Seq(1..Len(b))] : \A i \in D : f[i] = IF i \in Z THEN <<>> ELSE <<i>> \o f[FindFrom(b, i, CRLF) + 2]
    BY <1>2, LinesExist
  <2>2. \A i \in D : f[i] = B(f, i)
    BY <1>3, <2>1
  <2> HIDE DEF D
  <2>3. Eq(f)
    BY <2>1, <2>2
  <2> HIDE DEF Eq
  <2>4. QED
    BY <2>3
<1>5. Eq(c)
  <2> HIDE DEF Eq
  <2> QED
    BY <1>4
<1>6. HeaderLines(b) = c[1]
  BY DEF HeaderLines, B
<1> HIDE DEF c
<1>7. \A i \in D : c[i] = IF i \in Z THEN <<>> ELSE <<i>> \o c[FindFrom(b, i, CRLF) + 2]
  <2> HIDE DEF D
  <2>1. \A i \in D : c[i] = B(c, i)
    BY <1>5
  <2>2. QED
    BY <1>3, <2>1
<1> HIDE DEF Eq
<1>8. \A i \in D : IsLines(b, Z, i, c[i])
  BY <1>1, <1>2, <1>7, LinesAre
<1>9. 1 \in D
  BY <1>1
<1>10. QED
  BY <1>6, <1>8, <1>9 DEF Z

LEMMA PartLinesAre ==
  ASSUME NEW b \in Text, NEW i \in 1..(Len(b) + 1)
  PROVE  IsLines(b, PartStops(b), i, PartLines(b, i))
<1> DEFINE D == 1..Len(b) + 1
           B(g, j) == IF j > Len(b) \/ BeginsAt(b, j, CRLF) \/ FindFrom(b, j, CRLF) = 0 THEN <<>>
                      ELSE <<j>> \o g[FindFrom(b, j, CRLF) + 2]
           Eq(g) == g = [j \in D |-> B(g, j)]
           c == CHOOSE g : Eq(g)
           Z == PartStops(b)
<1>1. Len(b) \in Nat /\ Z \in SUBSET Nat
  BY TextLen DEF PartStops
<1>2. Len(b) + 1 \in Z /\ \A j \in 1..Len(b) : j \notin Z => FindFrom(b, j, CRLF) # 0
  BY <1>1 DEF PartStops
<1>3. \A g : \A j \in D : B(g, j) = IF j \in Z THEN <<>> ELSE <<j>> \o g[FindFrom(b, j, CRLF) + 2]
  BY DEF PartStops
<1> HIDE DEF B, Z
<1>4. \E g : Eq(g)
  <2>1. PICK f \in [D -> Seq(1..Len(b))] : \A j \in D : f[j] = IF j \in Z THEN <<>> ELSE <<j>> \o f[FindFrom(b, j, CRLF) + 2]
    BY <1>2, LinesExist
  <2>2. \A j \in D : f[j] = B(f, j)
    BY <1>3, <2>1
  <2> HIDE DEF D
  <2>3. Eq(f)
    BY <2>1, <2>2
  <2> HIDE DEF Eq
  <2>4. QED
    BY <2>3
<1>5. Eq(c)
  <2> HIDE DEF Eq
  <2> QED
    BY <1>4
<1>6. PartLines(b, i) = c[i]
  BY DEF PartLines, B
<1> HIDE DEF c
<1>7. \A j \in D : c[j] = IF j \in Z THEN <<>> ELSE <<j>> \o c[FindFrom(b, j, CRLF) + 2]
  <2> HIDE DEF D
  <2>1. \A j \in D : c[j] = B(c, j)
    BY <1>5
  <2>2. QED
    BY <1>3, <2>1
<1> HIDE DEF Eq
<1>8. \A j \in D : IsLines(b, Z, j, c[j])
  BY <1>1, <1>2, <1>7, LinesAre
<1>9. QED
  BY <1>6, <1>8 DEF Z

\* The lines follow each other inside the text.
LEMMA LinesIn ==
  ASSUME NEW b \in Text, NEW Z \in SUBSET Nat, Len(b) + 1 \in Z, \A j \in 1..Len(b) : j \notin Z => FindFrom(b, j, CRLF) # 0,
         NEW i \in 1..(Len(b) + 1), NEW l, IsLines(b, Z, i, l)
  PROVE  /\ l \in Seq(1..Len(b)) /\ Len(l) \in Nat
         /\ NextLine(b, i, l) \in i..(Len(b) + 1)
         /\ \A k \in 1..Len(l) : /\ l[k] \in i..Len(b) /\ FindFrom(b, l[k], CRLF) \in l[k]..Len(b)
                                 /\ FindFrom(b, l[k], CRLF) + 1 \in l[k]..Len(b)
                                 /\ FindFrom(b, l[k], CRLF) + 2 <= NextLine(b, i, l)
<1> DEFINE e(k) == FindFrom(b, l[k], CRLF)
<1>1. Len(b) \in Nat /\ l \in Seq(1..Len(b)) /\ Len(l) \in Nat
  BY TextLen DEF IsLines
<1>2. \A k \in 1..Len(l) : l[k] \in 1..Len(b) /\ e(k) # 0
  BY <1>1 DEF IsLines
<1>3. \A k \in 1..Len(l) : e(k) \in l[k]..Len(b) /\ e(k) + 1 \in l[k]..Len(b)
  <2> SUFFICES ASSUME NEW k \in 1..Len(l)
               PROVE  e(k) \in l[k]..Len(b) /\ e(k) + 1 \in l[k]..Len(b)
    OBVIOUS
  <2>1. l[k] \in Nat \ {0} /\ e(k) # 0
    BY <1>2
  <2>2. QED
    BY <2>1, LineEnd
<1>4. \A k \in 1..Len(l) : l[k] = IF k = 1 THEN i ELSE e(k - 1) + 2
  BY DEF IsLines
<1> HIDE DEF e
<1> DEFINE T == {k \in 0..Len(l) : k # 0 => l[k] >= i}
<1>5. \A k \in 0..Len(l) : k \in T
  <2>1. 0 \in T
    BY <1>1
  <2>2. ASSUME NEW k \in 1..Len(l), k - 1 \in T
        PROVE  k \in T
    <3>1. CASE k = 1
      BY <1>1, <1>4, <3>1
    <3>2. CASE k # 1
      <4>1. k - 1 \in 1..Len(l)
        BY <1>1, <3>2
      <4>2. l[k - 1] >= i /\ l[k - 1] \in Nat /\ e(k - 1) \in l[k - 1]..Len(b) /\ l[k] = e(k - 1) + 2
        BY <1>2, <1>3, <1>4, <2>2, <3>2, <4>1
      <4>3. QED
        BY <4>2
    <3>3. QED
      BY <3>1, <3>2
  <2> HIDE DEF T
  <2>3. QED
    BY <1>1, <2>1, <2>2, UpTo
<1>6. \A k \in 1..Len(l) : l[k] \in i..Len(b)
  <2> SUFFICES ASSUME NEW k \in 1..Len(l)
               PROVE  l[k] \in i..Len(b)
    OBVIOUS
  <2>1. k \in T
    BY <1>1, <1>5
  <2>2. QED
    BY <1>2, <2>1
<1>7. NextLine(b, i, l) = IF Len(l) = 0 THEN i ELSE e(Len(l)) + 2
  BY <1>1 DEF NextLine, e
<1>8. NextLine(b, i, l) \in i..(Len(b) + 1)
  <2>1. CASE Len(l) = 0
    BY <1>1, <1>7, <2>1
  <2>2. CASE Len(l) # 0
    <3>1. Len(l) \in 1..Len(l)
      BY <1>1, <2>2
    <3>2. l[Len(l)] \in i..Len(b) /\ e(Len(l)) \in l[Len(l)]..Len(b) /\ e(Len(l)) + 1 \in l[Len(l)]..Len(b)
      BY <1>3, <1>6, <3>1
    <3>3. QED
      BY <1>1, <1>7, <2>2, <3>2
  <2>3. QED
    BY <2>1, <2>2
<1> DEFINE U == {k \in 1..Len(l) : e(k) + 2 <= NextLine(b, i, l)}
<1>9. \A k \in 1..Len(l) : k \in U
  <2>1. ASSUME NEW k \in 1..Len(l), \A j \in (k + 1)..Len(l) : j \in U
        PROVE  k \in U
    <3>1. CASE k = Len(l)
      BY <1>1, <1>3, <1>7, <1>8, <3>1
    <3>2. CASE k # Len(l)
      <4>1. k + 1 \in (k + 1)..Len(l) /\ k + 1 \in 1..Len(l) /\ k + 1 # 1 /\ k + 1 - 1 = k
        BY <1>1, <3>2
      <4>2. e(k + 1) + 2 <= NextLine(b, i, l) /\ l[k + 1] = e(k) + 2 /\ e(k + 1) \in l[k + 1]..Len(b)
        BY <1>3, <1>4, <2>1, <4>1
      <4>3. e(k) \in Nat /\ NextLine(b, i, l) \in Nat
        BY <1>2, <1>3, <1>8
      <4>4. QED
        BY <4>2, <4>3
    <3>3. QED
      BY <3>1, <3>2
  <2> HIDE DEF U
  <2>2. QED
    BY <1>1, <2>1, DownFrom
<1>10. QED
  BY <1>1, <1>3, <1>6, <1>8, <1>9 DEF e

-----------------------------------------------------------------------------
(* The types of a request, a session and an upload.                        *)

Opt(S) == {Nil} \cup S

\* A path is the text it was sent as, or that text normalised.
Paths == Opt(Text) \cup {str_normalize_path(<<"/", "/">> \o p).text : p \in Text}

RequestType == [method : Opt(Cells), path : Paths, query : Opt(Text), items : Seq(FormField), clen : Nat,
                ctype : Opt(Text), host : Opt(Text), code : Nat, qoff : Nat]

SessionType == [buf : Text, off : Nat, phase : {"METHOD", "HEADER", "QUERY", "RESPONSE", "CLOSE", "FAULT"},
                ops : {"default", "upload", "none"}, req : RequestType, stale : BOOLEAN, undefined : BOOLEAN]

SessionOK(t) == t \in SessionType /\ t.off <= Len(t.buf) /\ Len(t.buf) <= BufSize /\ t.req.qoff <= t.req.clen

\* What a phase has set when it is reached.
Parsing(t) ==
  /\ SessionOK(t) /\ t.ops = "default" /\ t.phase \in {"METHOD", "HEADER", "QUERY", "RESPONSE"}
  /\ t.phase \in {"METHOD", "HEADER"} => t.req.qoff = 0
  /\ t.phase # "METHOD" => t.req.path \in Text
  /\ t.phase = "QUERY" => t.req.query \in Text

Lost(t) == SessionOK(t) /\ t.ops = "none" /\ t.phase = "FAULT"

LEMMA SessionFields ==
  ASSUME NEW t, SessionOK(t)
  PROVE  /\ t \in SessionType /\ t.buf \in Text /\ Len(t.buf) \in Nat /\ t.off \in Nat /\ t.off <= Len(t.buf) /\ Len(t.buf) <= BufSize
         /\ t.req \in RequestType /\ t.req.clen \in Nat /\ t.req.qoff \in Nat /\ t.req.qoff <= t.req.clen
         /\ BufSize \in Nat \ {0} /\ PostMax \in Nat
BY TextLen, BufferAssumption DEF SessionOK, SessionType, RequestType

LEMMA NewSessionIs ==
  /\ Parsing(NewSession) /\ NewSession.off = 0 /\ Len(NewSession.buf) = 0 /\ NewSession.phase = "METHOD"
  /\ ~NewSession.stale
<1>1. <<>> \in Text /\ Len(<<>>) = 0 /\ BufSize \in Nat
  BY Words, BufferAssumption
<1>2. <<>> \in Seq(FormField)
  OBVIOUS
<1>3. NewRequest \in RequestType
  BY <1>2 DEF NewRequest, RequestType, Opt, Paths
<1>4. NewSession \in SessionType
  BY <1>1, <1>3 DEF NewSession, SessionType
<1>5. QED
  BY <1>1, <1>4 DEF NewSession, NewRequest, Parsing, SessionOK

LEMMA LostIs ==
  ASSUME NEW t, SessionOK(t)
  PROVE  Lost(Fault(t)) /\ Fault(t).stale = t.stale /\ Fault(t).buf = t.buf /\ Fault(t).off = t.off /\ Fault(t).req = t.req
<1>1. Fault(t) \in SessionType
  BY DEF Fault, SessionOK, SessionType
<1>2. Fault(t).phase = "FAULT" /\ Fault(t).ops = "none" /\ Fault(t).buf = t.buf /\ Fault(t).off = t.off /\ Fault(t).req = t.req
      /\ Fault(t).stale = t.stale
  BY DEF Fault, SessionOK, SessionType
<1>3. QED
  BY <1>1, <1>2 DEF Lost, SessionOK

\* A session keeps its type when its buffer and its offset change.
SameButBuffer(t, u) ==
  /\ t.phase = u.phase /\ t.ops = u.ops /\ t.req = u.req /\ t.stale = u.stale /\ t.undefined = u.undefined

LEMMA ReceivedIs ==
  ASSUME NEW t, SessionOK(t), NEW cells \in Text, t.off + Len(cells) <= BufSize
  PROVE  /\ SessionOK(Received(t, cells)) /\ SameButBuffer(Received(t, cells), t)
         /\ Received(t, cells).off = t.off + Len(cells)
         /\ \A i \in 1..(t.off + Len(cells)) : Received(t, cells).buf[i] = IF i <= t.off THEN t.buf[i] ELSE cells[i - t.off]
         /\ Len(t.buf) = t.off => Len(Received(t, cells).buf) = t.off + Len(cells)
<1> DEFINE n == t.off + Len(cells)
           head == SubSeq(t.buf, 1, t.off)
           tail == SubSeq(t.buf, n + 1, Len(t.buf))
           b == head \o cells \o tail
           r == Received(t, cells)
<1>1. t \in SessionType /\ t.buf \in Text /\ Len(t.buf) \in Nat /\ t.off \in Nat /\ t.off <= Len(t.buf) /\ Len(t.buf) <= BufSize
      /\ Len(cells) \in Nat /\ BufSize \in Nat /\ t.req.qoff <= t.req.clen /\ n \in Nat /\ n + 1 \in Nat \ {0}
  BY SessionFields, TextLen
<1>2. head \in Text /\ Len(head) = t.off /\ \A i \in 1..t.off : head[i] = t.buf[i]
  <2>1. 1 \in Nat \ {0} /\ t.off - 1 + 1 = t.off /\ \A i \in 1..t.off : 1 + i - 1 = i
    BY <1>1
  <2>2. QED
    BY <1>1, <2>1, SubText
<1>3. tail \in Text /\ Len(tail) = IF n + 1 <= Len(t.buf) THEN Len(t.buf) - n ELSE 0
  <2>1. n + 1 <= Len(t.buf) => Len(t.buf) - (n + 1) + 1 = Len(t.buf) - n
    BY <1>1
  <2> HIDE DEF n
  <2>2. QED
    BY <1>1, <2>1, SubText
<1> HIDE DEF head, tail
<1>4. head \o cells \in Text /\ Len(head \o cells) = n /\ \A i \in 1..n : (head \o cells)[i] = IF i <= t.off THEN t.buf[i] ELSE cells[i - t.off]
  <2>1. head \o cells \in Text /\ Len(head \o cells) = Len(head) + Len(cells)
        /\ \A i \in 1..(Len(head) + Len(cells)) : (head \o cells)[i] = IF i <= Len(head) THEN head[i] ELSE cells[i - Len(head)]
    BY <1>2, CatText
  <2>2. \A i \in 1..n : i <= t.off => i \in 1..t.off
    BY <1>1
  <2>3. QED
    BY <1>2, <2>1, <2>2
<1>5. b \in Text /\ Len(b) = n + Len(tail) /\ \A i \in 1..n : b[i] = (head \o cells)[i]
  <2> DEFINE h == head \o cells
  <2>a. h \in Text /\ Len(h) = n
    BY <1>4
  <2>b. b = h \o tail
    OBVIOUS
  <2> HIDE DEF h, b
  <2>1. b \in Text /\ Len(b) = Len(h) + Len(tail)
        /\ \A i \in 1..(Len(h) + Len(tail)) : b[i] = IF i <= Len(h) THEN h[i] ELSE tail[i - Len(h)]
    BY <1>3, <2>a, <2>b, CatText
  <2>2. \A i \in 1..n : i \in 1..(n + Len(tail)) /\ i <= n
    BY <1>1, <1>3
  <2>3. QED
    BY <2>a, <2>1, <2>2 DEF h
<1> HIDE DEF b
<1>6. r = [t EXCEPT !.buf = b, !.off = n]
  BY <1>1 DEF Received, b, head, tail, SessionType
<1>7. r \in SessionType /\ r.buf = b /\ r.off = n /\ SameButBuffer(r, t) /\ r.req = t.req
  BY <1>1, <1>5, <1>6 DEF SessionType, SameButBuffer
<1>8. Len(b) <= BufSize /\ n <= Len(b)
  <2> HIDE DEF n
  <2>1. n <= BufSize
    BY DEF n
  <2>2. QED
    BY <1>1, <1>3, <1>5, <2>1
<1>9. Len(t.buf) = t.off => Len(b) = n
  BY <1>1, <1>3, <1>5
<1>10. QED
  BY <1>1, <1>4, <1>5, <1>7, <1>8, <1>9 DEF SessionOK

LEMMA ConsumeIs ==
  ASSUME NEW t, SessionOK(t), NEW n \in Nat
  PROVE  /\ SessionOK(Consume(t, n)) /\ SameButBuffer(Consume(t, n), t)
         /\ Consume(t, n).off = IF n < t.off THEN t.off - n ELSE 0
         /\ Len(Consume(t, n).buf) = Len(t.buf)
         /\ \A i \in 1..(t.off - n) : Consume(t, n).buf[i] = t.buf[n + i]
<1> DEFINE head == SubSeq(t.buf, n + 1, t.off)
           tail == SubSeq(t.buf, t.off - n + 1, Len(t.buf))
           b == head \o tail
           r == Consume(t, n)
<1>1. t \in SessionType /\ t.buf \in Text /\ Len(t.buf) \in Nat /\ t.off \in Nat /\ t.off <= Len(t.buf) /\ Len(t.buf) <= BufSize
      /\ BufSize \in Nat /\ t.req.qoff <= t.req.clen
  BY SessionFields
<1>2. CASE n = 0
  <2>1. r = t /\ \A i \in 1..(t.off - n) : n + i = i
    BY <1>2 DEF Consume
  <2>2. QED
    BY <1>1, <1>2, <2>1 DEF SessionOK, SameButBuffer
<1>3. CASE n # 0 /\ n < t.off
  <2>1. head \in Text /\ Len(head) = t.off - n /\ \A i \in 1..(t.off - n) : head[i] = t.buf[n + i]
    <3>1. n + 1 \in Nat \ {0} /\ n + 1 <= t.off /\ t.off - (n + 1) + 1 = t.off - n /\ \A i \in 1..(t.off - n) : n + 1 + i - 1 = n + i
      BY <1>1, <1>3
    <3>2. QED
      BY <1>1, <3>1, SubText
  <2>2. tail \in Text /\ Len(tail) = Len(t.buf) - (t.off - n)
    <3>1. t.off - n + 1 \in Nat \ {0} /\ t.off - n + 1 <= Len(t.buf) /\ Len(t.buf) - (t.off - n + 1) + 1 = Len(t.buf) - (t.off - n)
      BY <1>1, <1>3
    <3>2. QED
      BY <1>1, <3>1, SubText
  <2> HIDE DEF head, tail
  <2>3. b \in Text /\ Len(b) = Len(t.buf) /\ \A i \in 1..(t.off - n) : b[i] = t.buf[n + i]
    <3>1. b \in Text /\ Len(b) = Len(head) + Len(tail)
          /\ \A i \in 1..(Len(head) + Len(tail)) : b[i] = IF i <= Len(head) THEN head[i] ELSE tail[i - Len(head)]
      BY <2>1, <2>2, CatText
    <3>2. (t.off - n) + (Len(t.buf) - (t.off - n)) = Len(t.buf) /\ \A i \in 1..(t.off - n) : i \in 1..Len(t.buf) /\ i <= t.off - n
      BY <1>1, <1>3
    <3>3. QED
      BY <2>1, <2>2, <3>1, <3>2
  <2> HIDE DEF b
  <2>4. r = [t EXCEPT !.buf = b, !.off = t.off - n]
    BY <1>1, <1>3 DEF Consume, SessionType, b, head, tail
  <2>5. t.off - n \in Nat /\ t.off - n <= Len(b)
    BY <1>1, <1>3, <2>3
  <2>6. r \in SessionType /\ r.buf = b /\ r.off = t.off - n /\ SameButBuffer(r, t) /\ r.req = t.req
    BY <1>1, <2>3, <2>4, <2>5 DEF SessionType, SameButBuffer
  <2>7. QED
    BY <1>1, <1>3, <2>3, <2>5, <2>6 DEF SessionOK
<1>4. CASE ~(n < t.off) /\ n # 0
  <2>1. r = [t EXCEPT !.off = 0]
    BY <1>4 DEF Consume
  <2>2. r \in SessionType /\ r.buf = t.buf /\ r.off = 0 /\ SameButBuffer(r, t) /\ r.req = t.req
    BY <1>1, <2>1 DEF SessionType, SameButBuffer
  <2>3. (1..(t.off - n)) = {}
    BY <1>1, <1>4
  <2>4. QED
    BY <1>1, <1>4, <2>2, <2>3 DEF SessionOK
<1>5. QED
  BY <1>2, <1>3, <1>4

LEMMA TrimmedIs ==
  ASSUME NEW t, SessionOK(t)
  PROVE  /\ SessionOK(Trimmed(t)) /\ SameButBuffer(Trimmed(t), t) /\ Trimmed(t).off = t.off
         /\ Len(Trimmed(t).buf) = t.off /\ \A i \in 1..t.off : Trimmed(t).buf[i] = t.buf[i]
<1> DEFINE b == SubSeq(t.buf, 1, t.off)
           r == Trimmed(t)
<1>1. t \in SessionType /\ t.buf \in Text /\ Len(t.buf) \in Nat /\ t.off \in Nat /\ t.off <= Len(t.buf) /\ Len(t.buf) <= BufSize
      /\ BufSize \in Nat /\ t.req.qoff <= t.req.clen
  BY SessionFields
<1>2. b \in Text /\ Len(b) = t.off /\ \A i \in 1..t.off : b[i] = t.buf[i]
  <2>1. 1 \in Nat \ {0} /\ t.off - 1 + 1 = t.off /\ \A i \in 1..t.off : 1 + i - 1 = i
    BY <1>1
  <2>2. QED
    BY <1>1, <2>1, SubText
<1>3. r = [t EXCEPT !.buf = b]
  BY <1>1 DEF Trimmed, SessionType
<1> HIDE DEF b
<1>4. r \in SessionType /\ r.buf = b /\ r.off = t.off /\ SameButBuffer(r, t) /\ r.req = t.req
  BY <1>1, <1>2, <1>3 DEF SessionType, SameButBuffer
<1>5. QED
  BY <1>1, <1>2, <1>4 DEF SessionOK

LEMMA TerminatedIs ==
  ASSUME NEW b \in Text, NEW places
  PROVE  /\ Terminated(b, places) \in Text /\ Len(Terminated(b, places)) = Len(b)
         /\ \A i \in 1..Len(b) : Terminated(b, places)[i] = IF i \in places THEN NUL ELSE b[i]
<1>1. Len(b) \in Nat /\ DOMAIN b = 1..Len(b) /\ \A i \in 1..Len(b) : b[i] \in Cells
  BY TextLen
<1>2. NUL \in Cells
  BY CellsAssumption
<1>3. Terminated(b, places) = [k \in 1..Len(b) |-> IF k \in places THEN NUL ELSE b[k]]
  BY <1>1 DEF Terminated
<1>4. Terminated(b, places) \in [1..Len(b) -> Cells]
  BY <1>1, <1>2, <1>3
<1>5. Terminated(b, places) \in Seq(Cells) /\ Len(Terminated(b, places)) = Len(b)
  BY <1>1, <1>4
<1>6. QED
  BY <1>3, <1>5 DEF Text

-----------------------------------------------------------------------------
(* The request line and the headers.                                       *)

LEMMA DigitIs ==
  ASSUME NEW c \in Range(Numerals)
  PROVE  DigitOf(c) \in 0..9
<1> DEFINE P(d) == d \in 0..9 /\ Numerals[d + 1] = c
<1>1. \E d : P(d)
  <2>1. DOMAIN Numerals = 1..10
    BY DEF Numerals
  <2>2. PICK k \in 1..10 : c = Numerals[k]
    BY <2>1 DEF Range
  <2>3. k - 1 \in 0..9 /\ (k - 1) + 1 = k
    OBVIOUS
  <2>4. P(k - 1)
    BY <2>2, <2>3
  <2> HIDE DEF P
  <2>5. QED
    BY <2>4
<1>2. P(CHOOSE d : P(d))
  <2> HIDE DEF P
  <2> QED
    BY <1>1
<1>3. DigitOf(c) \in 0..9
  BY <1>1 DEF DigitOf
<1>4. QED
  BY <1>3

\* How many digits a number in a text has.
Digits(v) == LET ends == {i \in DOMAIN v : v[i] \notin Range(Numerals)} IN IF ends = {} THEN Len(v) ELSE Min(ends) - 1

LEMMA DigitsIn ==
  ASSUME NEW v \in Text
  PROVE  Digits(v) \in 0..Len(v) /\ \A k \in 1..Digits(v) : v[k] \in Range(Numerals)
<1> DEFINE ends == {i \in DOMAIN v : v[i] \notin Range(Numerals)}
<1>1. Len(v) \in Nat /\ DOMAIN v = 1..Len(v)
  BY TextLen
<1>2. CASE ends = {}
  <2>1. Digits(v) = Len(v)
    BY <1>2 DEF Digits
  <2>2. QED
    BY <1>1, <1>2, <2>1
<1>3. CASE ends # {}
  <2>1. ends \in SUBSET Nat
    BY <1>1
  <2>2. Min(ends) \in ends /\ \A m \in ends : Min(ends) <= m
    <3> HIDE DEF ends
    <3> QED
      BY <1>3, <2>1, MinIn
  <2>3. Digits(v) = Min(ends) - 1
    BY <1>3 DEF Digits
  <2>4. Min(ends) \in 1..Len(v)
    BY <1>1, <2>2
  <2>5. ASSUME NEW k \in 1..(Min(ends) - 1), v[k] \notin Range(Numerals)
        PROVE  FALSE
    <3>1. k \in ends
      BY <1>1, <2>4, <2>5
    <3> HIDE DEF ends
    <3>2. QED
      BY <2>2, <2>4, <3>1
  <2> HIDE DEF ends
  <2>6. QED
    BY <1>1, <2>3, <2>4, <2>5
<1>4. QED
  BY <1>2, <1>3

LEMMA NumberIs ==
  ASSUME NEW v \in Text
  PROVE  atoi(v) \in Nat
<1> DEFINE n == Digits(v)
           D == 0..n
           B(g, k) == IF k = 0 THEN 0 ELSE 10 * g[k - 1] + DigitOf(v[k])
           Eq(g) == g = [k \in D |-> B(g, k)]
           c == CHOOSE g : Eq(g)
           F == [k \in 1..n |-> [x \in Nat |-> 10 * x + DigitOf(v[k])]]
<1>1. n \in Nat /\ \A k \in 1..n : DigitOf(v[k]) \in Nat
  <2>1. \A k \in 1..n : DigitOf(v[k]) \in 0..9
    BY DigitsIn, DigitIs
  <2>2. QED
    BY <2>1, DigitsIn, TextLen
<1>2. F \in [1..n -> [Nat -> Nat]]
  <2>1. \A k \in 1..n, x \in Nat : 10 * x + DigitOf(v[k]) \in Nat
    BY <1>1
  <2>2. QED
    BY <2>1
<1>3. PICK f \in [0..n -> Nat] : GoesUp(f, n, 0, F)
  <2> HIDE DEF F, n
  <2> QED
    BY <1>1, <1>2, RecursionUp
<1>4. \A k \in D : f[k] = B(f, k)
  <2>1. f[0] = 0 /\ \A k \in 1..n : f[k] = F[k][f[k - 1]]
    BY <1>3 DEF GoesUp
  <2>2. \A k \in 1..n : f[k - 1] \in Nat
    <3>1. \A k \in 1..n : k - 1 \in 0..n
      BY <1>1
    <3> HIDE DEF n
    <3>2. QED
      BY <1>3, <3>1
  <2>3. \A k \in 1..n : f[k] = 10 * f[k - 1] + DigitOf(v[k])
    BY <2>1, <2>2
  <2> HIDE DEF F
  <2>4. QED
    BY <1>1, <2>1, <2>3
<1>5. Eq(f)
  <2> HIDE DEF B
  <2> QED
    BY <1>3, <1>4
<1>6. Eq(c)
  <2> HIDE DEF Eq
  <2> QED
    BY <1>5
<1>7. atoi(v) = c[n]
  BY DEF atoi, Digits
<1> HIDE DEF c
<1>8. \A k \in D : c[k] = B(c, k)
  <2> HIDE DEF B
  <2> QED
    BY <1>6
<1> HIDE DEF Eq, F
<1> DEFINE T == {k \in 0..n : c[k] \in Nat}
<1>9. 0 \in T
  BY <1>1, <1>8
<1>10. ASSUME NEW k \in 1..n, k - 1 \in T
       PROVE  k \in T
  <2>1. c[k] = 10 * c[k - 1] + DigitOf(v[k]) /\ c[k - 1] \in Nat /\ DigitOf(v[k]) \in Nat
    BY <1>1, <1>8, <1>10
  <2>2. QED
    BY <2>1
<1>11. \A k \in 0..n : k \in T
  <2> HIDE DEF T, n
  <2> QED
    BY <1>1, <1>9, <1>10, UpTo
<1>12. QED
  BY <1>1, <1>7, <1>11

\* Where the value of the line at i starts: behind its name and the spaces.
ValueStart(b, i) == Min({j \in i + 1..FindFrom(b, i, CRLF) - 1 + 1 : CharAt(b, j) # SP})

LEMMA ValueIs ==
  ASSUME NEW b \in Text, NEW i \in Nat \ {0}, FindFrom(b, i, CRLF) # 0, ~BeginsAt(b, i, CRLF)
  PROVE  /\ ValueStart(b, i) \in (i + 1)..FindFrom(b, i, CRLF) /\ CharAt(b, ValueStart(b, i)) # SP
         /\ \A j \in (i + 1)..(ValueStart(b, i) - 1) : CharAt(b, j) = SP
         /\ ValueOf(b, i) = SubSeq(b, ValueStart(b, i), FindFrom(b, i, CRLF) - 1)
         /\ ValueOf(b, i) \in Text
<1> DEFINE e == FindFrom(b, i, CRLF)
           J == {j \in i + 1..e - 1 + 1 : CharAt(b, j) # SP}
<1>1. e \in (i + 1)..Len(b) /\ Len(b) \in Nat /\ CharAt(b, e) # SP
  <2>1. e \in i..Len(b) /\ Len(b) \in Nat /\ b[e] = CR
    BY LineEnd, TextLen
  <2>2. e # i
    BY FindIn, CRLFIs
  <2> HIDE DEF e
  <2>3. QED
    BY <2>1, <2>2, CRLFIs DEF CharAt
<1>2. ValueStart(b, i) = Min(J) /\ ValueOf(b, i) = SubSeq(b, Min(J), e - 1)
  BY DEF ValueStart, ValueOf
<1> HIDE DEF e
<1>3. e \in J /\ J \in SUBSET Nat
  BY <1>1
<1>4. Min(J) \in J /\ \A m \in J : Min(J) <= m
  <2> HIDE DEF J
  <2> QED
    BY <1>3, MinIn
<1>5. Min(J) \in (i + 1)..e /\ CharAt(b, Min(J)) # SP
  BY <1>1, <1>4
<1>6. ASSUME NEW j \in (i + 1)..(Min(J) - 1), CharAt(b, j) # SP
      PROVE  FALSE
  <2>1. j \in J
    BY <1>1, <1>5, <1>6
  <2> HIDE DEF J
  <2>2. QED
    BY <1>4, <1>5, <2>1
<1>7. SubSeq(b, Min(J), e - 1) \in Text
  <2>1. Min(J) \in Nat \ {0} /\ e - 1 \in Nat /\ e - 1 <= Len(b)
    BY <1>1, <1>5
  <2> HIDE DEF J
  <2>2. QED
    BY <2>1, SubText
<1>8. QED
  BY <1>2, <1>5, <1>6, <1>7 DEF e

LEMMA RecordedType ==
  ASSUME NEW b \in Text, NEW i \in Nat \ {0}, FindFrom(b, i, CRLF) # 0, ~BeginsAt(b, i, CRLF), NEW r \in RequestType
  PROVE  Recorded(r, b, i) \in RequestType /\ Recorded(r, b, i).path = r.path /\ Recorded(r, b, i).qoff = r.qoff
         /\ Recorded(r, b, i).method = r.method /\ Recorded(r, b, i).query = r.query /\ Recorded(r, b, i).items = r.items
<1>1. ValueOf(b, i) \in Text /\ ValueOf(b, i) \in Opt(Text)
  BY ValueIs DEF Opt
<1>2. atoi(ValueOf(b, i)) \in Nat
  BY <1>1, NumberIs
<1>3. CASE b[i] = "Content-Length:"
  <2>1. Recorded(r, b, i) = [r EXCEPT !.clen = atoi(ValueOf(b, i))]
    BY <1>3 DEF Recorded
  <2>2. QED
    BY <1>2, <2>1 DEF RequestType
<1>4. CASE b[i] = "Content-Type:"
  <2>1. Recorded(r, b, i) = [r EXCEPT !.ctype = ValueOf(b, i)]
    BY <1>4 DEF Recorded
  <2>2. QED
    BY <1>1, <2>1 DEF RequestType
<1>5. CASE b[i] = "Host:"
  <2>1. Recorded(r, b, i) = [r EXCEPT !.host = ValueOf(b, i)]
    BY <1>5 DEF Recorded
  <2>2. QED
    BY <1>1, <2>1 DEF RequestType
<1>6. CASE b[i] \notin {"Content-Length:", "Content-Type:", "Host:"}
  BY <1>6 DEF Recorded
<1>7. QED
  BY <1>3, <1>4, <1>5, <1>6

LEMMA WithPathIs ==
  ASSUME NEW r \in RequestType, NEW text \in Text
  PROVE  /\ WithPath(r, text) \in RequestType /\ WithPath(r, text).path \in Text
         /\ WithPath(r, text).qoff = r.qoff /\ WithPath(r, text).clen = r.clen /\ WithPath(r, text).method = r.method
         /\ (\A k \in 1..Len(text) : text[k] # "?") => WithPath(r, text) = [r EXCEPT !.path = text]
         /\ \A m \in 1..Len(text) : text[m] = "?" /\ (\A k \in 1..(m - 1) : text[k] # "?") =>
              WithPath(r, text) = [r EXCEPT !.path = SubSeq(text, 1, m - 1), !.query = SubSeq(text, m + 1, Len(text)),
                                            !.items = QueryItems(SubSeq(text, m + 1, Len(text)))]
<1> DEFINE marks == {k \in DOMAIN text : text[k] = "?"}
           n == Len(text)
           q(m) == SubSeq(text, m + 1, n)
<1>1. n \in Nat /\ DOMAIN text = 1..n /\ marks \in SUBSET Nat
  BY TextLen
<1>2. WithPath(r, text) = IF marks = {} THEN [r EXCEPT !.path = text]
        ELSE [r EXCEPT !.path = SubSeq(text, 1, Min(marks) - 1), !.query = q(Min(marks)), !.items = QueryItems(q(Min(marks)))]
  BY DEF WithPath
<1>3. CASE marks = {}
  <2>1. WithPath(r, text) = [r EXCEPT !.path = text] /\ text \in Paths
    BY <1>2, <1>3 DEF Paths, Opt
  <2>2. \A k \in 1..n : text[k] # "?"
    BY <1>1, <1>3
  <2> HIDE DEF marks, q
  <2>3. QED
    BY <2>1, <2>2 DEF RequestType
<1>4. CASE marks # {}
  <2>1. Min(marks) \in marks /\ \A m \in marks : Min(marks) <= m
    <3> HIDE DEF marks
    <3> QED
      BY <1>1, <1>4, MinIn
  <2>2. Min(marks) \in 1..n /\ text[Min(marks)] = "?"
    BY <1>1, <2>1
  <2>3. \A m \in 1..n : text[m] = "?" /\ (\A k \in 1..(m - 1) : text[k] # "?") => m = Min(marks)
    <3> SUFFICES ASSUME NEW m \in 1..n, text[m] = "?", \A k \in 1..(m - 1) : text[k] # "?", m # Min(marks)
                 PROVE  FALSE
      OBVIOUS
    <3>1. m \in marks
      BY <1>1
    <3>2. Min(marks) <= m
      <4> HIDE DEF marks
      <4> QED
        BY <2>1, <3>1
    <3> HIDE DEF marks
    <3>3. Min(marks) \in 1..(m - 1)
      BY <2>2, <3>2
    <3>4. QED
      BY <2>2, <3>3
  <2> DEFINE m == Min(marks)
  <2>4. m \in 1..n /\ text[m] = "?"
    BY <2>2
  <2>5. \A k \in 1..n : text[k] = "?" /\ (\A j \in 1..(k - 1) : text[j] # "?") => k = m
    BY <2>3
  <2>6. WithPath(r, text) = [r EXCEPT !.path = SubSeq(text, 1, m - 1), !.query = q(m), !.items = QueryItems(q(m))]
    BY <1>2, <1>4
  <2> HIDE DEF m, marks
  <2>7. SubSeq(text, 1, m - 1) \in Text /\ q(m) \in Text
    <3>1. m - 1 \in Nat /\ m - 1 <= n /\ m + 1 \in Nat \ {0} /\ n <= n
      BY <1>1, <2>4
    <3>2. QED
      BY <1>1, <3>1, SubText
  <2>8. QueryItems(q(m)) \in Seq(FormField)
    BY <2>7, ItemsType
  <2>9. q(m) \in Opt(Text) /\ SubSeq(text, 1, m - 1) \in Paths
    BY <2>7 DEF Opt, Paths
  <2> HIDE DEF q
  <2>10. /\ WithPath(r, text) \in RequestType /\ WithPath(r, text).path \in Text
         /\ WithPath(r, text).qoff = r.qoff /\ WithPath(r, text).clen = r.clen /\ WithPath(r, text).method = r.method
    BY <2>6, <2>7, <2>8, <2>9 DEF RequestType
  <2>11. QED
    BY <2>4, <2>5, <2>6, <2>10 DEF q
<1>5. QED
  BY <1>3, <1>4

-----------------------------------------------------------------------------
(* The request line, in a buffer that is the end of what was read.         *)

\* What is in the buffer before the offset was the last of g cells of w, but
\* for the line ends that were overwritten.
Window(t, w, g) == t.off <= g /\ \A i \in 1..t.off : t.buf[i] \in {w[g - t.off + i], NUL}

LEMMA ConsumeWindow ==
  ASSUME NEW t, SessionOK(t), NEW n \in Nat, NEW w, NEW g \in Nat, Window(t, w, g)
  PROVE  Window(Consume(t, n), w, g)
<1> DEFINE r == Consume(t, n)
<1>1. r.off = (IF n < t.off THEN t.off - n ELSE 0) /\ t.off \in Nat /\ \A i \in 1..(t.off - n) : r.buf[i] = t.buf[n + i]
  BY ConsumeIs, SessionFields
<1> HIDE DEF r
<1>2. r.off <= g
  BY <1>1 DEF Window
<1>3. ASSUME NEW i \in 1..r.off
      PROVE  r.buf[i] \in {w[g - r.off + i], NUL}
  <2>1. n < t.off /\ r.off = t.off - n /\ n + i \in 1..t.off /\ i \in 1..(t.off - n)
    BY <1>1
  <2>2. t.buf[n + i] \in {w[g - t.off + (n + i)], NUL}
    BY <2>1 DEF Window
  <2>3. g - t.off + (n + i) = g - r.off + i
    BY <1>1, <2>1
  <2>4. QED
    BY <1>1, <2>1, <2>2, <2>3
<1>4. QED
  BY <1>2, <1>3 DEF Window, r

\* A session with cells of its buffer terminated and its request and phase set.
Changed(t, P, q, p) == [t EXCEPT !.buf = Terminated(t.buf, P), !.req = q, !.phase = p]

LEMMA ChangedIs ==
  ASSUME NEW t, SessionOK(t), NEW P, NEW q \in RequestType, q.qoff <= q.clen, NEW p \in {"METHOD", "HEADER", "QUERY", "RESPONSE"}
  PROVE  /\ SessionOK(Changed(t, P, q, p))
         /\ Changed(t, P, q, p).req = q /\ Changed(t, P, q, p).phase = p
         /\ Changed(t, P, q, p).ops = t.ops /\ Changed(t, P, q, p).off = t.off
         /\ Changed(t, P, q, p).stale = t.stale /\ Changed(t, P, q, p).undefined = t.undefined
         /\ Len(Changed(t, P, q, p).buf) = Len(t.buf)
         /\ \A i \in 1..Len(t.buf) : Changed(t, P, q, p).buf[i] = IF i \in P THEN NUL ELSE t.buf[i]
         /\ \A w, g : Window(t, w, g) => Window(Changed(t, P, q, p), w, g)
<1> DEFINE u == Changed(t, P, q, p)
           b == Terminated(t.buf, P)
<1>1. t \in SessionType /\ t.buf \in Text /\ t.off \in Nat /\ Len(t.buf) \in Nat /\ t.off <= Len(t.buf)
  BY SessionFields
<1>2. b \in Text /\ Len(b) = Len(t.buf) /\ \A i \in 1..Len(t.buf) : b[i] = IF i \in P THEN NUL ELSE t.buf[i]
  BY <1>1, TerminatedIs
<1>3. u = [t EXCEPT !.buf = b, !.req = q, !.phase = p]
  BY DEF Changed
<1> HIDE DEF b, u
<1>4. u \in SessionType /\ u.req = q /\ u.phase = p /\ u.ops = t.ops /\ u.off = t.off /\ u.buf = b /\ u.stale = t.stale /\ u.undefined = t.undefined
  BY <1>1, <1>2, <1>3 DEF SessionType
<1>5. SessionOK(u)
  BY <1>1, <1>2, <1>4 DEF SessionOK
<1>6. ASSUME NEW w, NEW g, Window(t, w, g)
      PROVE  Window(u, w, g)
  <2>1. \A i \in 1..t.off : u.buf[i] = NUL \/ u.buf[i] = t.buf[i]
    BY <1>1, <1>2, <1>4
  <2>2. QED
    BY <1>4, <1>6, <2>1 DEF Window
<1>7. QED
  BY <1>2, <1>4, <1>5, <1>6 DEF u

\* Nothing terminated.
LEMMA UnchangedText ==
  ASSUME NEW b \in Text
  PROVE  Terminated(b, {}) = b
<1>1. Terminated(b, {}) \in Text /\ Len(Terminated(b, {})) = Len(b) /\ \A i \in 1..Len(b) : Terminated(b, {})[i] = b[i]
  BY TerminatedIs
<1>2. QED
  BY <1>1, SameText

MethodRequest(t) == WithPath([t.req EXCEPT !.method = t.buf[1]], SubSeq(t.buf, 2, FindFrom(t.buf, 2, <<SP>>) - 1))

LEMMA MethodRequestType ==
  ASSUME NEW t, SessionOK(t), FindFrom(t.buf, 1, CRLF) # 0, FindFrom(t.buf, 2, <<SP>>) # 0
  PROVE  /\ SubSeq(t.buf, 2, FindFrom(t.buf, 2, <<SP>>) - 1) \in Text
         /\ MethodRequest(t) \in RequestType /\ MethodRequest(t).path \in Text
         /\ MethodRequest(t).qoff = t.req.qoff /\ MethodRequest(t).clen = t.req.clen
         /\ MethodRequest(t).method = t.buf[1]
         /\ FindFrom(t.buf, 2, <<SP>>) \in 2..Len(t.buf)
<1> DEFINE b == t.buf
           space == FindFrom(b, 2, <<SP>>)
           text == SubSeq(b, 2, space - 1)
<1>1. b \in Text /\ Len(b) \in Nat /\ t.req \in RequestType
  BY SessionFields
<1>2. b[1] \in Cells
  <2>1. Len(b) >= 1
    BY <1>1, LineEnd
  <2>2. QED
    BY <1>1, <2>1, TextLen
<1>3. space \in 2..Len(b)
  <2> DEFINE sp == <<SP>>
  <2>1. sp \in Text /\ Len(sp) = 1 /\ 2 \in Nat \ {0}
    BY Words, CellsAssumption
  <2> HIDE DEF sp
  <2>2. space \in Nat /\ space >= 2 /\ space + 1 <= Len(b) + 1
    BY <1>1, <2>1, FindIn DEF sp
  <2> HIDE DEF space
  <2>3. QED
    BY <1>1, <2>2
<1> HIDE DEF space
<1>4. text \in Text
  <2>1. space - 1 \in Nat /\ space - 1 <= Len(b) /\ 2 \in Nat \ {0}
    BY <1>1, <1>3
  <2>2. QED
    BY <1>1, <2>1, SubText
<1> HIDE DEF text
<1>5. [t.req EXCEPT !.method = b[1]] \in RequestType
  BY <1>1, <1>2 DEF RequestType, Opt
<1>6. [t.req EXCEPT !.method = b[1]].qoff = t.req.qoff /\ [t.req EXCEPT !.method = b[1]].clen = t.req.clen
      /\ [t.req EXCEPT !.method = b[1]].method = b[1]
  BY <1>1 DEF RequestType
<1>7. MethodRequest(t) = WithPath([t.req EXCEPT !.method = b[1]], text)
  BY DEF MethodRequest, text, space
<1> DEFINE q == [t.req EXCEPT !.method = b[1]]
<1>8. MethodRequest(t) \in RequestType /\ MethodRequest(t).path \in Text
      /\ MethodRequest(t).qoff = q.qoff /\ MethodRequest(t).clen = q.clen /\ MethodRequest(t).method = q.method
  <2>1. MethodRequest(t) = WithPath(q, text) /\ q \in RequestType
    BY <1>5, <1>7
  <2> HIDE DEF q
  <2>2. QED
    BY <1>4, <2>1, WithPathIs
<1>9. QED
  BY <1>3, <1>4, <1>6, <1>8 DEF text, space

\* Whatever the request line looks like: it waits, is refused, or goes on to
\* the headers.
LEMMA ParseMethodType ==
  ASSUME NEW t, Parsing(t), t.phase = "METHOD", NEW w, NEW g \in Nat, Window(t, w, g)
  PROVE  /\ Parsing(ParseMethod(t)) \/ Lost(ParseMethod(t))
         /\ ParseMethod(t).phase \in {"METHOD", "HEADER", "FAULT"}
         /\ Window(ParseMethod(t), w, g) /\ ParseMethod(t).stale = t.stale
<1> DEFINE b     == t.buf
           space == FindFrom(b, 2, <<SP>>)
           line  == FindFrom(b, space + 1, CRLF)
           text  == SubSeq(b, 2, space - 1)
           r     == WithPath([t.req EXCEPT !.method = b[1]], text)
           res   == ParseMethod(t)
<1>1. SessionOK(t) /\ t \in SessionType /\ b \in Text /\ Len(b) \in Nat /\ t.req \in RequestType /\ t.req.qoff = 0 /\ t.req.clen \in Nat
      /\ t.ops = "default"
  BY SessionFields DEF Parsing
<1>2. res = CASE FindFrom(b, 1, CRLF) = 0 -> t
       [] CharAt(b, 1) \notin MethodWords /\ FindFrom(b, 1, CRLF) # 0 -> [t EXCEPT !.req.code = 501]
       [] OTHER ->
          IF space = 0 THEN Consume([t EXCEPT !.req.code = 400, !.req.method = b[1]], 1)
          ELSE IF PathUndecodable(text) THEN Fault(t)
          ELSE IF CharAt(b, space + 1) # "HTTP/1"
               THEN Consume([t EXCEPT !.buf = Terminated(@, {space}), !.req = [r EXCEPT !.code = 501]], space)
          ELSE IF line = 0 THEN Fault(t)
          ELSE Consume([t EXCEPT !.buf = Terminated(@, {space, line, line + 1}), !.req = r, !.phase = "HEADER"], line + 1)
  BY DEF ParseMethod
<1>a. b = Terminated(b, {})
  BY <1>1, UnchangedText
<1>b. t.stale \in BOOLEAN /\ t.undefined \in BOOLEAN
  BY <1>1 DEF SessionType
<1> DEFINE C(P, q, p) == Changed(t, P, q, p)
<1>3. ASSUME NEW q \in RequestType, q.qoff = 0, NEW P, NEW p \in {"METHOD", "HEADER"}, p # "METHOD" => q.path \in Text, NEW n \in Nat
      PROVE  /\ Parsing(C(P, q, p)) /\ Window(C(P, q, p), w, g) /\ C(P, q, p).stale = t.stale /\ C(P, q, p).phase = p
             /\ Parsing(Consume(C(P, q, p), n)) /\ Window(Consume(C(P, q, p), n), w, g)
             /\ Consume(C(P, q, p), n).stale = t.stale /\ Consume(C(P, q, p), n).phase = p
  <2> DEFINE u == C(P, q, p)
  <2>1. q.qoff <= q.clen /\ p \in {"METHOD", "HEADER", "QUERY", "RESPONSE"}
    BY <1>3 DEF RequestType
  <2>2. /\ SessionOK(u) /\ u.req = q /\ u.phase = p /\ u.ops = t.ops /\ u.stale = t.stale
        /\ Window(u, w, g)
    <3> HIDE DEF b, space, line, text, r, res
    <3>1. SessionOK(t) /\ q \in RequestType
      BY <1>1, <1>3
    <3>2. QED
      BY <2>1, <3>1, ChangedIs
  <2> HIDE DEF C
  <2> HIDE DEF u
  <2>3. Parsing(u) /\ Window(u, w, g)
    BY <1>1, <1>3, <2>2 DEF Parsing
  <2> DEFINE c == Consume(u, n)
  <2>4. SessionOK(c) /\ SameButBuffer(c, u) /\ Window(c, w, g)
    BY <1>3, <2>2, <2>3, ConsumeIs, ConsumeWindow
  <2> HIDE DEF c
  <2>5. Parsing(c) /\ c.stale = t.stale /\ c.phase = p
    BY <1>1, <1>3, <2>2, <2>4 DEF Parsing, SameButBuffer
  <2>6. QED
    BY <1>3, <2>2, <2>3, <2>4, <2>5 DEF c, u
<1> HIDE DEF C
<1>4. CASE FindFrom(b, 1, CRLF) = 0
  BY <1>2, <1>4
<1>5. CASE CharAt(b, 1) \notin MethodWords /\ FindFrom(b, 1, CRLF) # 0
  <2> DEFINE q == [t.req EXCEPT !.code = 501]
             u == [t EXCEPT !.req.code = 501]
  <2>1. q \in RequestType /\ q.qoff = 0
    BY <1>1 DEF RequestType
  <2>2. u = [t EXCEPT !.req = q]
    BY <1>1 DEF SessionType
  <2> HIDE DEF q
  <2>3. [t EXCEPT !.req = q] = [t EXCEPT !.buf = b, !.req = q, !.phase = "METHOD"]
    BY <1>1 DEF SessionType
  <2>4. u = C({}, q, "METHOD")
    BY <1>a, <2>2, <2>3 DEF C, Changed
  <2>5. res = u
    BY <1>2, <1>5
  <2> HIDE DEF u, res
  <2>6. Parsing(u) /\ Window(u, w, g) /\ u.stale = t.stale /\ u.phase = "METHOD"
    <3>1. "METHOD" \in {"METHOD", "HEADER"} /\ 0 \in Nat
      OBVIOUS
    <3>2. QED
      BY <1>3, <2>1, <2>4, <3>1
  <2>7. QED
    BY <2>5, <2>6 DEF res
<1>6. CASE FindFrom(b, 1, CRLF) # 0 /\ CharAt(b, 1) \in MethodWords
  <2>1. Len(b) >= 1 /\ b[1] \in Cells
    <3>1. Len(b) >= 1
      BY <1>1, <1>6, LineEnd
    <3>2. QED
      BY <1>1, <3>1, TextLen
  <2>2. CASE space = 0
    <3> DEFINE q == [t.req EXCEPT !.code = 400, !.method = b[1]]
               u == [t EXCEPT !.req.code = 400, !.req.method = b[1]]
    <3> DEFINE m == b[1]
               k == t.req
    <3>a. m \in Opt(Cells) /\ k \in RequestType /\ k.qoff = 0
      BY <1>1, <2>1 DEF Opt
    <3>b. q = [[k EXCEPT !.code = 400] EXCEPT !.method = m]
      BY <1>1 DEF RequestType
    <3>c. u = [[t EXCEPT !.req.code = 400] EXCEPT !.req.method = m]
      OBVIOUS
    <3>d. [t EXCEPT !.req.code = 400] = [t EXCEPT !.req = [k EXCEPT !.code = 400]]
      BY <1>1 DEF SessionType
    <3>5. res = Consume(u, 1)
      BY <1>2, <1>6, <2>2
    <3> HIDE DEF m, q, u
    <3>1. q \in RequestType /\ q.qoff = 0
      <4> HIDE DEF k
      <4> DEFINE n == [k EXCEPT !.code = 400]
      <4>1. n \in RequestType /\ n.qoff = 0
        BY <3>a DEF RequestType
      <4>2. q = [n EXCEPT !.method = m]
        BY <3>b
      <4> HIDE DEF n
      <4>3. QED
        BY <3>a, <4>1, <4>2 DEF RequestType
    <3>2. u = [t EXCEPT !.req = q]
      <4> DEFINE n == [k EXCEPT !.code = 400]
      <4>1. u = [[t EXCEPT !.req = n] EXCEPT !.req.method = m]
        BY <3>c, <3>d
      <4>2. q = [n EXCEPT !.method = m]
        BY <3>b
      <4> HIDE DEF n
      <4>3. QED
        BY <1>1, <4>1, <4>2 DEF SessionType
    <3> HIDE DEF q
    <3>3. [t EXCEPT !.req = q] = [t EXCEPT !.buf = b, !.req = q, !.phase = "METHOD"]
      BY <1>1 DEF SessionType
    <3>4. u = C({}, q, "METHOD")
      BY <1>a, <3>2, <3>3 DEF C, Changed
    <3> HIDE DEF res
    <3>6. Parsing(Consume(u, 1)) /\ Window(Consume(u, 1), w, g) /\ Consume(u, 1).stale = t.stale /\ Consume(u, 1).phase = "METHOD"
      <4>1. "METHOD" \in {"METHOD", "HEADER"} /\ 1 \in Nat
        OBVIOUS
      <4>2. QED
        BY <1>3, <3>1, <3>4, <4>1
    <3>7. QED
      BY <3>5, <3>6 DEF res
  <2>3. CASE space # 0 /\ (PathUndecodable(text) \/ (CharAt(b, space + 1) = "HTTP/1" /\ line = 0))
    <3>1. res = Fault(t)
      BY <1>2, <1>6, <2>3
    <3>2. Lost(Fault(t)) /\ Fault(t).stale = t.stale /\ Fault(t).buf = t.buf /\ Fault(t).off = t.off /\ Fault(t).phase = "FAULT"
      BY <1>1, LostIs DEF Lost
    <3> HIDE DEF res
    <3>3. QED
      BY <3>1, <3>2 DEF Window, res
  <2>4. CASE space # 0 /\ ~(PathUndecodable(text) \/ (CharAt(b, space + 1) = "HTTP/1" /\ line = 0))
    <3>1. r = MethodRequest(t)
      BY DEF MethodRequest
    <3>2. r \in RequestType /\ r.path \in Text /\ r.qoff = 0 /\ r.clen \in Nat /\ space \in Nat
      <4> HIDE DEF r, space
      <4>1. MethodRequest(t) \in RequestType /\ MethodRequest(t).path \in Text /\ MethodRequest(t).qoff = 0
            /\ space \in 2..Len(b)
        BY <1>1, <1>6, <2>4, MethodRequestType DEF space
      <4>2. QED
        BY <1>1, <3>1, <4>1 DEF RequestType
    <3>3. line \in Nat
      <4> HIDE DEF space
      <4>1. space + 1 \in Nat \ {0}
        BY <3>2
      <4>2. QED
        BY <1>1, <4>1, LineEnd
    <3>4. CASE CharAt(b, space + 1) # "HTTP/1"
      <4> DEFINE q == [r EXCEPT !.code = 501]
                 u == [t EXCEPT !.buf = Terminated(@, {space}), !.req = [r EXCEPT !.code = 501]]
      <4>1. res = Consume(u, space)
        BY <1>2, <1>6, <2>4, <3>4
      <4> HIDE DEF r, space, res
      <4>2. q \in RequestType /\ q.qoff = 0
        BY <3>2 DEF RequestType
      <4>3. u = C({space}, q, "METHOD")
        <5>1. u = [t EXCEPT !.buf = Terminated(b, {space}), !.req = q]
          OBVIOUS
        <5> HIDE DEF q, u
        <5> DEFINE z == Terminated(b, {space})
        <5>2. u = [t EXCEPT !.buf = z, !.req = q]
          BY <5>1
        <5>3. C({space}, q, "METHOD") = [t EXCEPT !.buf = z, !.req = q, !.phase = "METHOD"]
          BY DEF C, Changed
        <5> HIDE DEF z, C
        <5>4. t \in SessionType /\ t.phase = "METHOD"
          BY <1>1
        <5>5. [t EXCEPT !.buf = z, !.req = q] = [t EXCEPT !.buf = z, !.req = q, !.phase = "METHOD"]
          BY <5>4 DEF SessionType
        <5>6. QED
          BY <5>2, <5>3, <5>5
      <4> HIDE DEF q, u
      <4>4. Parsing(Consume(u, space)) /\ Window(Consume(u, space), w, g) /\ Consume(u, space).stale = t.stale
            /\ Consume(u, space).phase = "METHOD"
        <5>1. "METHOD" \in {"METHOD", "HEADER"}
          OBVIOUS
        <5>2. QED
          BY <1>3, <3>2, <4>2, <4>3, <5>1
      <4>5. QED
        BY <4>1, <4>4 DEF res
    <3>5. CASE CharAt(b, space + 1) = "HTTP/1"
      <4> DEFINE u == [t EXCEPT !.buf = Terminated(@, {space, line, line + 1}), !.req = r, !.phase = "HEADER"]
      <4>1. res = Consume(u, line + 1)
        BY <1>2, <1>6, <2>4, <3>5
      <4> HIDE DEF r, space, res, line
      <4> DEFINE P == {space, line, line + 1}
      <4>2. u = C(P, r, "HEADER")
        <5> DEFINE z == Terminated(b, P)
        <5>2. u = [t EXCEPT !.buf = z, !.req = r, !.phase = "HEADER"]
          OBVIOUS
        <5>3. C(P, r, "HEADER") = [t EXCEPT !.buf = z, !.req = r, !.phase = "HEADER"]
          BY DEF C, Changed
        <5> HIDE DEF z, P, u
        <5>4. QED
          BY <1>1, <5>2, <5>3 DEF SessionType
      <4> HIDE DEF P
      <4> HIDE DEF u
      <4>3. line + 1 \in Nat
        BY <3>3
      <4>4. Parsing(Consume(u, line + 1)) /\ Window(Consume(u, line + 1), w, g) /\ Consume(u, line + 1).stale = t.stale
            /\ Consume(u, line + 1).phase = "HEADER"
        <5>1. "HEADER" \in {"METHOD", "HEADER"}
          OBVIOUS
        <5>2. QED
          BY <1>3, <3>2, <4>2, <4>3, <5>1
      <4>5. QED
        BY <4>1, <4>4 DEF res
    <3>6. QED
      BY <3>4, <3>5
  <2>5. QED
    BY <2>2, <2>3, <2>4
<1>7. QED
  BY <1>4, <1>5, <1>6

-----------------------------------------------------------------------------
(* What is behind the headers that were read.                              *)

\* The request when the header lines of its buffer are recorded.
RequestBehind(t) ==
  LET b == t.buf
      lines == HeaderLines(b)
      after[k \in 0..Len(lines)] == IF k = 0 THEN t.req ELSE Recorded(after[k - 1], b, lines[k])
  IN after[Len(lines)]

\* What the header lines lead to, before they are consumed.
LinesRead(t) ==
  LET b == t.buf
      lines == HeaderLines(b)
      next == NextLine(b, 1, lines)
  IN IF BeginsAt(b, next, CRLF) THEN next + 1 ELSE next - 1

LineEnds(b) == {FindFrom(b, HeaderLines(b)[k], CRLF) : k \in 1..Len(HeaderLines(b))}
WithLines(t) ==
  [t EXCEPT !.buf = Terminated(t.buf, LineEnds(t.buf) \cup {e + 1 : e \in LineEnds(t.buf)}), !.req = RequestBehind(t),
            !.stale = @ \/ LinesRead(t) > t.off]

LEMMA HeaderLinesIn ==
  ASSUME NEW b \in Text
  PROVE  /\ IsLines(b, HeaderStops(b), 1, HeaderLines(b))
         /\ HeaderLines(b) \in Seq(1..Len(b)) /\ Len(HeaderLines(b)) \in Nat
         /\ NextLine(b, 1, HeaderLines(b)) \in 1..(Len(b) + 1)
         /\ \A k \in 1..Len(HeaderLines(b)) :
              /\ HeaderLines(b)[k] \in 1..Len(b) /\ HeaderLines(b)[k] \notin HeaderStops(b)
              /\ FindFrom(b, HeaderLines(b)[k], CRLF) \in HeaderLines(b)[k]..Len(b)
              /\ FindFrom(b, HeaderLines(b)[k], CRLF) + 1 \in HeaderLines(b)[k]..Len(b)
              /\ FindFrom(b, HeaderLines(b)[k], CRLF) + 2 <= NextLine(b, 1, HeaderLines(b))
<1> DEFINE Z == HeaderStops(b)
           l == HeaderLines(b)
<1>1. Len(b) \in Nat /\ 1 \in 1..(Len(b) + 1)
  BY TextLen
<1>2. Z \in SUBSET Nat /\ Len(b) + 1 \in Z /\ \A i \in 1..Len(b) : i \notin Z => FindFrom(b, i, CRLF) # 0
  BY <1>1 DEF HeaderStops, CharAt
<1>3. IsLines(b, Z, 1, l)
  BY HeaderLinesAre
<1> HIDE DEF Z, l
<1>4. /\ l \in Seq(1..Len(b)) /\ Len(l) \in Nat
      /\ NextLine(b, 1, l) \in 1..(Len(b) + 1)
      /\ \A k \in 1..Len(l) : /\ l[k] \in 1..Len(b) /\ FindFrom(b, l[k], CRLF) \in l[k]..Len(b)
                              /\ FindFrom(b, l[k], CRLF) + 1 \in l[k]..Len(b)
                              /\ FindFrom(b, l[k], CRLF) + 2 <= NextLine(b, 1, l)
  BY <1>1, <1>2, <1>3, LinesIn
<1>5. \A k \in 1..Len(l) : l[k] \notin Z
  BY <1>3 DEF IsLines
<1>6. QED
  BY <1>3, <1>4, <1>5 DEF Z, l

\* Each line is recorded in the request of the lines before it.
LEMMA BehindIs ==
  ASSUME NEW t, SessionOK(t)
  PROVE  \E c \in [0..Len(HeaderLines(t.buf)) -> RequestType] :
            /\ RequestBehind(t) = c[Len(HeaderLines(t.buf))] /\ c[0] = t.req
            /\ \A k \in 1..Len(HeaderLines(t.buf)) : c[k] = Recorded(c[k - 1], t.buf, HeaderLines(t.buf)[k])
<1> DEFINE b == t.buf
           l == HeaderLines(b)
           n == Len(l)
           D == 0..n
           B(g, k) == IF k = 0 THEN t.req ELSE Recorded(g[k - 1], b, l[k])
           Eq(g) == g = [k \in D |-> B(g, k)]
           c == CHOOSE g : Eq(g)
           F == [k \in 1..n |-> [x \in RequestType |-> Recorded(x, b, l[k])]]
<1>1. b \in Text /\ t.req \in RequestType
  BY SessionFields
<1>2. n \in Nat /\ \A k \in 1..n : l[k] \in Nat \ {0} /\ FindFrom(b, l[k], CRLF) # 0 /\ ~BeginsAt(b, l[k], CRLF)
  <2>1. n \in Nat /\ \A k \in 1..n : l[k] \in 1..Len(b) /\ l[k] \notin HeaderStops(b)
    <3> HIDE DEF b
    <3> QED
      BY <1>1, HeaderLinesIn
  <2>2. Len(b) \in Nat
    BY <1>1, TextLen
  <2> HIDE DEF l
  <2>3. \A i \in 1..Len(b) : i \notin HeaderStops(b) => i \in Nat \ {0} /\ FindFrom(b, i, CRLF) # 0 /\ ~BeginsAt(b, i, CRLF)
    BY <2>2 DEF HeaderStops
  <2>4. QED
    BY <2>1, <2>3
<1> HIDE DEF l, n
<1>3. F \in [1..n -> [RequestType -> RequestType]]
  <2>1. \A k \in 1..n, x \in RequestType : Recorded(x, b, l[k]) \in RequestType
    BY <1>1, <1>2, RecordedType
  <2>2. QED
    BY <2>1
<1>4. PICK f \in [0..n -> RequestType] : GoesUp(f, n, t.req, F)
  <2> HIDE DEF F
  <2> QED
    BY <1>1, <1>2, <1>3, RecursionUp
<1>5. \A k \in D : f[k] = B(f, k)
  <2>1. f[0] = t.req /\ \A k \in 1..n : f[k] = F[k][f[k - 1]]
    BY <1>4 DEF GoesUp
  <2>2. \A k \in 1..n : f[k - 1] \in RequestType
    BY <1>2, <1>4
  <2>3. \A k \in 1..n : f[k] = Recorded(f[k - 1], b, l[k])
    BY <2>1, <2>2
  <2> HIDE DEF F
  <2>4. QED
    BY <1>2, <2>1, <2>3
<1>6. Eq(f)
  <2> HIDE DEF B
  <2> QED
    BY <1>4, <1>5
<1>7. Eq(c)
  <2> HIDE DEF Eq
  <2> QED
    BY <1>6
<1>8. RequestBehind(t) = c[n]
  BY DEF RequestBehind, l, n
<1> HIDE DEF c
<1>9. \A k \in D : c[k] = B(c, k)
  <2> HIDE DEF B
  <2> QED
    BY <1>7
<1>10. c[0] = t.req /\ \A k \in 1..n : c[k] = Recorded(c[k - 1], b, l[k])
  BY <1>2, <1>9
<1> DEFINE T == {k \in 0..n : c[k] = f[k]}
<1>11. 0 \in T
  BY <1>2, <1>5, <1>10
<1>12. ASSUME NEW k \in 1..n, k - 1 \in T
       PROVE  k \in T
  <2>1. f[k] = Recorded(f[k - 1], b, l[k])
    <3>1. k \in D /\ k # 0
      BY <1>2
    <3>2. QED
      BY <1>5, <3>1
  <2>2. QED
    BY <1>10, <1>12, <2>1
<1>13. \A k \in 0..n : k \in T
  <2> HIDE DEF T
  <2> QED
    BY <1>2, <1>11, <1>12, UpTo
<1>14. f[0] = t.req /\ \A k \in 1..n : f[k] = Recorded(f[k - 1], b, l[k])
  <2>1. \A k \in 1..n : k \in D /\ k # 0
    BY <1>2
  <2>2. 0 \in D
    BY <1>2
  <2> HIDE DEF D
  <2>3. QED
    BY <1>5, <2>1, <2>2
<1>15. RequestBehind(t) = f[n]
  BY <1>2, <1>8, <1>13
<1>16. QED
  BY <1>4, <1>14, <1>15 DEF n, l

LEMMA BehindType ==
  ASSUME NEW t, SessionOK(t)
  PROVE  /\ RequestBehind(t) \in RequestType /\ RequestBehind(t).path = t.req.path /\ RequestBehind(t).qoff = t.req.qoff
         /\ RequestBehind(t).method = t.req.method /\ RequestBehind(t).query = t.req.query /\ RequestBehind(t).items = t.req.items
<1> DEFINE b == t.buf
           l == HeaderLines(b)
           n == Len(l)
           Same(q) == q.path = t.req.path /\ q.qoff = t.req.qoff /\ q.method = t.req.method /\ q.query = t.req.query /\ q.items = t.req.items
<1>1. b \in Text
  BY SessionFields
<1>2. PICK c \in [0..n -> RequestType] :
            /\ RequestBehind(t) = c[n] /\ c[0] = t.req
            /\ \A k \in 1..n : c[k] = Recorded(c[k - 1], b, l[k])
  BY BehindIs
<1>3. n \in Nat /\ \A k \in 1..n : l[k] \in 1..Len(b) /\ l[k] \notin HeaderStops(b)
  BY <1>1, HeaderLinesIn
<1> HIDE DEF l
<1> DEFINE T == {k \in 0..n : Same(c[k])}
<1>4. 0 \in T
  BY <1>2, <1>3
<1>5. ASSUME NEW k \in 1..n, k - 1 \in T
      PROVE  k \in T
  <2>1. l[k] \in Nat \ {0} /\ FindFrom(b, l[k], CRLF) # 0 /\ ~BeginsAt(b, l[k], CRLF)
    <3>1. l[k] \in 1..Len(b) /\ l[k] \notin HeaderStops(b) /\ Len(b) \in Nat
      BY <1>1, <1>3, TextLen
    <3>2. QED
      BY <3>1 DEF HeaderStops
  <2>2. c[k - 1] \in RequestType /\ Same(c[k - 1])
    <3>1. k - 1 \in 0..n
      BY <1>3
    <3>2. QED
      BY <1>2, <1>5, <3>1
  <2> DEFINE x == c[k - 1]
  <2>3. c[k] = Recorded(x, b, l[k])
    BY <1>2
  <2> HIDE DEF x
  <2>4. Recorded(x, b, l[k]).path = x.path /\ Recorded(x, b, l[k]).qoff = x.qoff
        /\ Recorded(x, b, l[k]).method = x.method /\ Recorded(x, b, l[k]).query = x.query /\ Recorded(x, b, l[k]).items = x.items
    BY <1>1, <2>1, <2>2, RecordedType DEF x
  <2>5. Same(c[k])
    BY <2>2, <2>3, <2>4 DEF x
  <2>6. QED
    BY <1>3, <2>5
<1>6. \A k \in 0..n : k \in T
  <2> HIDE DEF T, n
  <2> QED
    BY <1>3, <1>4, <1>5, UpTo
<1>7. n \in 0..n
  BY <1>3
<1>8. c[n] \in RequestType /\ Same(c[n])
  BY <1>2, <1>6, <1>7
<1>9. QED
  BY <1>2, <1>8

LEMMA FlaggedIs ==
  ASSUME NEW t, SessionOK(t), NEW x, x \in BOOLEAN
  PROVE  /\ SessionOK([t EXCEPT !.stale = x]) /\ [t EXCEPT !.stale = x].stale = x
         /\ [t EXCEPT !.stale = x].buf = t.buf /\ [t EXCEPT !.stale = x].off = t.off /\ [t EXCEPT !.stale = x].phase = t.phase
         /\ [t EXCEPT !.stale = x].ops = t.ops /\ [t EXCEPT !.stale = x].req = t.req
<1>1. t \in SessionType
  BY DEF SessionOK
<1> DEFINE u == [t EXCEPT !.stale = x]
<1>2. u \in SessionType
  BY <1>1 DEF SessionType
<1>3. u.buf = t.buf /\ u.off = t.off /\ u.phase = t.phase /\ u.ops = t.ops /\ u.req = t.req /\ u.stale = x
  BY <1>1 DEF SessionType
<1> HIDE DEF u
<1>4. SessionOK(u)
  BY <1>2, <1>3 DEF SessionOK
<1>5. QED
  BY <1>3, <1>4 DEF u

LEMMA WithLinesIs ==
  ASSUME NEW t, SessionOK(t), t.phase = "HEADER", t.req.qoff = 0
  PROVE  /\ SessionOK(WithLines(t)) /\ WithLines(t).phase = "HEADER" /\ WithLines(t).ops = t.ops /\ WithLines(t).off = t.off
         /\ WithLines(t).req = RequestBehind(t) /\ Len(WithLines(t).buf) = Len(t.buf)
         /\ WithLines(t).stale = (t.stale \/ LinesRead(t) > t.off)
         /\ \A w, g : Window(t, w, g) => Window(WithLines(t), w, g)
         /\ \A i \in 1..Len(t.buf) :
               i \notin LineEnds(t.buf) /\ i \notin {e + 1 : e \in LineEnds(t.buf)} => WithLines(t).buf[i] = t.buf[i]
<1> DEFINE P == LineEnds(t.buf) \cup {e + 1 : e \in LineEnds(t.buf)}
           q == RequestBehind(t)
           x == t.stale \/ LinesRead(t) > t.off
           u == Changed(t, P, q, "HEADER")
           v == WithLines(t)
<1>1. t \in SessionType
  BY DEF SessionOK
<1>2. q \in RequestType /\ q.qoff <= q.clen
  <2>1. q \in RequestType /\ q.qoff = 0
    BY BehindType
  <2>2. QED
    BY <2>1 DEF RequestType
<1>3. x \in BOOLEAN
  BY <1>1 DEF SessionType
<1>4. v = [u EXCEPT !.stale = x]
  <2>1. v = [t EXCEPT !.buf = Terminated(t.buf, P), !.req = q, !.stale = x]
    BY DEF WithLines
  <2>2. u = [t EXCEPT !.buf = Terminated(t.buf, P), !.req = q, !.phase = "HEADER"]
    BY DEF Changed
  <2> DEFINE z == Terminated(t.buf, P)
  <2>3. v = [t EXCEPT !.buf = z, !.req = q, !.stale = x] /\ u = [t EXCEPT !.buf = z, !.req = q, !.phase = "HEADER"]
    BY <2>1, <2>2
  <2> HIDE DEF z, q, x, u, v, P
  <2>4. QED
    BY <1>1, <2>3 DEF SessionType
<1> HIDE DEF q, P
<1>5. /\ SessionOK(u) /\ u.req = q /\ u.phase = "HEADER" /\ u.ops = t.ops /\ u.off = t.off
      /\ Len(u.buf) = Len(t.buf)
      /\ \A i \in 1..Len(t.buf) : u.buf[i] = IF i \in P THEN NUL ELSE t.buf[i]
      /\ \A w, g : Window(t, w, g) => Window(u, w, g)
  <2>1. "HEADER" \in {"METHOD", "HEADER", "QUERY", "RESPONSE"}
    OBVIOUS
  <2>2. QED
    BY <1>2, <2>1, ChangedIs
<1> HIDE DEF u, v, x
<1>6. SessionOK(v) /\ v.stale = x /\ v.buf = u.buf /\ v.off = u.off /\ v.phase = u.phase /\ v.ops = u.ops /\ v.req = u.req
  BY <1>3, <1>4, <1>5, FlaggedIs
<1>7. \A w, g : Window(u, w, g) => Window(v, w, g)
  BY <1>6 DEF Window
<1>8. QED
  BY <1>5, <1>6, <1>7 DEF v, q, x, P

LEMMA ParseHeaderIs ==
  ASSUME NEW t, SessionOK(t)
  PROVE  ParseHeader(t) = IF BeginsAt(t.buf, NextLine(t.buf, 1, HeaderLines(t.buf)), CRLF)
                          THEN Trimmed(Consume(EndOfHeaders(WithLines(t)), LinesRead(t)))
                          ELSE Consume(WithLines(t), LinesRead(t))
<1> DEFINE b     == t.buf
           lines == HeaderLines(b)
           ends  == [k \in DOMAIN lines |-> FindFrom(b, lines[k], CRLF)]
           after == RequestBehind(t)
           next  == IF lines = <<>> THEN 1 ELSE ends[Len(ends)] + 2
           whole == BeginsAt(b, next, CRLF)
           read  == IF whole THEN next + 1 ELSE next - 1
           P     == {ends[k] : k \in DOMAIN ends} \cup {ends[k] + 1 : k \in DOMAIN ends}
           u     == [t EXCEPT !.buf = Terminated(@, P), !.req = after, !.stale = @ \/ read > t.off]
<1>1. b \in Text
  BY SessionFields
<1>2. ParseHeader(t) = IF whole THEN Trimmed(Consume(EndOfHeaders(u), read)) ELSE Consume(u, read)
  BY DEF ParseHeader, RequestBehind
<1>3. Len(lines) \in Nat /\ DOMAIN lines = 1..Len(lines) /\ lines \in Seq(1..Len(b))
  BY <1>1, HeaderLinesIn
<1> HIDE DEF b, lines
<1>4. DOMAIN ends = 1..Len(lines) /\ Len(ends) = Len(lines) /\ \A k \in 1..Len(lines) : ends[k] = FindFrom(b, lines[k], CRLF)
  BY <1>3
<1>5. next = NextLine(b, 1, lines)
  <2>1. lines # <<>> => Len(lines) \in 1..Len(lines)
    BY <1>3
  <2> HIDE DEF ends
  <2>2. QED
    BY <1>4, <2>1 DEF NextLine
<1>6. {ends[k] : k \in DOMAIN ends} = LineEnds(b)
  <2> HIDE DEF ends
  <2> QED
    BY <1>4 DEF LineEnds, lines
<1>7. {ends[k] + 1 : k \in DOMAIN ends} = {e + 1 : e \in LineEnds(b)}
  <2> HIDE DEF ends
  <2> QED
    BY <1>6
<1>8. read = LinesRead(t)
  <2> HIDE DEF next
  <2> QED
    BY <1>5 DEF LinesRead, b, lines
<1> HIDE DEF next, read, ends
<1>9. u = WithLines(t)
  BY <1>6, <1>7, <1>8 DEF WithLines, b
<1> HIDE DEF u
<1>10. QED
  BY <1>2, <1>5, <1>8, <1>9 DEF b, lines

LEMMA FreedIs == Freed \in Seq(FormField)
<1>1. <<>> \in Text /\ [name |-> <<>>, value |-> Nil] \in FormField
  BY Words DEF FormField
<1>2. QED
  BY <1>1 DEF Freed

LEMMA EndOfHeadersType ==
  ASSUME NEW t, SessionOK(t), t.ops = "default", t.phase = "HEADER", t.req.qoff = 0, t.req.path \in Text
  PROVE  /\ Parsing(EndOfHeaders(t)) /\ EndOfHeaders(t).phase \in {"QUERY", "RESPONSE"}
         /\ EndOfHeaders(t).buf = t.buf /\ EndOfHeaders(t).off = t.off /\ EndOfHeaders(t).stale = t.stale
<1> DEFINE u == EndOfHeaders(t)
           k == t.req
<1>1. t \in SessionType /\ k \in RequestType /\ k.clen \in Nat
  BY SessionFields
<1>2. CASE k.clen = 0 \/ k.method # "POST"
  <2> DEFINE q == [k EXCEPT !.code = 200]
  <2>1. u = [t EXCEPT !.req = q, !.phase = "RESPONSE"]
    BY <1>1, <1>2 DEF EndOfHeaders, SessionType
  <2>2. q \in RequestType /\ q.qoff = 0 /\ q.path \in Text /\ q.clen \in Nat
    BY <1>1 DEF RequestType
  <2> HIDE DEF q, u
  <2>3. u \in SessionType /\ u.buf = t.buf /\ u.off = t.off /\ u.stale = t.stale /\ u.req = q /\ u.phase = "RESPONSE" /\ u.ops = "default"
    BY <1>1, <2>1, <2>2 DEF SessionType
  <2>4. QED
    BY <1>1, <2>2, <2>3 DEF SessionOK, Parsing, u
<1>3. CASE ~(k.clen = 0 \/ k.method # "POST") /\ (IsMultipart(k) \/ k.clen >= PostMax)
  <2> DEFINE x == k.ctype = Nil
  <2>1. u = [t EXCEPT !.phase = "RESPONSE", !.undefined = x] /\ x \in BOOLEAN
    BY <1>3 DEF EndOfHeaders
  <2> HIDE DEF u, x
  <2>2. u \in SessionType /\ u.buf = t.buf /\ u.off = t.off /\ u.stale = t.stale /\ u.req = k /\ u.phase = "RESPONSE" /\ u.ops = "default"
    BY <1>1, <2>1 DEF SessionType
  <2>3. QED
    BY <1>1, <2>2 DEF SessionOK, Parsing, u
<1>4. CASE ~(k.clen = 0 \/ k.method # "POST") /\ ~(IsMultipart(k) \/ k.clen >= PostMax)
  <2> DEFINE z == IF k.items = <<>> THEN k.items ELSE Freed
             q1 == [k EXCEPT !.query = <<>>]
             q2 == [q1 EXCEPT !.qoff = 0]
             q == [q2 EXCEPT !.items = z]
             x == k.ctype = Nil
  <2>1. u = [t EXCEPT !.phase = "QUERY", !.req = q, !.undefined = x]
    BY <1>1, <1>4 DEF EndOfHeaders, SessionType, RequestType
  <2>a. z \in Seq(FormField)
    BY <1>1, FreedIs DEF RequestType
  <2>2. q1 \in RequestType /\ q1.path \in Text /\ q1.query = <<>>
    BY <1>1, Words DEF RequestType, Opt
  <2> HIDE DEF q1, z
  <2>b. q2 \in RequestType /\ q2.qoff = 0 /\ q2.path \in Text /\ q2.clen \in Nat /\ q2.query = <<>> /\ q2.query \in Text
    BY <2>2, Words DEF RequestType
  <2> HIDE DEF q2
  <2>3. q \in RequestType /\ q.qoff = 0 /\ q.path \in Text /\ q.clen \in Nat /\ q.query = <<>> /\ q.query \in Text
    BY <2>a, <2>b DEF RequestType
  <2>4. x \in BOOLEAN
    OBVIOUS
  <2> HIDE DEF q, u, x
  <2>5. u \in SessionType /\ u.buf = t.buf /\ u.off = t.off /\ u.stale = t.stale /\ u.req = q /\ u.phase = "QUERY" /\ u.ops = "default"
    BY <1>1, <2>1, <2>3, <2>4 DEF SessionType
  <2>6. QED
    BY <1>1, <2>3, <2>5 DEF SessionOK, Parsing, u
<1>5. QED
  BY <1>2, <1>3, <1>4

LEMMA SameParsing ==
  ASSUME NEW t, Parsing(t), NEW u, SessionOK(u), SameButBuffer(u, t)
  PROVE  Parsing(u)
BY DEF Parsing, SameButBuffer

LEMMA ParseHeaderType ==
  ASSUME NEW t, Parsing(t), t.phase = "HEADER", NEW w, NEW g \in Nat, Window(t, w, g)
  PROVE  /\ Parsing(ParseHeader(t)) /\ ParseHeader(t).phase \in {"HEADER", "QUERY", "RESPONSE"}
         /\ Window(ParseHeader(t), w, g) /\ ParseHeader(t).stale = (t.stale \/ LinesRead(t) > t.off)
<1> DEFINE b == t.buf
           v == WithLines(t)
           n == LinesRead(t)
           whole == BeginsAt(b, NextLine(b, 1, HeaderLines(b)), CRLF)
<1>1. SessionOK(t) /\ t.ops = "default" /\ t.req.qoff = 0 /\ t.req.path \in Text /\ b \in Text
  BY SessionFields DEF Parsing
<1>2. n \in Nat
  <2>1. NextLine(b, 1, HeaderLines(b)) \in 1..(Len(b) + 1) /\ Len(b) \in Nat
    BY <1>1, HeaderLinesIn, TextLen
  <2> DEFINE m == NextLine(b, 1, HeaderLines(b))
  <2>2. n = IF BeginsAt(b, m, CRLF) THEN m + 1 ELSE m - 1
    BY DEF LinesRead
  <2> HIDE DEF m, n
  <2>3. QED
    BY <2>1, <2>2 DEF m
<1>3. SessionOK(v) /\ v.phase = "HEADER" /\ v.ops = "default" /\ v.off = t.off /\ v.req = RequestBehind(t) /\ Window(v, w, g)
      /\ v.stale = (t.stale \/ LinesRead(t) > t.off)
  BY <1>1, WithLinesIs
<1>4. v.req.qoff = 0 /\ v.req.path \in Text
  BY <1>1, <1>3, BehindType
<1>5. Parsing(v)
  BY <1>3, <1>4 DEF Parsing
<1>6. CASE whole
  <2> DEFINE e == EndOfHeaders(v)
             c == Consume(e, n)
             r == Trimmed(c)
  <2>1. ParseHeader(t) = r
    BY <1>1, <1>6, ParseHeaderIs
  <2> HIDE DEF v, n
  <2>2. Parsing(e) /\ e.phase \in {"QUERY", "RESPONSE"} /\ e.buf = v.buf /\ e.off = v.off /\ e.stale = v.stale
    BY <1>3, <1>4, EndOfHeadersType
  <2>3. Window(e, w, g) /\ SessionOK(e)
    BY <1>3, <2>2 DEF Window, Parsing
  <2> HIDE DEF e
  <2>4. SessionOK(c) /\ SameButBuffer(c, e) /\ Window(c, w, g)
    BY <1>2, <2>3, ConsumeIs, ConsumeWindow
  <2>5. Parsing(c)
    BY <2>2, <2>4, SameParsing
  <2> HIDE DEF c
  <2>6. SessionOK(r) /\ SameButBuffer(r, c) /\ r.off = c.off /\ \A i \in 1..c.off : r.buf[i] = c.buf[i]
    BY <2>4, TrimmedIs
  <2>7. Parsing(r) /\ Window(r, w, g)
    BY <2>4, <2>5, <2>6, SameParsing DEF Window
  <2> HIDE DEF r
  <2>8. QED
    BY <1>3, <2>1, <2>2, <2>4, <2>6, <2>7 DEF SameButBuffer
<1>7. CASE ~whole
  <2> DEFINE c == Consume(v, n)
  <2>1. ParseHeader(t) = c
    BY <1>1, <1>7, ParseHeaderIs
  <2> HIDE DEF v, n
  <2>2. SessionOK(c) /\ SameButBuffer(c, v) /\ Window(c, w, g)
    BY <1>2, <1>3, ConsumeIs, ConsumeWindow
  <2>3. Parsing(c)
    BY <1>5, <2>2, SameParsing
  <2> HIDE DEF c
  <2>4. QED
    BY <1>3, <2>1, <2>2, <2>3 DEF SameButBuffer
<1>8. QED
  BY <1>6, <1>7

\* How much of the content a read brings.
Taken(t) == IF t.req.qoff + t.off > t.req.clen THEN t.req.clen - t.req.qoff ELSE t.off
SoFar(t) == t.req.query \o SubSeq(t.buf, 1, Taken(t))
WithContent(t) == [t EXCEPT !.req.query = SoFar(t), !.req.qoff = @ + Taken(t)]
IsFormRequest(q) == q.ctype # Nil /\ BeginsAt(q.ctype, 1, <<"form">>)
\* The content is complete.
WithItems(t) ==
  [WithContent(t) EXCEPT !.buf = Terminated(@, {t.req.clen + 1}),
     !.undefined = @ \/ t.req.clen >= BufSize \/ t.req.ctype = Nil,
     !.req.items = IF IsFormRequest(t.req) THEN QueryItems(SoFar(t)) ELSE @, !.req.code = 200, !.phase = "RESPONSE"]

LEMMA TwoFields ==
  ASSUME NEW t \in SessionType, NEW x, NEW y
  PROVE  /\ [t EXCEPT !.req.query = x, !.req.qoff = y] = [t EXCEPT !.req = [t.req EXCEPT !.query = x, !.qoff = y]]
         /\ [t.req EXCEPT !.query = x, !.qoff = y].qoff = y
<1> DEFINE k == t.req
           k1 == [k EXCEPT !.query = x]
           t1 == [t EXCEPT !.req = k1]
<1>1. k \in RequestType
  BY DEF SessionType
<1>2. [t EXCEPT !.req.query = x] = t1
  BY DEF SessionType
<1>3. [t EXCEPT !.req.query = x, !.req.qoff = y] = [t1 EXCEPT !.req.qoff = y]
  BY <1>2
<1>4. t1.req = k1
  BY DEF SessionType
<1>5. [t1 EXCEPT !.req.qoff = y] = [t1 EXCEPT !.req = [k1 EXCEPT !.qoff = y]]
  <2> HIDE DEF k1
  <2> QED
    BY DEF SessionType
<1> DEFINE k2 == [k1 EXCEPT !.qoff = y]
<1>6. [t1 EXCEPT !.req = k2] = [t EXCEPT !.req = k2]
  <2> HIDE DEF k1, k2
  <2> QED
    BY DEF SessionType
<1>7. k2 = [k EXCEPT !.query = x, !.qoff = y]
  OBVIOUS
<1>8. k2.qoff = y
  BY <1>1 DEF RequestType
<1>9. QED
  BY <1>3, <1>5, <1>6, <1>7, <1>8

LEMMA ParsePostIs ==
  ASSUME NEW t, SessionOK(t)
  PROVE  ParsePost(t) = IF t.off = 0 THEN t
                        ELSE IF t.req.qoff + Taken(t) < t.req.clen THEN Trimmed(Consume(WithContent(t), Taken(t)))
                        ELSE IF IsFormRequest(t.req) /\ Undecodable(SoFar(t)) THEN Fault(t)
                        ELSE Consume(WithItems(t), Taken(t))
<1> DEFINE n     == IF t.req.qoff + t.off > t.req.clen THEN t.req.clen - t.req.qoff ELSE t.off
           query == t.req.query \o SubSeq(t.buf, 1, n)
           form  == t.req.ctype # Nil /\ BeginsAt(t.req.ctype, 1, <<"form">>)
           u     == [t EXCEPT !.req.query = query, !.req.qoff = @ + n]
<1>1. n = Taken(t) /\ query = SoFar(t) /\ form = IsFormRequest(t.req) /\ u = WithContent(t)
  BY DEF Taken, SoFar, IsFormRequest, WithContent
<1>2. ParsePost(t) = IF t.off = 0 THEN t
     ELSE IF u.req.qoff < t.req.clen THEN Trimmed(Consume(u, n))
     ELSE IF form /\ Undecodable(query) THEN Fault(t)
     ELSE Consume([u EXCEPT !.buf = Terminated(@, {t.req.clen + 1}),
                            !.undefined = @ \/ t.req.clen >= BufSize \/ t.req.ctype = Nil,
                            !.req.items = IF form THEN QueryItems(query) ELSE @,
                            !.req.code = 200, !.phase = "RESPONSE"], n)
  BY DEF ParsePost
<1>3. u.req.qoff = t.req.qoff + n
  <2> DEFINE m == t.req.qoff + n
  <2>1. t \in SessionType /\ u = [t EXCEPT !.req.query = query, !.req.qoff = m]
    BY DEF SessionOK
  <2> HIDE DEF n, query, u, m, form
  <2> DEFINE z == [t.req EXCEPT !.query = query, !.qoff = m]
  <2>2. z = [t.req EXCEPT !.query = query, !.qoff = m]
    OBVIOUS
  <2>a. z.qoff = m
    <3>1. t.req \in RequestType
      BY <2>1 DEF SessionType
    <3> DEFINE k == [t.req EXCEPT !.query = query]
    <3>2. z = [k EXCEPT !.qoff = m] /\ "qoff" \in DOMAIN k
      BY <3>1 DEF RequestType
    <3> HIDE DEF z, k
    <3>3. QED
      BY <3>2
  <2> HIDE DEF z
  <2>3. u = [t EXCEPT !.req = z]
    BY <2>1, <2>2, TwoFields
  <2>4. QED
    BY <2>1, <2>a, <2>3 DEF SessionType, m
<1> HIDE DEF u, n, query, form
<1>4. [u EXCEPT !.buf = Terminated(@, {t.req.clen + 1}),
                            !.undefined = @ \/ t.req.clen >= BufSize \/ t.req.ctype = Nil,
                            !.req.items = IF form THEN QueryItems(query) ELSE @,
                            !.req.code = 200, !.phase = "RESPONSE"] = WithItems(t)
  BY <1>1 DEF WithItems
<1>5. QED
  BY <1>1, <1>2, <1>3, <1>4

RequestWith(t) == [t.req EXCEPT !.query = SoFar(t), !.qoff = t.req.qoff + Taken(t)]
RequestDone(t) == [RequestWith(t) EXCEPT !.items = IF IsFormRequest(t.req) THEN QueryItems(SoFar(t)) ELSE @, !.code = 200]

LEMMA ContentIs ==
  ASSUME NEW t, SessionOK(t), t.req.query \in Text
  PROVE  /\ Taken(t) \in Nat /\ Taken(t) <= t.off /\ t.req.qoff + Taken(t) <= t.req.clen
         /\ (t.req.qoff + t.off <= t.req.clen => Taken(t) = t.off)
         /\ SoFar(t) \in Text /\ Len(SoFar(t)) = Len(t.req.query) + Taken(t)
         /\ \A i \in 1..Len(SoFar(t)) : SoFar(t)[i] = IF i <= Len(t.req.query) THEN t.req.query[i] ELSE t.buf[i - Len(t.req.query)]
<1>1. t.buf \in Text /\ Len(t.buf) \in Nat /\ t.off \in Nat /\ t.off <= Len(t.buf) /\ t.req.clen \in Nat /\ t.req.qoff \in Nat
      /\ t.req.qoff <= t.req.clen
  BY SessionFields
<1>2. Taken(t) \in Nat /\ Taken(t) <= t.off /\ t.req.qoff + Taken(t) <= t.req.clen
      /\ (t.req.qoff + t.off <= t.req.clen => Taken(t) = t.off)
  BY <1>1 DEF Taken
<1> DEFINE h == SubSeq(t.buf, 1, Taken(t))
           q == t.req.query
           n == Taken(t)
<1>3. h \in Text /\ Len(h) = n /\ \A i \in 1..n : h[i] = t.buf[i]
  <2>1. 1 \in Nat \ {0} /\ n - 1 + 1 = n /\ n <= Len(t.buf) /\ \A i \in 1..n : 1 + i - 1 = i
    BY <1>1, <1>2
  <2>2. QED
    BY <1>1, <1>2, <2>1, SubText
<1>4. SoFar(t) = q \o h
  BY DEF SoFar
<1> HIDE DEF h, n
<1>5. q \in Text /\ Len(q) \in Nat
  BY TextLen
<1> HIDE DEF q
<1>6. SoFar(t) \in Text /\ Len(SoFar(t)) = Len(q) + Len(h)
      /\ \A i \in 1..(Len(q) + Len(h)) : SoFar(t)[i] = IF i <= Len(q) THEN q[i] ELSE h[i - Len(q)]
  <2>1. q \o h \in Text /\ Len(q \o h) = Len(q) + Len(h)
        /\ \A i \in 1..(Len(q) + Len(h)) : (q \o h)[i] = IF i <= Len(q) THEN q[i] ELSE h[i - Len(q)]
    BY <1>3, <1>5, CatText
  <2> DEFINE z == q \o h
  <2>2. z \in Text /\ Len(z) = Len(q) + Len(h)
        /\ \A i \in 1..(Len(q) + Len(h)) : z[i] = IF i <= Len(q) THEN q[i] ELSE h[i - Len(q)]
    BY <2>1
  <2>3. SoFar(t) = z
    BY <1>4
  <2> HIDE DEF z
  <2>4. QED
    BY <2>2, <2>3
<1>7. \A i \in 1..(Len(q) + n) : i > Len(q) => i - Len(q) \in 1..n
  BY <1>2, <1>5 DEF n
<1>8. \A i \in 1..(Len(q) + n) : SoFar(t)[i] = IF i <= Len(q) THEN q[i] ELSE t.buf[i - Len(q)]
  BY <1>2, <1>3, <1>5, <1>6, <1>7 DEF n
<1>9. QED
  BY <1>2, <1>3, <1>6, <1>8 DEF n, q

LEMMA WithContentIs ==
  ASSUME NEW t, SessionOK(t), t.req.query \in Text
  PROVE  /\ WithContent(t) = [t EXCEPT !.req = RequestWith(t)]
         /\ RequestWith(t) \in RequestType /\ RequestWith(t).path = t.req.path /\ RequestWith(t).clen = t.req.clen
         /\ RequestWith(t).query = SoFar(t) /\ RequestWith(t).qoff = t.req.qoff + Taken(t)
         /\ RequestWith(t).method = t.req.method /\ RequestWith(t).items = t.req.items /\ RequestWith(t).ctype = t.req.ctype
<1> DEFINE k == t.req
           x == SoFar(t)
           m == k.qoff + Taken(t)
           q == RequestWith(t)
<1>1. t \in SessionType /\ k \in RequestType /\ x \in Opt(Text) /\ m \in Nat
  BY SessionFields, ContentIs DEF Opt
<1>2. WithContent(t) = [t EXCEPT !.req.query = x, !.req.qoff = m]
  BY DEF WithContent
<1>3. q = [k EXCEPT !.query = x, !.qoff = m]
  BY DEF RequestWith
<1> HIDE DEF x, m, q
<1>4. WithContent(t) = [t EXCEPT !.req = q]
  BY <1>1, <1>2, <1>3, TwoFields
<1> HIDE DEF k
<1> DEFINE k1 == [k EXCEPT !.query = x]
<1>5. k1 \in RequestType /\ k1.path = k.path /\ k1.clen = k.clen /\ k1.query = x /\ k1.method = k.method /\ k1.items = k.items
      /\ k1.ctype = k.ctype
  BY <1>1 DEF RequestType
<1>6. q = [k1 EXCEPT !.qoff = m]
  BY <1>3
<1> HIDE DEF k1
<1>7. q \in RequestType /\ q.path = k.path /\ q.clen = k.clen /\ q.query = x /\ q.qoff = m /\ q.method = k.method /\ q.items = k.items
      /\ q.ctype = k.ctype
  BY <1>1, <1>5, <1>6 DEF RequestType
<1>8. QED
  BY <1>4, <1>7 DEF q, k, x, m

LEMMA WithItemsIs ==
  ASSUME NEW t, SessionOK(t), t.req.query \in Text
  PROVE  /\ WithItems(t) = [Changed(t, {t.req.clen + 1}, RequestDone(t), "RESPONSE")
                              EXCEPT !.undefined = @ \/ t.req.clen >= BufSize \/ t.req.ctype = Nil]
         /\ RequestDone(t) \in RequestType /\ RequestDone(t).path = t.req.path /\ RequestDone(t).clen = t.req.clen
         /\ RequestDone(t).qoff = t.req.qoff + Taken(t) /\ RequestDone(t).method = t.req.method
         /\ RequestDone(t).items = IF IsFormRequest(t.req) THEN QueryItems(SoFar(t)) ELSE t.req.items
<1> DEFINE w == RequestWith(t)
           z == IF IsFormRequest(t.req) THEN QueryItems(SoFar(t)) ELSE w.items
           d == RequestDone(t)
           x == t.undefined \/ t.req.clen >= BufSize \/ t.req.ctype = Nil
           u == [t EXCEPT !.req = w]
           b == Terminated(t.buf, {t.req.clen + 1})
<1>1. t \in SessionType /\ t.req \in RequestType
  BY SessionFields
<1>2. WithContent(t) = u /\ w \in RequestType /\ w.path = t.req.path /\ w.clen = t.req.clen /\ w.qoff = t.req.qoff + Taken(t)
      /\ w.method = t.req.method /\ w.items = t.req.items
  BY WithContentIs
<1>3. z \in Seq(FormField)
  <2>1. QueryItems(SoFar(t)) \in Seq(FormField)
    BY ContentIs, ItemsType
  <2>2. w.items \in Seq(FormField)
    BY <1>2 DEF RequestType
  <2>3. QED
    BY <2>1, <2>2
<1>4. d = [w EXCEPT !.items = z, !.code = 200]
  BY DEF RequestDone
<1> HIDE DEF w
<1>5. u.buf = t.buf /\ u.undefined = t.undefined /\ u.req = w /\ u.req.items = w.items
  BY <1>1 DEF SessionType
<1>6. WithItems(t) = [u EXCEPT !.buf = b, !.undefined = x, !.req.items = z, !.req.code = 200, !.phase = "RESPONSE"]
  BY <1>2, <1>5 DEF WithItems
<1> HIDE DEF z, d, x, b
<1>7. /\ d \in RequestType /\ d.path = w.path /\ d.clen = w.clen /\ d.qoff = w.qoff /\ d.method = w.method /\ d.items = z
  <2> DEFINE w1 == [w EXCEPT !.items = z]
  <2>1. w1 \in RequestType /\ w1.path = w.path /\ w1.clen = w.clen /\ w1.qoff = w.qoff /\ w1.method = w.method /\ w1.items = z
    BY <1>2, <1>3 DEF RequestType
  <2>2. d = [w1 EXCEPT !.code = 200]
    BY <1>4
  <2> HIDE DEF w1
  <2>3. QED
    BY <2>1, <2>2 DEF RequestType
<1>8. [u EXCEPT !.buf = b, !.undefined = x, !.req.items = z, !.req.code = 200, !.phase = "RESPONSE"]
      = [u EXCEPT !.buf = b, !.undefined = x, !.req = d, !.phase = "RESPONSE"]
  <2> DEFINE u1 == [u EXCEPT !.buf = b, !.undefined = x]
             u2 == [u1 EXCEPT !.req = [w EXCEPT !.items = z]]
  <2>1. [u EXCEPT !.buf = b, !.undefined = x, !.req.items = z, !.req.code = 200, !.phase = "RESPONSE"]
        = [[[u1 EXCEPT !.req.items = z] EXCEPT !.req.code = 200] EXCEPT !.phase = "RESPONSE"]
    OBVIOUS
  <2>2. u1.req = w
    <3> HIDE DEF u
    <3>1. u = [t EXCEPT !.req = w]
      BY DEF u
    <3>2. QED
      BY <1>1, <1>5, <3>1 DEF SessionType
  <2>3. [u1 EXCEPT !.req.items = z] = u2
    <3>1. u1 = [[[t EXCEPT !.req = w] EXCEPT !.buf = b] EXCEPT !.undefined = x]
      OBVIOUS
    <3> HIDE DEF u1, u
    <3>2. QED
      BY <1>1, <2>2, <3>1 DEF SessionType
  <2>4. [u2 EXCEPT !.req.code = 200] = [u1 EXCEPT !.req = d]
    <3> DEFINE w1 == [w EXCEPT !.items = z]
    <3>1. d = [w1 EXCEPT !.code = 200] /\ u2 = [u1 EXCEPT !.req = w1]
      BY <1>4
    <3>2. u1 = [[[t EXCEPT !.req = w] EXCEPT !.buf = b] EXCEPT !.undefined = x]
      OBVIOUS
    <3> HIDE DEF u2, u1, u, w1
    <3>3. QED
      BY <1>1, <3>1, <3>2 DEF SessionType
  <2>5. [[u1 EXCEPT !.req = d] EXCEPT !.phase = "RESPONSE"] = [u EXCEPT !.buf = b, !.undefined = x, !.req = d, !.phase = "RESPONSE"]
    OBVIOUS
  <2> HIDE DEF u1, u2, u
  <2>6. QED
    BY <2>1, <2>3, <2>4, <2>5
<1>9. [u EXCEPT !.buf = b, !.undefined = x, !.req = d, !.phase = "RESPONSE"]
      = [[t EXCEPT !.buf = b, !.req = d, !.phase = "RESPONSE"] EXCEPT !.undefined = x]
  BY <1>1 DEF SessionType
<1>10. Changed(t, {t.req.clen + 1}, d, "RESPONSE") = [t EXCEPT !.buf = b, !.req = d, !.phase = "RESPONSE"]
  BY DEF Changed, b
<1>11. Changed(t, {t.req.clen + 1}, d, "RESPONSE").undefined = t.undefined
  BY <1>1, <1>10 DEF SessionType
<1> HIDE DEF u
<1>12. QED
  BY <1>2, <1>6, <1>7, <1>8, <1>9, <1>10, <1>11 DEF d, x, z

-----------------------------------------------------------------------------
(* A body, and a read.                                                     *)

LEMMA DoubtIs ==
  ASSUME NEW t, SessionOK(t), NEW x, x \in BOOLEAN
  PROVE  /\ SessionOK([t EXCEPT !.undefined = x]) /\ [t EXCEPT !.undefined = x].stale = t.stale
         /\ [t EXCEPT !.undefined = x].buf = t.buf /\ [t EXCEPT !.undefined = x].off = t.off
         /\ [t EXCEPT !.undefined = x].phase = t.phase /\ [t EXCEPT !.undefined = x].ops = t.ops
         /\ [t EXCEPT !.undefined = x].req = t.req
<1>1. t \in SessionType
  BY DEF SessionOK
<1> DEFINE u == [t EXCEPT !.undefined = x]
<1>2. u \in SessionType
  BY <1>1 DEF SessionType
<1>3. u.buf = t.buf /\ u.off = t.off /\ u.phase = t.phase /\ u.ops = t.ops /\ u.req = t.req /\ u.stale = t.stale
  BY <1>1 DEF SessionType
<1> HIDE DEF u
<1>4. SessionOK(u)
  BY <1>2, <1>3 DEF SessionOK
<1>5. QED
  BY <1>3, <1>4 DEF u

\* The session whose content is complete, before it is consumed.
LEMMA CompleteIs ==
  ASSUME NEW t, Parsing(t), t.phase = "QUERY"
  PROVE  /\ SessionOK(WithItems(t)) /\ WithItems(t).req = RequestDone(t) /\ WithItems(t).phase = "RESPONSE"
         /\ WithItems(t).ops = "default" /\ WithItems(t).off = t.off /\ WithItems(t).stale = t.stale
         /\ Parsing(WithItems(t))
         /\ \A w, g : Window(t, w, g) => Window(WithItems(t), w, g)
<1> DEFINE d == RequestDone(t)
           u == Changed(t, {t.req.clen + 1}, d, "RESPONSE")
           y == u.undefined \/ t.req.clen >= BufSize \/ t.req.ctype = Nil
           v == WithItems(t)
<1>1. SessionOK(t) /\ t.req.query \in Text /\ t.ops = "default" /\ t.req.path \in Text /\ t \in SessionType
  BY DEF Parsing, SessionOK
<1>2. v = [u EXCEPT !.undefined = y] /\ d \in RequestType /\ d.path = t.req.path /\ d.clen = t.req.clen /\ d.qoff = t.req.qoff + Taken(t)
  BY <1>1, WithItemsIs
<1>3. d.qoff <= d.clen
  BY <1>1, <1>2, ContentIs
<1> HIDE DEF d
<1>4. /\ SessionOK(u) /\ u.req = d /\ u.phase = "RESPONSE" /\ u.ops = t.ops /\ u.off = t.off
      /\ u.stale = t.stale /\ u.undefined = t.undefined /\ \A w, g : Window(t, w, g) => Window(u, w, g)
  <2>1. "RESPONSE" \in {"METHOD", "HEADER", "QUERY", "RESPONSE"}
    OBVIOUS
  <2>2. QED
    BY <1>1, <1>2, <1>3, <2>1, ChangedIs
<1>5. y \in BOOLEAN
  BY <1>1, <1>4 DEF SessionType
<1> HIDE DEF u, y, v
<1>6. SessionOK(v) /\ v.stale = u.stale /\ v.buf = u.buf /\ v.off = u.off /\ v.phase = u.phase /\ v.ops = u.ops /\ v.req = u.req
  BY <1>2, <1>4, <1>5, DoubtIs
<1>7. \A w, g : Window(u, w, g) => Window(v, w, g)
  BY <1>6 DEF Window
<1>8. Parsing(v)
  BY <1>1, <1>2, <1>4, <1>6 DEF Parsing
<1>9. QED
  BY <1>1, <1>4, <1>6, <1>7, <1>8 DEF v, d

LEMMA ContentSoFarIs ==
  ASSUME NEW t, Parsing(t), t.phase = "QUERY"
  PROVE  /\ SessionOK(WithContent(t)) /\ WithContent(t).req = RequestWith(t) /\ WithContent(t).phase = "QUERY"
         /\ WithContent(t).ops = "default" /\ WithContent(t).off = t.off /\ WithContent(t).stale = t.stale
         /\ WithContent(t).buf = t.buf /\ Parsing(WithContent(t))
<1> DEFINE d == RequestWith(t)
           v == WithContent(t)
<1>1. SessionOK(t) /\ t.req.query \in Text /\ t.ops = "default" /\ t.req.path \in Text /\ t \in SessionType /\ t.req \in RequestType
  BY SessionFields DEF Parsing
<1>2. v = [t EXCEPT !.req = d] /\ d \in RequestType /\ d.path = t.req.path /\ d.clen = t.req.clen /\ d.qoff = t.req.qoff + Taken(t)
      /\ d.query = SoFar(t)
  BY <1>1, WithContentIs
<1>3. d.qoff <= d.clen /\ d.query \in Text
  BY <1>1, <1>2, ContentIs
<1> HIDE DEF d, v
<1>4. v \in SessionType /\ v.req = d /\ v.phase = "QUERY" /\ v.ops = "default" /\ v.off = t.off /\ v.stale = t.stale /\ v.buf = t.buf
  BY <1>1, <1>2 DEF SessionType
<1>5. SessionOK(v)
  BY <1>1, <1>3, <1>4 DEF SessionOK
<1>6. Parsing(v)
  BY <1>1, <1>2, <1>3, <1>4, <1>5 DEF Parsing
<1>7. QED
  BY <1>4, <1>5, <1>6 DEF v, d

LEMMA ParsePostType ==
  ASSUME NEW t, Parsing(t), t.phase = "QUERY", NEW w, NEW g \in Nat, Window(t, w, g)
  PROVE  /\ Parsing(ParsePost(t)) \/ Lost(ParsePost(t))
         /\ Window(ParsePost(t), w, g) /\ ParsePost(t).stale = t.stale
<1> DEFINE n == Taken(t)
           r == ParsePost(t)
<1>1. SessionOK(t) /\ t.req.query \in Text
  BY DEF Parsing
<1>2. n \in Nat
  BY <1>1, ContentIs
<1>3. r = IF t.off = 0 THEN t
          ELSE IF t.req.qoff + n < t.req.clen THEN Trimmed(Consume(WithContent(t), n))
          ELSE IF IsFormRequest(t.req) /\ Undecodable(SoFar(t)) THEN Fault(t)
          ELSE Consume(WithItems(t), n)
  BY <1>1, ParsePostIs
<1> HIDE DEF n, r
<1>4. CASE t.off = 0
  <2>1. r = t
    BY <1>3, <1>4
  <2>2. QED
    BY <2>1 DEF r
<1>5. CASE t.off # 0 /\ t.req.qoff + n < t.req.clen
  <2> DEFINE v == WithContent(t)
             c == Consume(v, n)
             z == Trimmed(c)
  <2>1. r = z
    BY <1>3, <1>5
  <2>2. SessionOK(v) /\ Parsing(v) /\ v.off = t.off /\ v.stale = t.stale /\ v.buf = t.buf
    BY ContentSoFarIs
  <2> HIDE DEF v
  <2>3. Window(v, w, g)
    BY <2>2 DEF Window
  <2>4. SessionOK(c) /\ SameButBuffer(c, v) /\ Window(c, w, g)
    BY <1>2, <2>2, <2>3, ConsumeIs, ConsumeWindow
  <2>5. Parsing(c)
    BY <2>2, <2>4, SameParsing
  <2> HIDE DEF c
  <2>6. SessionOK(z) /\ SameButBuffer(z, c) /\ z.off = c.off /\ \A i \in 1..c.off : z.buf[i] = c.buf[i]
    BY <2>4, TrimmedIs
  <2> HIDE DEF z
  <2>7. Parsing(z) /\ Window(z, w, g)
    BY <2>4, <2>5, <2>6, SameParsing DEF Window
  <2>8. QED
    BY <2>1, <2>2, <2>4, <2>6, <2>7 DEF SameButBuffer, r
<1>6. CASE t.off # 0 /\ ~(t.req.qoff + n < t.req.clen) /\ IsFormRequest(t.req) /\ Undecodable(SoFar(t))
  <2>1. r = Fault(t)
    BY <1>3, <1>6
  <2>2. Lost(Fault(t)) /\ Fault(t).stale = t.stale /\ Fault(t).buf = t.buf /\ Fault(t).off = t.off
    BY <1>1, LostIs
  <2>3. QED
    BY <2>1, <2>2 DEF Window, r
<1>7. CASE t.off # 0 /\ ~(t.req.qoff + n < t.req.clen) /\ ~(IsFormRequest(t.req) /\ Undecodable(SoFar(t)))
  <2> DEFINE v == WithItems(t)
             c == Consume(v, n)
  <2>1. r = c
    BY <1>3, <1>7
  <2>2. SessionOK(v) /\ Parsing(v) /\ v.stale = t.stale /\ Window(v, w, g)
    BY CompleteIs
  <2> HIDE DEF v
  <2>3. SessionOK(c) /\ SameButBuffer(c, v) /\ Window(c, w, g)
    BY <1>2, <2>2, ConsumeIs, ConsumeWindow
  <2>4. Parsing(c)
    BY <2>2, <2>3, SameParsing
  <2> HIDE DEF c
  <2>5. QED
    BY <2>1, <2>2, <2>3, <2>4 DEF SameButBuffer, r
<1>8. QED
  BY <1>4, <1>5, <1>6, <1>7

LEMMA ParsedType ==
  ASSUME NEW t, Parsing(t), NEW w, NEW g \in Nat, Window(t, w, g)
  PROVE  /\ Parsing(Parsed(t)) \/ Lost(Parsed(t))
         /\ Window(Parsed(t), w, g) /\ (t.stale => Parsed(t).stale)
<1> DEFINE m == IF t.phase = "METHOD" THEN ParseMethod(t) ELSE t
           h == IF m.phase = "HEADER" THEN ParseHeader(m) ELSE m
           Good(u) == (Parsing(u) \/ Lost(u)) /\ Window(u, w, g) /\ (t.stale => u.stale)
<1>1. Good(m)
  BY ParseMethodType
<1> HIDE DEF m
<1>2. Good(h)
  <2>1. CASE m.phase = "HEADER"
    <3>1. Parsing(m) /\ Window(m, w, g) /\ (t.stale => m.stale)
      BY <1>1, <2>1 DEF Lost
    <3>2. QED
      BY <2>1, <3>1, ParseHeaderType
  <2>2. CASE m.phase # "HEADER"
    BY <1>1, <2>2
  <2>3. QED
    BY <2>1, <2>2
<1>3. Parsed(t) = IF h.phase = "QUERY" THEN ParsePost(h) ELSE h
  BY DEF Parsed, m
<1> HIDE DEF h
<1>4. CASE h.phase = "QUERY"
  <2>1. Parsing(h) /\ Window(h, w, g) /\ (t.stale => h.stale)
    BY <1>2, <1>4 DEF Lost
  <2>2. QED
    BY <1>3, <1>4, <2>1, ParsePostType
<1>5. CASE h.phase # "QUERY"
  BY <1>2, <1>3, <1>5
<1>6. QED
  BY <1>4, <1>5

\* What a read leads to.
LEMMA OutcomesAre ==
  ASSUME NEW t, Parsing(t) \/ Lost(t), NEW w, NEW g \in Nat, Window(t, w, g), NEW v \in Outcomes(t)
  PROVE  /\ Parsing(v) \/ Lost(v)
         /\ Window(v, w, g) /\ v.stale = t.stale
         /\ Lost(v) \/ (v.buf = t.buf /\ v.off = t.off /\ v.phase = t.phase /\ v.ops = t.ops /\ v.req = t.req)
<1>1. SessionOK(t) /\ t \in SessionType
  BY DEF Parsing, Lost, SessionOK
<1>2. v = t \/ v = [t EXCEPT !.undefined = FALSE] \/ v = Fault(t)
  BY DEF Outcomes
<1>3. CASE v = t
  BY <1>3
<1>4. CASE v = [t EXCEPT !.undefined = FALSE]
  <2>1. SessionOK(v) /\ v.stale = t.stale /\ v.buf = t.buf /\ v.off = t.off /\ v.phase = t.phase /\ v.ops = t.ops /\ v.req = t.req
    BY <1>1, <1>4, DoubtIs
  <2>2. Parsing(v) \/ Lost(v)
    BY <2>1 DEF Parsing, Lost
  <2>3. QED
    BY <2>1, <2>2 DEF Window
<1>5. CASE v = Fault(t)
  <2>1. Lost(v) /\ v.stale = t.stale /\ v.buf = t.buf /\ v.off = t.off
    BY <1>1, <1>5, LostIs
  <2>2. QED
    BY <2>1 DEF Window
<1>6. QED
  BY <1>2, <1>3, <1>4, <1>5
=============================================================================
