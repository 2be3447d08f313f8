---------------------------- MODULE ReceiveProofs ----------------------------
(***************************************************************************)
(* Theorems about WebnetReceive, for every set of requests a client may     *)
(* make, every size of buffer and every cut into packets.                   *)
(***************************************************************************)
EXTENDS RequestProofs

-----------------------------------------------------------------------------
(* The upload.                                                             *)

LEMMA MarksAre ==
  /\ Boundary \in Text /\ Len(Boundary) = 2 /\ Boundary[1] = "--b1" /\ Boundary[2] = "b2"
  /\ FIRST \in Text /\ Len(FIRST) = 4 /\ FIRST[1] = "--b1" /\ FIRST[2] = "b2" /\ FIRST[3] = CR /\ FIRST[4] = LF
  /\ COMMON \in Text /\ Len(COMMON) = 4 /\ COMMON[1] = CR /\ COMMON[2] = LF /\ COMMON[3] = "--b1" /\ COMMON[4] = "b2"
  /\ NORMAL \in Text /\ Len(NORMAL) = 6 /\ NORMAL[1] = CR /\ NORMAL[2] = LF /\ NORMAL[3] = "--b1" /\ NORMAL[4] = "b2"
  /\ NORMAL[5] = CR /\ NORMAL[6] = LF
  /\ LAST \in Text /\ Len(LAST) = 7 /\ LAST[1] = CR /\ LAST[2] = LF /\ LAST[3] = "--b1" /\ LAST[4] = "b2"
  /\ LAST[5] = "--" /\ LAST[6] = CR /\ LAST[7] = LF
<1>1. "--b1" \in Cells /\ "b2" \in Cells /\ "--" \in Cells /\ CR \in Cells /\ LF \in Cells
  BY CellsAssumption
<1>2. Boundary \in Text /\ Len(Boundary) = 2 /\ Boundary[1] = "--b1" /\ Boundary[2] = "b2"
  <2>1. Len(Boundary) = 2 /\ Boundary[1] = "--b1" /\ Boundary[2] = "b2"
    BY DEF Boundary
  <2>2. Boundary \in Text
    BY <1>1 DEF Boundary, Text
  <2>3. QED
    BY <2>1, <2>2
<1>3. CRLF \in Text /\ Len(CRLF) = 2 /\ CRLF[1] = CR /\ CRLF[2] = LF
  BY CRLFIs
<1>4. FIRST \in Text /\ Len(FIRST) = 4 /\ FIRST[1] = "--b1" /\ FIRST[2] = "b2" /\ FIRST[3] = CR /\ FIRST[4] = LF
  <2>1. FIRST \in Text /\ Len(FIRST) = Len(Boundary) + Len(CRLF)
        /\ \A i \in 1..(Len(Boundary) + Len(CRLF)) : FIRST[i] = IF i <= Len(Boundary) THEN Boundary[i] ELSE CRLF[i - Len(Boundary)]
    BY <1>2, <1>3, CatText DEF FIRST
  <2>2. QED
    BY <1>2, <1>3, <2>1
<1>5. COMMON \in Text /\ Len(COMMON) = 4 /\ COMMON[1] = CR /\ COMMON[2] = LF /\ COMMON[3] = "--b1" /\ COMMON[4] = "b2"
  <2>1. COMMON \in Text /\ Len(COMMON) = Len(CRLF) + Len(Boundary)
        /\ \A i \in 1..(Len(CRLF) + Len(Boundary)) : COMMON[i] = IF i <= Len(CRLF) THEN CRLF[i] ELSE Boundary[i - Len(CRLF)]
    BY <1>2, <1>3, CatText DEF COMMON
  <2>2. QED
    BY <1>2, <1>3, <2>1
<1>6. NORMAL \in Text /\ Len(NORMAL) = 6 /\ NORMAL[1] = CR /\ NORMAL[2] = LF /\ NORMAL[3] = "--b1" /\ NORMAL[4] = "b2"
      /\ NORMAL[5] = CR /\ NORMAL[6] = LF
  <2>1. NORMAL \in Text /\ Len(NORMAL) = Len(COMMON) + Len(CRLF)
        /\ \A i \in 1..(Len(COMMON) + Len(CRLF)) : NORMAL[i] = IF i <= Len(COMMON) THEN COMMON[i] ELSE CRLF[i - Len(COMMON)]
    BY <1>5, <1>3, CatText DEF NORMAL
  <2>2. QED
    BY <1>5, <1>3, <2>1
<1>7. LAST \in Text /\ Len(LAST) = 7 /\ LAST[1] = CR /\ LAST[2] = LF /\ LAST[3] = "--b1" /\ LAST[4] = "b2"
      /\ LAST[5] = "--" /\ LAST[6] = CR /\ LAST[7] = LF
  <2> DEFINE d == <<"--">>
             c == COMMON \o d
  <2>1. d \in Text /\ Len(d) = 1 /\ d[1] = "--"
    BY <1>1, Words
  <2>2. LAST = c \o CRLF
    BY DEF LAST
  <2> HIDE DEF d
  <2>3. c \in Text /\ Len(c) = Len(COMMON) + Len(d)
        /\ \A i \in 1..(Len(COMMON) + Len(d)) : c[i] = IF i <= Len(COMMON) THEN COMMON[i] ELSE d[i - Len(COMMON)]
    BY <1>5, <2>1, CatText
  <2> HIDE DEF c
  <2>4. c \in Text /\ Len(c) = 5 /\ \A i \in 1..5 : c[i] = IF i <= 4 THEN COMMON[i] ELSE d[i - 4]
    BY <1>5, <2>1, <2>3
  <2>5. LAST \in Text /\ Len(LAST) = Len(c) + Len(CRLF)
        /\ \A i \in 1..(Len(c) + Len(CRLF)) : LAST[i] = IF i <= Len(c) THEN c[i] ELSE CRLF[i - Len(c)]
    BY <1>3, <2>2, <2>4, CatText
  <2>6. QED
    BY <1>3, <1>5, <2>1, <2>4, <2>5
<1>8. QED
  BY <1>2, <1>4, <1>5, <1>6, <1>7

LEMMA MarkCells ==
  /\ \A t \in {Boundary, FIRST, COMMON, NORMAL, LAST} : \A k \in 1..Len(t) : t[k] \notin {NUL, "file"}
<1>1. {"--b1", "b2", "--", CR, LF} \cap {NUL, "file"} = {}
  BY DEF CR, LF, NUL
<1>2. \A k \in 1..2 : Boundary[k] \in {"--b1", "b2", "--", CR, LF}
  BY MarksAre
<1>3. \A k \in 1..4 : FIRST[k] \in {"--b1", "b2", "--", CR, LF}
  BY MarksAre
<1>4. \A k \in 1..4 : COMMON[k] \in {"--b1", "b2", "--", CR, LF}
  BY MarksAre
<1>5. \A k \in 1..6 : NORMAL[k] \in {"--b1", "b2", "--", CR, LF}
  BY MarksAre
<1>6. \A k \in 1..7 : LAST[k] \in {"--b1", "b2", "--", CR, LF}
  BY MarksAre
<1>7. QED
  BY <1>1, <1>2, <1>3, <1>4, <1>5, <1>6, MarksAre

\* A mark that begins in a text ends in it.
LEMMA MarkAt ==
  ASSUME NEW b \in Text, NEW i \in Nat \ {0}
  PROVE  /\ BeginsAt(b, i, FIRST)  => i + 3 <= Len(b)
         /\ BeginsAt(b, i, COMMON) => i + 3 <= Len(b)
         /\ BeginsAt(b, i, NORMAL) => i + 5 <= Len(b)
         /\ BeginsAt(b, i, LAST)   => i + 6 <= Len(b)
         /\ \A t \in {Boundary, FIRST, COMMON, NORMAL, LAST} :
              BeginsAt(b, i, t) <=> \A k \in 1..Len(t) : i + k - 1 <= Len(b) /\ b[i + k - 1] = t[k]
<1>1. \A t \in {Boundary, FIRST, COMMON, NORMAL, LAST} :
              BeginsAt(b, i, t) <=> \A k \in 1..Len(t) : i + k - 1 <= Len(b) /\ b[i + k - 1] = t[k]
  <2> SUFFICES ASSUME NEW t \in {Boundary, FIRST, COMMON, NORMAL, LAST}
               PROVE  BeginsAt(b, i, t) <=> \A k \in 1..Len(t) : i + k - 1 <= Len(b) /\ b[i + k - 1] = t[k]
    OBVIOUS
  <2>1. t \in Text
    BY MarksAre
  <2>2. \A k \in 1..Len(t) : t[k] # NUL
    BY MarkCells
  <2>3. QED
    BY <2>1, <2>2, BeginsWithin
<1>2. Len(b) \in Nat
  BY TextLen
<1>3. BeginsAt(b, i, FIRST) => i + 3 <= Len(b)
  <2>1. 4 \in 1..Len(FIRST) /\ i + 4 - 1 = i + 3
    BY MarksAre
  <2>2. QED
    BY <1>1, <2>1
<1>4. BeginsAt(b, i, COMMON) => i + 3 <= Len(b)
  <2>1. 4 \in 1..Len(COMMON) /\ i + 4 - 1 = i + 3
    BY MarksAre
  <2>2. QED
    BY <1>1, <2>1
<1>5. BeginsAt(b, i, NORMAL) => i + 5 <= Len(b)
  <2>1. 6 \in 1..Len(NORMAL) /\ i + 6 - 1 = i + 5
    BY MarksAre
  <2>2. QED
    BY <1>1, <2>1
<1>6. BeginsAt(b, i, LAST) => i + 6 <= Len(b)
  <2>1. 7 \in 1..Len(LAST) /\ i + 7 - 1 = i + 6
    BY MarksAre
  <2>2. QED
    BY <1>1, <2>1
<1>7. QED
  BY <1>1, <1>3, <1>4, <1>5, <1>6

LEMMA HeaderAtIn ==
  ASSUME NEW b \in Text, NEW i \in Nat \ {0}
  PROVE  HeaderAt(b, i) # 0 => HeaderAt(b, i) \in (i + 4)..(Len(b) + 1)
<1>1. Len(b) \in Nat
  BY TextLen
<1>2. CASE BeginsAt(b, i, NORMAL)
  <2>1. i + 5 <= Len(b) /\ b[i] = CR
    <3>1. 1 \in 1..Len(NORMAL) /\ i + 1 - 1 = i /\ NORMAL[1] = CR
      BY MarksAre
    <3>2. QED
      BY <1>2, <3>1, MarkAt
  <2>2. ~BeginsAt(b, i, FIRST)
    <3>1. 1 \in 1..Len(FIRST) /\ i + 1 - 1 = i /\ FIRST[1] = "--b1"
      BY MarksAre
    <3>2. CR # "--b1"
      BY DEF CR
    <3>3. QED
      BY <2>1, <3>1, <3>2, MarkAt
  <2>3. HeaderAt(b, i) = i + Len(NORMAL)
    BY <1>2, <2>2 DEF HeaderAt
  <2>4. Len(NORMAL) = 6
    BY MarksAre
  <2>5. QED
    BY <1>1, <2>1, <2>3, <2>4
<1>3. CASE ~BeginsAt(b, i, NORMAL) /\ BeginsAt(b, i, FIRST)
  <2>1. HeaderAt(b, i) = i + 4 /\ i + 3 <= Len(b)
    BY <1>3, MarkAt, MarksAre DEF HeaderAt
  <2>2. QED
    BY <1>1, <2>1
<1>4. CASE ~BeginsAt(b, i, NORMAL) /\ ~BeginsAt(b, i, FIRST)
  BY <1>4 DEF HeaderAt
<1>5. QED
  BY <1>2, <1>3, <1>4

LEMMA PartLinesIn ==
  ASSUME NEW b \in Text, NEW i \in 1..(Len(b) + 1)
  PROVE  /\ IsLines(b, PartStops(b), i, PartLines(b, i))
         /\ PartLines(b, i) \in Seq(1..Len(b)) /\ Len(PartLines(b, i)) \in Nat
         /\ PartEnd(b, i) \in i..(Len(b) + 1) /\ PartEnd(b, i) = NextLine(b, i, PartLines(b, i)) /\ PartEnd(b, i) \in PartStops(b)
         /\ \A k \in 1..Len(PartLines(b, i)) :
              /\ PartLines(b, i)[k] \in i..Len(b)
              /\ FindFrom(b, PartLines(b, i)[k], CRLF) \in PartLines(b, i)[k]..Len(b)
              /\ FindFrom(b, PartLines(b, i)[k], CRLF) + 1 \in PartLines(b, i)[k]..Len(b)
              /\ FindFrom(b, PartLines(b, i)[k], CRLF) + 2 <= PartEnd(b, i)
              /\ PartLines(b, i)[k] < PartEnd(b, i)
<1> DEFINE Z == PartStops(b)
           l == PartLines(b, i)
<1>1. Len(b) \in Nat
  BY TextLen
<1>2. Z \in SUBSET Nat /\ Len(b) + 1 \in Z /\ \A j \in 1..Len(b) : j \notin Z => FindFrom(b, j, CRLF) # 0
  BY <1>1 DEF PartStops
<1>3. IsLines(b, Z, i, l)
  BY PartLinesAre
<1>4. PartEnd(b, i) = NextLine(b, i, l)
  BY DEF PartEnd, NextLine
<1> HIDE DEF Z, l
<1>5. /\ l \in Seq(1..Len(b)) /\ Len(l) \in Nat
      /\ NextLine(b, i, l) \in i..(Len(b) + 1)
      /\ \A k \in 1..Len(l) : /\ l[k] \in i..Len(b) /\ FindFrom(b, l[k], CRLF) \in l[k]..Len(b)
                              /\ FindFrom(b, l[k], CRLF) + 1 \in l[k]..Len(b)
                              /\ FindFrom(b, l[k], CRLF) + 2 <= NextLine(b, i, l)
  BY <1>1, <1>2, <1>3, LinesIn
<1>6. \A k \in 1..Len(l) : l[k] < NextLine(b, i, l)
  <2> SUFFICES ASSUME NEW k \in 1..Len(l)
               PROVE  l[k] < NextLine(b, i, l)
    OBVIOUS
  <2>1. l[k] \in Nat /\ FindFrom(b, l[k], CRLF) \in l[k]..Len(b) /\ FindFrom(b, l[k], CRLF) + 2 <= NextLine(b, i, l)
        /\ NextLine(b, i, l) \in Nat
    BY <1>1, <1>5
  <2>2. QED
    BY <1>1, <2>1
<1>7. NextLine(b, i, l) \in Z
  BY <1>3 DEF IsLines
<1>8. QED
  BY <1>3, <1>4, <1>5, <1>6, <1>7 DEF Z, l

LEMMA NextBoundaryIn ==
  ASSUME NEW b \in Text, NEW i \in Nat \ {0}
  PROVE  NextBoundary(b, i) # 0 => NextBoundary(b, i) \in i..Len(b)
<1> DEFINE whole == {j \in i..Len(b) : BeginsAt(b, j, COMMON)}
           crs   == {j \in i..Len(b) : b[j] = CR}
           last  == Max(crs)
           tail  == SubSeq(b, last + 2, Len(b))
<1>1. Len(b) \in Nat
  BY TextLen
<1>2. CASE whole # {}
  <2>1. whole \in SUBSET Nat
    BY <1>1
  <2>2. Min(whole) \in whole
    <3> HIDE DEF whole
    <3> QED
      BY <1>2, <2>1, MinIn
  <2>3. NextBoundary(b, i) = Min(whole)
    BY <1>2 DEF NextBoundary
  <2>4. QED
    BY <2>2, <2>3
<1>3. CASE whole = {} /\ crs = {}
  BY <1>3 DEF NextBoundary
<1>4. CASE whole = {} /\ crs # {}
  <2>1. crs \in SUBSET (0..Len(b))
    BY <1>1
  <2>2. last \in crs
    <3> HIDE DEF crs
    <3> QED
      BY <1>1, <1>4, <2>1, MaxIn
  <2>3. NextBoundary(b, i) \in {0, last}
    <3>1. NextBoundary(b, i) = IF last = Len(b) THEN last
                   ELSE IF last = Len(b) - 1 /\ b[Len(b)] = LF THEN 0
                   ELSE IF IsPrefix(tail, Boundary) THEN last ELSE 0
      BY <1>4 DEF NextBoundary
    <3> HIDE DEF last, tail
    <3>2. QED
      BY <3>1
  <2>4. QED
    BY <2>2, <2>3
<1>5. QED
  BY <1>2, <1>3, <1>4

UploadType == [at : Nat, filename : BOOLEAN, ctype : BOOLEAN, fields : Seq(Opt(Text)), opened : BOOLEAN, file : Text,
               opens : Nat, closes : Nat, done : Nat, state : {"more", "wait", "close", "fault"}]

\* What setting some fields of an upload leaves alone.
SetState(u, x) == [u EXCEPT !.state = x]
SetAtState(u, x, y) == [u EXCEPT !.at = x, !.state = y]
SetDoneState(u, x, y) == [u EXCEPT !.done = x, !.state = y]
SetFileAt(u, x, y) == [u EXCEPT !.file = x, !.at = y]
SetFieldsAt(u, x, y) == [u EXCEPT !.fields = x, !.at = y]
SetOpens(u, x, y) == [u EXCEPT !.opened = x, !.opens = y]
SetCloses(u, x, y) == [u EXCEPT !.opened = x, !.closes = y]
SetPart(u, x, y, z) == [u EXCEPT !.filename = x, !.ctype = y, !.at = z]
SetHeader(u, x, y, z, w) == [u EXCEPT !.filename = x, !.ctype = y, !.at = z, !.fields = w]
LEMMA SetStateIs ==
  ASSUME NEW u \in UploadType, NEW x \in {"more", "wait", "close", "fault"}
  PROVE  LET v == SetState(u, x)
         IN  /\ v \in UploadType /\ v.at = u.at /\ v.filename = u.filename /\ v.ctype = u.ctype /\ v.fields = u.fields
             /\ v.opened = u.opened /\ v.file = u.file /\ v.opens = u.opens /\ v.closes = u.closes /\ v.done = u.done /\ v.state = x
BY DEF UploadType, SetState

LEMMA SetAtStateIs ==
  ASSUME NEW u \in UploadType, NEW x \in Nat, NEW y \in {"more", "wait", "close", "fault"}
  PROVE  LET v == SetAtState(u, x, y)
         IN  /\ v \in UploadType /\ v.at = x /\ v.filename = u.filename /\ v.ctype = u.ctype /\ v.fields = u.fields
             /\ v.opened = u.opened /\ v.file = u.file /\ v.opens = u.opens /\ v.closes = u.closes /\ v.done = u.done /\ v.state = y
<1> DEFINE u1 == [u EXCEPT !.at = x]
           u2 == [u1 EXCEPT !.state = y]
<1>1. SetAtState(u, x, y) = u2
  BY DEF UploadType, SetAtState
<1>2. u1 \in UploadType /\ u1.at = x /\ u1.filename = u.filename /\ u1.ctype = u.ctype /\ u1.fields = u.fields
      /\ u1.opened = u.opened /\ u1.file = u.file /\ u1.opens = u.opens /\ u1.closes = u.closes /\ u1.done = u.done
      /\ u1.state = u.state
  BY DEF UploadType
<1> HIDE DEF u1
<1>3. u2 \in UploadType /\ u2.at = x /\ u2.filename = u.filename /\ u2.ctype = u.ctype /\ u2.fields = u.fields
      /\ u2.opened = u.opened /\ u2.file = u.file /\ u2.opens = u.opens /\ u2.closes = u.closes /\ u2.done = u.done
      /\ u2.state = y
  BY <1>2 DEF UploadType
<1> HIDE DEF u2
<1>4. QED
  BY <1>1, <1>3

LEMMA SetDoneStateIs ==
  ASSUME NEW u \in UploadType, NEW x \in Nat, NEW y \in {"more", "wait", "close", "fault"}
  PROVE  LET v == SetDoneState(u, x, y)
         IN  /\ v \in UploadType /\ v.at = u.at /\ v.filename = u.filename /\ v.ctype = u.ctype /\ v.fields = u.fields
             /\ v.opened = u.opened /\ v.file = u.file /\ v.opens = u.opens /\ v.closes = u.closes /\ v.done = x /\ v.state = y
<1> DEFINE u1 == [u EXCEPT !.done = x]
           u2 == [u1 EXCEPT !.state = y]
<1>1. SetDoneState(u, x, y) = u2
  BY DEF UploadType, SetDoneState
<1>2. u1 \in UploadType /\ u1.at = u.at /\ u1.filename = u.filename /\ u1.ctype = u.ctype /\ u1.fields = u.fields
      /\ u1.opened = u.opened /\ u1.file = u.file /\ u1.opens = u.opens /\ u1.closes = u.closes /\ u1.done = x
      /\ u1.state = u.state
  BY DEF UploadType
<1> HIDE DEF u1
<1>3. u2 \in UploadType /\ u2.at = u.at /\ u2.filename = u.filename /\ u2.ctype = u.ctype /\ u2.fields = u.fields
      /\ u2.opened = u.opened /\ u2.file = u.file /\ u2.opens = u.opens /\ u2.closes = u.closes /\ u2.done = x
      /\ u2.state = y
  BY <1>2 DEF UploadType
<1> HIDE DEF u2
<1>4. QED
  BY <1>1, <1>3

LEMMA SetFileAtIs ==
  ASSUME NEW u \in UploadType, NEW x \in Text, NEW y \in Nat
  PROVE  LET v == SetFileAt(u, x, y)
         IN  /\ v \in UploadType /\ v.at = y /\ v.filename = u.filename /\ v.ctype = u.ctype /\ v.fields = u.fields
             /\ v.opened = u.opened /\ v.file = x /\ v.opens = u.opens /\ v.closes = u.closes /\ v.done = u.done /\ v.state = u.state
<1> DEFINE u1 == [u EXCEPT !.file = x]
           u2 == [u1 EXCEPT !.at = y]
<1>1. SetFileAt(u, x, y) = u2
  BY DEF UploadType, SetFileAt
<1>2. u1 \in UploadType /\ u1.at = u.at /\ u1.filename = u.filename /\ u1.ctype = u.ctype /\ u1.fields = u.fields
      /\ u1.opened = u.opened /\ u1.file = x /\ u1.opens = u.opens /\ u1.closes = u.closes /\ u1.done = u.done
      /\ u1.state = u.state
  BY DEF UploadType
<1> HIDE DEF u1
<1>3. u2 \in UploadType /\ u2.at = y /\ u2.filename = u.filename /\ u2.ctype = u.ctype /\ u2.fields = u.fields
      /\ u2.opened = u.opened /\ u2.file = x /\ u2.opens = u.opens /\ u2.closes = u.closes /\ u2.done = u.done
      /\ u2.state = u.state
  BY <1>2 DEF UploadType
<1> HIDE DEF u2
<1>4. QED
  BY <1>1, <1>3

LEMMA SetFieldsAtIs ==
  ASSUME NEW u \in UploadType, NEW x \in Seq(Opt(Text)), NEW y \in Nat
  PROVE  LET v == SetFieldsAt(u, x, y)
         IN  /\ v \in UploadType /\ v.at = y /\ v.filename = u.filename /\ v.ctype = u.ctype /\ v.fields = x
             /\ v.opened = u.opened /\ v.file = u.file /\ v.opens = u.opens /\ v.closes = u.closes /\ v.done = u.done /\ v.state = u.state
<1> DEFINE u1 == [u EXCEPT !.fields = x]
           u2 == [u1 EXCEPT !.at = y]
<1>1. SetFieldsAt(u, x, y) = u2
  BY DEF UploadType, SetFieldsAt
<1>2. u1 \in UploadType /\ u1.at = u.at /\ u1.filename = u.filename /\ u1.ctype = u.ctype /\ u1.fields = x
      /\ u1.opened = u.opened /\ u1.file = u.file /\ u1.opens = u.opens /\ u1.closes = u.closes /\ u1.done = u.done
      /\ u1.state = u.state
  BY DEF UploadType
<1> HIDE DEF u1
<1>3. u2 \in UploadType /\ u2.at = y /\ u2.filename = u.filename /\ u2.ctype = u.ctype /\ u2.fields = x
      /\ u2.opened = u.opened /\ u2.file = u.file /\ u2.opens = u.opens /\ u2.closes = u.closes /\ u2.done = u.done
      /\ u2.state = u.state
  BY <1>2 DEF UploadType
<1> HIDE DEF u2
<1>4. QED
  BY <1>1, <1>3

LEMMA SetOpensIs ==
  ASSUME NEW u \in UploadType, NEW x \in BOOLEAN, NEW y \in Nat
  PROVE  LET v == SetOpens(u, x, y)
         IN  /\ v \in UploadType /\ v.at = u.at /\ v.filename = u.filename /\ v.ctype = u.ctype /\ v.fields = u.fields
             /\ v.opened = x /\ v.file = u.file /\ v.opens = y /\ v.closes = u.closes /\ v.done = u.done /\ v.state = u.state
<1> DEFINE u1 == [u EXCEPT !.opened = x]
           u2 == [u1 EXCEPT !.opens = y]
<1>1. SetOpens(u, x, y) = u2
  BY DEF UploadType, SetOpens
<1>2. u1 \in UploadType /\ u1.at = u.at /\ u1.filename = u.filename /\ u1.ctype = u.ctype /\ u1.fields = u.fields
      /\ u1.opened = x /\ u1.file = u.file /\ u1.opens = u.opens /\ u1.closes = u.closes /\ u1.done = u.done
      /\ u1.state = u.state
  BY DEF UploadType
<1> HIDE DEF u1
<1>3. u2 \in UploadType /\ u2.at = u.at /\ u2.filename = u.filename /\ u2.ctype = u.ctype /\ u2.fields = u.fields
      /\ u2.opened = x /\ u2.file = u.file /\ u2.opens = y /\ u2.closes = u.closes /\ u2.done = u.done
      /\ u2.state = u.state
  BY <1>2 DEF UploadType
<1> HIDE DEF u2
<1>4. QED
  BY <1>1, <1>3

LEMMA SetClosesIs ==
  ASSUME NEW u \in UploadType, NEW x \in BOOLEAN, NEW y \in Nat
  PROVE  LET v == SetCloses(u, x, y)
         IN  /\ v \in UploadType /\ v.at = u.at /\ v.filename = u.filename /\ v.ctype = u.ctype /\ v.fields = u.fields
             /\ v.opened = x /\ v.file = u.file /\ v.opens = u.opens /\ v.closes = y /\ v.done = u.done /\ v.state = u.state
<1> DEFINE u1 == [u EXCEPT !.opened = x]
           u2 == [u1 EXCEPT !.closes = y]
<1>1. SetCloses(u, x, y) = u2
  BY DEF UploadType, SetCloses
<1>2. u1 \in UploadType /\ u1.at = u.at /\ u1.filename = u.filename /\ u1.ctype = u.ctype /\ u1.fields = u.fields
      /\ u1.opened = x /\ u1.file = u.file /\ u1.opens = u.opens /\ u1.closes = u.closes /\ u1.done = u.done
      /\ u1.state = u.state
  BY DEF UploadType
<1> HIDE DEF u1
<1>3. u2 \in UploadType /\ u2.at = u.at /\ u2.filename = u.filename /\ u2.ctype = u.ctype /\ u2.fields = u.fields
      /\ u2.opened = x /\ u2.file = u.file /\ u2.opens = u.opens /\ u2.closes = y /\ u2.done = u.done
      /\ u2.state = u.state
  BY <1>2 DEF UploadType
<1> HIDE DEF u2
<1>4. QED
  BY <1>1, <1>3

LEMMA SetPartIs ==
  ASSUME NEW u \in UploadType, NEW x \in BOOLEAN, NEW y \in BOOLEAN, NEW z \in Nat
  PROVE  LET v == SetPart(u, x, y, z)
         IN  /\ v \in UploadType /\ v.at = z /\ v.filename = x /\ v.ctype = y /\ v.fields = u.fields
             /\ v.opened = u.opened /\ v.file = u.file /\ v.opens = u.opens /\ v.closes = u.closes /\ v.done = u.done /\ v.state = u.state
<1> DEFINE u1 == [u EXCEPT !.filename = x]
           u2 == [u1 EXCEPT !.ctype = y]
           u3 == [u2 EXCEPT !.at = z]
<1>1. SetPart(u, x, y, z) = u3
  BY DEF UploadType, SetPart
<1>2. u1 \in UploadType /\ u1.at = u.at /\ u1.filename = x /\ u1.ctype = u.ctype /\ u1.fields = u.fields
      /\ u1.opened = u.opened /\ u1.file = u.file /\ u1.opens = u.opens /\ u1.closes = u.closes /\ u1.done = u.done
      /\ u1.state = u.state
  BY DEF UploadType
<1> HIDE DEF u1
<1>3. u2 \in UploadType /\ u2.at = u.at /\ u2.filename = x /\ u2.ctype = y /\ u2.fields = u.fields
      /\ u2.opened = u.opened /\ u2.file = u.file /\ u2.opens = u.opens /\ u2.closes = u.closes /\ u2.done = u.done
      /\ u2.state = u.state
  BY <1>2 DEF UploadType
<1> HIDE DEF u2
<1>4. u3 \in UploadType /\ u3.at = z /\ u3.filename = x /\ u3.ctype = y /\ u3.fields = u.fields
      /\ u3.opened = u.opened /\ u3.file = u.file /\ u3.opens = u.opens /\ u3.closes = u.closes /\ u3.done = u.done
      /\ u3.state = u.state
  BY <1>3 DEF UploadType
<1> HIDE DEF u3
<1>5. QED
  BY <1>1, <1>4

LEMMA SetHeaderIs ==
  ASSUME NEW u \in UploadType, NEW x \in BOOLEAN, NEW y \in BOOLEAN, NEW z \in Nat, NEW w \in Seq(Opt(Text))
  PROVE  LET v == SetHeader(u, x, y, z, w)
         IN  /\ v \in UploadType /\ v.at = z /\ v.filename = x /\ v.ctype = y /\ v.fields = w
             /\ v.opened = u.opened /\ v.file = u.file /\ v.opens = u.opens /\ v.closes = u.closes /\ v.done = u.done /\ v.state = u.state
<1> DEFINE u1 == [u EXCEPT !.filename = x]
           u2 == [u1 EXCEPT !.ctype = y]
           u3 == [u2 EXCEPT !.at = z]
           u4 == [u3 EXCEPT !.fields = w]
<1>1. SetHeader(u, x, y, z, w) = u4
  BY DEF UploadType, SetHeader
<1>2. u1 \in UploadType /\ u1.at = u.at /\ u1.filename = x /\ u1.ctype = u.ctype /\ u1.fields = u.fields
      /\ u1.opened = u.opened /\ u1.file = u.file /\ u1.opens = u.opens /\ u1.closes = u.closes /\ u1.done = u.done
      /\ u1.state = u.state
  BY DEF UploadType
<1> HIDE DEF u1
<1>3. u2 \in UploadType /\ u2.at = u.at /\ u2.filename = x /\ u2.ctype = y /\ u2.fields = u.fields
      /\ u2.opened = u.opened /\ u2.file = u.file /\ u2.opens = u.opens /\ u2.closes = u.closes /\ u2.done = u.done
      /\ u2.state = u.state
  BY <1>2 DEF UploadType
<1> HIDE DEF u2
<1>4. u3 \in UploadType /\ u3.at = z /\ u3.filename = x /\ u3.ctype = y /\ u3.fields = u.fields
      /\ u3.opened = u.opened /\ u3.file = u.file /\ u3.opens = u.opens /\ u3.closes = u.closes /\ u3.done = u.done
      /\ u3.state = u.state
  BY <1>3 DEF UploadType
<1> HIDE DEF u3
<1>5. u4 \in UploadType /\ u4.at = z /\ u4.filename = x /\ u4.ctype = y /\ u4.fields = w /\ u4.opened = u.opened
      /\ u4.file = u.file /\ u4.opens = u.opens /\ u4.closes = u.closes /\ u4.done = u.done /\ u4.state = u.state
  BY <1>4 DEF UploadType
<1> HIDE DEF u4
<1>6. QED
  BY <1>1, <1>5

\* Opens and closes pair up, and the place is in the buffer.
UploadOK(u, b) ==
  /\ u \in UploadType /\ u.at \in 1..(Len(b) + 1)
  /\ u.opens = u.closes + (IF u.opened THEN 1 ELSE 0)

\* From u to v a file was opened for a "file" line that was passed, or none.
Passed(u, v, b) ==
  /\ v.at >= u.at
  /\ v.opens = u.opens \/ (v.opens = u.opens + 1 /\ \E j \in u.at..(v.at - 1) : b[j] = "file")

LEMMA SectionType ==
  ASSUME NEW b \in Text, NEW u, UploadOK(u, b), NEW j \in u.at..(Len(b) + 1)
  PROVE  /\ UploadOK(Section(u, b, j), b) /\ Section(u, b, j).at = j
         /\ Section(u, b, j).state \in {u.state, "fault"} /\ Section(u, b, j).done = u.done /\ Section(u, b, j).opens = u.opens
         /\ Section(u, b, j).opened = u.opened /\ Section(u, b, j).closes = u.closes
         /\ Section(u, b, j).filename = u.filename /\ Section(u, b, j).ctype = u.ctype
         /\ Section(u, b, j).file = IF u.filename /\ u.ctype THEN u.file \o SubSeq(b, u.at, j - 1) ELSE u.file
<1> DEFINE data == SubSeq(b, u.at, j - 1)
           ends == {k \in 1..Len(data) - 1 : SubSeq(data, k, k + 1) = CRLF}
           set  == IF ends = {} \/ u.fields = <<>> THEN u.fields
                   ELSE [u.fields EXCEPT ![Len(u.fields)] = SubSeq(data, 1, Min(ends) - 1)]
           keep == [u EXCEPT !.at = j]
           lose == [u EXCEPT !.at = j, !.state = "fault"]
           v    == Section(u, b, j)
<1>1. u \in UploadType /\ u.at \in Nat \ {0} /\ Len(b) \in Nat /\ j \in Nat \ {0}
  BY TextLen DEF UploadOK
<1>2. data \in Text
  <2>1. j - 1 \in Nat /\ j - 1 <= Len(b)
    BY <1>1
  <2>2. QED
    BY <1>1, <2>1, SubText
<1>3. v = IF u.filename /\ u.ctype /\ data # <<>> THEN [u EXCEPT !.file = @ \o data, !.at = j]
          ELSE IF ends = {} THEN keep
          ELSE IF u.fields = <<>> THEN lose
          ELSE [u EXCEPT !.fields = set, !.at = j]
  BY DEF Section
<1> HIDE DEF data
<1>4. set \in Seq(Opt(Text))
  <2>1. CASE ends = {} \/ u.fields = <<>>
    BY <1>1, <2>1 DEF UploadType
  <2>2. CASE ends # {} /\ u.fields # <<>>
    <3>1. Len(data) \in Nat
      BY <1>2, TextLen
    <3>2. ends \in SUBSET Nat
      BY <3>1
    <3>3. Min(ends) \in ends
      <4> HIDE DEF ends
      <4> QED
        BY <2>2, <3>2, MinIn
    <3>4. Min(ends) - 1 \in Nat /\ Min(ends) - 1 <= Len(data)
      BY <3>1, <3>3
    <3> DEFINE x == SubSeq(data, 1, Min(ends) - 1)
               f == u.fields
    <3>5. x \in Opt(Text)
      <4> HIDE DEF ends
      <4>1. x \in Text
        BY <1>2, <3>4, SubText
      <4>2. QED
        BY <4>1 DEF Opt
    <3>6. set = [f EXCEPT ![Len(f)] = x]
      BY <2>2
    <3>7. f \in Seq(Opt(Text))
      BY <1>1 DEF UploadType
    <3> HIDE DEF x, f, ends, set
    <3> DEFINE n == Len(f)
    <3>8. n \in Nat /\ f \in [1..n -> Opt(Text)]
      BY <3>7
    <3>9. set \in [1..n -> Opt(Text)]
      <4>1. set = [f EXCEPT ![n] = x]
        BY <3>6
      <4> HIDE DEF n
      <4>2. QED
        BY <3>5, <3>8, <4>1
    <3>10. QED
      <4> HIDE DEF n
      <4> QED
        BY <3>8, <3>9
  <2>3. QED
    BY <2>1, <2>2
<1>a. \/ u.filename /\ u.ctype /\ data # <<>> /\ v = [u EXCEPT !.file = @ \o data, !.at = j]
      \/ ~(u.filename /\ u.ctype /\ data # <<>>) /\ v \in {keep, lose, [u EXCEPT !.fields = set, !.at = j]}
  <2> HIDE DEF set, keep, lose, v, ends
  <2> QED
    BY <1>3
<1> HIDE DEF set, v
<1>5. u.file \o data \in Text /\ u.file \in Text
  <2>1. u.file \in Text
    BY <1>1 DEF UploadType
  <2>2. QED
    BY <1>2, <2>1, CatText
<1> DEFINE joined == u.file \o data
<1>6. data = <<>> => joined = u.file
  BY <1>2, <1>5 DEF Text
<1> HIDE DEF joined
<1>7. /\ v \in UploadType /\ v.at = j /\ v.opens = u.opens /\ v.closes = u.closes /\ v.opened = u.opened
      /\ v.state \in {u.state, "fault"} /\ v.done = u.done /\ v.filename = u.filename /\ v.ctype = u.ctype
      /\ v.file = IF u.filename /\ u.ctype THEN joined ELSE u.file
  <2>1. CASE u.filename /\ u.ctype /\ data # <<>>
    <3>1. v = SetFileAt(u, joined, j)
      BY <1>a, <2>1 DEF joined, SetFileAt
    <3>2. joined \in Text /\ j \in Nat
      BY <1>1, <1>5 DEF joined
    <3> DEFINE w == SetFileAt(u, joined, j)
    <3>3. w \in UploadType /\ w.at = j /\ w.filename = u.filename /\ w.ctype = u.ctype /\ w.fields = u.fields
          /\ w.opened = u.opened /\ w.file = joined /\ w.opens = u.opens /\ w.closes = u.closes /\ w.done = u.done /\ w.state = u.state
      BY <1>1, <3>2, SetFileAtIs
    <3> HIDE DEF w
    <3>4. v = w
      BY <3>1 DEF w
    <3>5. QED
      BY <2>1, <3>3, <3>4
  <2>2. CASE ~(u.filename /\ u.ctype /\ data # <<>>)
    <3>1. v \in {keep, lose, SetFieldsAt(u, set, j)}
      BY <1>a, <2>2 DEF SetFieldsAt
    <3>2. v.file = u.file /\ v \in UploadType /\ v.at = j /\ v.opens = u.opens /\ v.closes = u.closes
          /\ v.opened = u.opened /\ v.state \in {u.state, "fault"} /\ v.done = u.done /\ v.filename = u.filename /\ v.ctype = u.ctype
      <4> DEFINE w == SetFieldsAt(u, set, j)
      <4>a. keep \in UploadType /\ keep.at = j /\ keep.filename = u.filename /\ keep.ctype = u.ctype /\ keep.state = u.state
            /\ keep.opened = u.opened /\ keep.file = u.file /\ keep.opens = u.opens /\ keep.closes = u.closes /\ keep.done = u.done
        BY <1>1 DEF UploadType
      <4>b. lose \in UploadType /\ lose.at = j /\ lose.filename = u.filename /\ lose.ctype = u.ctype /\ lose.state = "fault"
            /\ lose.opened = u.opened /\ lose.file = u.file /\ lose.opens = u.opens /\ lose.closes = u.closes /\ lose.done = u.done
        <5> DEFINE y == SetAtState(u, j, "fault")
        <5>1. lose = y
          BY DEF SetAtState
        <5>2. y \in UploadType /\ y.at = j /\ y.filename = u.filename /\ y.ctype = u.ctype /\ y.fields = u.fields
              /\ y.opened = u.opened /\ y.file = u.file /\ y.opens = u.opens /\ y.closes = u.closes /\ y.done = u.done /\ y.state = "fault"
          BY <1>1, SetAtStateIs
        <5> HIDE DEF lose, y
        <5>3. QED
          BY <5>1, <5>2
      <4>1. w \in UploadType /\ w.at = j /\ w.filename = u.filename /\ w.ctype = u.ctype /\ w.fields = set
            /\ w.opened = u.opened /\ w.file = u.file /\ w.opens = u.opens /\ w.closes = u.closes /\ w.done = u.done /\ w.state = u.state
        BY <1>1, <1>4, SetFieldsAtIs
      <4>2. v \in {keep, lose, w}
        BY <3>1
      <4> HIDE DEF w, keep, lose
      <4>3. QED
        BY <4>1, <4>2, <4>a, <4>b
    <3>3. u.file = IF u.filename /\ u.ctype THEN joined ELSE u.file
      BY <1>6, <2>2 DEF joined
    <3>4. QED
      BY <3>2, <3>3
  <2>3. QED
    BY <2>1, <2>2
<1>8. UploadOK(v, b)
  <2>1. v.at \in 1..(Len(b) + 1)
    BY <1>1, <1>7
  <2>2. v.opens = v.closes + (IF v.opened THEN 1 ELSE 0)
    BY <1>7 DEF UploadOK
  <2>3. QED
    BY <1>7, <2>1, <2>2 DEF UploadOK
<1>9. QED
  BY <1>7, <1>8 DEF v, joined, data

LEMMA DataType ==
  ASSUME NEW b \in Text, NEW u, UploadOK(u, b)
  PROVE  /\ UploadOK(Data(u, b), b) /\ Data(u, b).at >= u.at
         /\ Data(u, b).state \in {u.state, "fault"} /\ Data(u, b).done = u.done /\ Data(u, b).opens = u.opens
         /\ Data(u, b).opened = u.opened /\ Data(u, b).closes = u.closes
         /\ Data(u, b).filename = u.filename /\ Data(u, b).ctype = u.ctype
         /\ Data(u, b).at = IF NextBoundary(b, u.at) = 0 THEN Len(b) + 1 ELSE NextBoundary(b, u.at)
         /\ Data(u, b).file = IF u.filename /\ u.ctype THEN u.file \o SubSeq(b, u.at, Data(u, b).at - 1) ELSE u.file
<1> DEFINE j == IF NextBoundary(b, u.at) = 0 THEN Len(b) + 1 ELSE NextBoundary(b, u.at)
<1>1. u.at \in Nat \ {0} /\ Len(b) \in Nat /\ u.at <= Len(b) + 1
  BY TextLen DEF UploadOK
<1>2. j \in u.at..(Len(b) + 1)
  <2>1. NextBoundary(b, u.at) # 0 => NextBoundary(b, u.at) \in u.at..Len(b)
    BY <1>1, NextBoundaryIn
  <2>2. QED
    BY <1>1, <2>1
<1>3. Data(u, b) = Section(u, b, j)
  BY DEF Data
<1>4. j >= u.at
  BY <1>1, <1>2
<1>5. j = IF NextBoundary(b, u.at) = 0 THEN Len(b) + 1 ELSE NextBoundary(b, u.at)
  OBVIOUS
<1> HIDE DEF j
<1>6. QED
  BY <1>2, <1>3, <1>4, <1>5, SectionType

LEMMA OpenOrCloseType ==
  ASSUME NEW b \in Text, NEW u, UploadOK(u, b)
  PROVE  /\ UploadOK(OpenOrClose(u), b) /\ OpenOrClose(u).at = u.at /\ OpenOrClose(u).state = u.state
         /\ OpenOrClose(u).done = u.done /\ OpenOrClose(u).filename = u.filename /\ OpenOrClose(u).ctype = u.ctype
         /\ OpenOrClose(u).file = u.file /\ OpenOrClose(u).opened = (u.filename /\ u.ctype)
         /\ OpenOrClose(u).opens = u.opens + (IF u.filename /\ u.ctype /\ ~u.opened THEN 1 ELSE 0)
<1> DEFINE v == OpenOrClose(u)
<1>1. u \in UploadType /\ u.opens \in Nat /\ u.closes \in Nat /\ u.opened \in BOOLEAN
      /\ u.at \in 1..(Len(b) + 1) /\ u.opens = u.closes + (IF u.opened THEN 1 ELSE 0)
  BY DEF UploadOK, UploadType
<1>2. CASE u.opened = (u.filename /\ u.ctype)
  <2>1. v = u
    BY <1>1, <1>2 DEF OpenOrClose
  <2>2. u.opens = u.opens + (IF u.filename /\ u.ctype /\ ~u.opened THEN 1 ELSE 0)
    <3>1. ~(u.filename /\ u.ctype /\ ~u.opened)
      BY <1>2
    <3>2. QED
      BY <1>1, <3>1
  <2> HIDE DEF v
  <2>3. QED
    BY <1>2, <2>1, <2>2 DEF v
<1>3. CASE u.filename /\ u.ctype /\ ~u.opened
  <2> DEFINE n == u.opens + 1
  <2>1. v = SetOpens(u, TRUE, n)
    BY <1>3 DEF OpenOrClose, SetOpens
  <2>2. n \in Nat
    BY <1>1
  <2> HIDE DEF v, n
  <2>3. v \in UploadType /\ v.at = u.at /\ v.state = u.state /\ v.done = u.done /\ v.filename = u.filename /\ v.ctype = u.ctype
        /\ v.file = u.file /\ v.opened = TRUE /\ v.opens = n /\ v.closes = u.closes
    BY <1>1, <2>1, <2>2, SetOpensIs, ZenonT(30)
  <2>4. UploadOK(v, b)
    BY <1>1, <1>3, <2>3 DEF UploadOK, n
  <2>5. v.opened = (u.filename /\ u.ctype)
    BY <1>3, <2>3
  <2>6. v.opens = u.opens + (IF u.filename /\ u.ctype /\ ~u.opened THEN 1 ELSE 0)
    BY <1>3, <2>3 DEF n
  <2>7. QED
    BY <2>3, <2>4, <2>5, <2>6 DEF v
<1>4. CASE ~(u.filename /\ u.ctype) /\ u.opened
  <2> DEFINE n == u.closes + 1
  <2>1. v = SetCloses(u, FALSE, n)
    BY <1>4 DEF OpenOrClose, SetCloses
  <2>2. n \in Nat
    BY <1>1
  <2> HIDE DEF v, n
  <2>3. v \in UploadType /\ v.at = u.at /\ v.state = u.state /\ v.done = u.done /\ v.filename = u.filename /\ v.ctype = u.ctype
        /\ v.file = u.file /\ v.opened = FALSE /\ v.opens = u.opens /\ v.closes = n
    BY <1>1, <2>1, <2>2, SetClosesIs, ZenonT(30)
  <2>4. UploadOK(v, b)
    BY <1>1, <1>4, <2>3 DEF UploadOK, n
  <2>5. v.opened = (u.filename /\ u.ctype)
    BY <1>4, <2>3
  <2>6. v.opens = u.opens + (IF u.filename /\ u.ctype /\ ~u.opened THEN 1 ELSE 0)
    BY <1>1, <1>4, <2>3
  <2>7. QED
    BY <2>3, <2>4, <2>5, <2>6 DEF v
<1>5. QED
  BY <1>1, <1>2, <1>3, <1>4

\* A header that makes the next data a file's has a line with a file name.
LEMMA WithHeaderType ==
  ASSUME NEW b \in Text, NEW u, UploadOK(u, b), NEW i \in u.at..(Len(b) + 1)
  PROVE  /\ UploadOK(WithHeader(u, b, i), b) /\ WithHeader(u, b, i).at >= u.at
         /\ WithHeader(u, b, i).state \in {u.state, "fault"} /\ WithHeader(u, b, i).done = u.done
         /\ WithHeader(u, b, i).opens = u.opens /\ WithHeader(u, b, i).opened = u.opened /\ WithHeader(u, b, i).closes = u.closes
         /\ WithHeader(u, b, i).file = u.file
         /\ WithHeader(u, b, i).state # "fault" /\ WithHeader(u, b, i).filename /\ WithHeader(u, b, i).ctype =>
              \E j \in u.at..(WithHeader(u, b, i).at - 1) : b[j] = "file"
<1> DEFINE end == PartEnd(b, i)
           l == PartLines(b, i)
           in_file == u.filename /\ u.ctype
           v == WithHeader(u, b, i)
<1>1. u \in UploadType /\ u.at \in Nat \ {0} /\ Len(b) \in Nat /\ i \in 1..(Len(b) + 1)
  BY TextLen DEF UploadOK
<1>2. end \in i..(Len(b) + 1) /\ l \in Seq(1..Len(b)) /\ \A k \in 1..Len(l) : l[k] \in i..Len(b) /\ l[k] < end
  BY <1>1, PartLinesIn
<1> HIDE DEF end, l
<1>3. CASE BeginsAt(b, end, CRLF)
  <2> DEFINE f == PartHas(b, i, {"file"})
             c == PartHas(b, i, {"type"})
             g == IF PartHas(b, i, {"field", "file"}) THEN Append(u.fields, Nil) ELSE u.fields
  <2>1. v = SetHeader(u, f, c, end + 2, g)
    BY <1>3 DEF WithHeader, end, SetHeader
  <2>2. f \in BOOLEAN /\ c \in BOOLEAN
    BY DEF PartHas
  <2>3. end + 2 \in Nat /\ end + 2 <= Len(b) + 1 /\ end + 2 > u.at
    <3>1. end + 1 <= Len(b) /\ end \in Nat \ {0}
      BY <1>1, <1>2, <1>3, CRLFAt
    <3>2. QED
      BY <1>1, <1>2, <3>1
  <2>4. f => \E j \in u.at..(end + 2 - 1) : b[j] = "file"
    <3> SUFFICES ASSUME f
                 PROVE  \E j \in u.at..(end + 2 - 1) : b[j] = "file"
      OBVIOUS
    <3>1. PICK k \in DOMAIN l : b[l[k]] \in {"file"}
      BY DEF PartHas, l
    <3>2. k \in 1..Len(l)
      BY <1>2, <3>1
    <3>3. l[k] \in i..Len(b) /\ l[k] < end
      BY <1>2, <3>2
    <3>4. l[k] \in u.at..(end + 2 - 1)
      BY <1>1, <1>2, <3>3
    <3>5. QED
      BY <3>1, <3>4
  <2>5. g \in Seq(Opt(Text))
    <3>1. u.fields \in Seq(Opt(Text)) /\ Nil \in Opt(Text)
      BY <1>1 DEF UploadType, Opt
    <3>2. QED
      BY <3>1
  <2> HIDE DEF f, c, g, v
  <2>6. v \in UploadType /\ v.at = end + 2 /\ v.state = u.state /\ v.done = u.done /\ v.opens = u.opens /\ v.opened = u.opened
        /\ v.closes = u.closes /\ v.file = u.file /\ v.filename = f
    <3> DEFINE e == end + 2
               w == SetHeader(u, f, c, e, g)
    <3>0. e \in Nat
      BY <2>3
    <3> HIDE DEF e, in_file
    <3>1. w \in UploadType /\ w.at = e /\ w.filename = f /\ w.ctype = c /\ w.fields = g
          /\ w.opened = u.opened /\ w.file = u.file /\ w.opens = u.opens /\ w.closes = u.closes /\ w.done = u.done /\ w.state = u.state
      BY <1>1, <2>2, <2>5, <3>0, SetHeaderIs
    <3> HIDE DEF w
    <3>2. v = w
      BY <2>1 DEF w, e
    <3>3. QED
      BY <3>1, <3>2 DEF e
  <2>7. UploadOK(v, b)
    BY <1>1, <2>3, <2>6 DEF UploadOK
  <2>8. QED
    <3>1. v.state # "fault" /\ v.filename /\ v.ctype => \E j \in u.at..(v.at - 1) : b[j] = "file"
      <4>0. v.at - 1 = end + 2 - 1
        <5>1. v.at = end + 2
          BY <2>6
        <5>2. end \in Nat
          BY <1>1, <1>2
        <5>3. QED
          BY <5>1, <5>2
      <4> SUFFICES ASSUME v.filename
                   PROVE  \E j \in u.at..(v.at - 1) : b[j] = "file"
        OBVIOUS
      <4>1. v.filename = f
        BY <2>6
      <4>2. f
        BY <4>1
      <4>3. PICK j \in u.at..(end + 2 - 1) : b[j] = "file"
        BY <2>4, <4>2
      <4>4. QED
        BY <4>0, <4>3
    <3>2. v.at >= u.at
      BY <1>1, <2>3, <2>6
    <3>3. QED
      BY <2>6, <2>7, <3>1, <3>2 DEF v
<1>4. CASE ~BeginsAt(b, end, CRLF) /\ end > Len(b)
  <2> DEFINE f == u.filename /\ ~in_file
             c == u.ctype /\ ~in_file
  <2>1. v = SetPart(u, f, c, end)
    BY <1>4 DEF WithHeader, end, SetPart
  <2>2. f \in BOOLEAN /\ c \in BOOLEAN /\ ~(f /\ c)
    OBVIOUS
  <2>3. end \in Nat /\ end <= Len(b) + 1 /\ end >= u.at
    BY <1>1, <1>2
  <2> HIDE DEF f, c, v
  <2>4. v \in UploadType /\ v.at = end /\ v.state = u.state /\ v.done = u.done /\ v.opens = u.opens /\ v.opened = u.opened
        /\ v.closes = u.closes /\ v.file = u.file /\ v.filename = f /\ v.ctype = c
    <3> DEFINE w == SetPart(u, f, c, end)
    <3>1. w \in UploadType /\ w.at = end /\ w.filename = f /\ w.ctype = c /\ w.fields = u.fields
          /\ w.opened = u.opened /\ w.file = u.file /\ w.opens = u.opens /\ w.closes = u.closes /\ w.done = u.done /\ w.state = u.state
      BY <1>1, <2>2, <2>3, SetPartIs
    <3> HIDE DEF w
    <3>2. v = w
      BY <2>1 DEF w
    <3>3. QED
      BY <3>1, <3>2
  <2>5. UploadOK(v, b)
    BY <1>1, <2>3, <2>4 DEF UploadOK
  <2>6. QED
    BY <1>1, <2>2, <2>3, <2>4, <2>5 DEF v
<1>5. CASE ~BeginsAt(b, end, CRLF) /\ ~(end > Len(b))
  <2>1. v = SetState(u, "fault")
    BY <1>5 DEF WithHeader, end, SetState
  <2> HIDE DEF v
  <2>2. v \in UploadType /\ v.at = u.at /\ v.state = "fault" /\ v.done = u.done /\ v.opens = u.opens /\ v.opened = u.opened
        /\ v.closes = u.closes /\ v.file = u.file
    BY <1>1, <2>1, SetStateIs
  <2>3. UploadOK(v, b)
    BY <1>1, <2>2 DEF UploadOK
  <2>4. QED
    BY <1>1, <2>2, <2>3 DEF v
<1>6. QED
  BY <1>3, <1>4, <1>5

LEMMA PartType ==
  ASSUME NEW b \in Text, NEW u, UploadOK(u, b), NEW i \in u.at..(Len(b) + 1)
  PROVE  /\ UploadOK(Part(WithHeader(u, b, i), b), b)
         /\ Part(WithHeader(u, b, i), b).done = u.done /\ Part(WithHeader(u, b, i), b).state \in {u.state, "fault"}
         /\ Passed(u, Part(WithHeader(u, b, i), b), b)
<1> DEFINE h == WithHeader(u, b, i)
           o == OpenOrClose(h)
           v == Part(h, b)
<1>1. /\ UploadOK(h, b) /\ h.at >= u.at /\ h.state \in {u.state, "fault"} /\ h.done = u.done
      /\ h.opens = u.opens
      /\ h.state # "fault" /\ h.filename /\ h.ctype => \E j \in u.at..(h.at - 1) : b[j] = "file"
  BY WithHeaderType
<1>2. u.at \in Nat /\ h.at \in Nat /\ u.opens \in Nat
  BY <1>1 DEF UploadOK, UploadType
<1> HIDE DEF h
<1>3. CASE h.state = "fault"
  <2>1. v = h
    BY <1>3 DEF Part
  <2> HIDE DEF v
  <2>2. QED
    BY <1>1, <2>1 DEF Passed, v, h
<1>4. CASE h.state # "fault"
  <2>1. v = Data(o, b)
    BY <1>4 DEF Part
  <2>2. UploadOK(o, b) /\ o.at = h.at /\ o.state = h.state /\ o.done = h.done
        /\ o.opens = h.opens + (IF h.filename /\ h.ctype /\ ~h.opened THEN 1 ELSE 0)
    BY <1>1, OpenOrCloseType
  <2> HIDE DEF o, v
  <2>3. UploadOK(v, b) /\ v.at >= o.at /\ v.state \in {o.state, "fault"} /\ v.done = o.done /\ v.opens = o.opens
    BY <2>1, <2>2, DataType
  <2>4. v.at \in Nat
    BY <2>3 DEF UploadOK, UploadType
  <2>5. CASE h.filename /\ h.ctype /\ ~h.opened
    <3>1. v.opens = u.opens + 1
      BY <1>1, <2>2, <2>3, <2>5
    <3>2. PICK j \in u.at..(h.at - 1) : b[j] = "file"
      BY <1>1, <1>4, <2>5
    <3>3. v.at >= u.at /\ j \in u.at..(v.at - 1)
      BY <1>1, <1>2, <2>2, <2>3, <2>4
    <3>4. Passed(u, v, b)
      BY <3>1, <3>2, <3>3 DEF Passed
    <3>5. QED
      BY <1>1, <2>2, <2>3, <3>4 DEF v, h
  <2>6. CASE ~(h.filename /\ h.ctype /\ ~h.opened)
    <3>1. v.opens = u.opens
      BY <1>1, <1>2, <2>2, <2>3, <2>6
    <3>2. v.at >= u.at
      BY <1>1, <1>2, <2>2, <2>3, <2>4
    <3>3. Passed(u, v, b)
      BY <3>1, <3>2 DEF Passed
    <3>4. QED
      BY <1>1, <2>2, <2>3, <3>3 DEF v, h
  <2>7. QED
    BY <2>5, <2>6
<1>5. QED
  BY <1>3, <1>4

\* An upload in its loop: it is reported done when it is closed, once.
Moving(u, b) == UploadOK(u, b) /\ u.done = IF u.state = "close" THEN 1 ELSE 0

LEMMA StepType ==
  ASSUME NEW b \in Text, NEW u, Moving(u, b)
  PROVE  Moving(UploadStep(u, b), b) /\ Passed(u, UploadStep(u, b), b)
<1> DEFINE v == UploadStep(u, b)
           h == HeaderAt(b, u.at)
           p == Part(WithHeader(u, b, h), b)
<1>1. UploadOK(u, b) /\ u \in UploadType /\ u.at \in Nat \ {0} /\ u.at <= Len(b) + 1 /\ Len(b) \in Nat /\ u.opens \in Nat
      /\ u.done = IF u.state = "close" THEN 1 ELSE 0
  BY TextLen DEF Moving, UploadOK, UploadType
<1>2. CASE u.state # "more" \/ u.at > Len(b)
  <2>1. v = u
    BY <1>2 DEF UploadStep
  <2>2. QED
    BY <1>1, <2>1 DEF Passed
<1>3. CASE u.state = "more" /\ ~(u.at > Len(b))
  <2>1. v = IF BeginsAt(b, u.at, LAST) THEN [u EXCEPT !.done = @ + 1, !.state = "close"]
       ELSE IF (Len(b) + 1) - u.at < Third /\ ~HasFrom(b, u.at, LAST) THEN [u EXCEPT !.state = "wait"]
       ELSE IF h # 0 THEN p
       ELSE Data(u, b)
    BY <1>3 DEF UploadStep
  <2>2. u.done = 0
    BY <1>1, <1>3
  <2>3. CASE v = [u EXCEPT !.done = @ + 1, !.state = "close"]
    <3> DEFINE one == u.done + 1
    <3>1. v = SetDoneState(u, one, "close")
      BY <2>3 DEF SetDoneState
    <3>2. one = 1 /\ one \in Nat
      BY <2>2
    <3> HIDE DEF one, v, h, p
    <3>3. v \in UploadType /\ v.at = u.at /\ v.opened = u.opened /\ v.opens = u.opens /\ v.closes = u.closes /\ v.done = one
          /\ v.state = "close"
      <4> DEFINE z == SetDoneState(u, one, "close")
      <4>1. z \in UploadType /\ z.at = u.at /\ z.filename = u.filename /\ z.ctype = u.ctype /\ z.fields = u.fields
            /\ z.opened = u.opened /\ z.file = u.file /\ z.opens = u.opens /\ z.closes = u.closes /\ z.done = one /\ z.state = "close"
        BY <1>1, <3>2, SetDoneStateIs
      <4> HIDE DEF z
      <4>2. v = z
        BY <3>1 DEF z
      <4>3. QED
        BY <4>1, <4>2
    <3>4. Moving(v, b)
      BY <1>1, <3>2, <3>3 DEF Moving, UploadOK
    <3>5. Passed(u, v, b)
      BY <1>1, <3>3 DEF Passed
    <3>6. QED
      BY <3>4, <3>5 DEF v
  <2>4. CASE v = [u EXCEPT !.state = "wait"]
    <3>1. v = SetState(u, "wait")
      BY <2>4 DEF SetState
    <3> HIDE DEF v
    <3>2. v \in UploadType /\ v.at = u.at /\ v.opened = u.opened /\ v.opens = u.opens /\ v.closes = u.closes /\ v.done = u.done
          /\ v.state = "wait"
      BY <1>1, <3>1, SetStateIs
    <3>3. Moving(v, b)
      BY <1>1, <2>2, <3>2 DEF Moving, UploadOK
    <3>4. Passed(u, v, b)
      BY <1>1, <3>2 DEF Passed
    <3>5. QED
      BY <3>3, <3>4 DEF v
  <2>5. CASE h # 0 /\ v = p
    <3>1. h \in u.at..(Len(b) + 1)
      <4>1. h \in (u.at + 4)..(Len(b) + 1)
        BY <1>1, <2>5, HeaderAtIn
      <4> HIDE DEF h
      <4>2. QED
        BY <1>1, <4>1
    <3> HIDE DEF h
    <3>2. UploadOK(p, b) /\ p.done = u.done /\ p.state \in {u.state, "fault"} /\ Passed(u, p, b)
      BY <1>1, <3>1, PartType
    <3> HIDE DEF p, v
    <3>3. Moving(p, b)
      BY <1>3, <2>2, <3>2 DEF Moving
    <3>4. QED
      BY <2>5, <3>2, <3>3 DEF v
  <2>6. CASE v = Data(u, b)
    <3> HIDE DEF v
    <3>1. UploadOK(v, b) /\ v.at >= u.at /\ v.state \in {u.state, "fault"} /\ v.done = u.done /\ v.opens = u.opens
      BY <1>1, <2>6, DataType
    <3>2. QED
      BY <1>1, <1>3, <3>1 DEF Moving, Passed, v
  <2>7. QED
    <3> HIDE DEF v, p, h
    <3> QED
      BY <2>1, <2>3, <2>4, <2>5, <2>6
<1>4. QED
  BY <1>2, <1>3

\* The lines with a file name in a text up to n.
FileCells(w, n) == {j \in 1..n : w[j] = "file"}

LEMMA FileCellsAre ==
  ASSUME NEW w, NEW n \in Nat, NEW m \in Nat, n <= m
  PROVE  /\ IsFiniteSet(FileCells(w, m)) /\ Cardinality(FileCells(w, n)) \in Nat /\ Cardinality(FileCells(w, m)) \in Nat
         /\ Cardinality(FileCells(w, n)) <= Cardinality(FileCells(w, m))
         /\ (\E j \in (n + 1)..m : w[j] = "file") => Cardinality(FileCells(w, n)) + 1 <= Cardinality(FileCells(w, m))
<1> DEFINE N == FileCells(w, n)
           M == FileCells(w, m)
<1>1. N \subseteq M
  BY DEF FileCells
<1>2. IsFiniteSet(M)
  <2>1. M \subseteq 1..m
    BY DEF FileCells
  <2> HIDE DEF M
  <2>2. IsFiniteSet(1..m)
    BY FS_Interval
  <2>3. QED
    BY <2>1, <2>2, FS_Subset
<1>3. \A j \in (n + 1)..m : w[j] = "file" => j \in M /\ j \notin N
  BY DEF FileCells
<1> HIDE DEF N, M
<1>4. IsFiniteSet(N) /\ Cardinality(N) \in Nat /\ Cardinality(M) \in Nat /\ Cardinality(N) <= Cardinality(M)
  BY <1>1, <1>2, FS_Subset, FS_CardinalityType
<1>5. ASSUME NEW j \in (n + 1)..m, w[j] = "file"
      PROVE  Cardinality(N) + 1 <= Cardinality(M)
  <2>1. N # M
    BY <1>3, <1>5
  <2>2. Cardinality(N) # Cardinality(M)
    BY <1>1, <1>2, <2>1, FS_Subset
  <2>3. QED
    BY <1>4, <2>2
<1>6. QED
  BY <1>2, <1>4, <1>5 DEF N, M

LEMMA LoopStartIs ==
  ASSUME NEW u \in UploadType
  PROVE  LET v == [u EXCEPT !.at = 1, !.state = "more"]
         IN  /\ v \in UploadType /\ v.at = 1 /\ v.opened = u.opened /\ v.opens = u.opens /\ v.closes = u.closes
             /\ v.done = u.done /\ v.state = "more"
<1> DEFINE one == 1
           z == SetAtState(u, one, "more")
<1>1. [u EXCEPT !.at = 1, !.state = "more"] = z
  BY DEF SetAtState
<1>2. one \in Nat /\ one = 1
  OBVIOUS
<1> HIDE DEF one
<1>3. z \in UploadType /\ z.at = one /\ z.filename = u.filename /\ z.ctype = u.ctype /\ z.fields = u.fields
      /\ z.opened = u.opened /\ z.file = u.file /\ z.opens = u.opens /\ z.closes = u.closes /\ z.done = u.done
      /\ z.state = "more"
  BY <1>2, SetAtStateIs
<1> HIDE DEF z
<1>4. QED
  BY <1>1, <1>2, <1>3

\* One run of the loop over a text that is w behind its first c cells: a file
\* was opened at most once per line with a file name.
LEMMA LoopType ==
  ASSUME NEW b \in Text, NEW u \in UploadType, u.opens = u.closes + (IF u.opened THEN 1 ELSE 0), u.done = 0,
         NEW w, NEW c \in Nat, \A i \in 1..Len(b) : b[i] = "file" => w[c + i] = "file",
         u.opens <= Cardinality(FileCells(w, c))
  PROVE  /\ Moving(UploadLoop(u, b), b)
         /\ UploadLoop(u, b).opens <= Cardinality(FileCells(w, c + UploadLoop(u, b).at - 1))
<1> DEFINE n == Len(b)
           D == 0..n
           u0 == [u EXCEPT !.at = 1, !.state = "more"]
           B(g, k) == IF k = 0 THEN u0 ELSE UploadStep(g[k - 1], b)
           Eq(g) == g = [k \in D |-> B(g, k)]
           run == CHOOSE g : Eq(g)
           S == {v \in UploadType : Moving(v, b)}
           F == [k \in 1..n |-> [v \in S |-> UploadStep(v, b)]]
<1>1. n \in Nat
  BY TextLen
<1>2. u0 \in UploadType /\ u0.at = 1 /\ u0.opened = u.opened /\ u0.opens = u.opens /\ u0.closes = u.closes /\ u0.done = u.done
      /\ u0.state = "more"
  BY LoopStartIs
<1> HIDE DEF u0
<1>3. u0 \in S
  BY <1>1, <1>2 DEF Moving, UploadOK
<1>4. F \in [1..n -> [S -> S]]
  <2>1. \A v \in S : UploadStep(v, b) \in S
    BY StepType DEF Moving, UploadOK
  <2> HIDE DEF S
  <2>2. QED
    BY <2>1
<1>5. PICK f \in [0..n -> S] : GoesUp(f, n, u0, F)
  <2> HIDE DEF F, n, S
  <2> QED
    BY <1>1, <1>3, <1>4, RecursionUp
<1>6. \A k \in D : f[k] = B(f, k)
  <2>1. f[0] = u0 /\ \A k \in 1..n : f[k] = F[k][f[k - 1]]
    BY <1>5 DEF GoesUp
  <2>2. \A k \in 1..n : f[k - 1] \in S
    <3>1. \A k \in 1..n : k - 1 \in 0..n
      BY <1>1
    <3> HIDE DEF n, S
    <3>2. QED
      BY <1>5, <3>1
  <2>3. \A k \in 1..n : f[k] = UploadStep(f[k - 1], b)
    <3> HIDE DEF S
    <3> QED
      BY <2>1, <2>2
  <2> HIDE DEF F, S
  <2>4. QED
    BY <1>1, <2>1, <2>3
<1>7. Eq(f)
  <2> HIDE DEF B, S
  <2> QED
    BY <1>5, <1>6
<1>8. Eq(run)
  <2> HIDE DEF Eq
  <2> QED
    BY <1>7
<1>9. UploadLoop(u, b) = run[n]
  BY DEF UploadLoop, u0
<1> HIDE DEF run
<1>10. \A k \in D : run[k] = B(run, k)
  <2> HIDE DEF B
  <2> QED
    BY <1>8
<1> HIDE DEF Eq, F, S
<1> DEFINE Seen(v) == v.opens <= Cardinality(FileCells(w, c + v.at - 1))
           T == {k \in 0..n : Moving(run[k], b) /\ Seen(run[k])}
<1>11. 0 \in T
  <2>1. run[0] = u0
    BY <1>1, <1>10
  <2>2. Moving(u0, b)
    BY <1>3 DEF S
  <2>3. c + u0.at - 1 = c
    BY <1>2
  <2>4. Seen(u0)
    BY <1>2, <2>3
  <2>5. QED
    BY <1>1, <2>1, <2>2, <2>4
<1>12. ASSUME NEW k \in 1..n, k - 1 \in T
       PROVE  k \in T
  <2> DEFINE v == run[k - 1]
             z == run[k]
  <2>1. z = UploadStep(v, b) /\ Moving(v, b) /\ Seen(v)
    BY <1>1, <1>10, <1>12
  <2> HIDE DEF v, z
  <2>2. Moving(z, b) /\ Passed(v, z, b)
    BY <2>1, StepType
  <2>3. v.at \in 1..(n + 1) /\ z.at \in 1..(n + 1) /\ v.opens \in Nat /\ z.at >= v.at
    BY <2>1, <2>2 DEF Moving, UploadOK, UploadType, Passed
  <2> DEFINE p == c + v.at - 1
             q == c + z.at - 1
  <2>4. p \in Nat /\ q \in Nat /\ p <= q
    BY <1>1, <2>3
  <2>5. z.opens = v.opens \/ (z.opens = v.opens + 1 /\ \E i \in (p + 1)..q : w[i] = "file")
    <3>1. ASSUME NEW j \in v.at..(z.at - 1), b[j] = "file"
          PROVE  c + j \in (p + 1)..q /\ w[c + j] = "file"
      <4>1. j \in 1..n
        BY <1>1, <2>3
      <4>2. c + j \in (p + 1)..q
        BY <1>1, <2>3
      <4>3. QED
        BY <3>1, <4>1, <4>2
    <3> HIDE DEF p, q, n
    <3>2. QED
      BY <2>2, <3>1 DEF Passed
  <2>6. Seen(z)
    <3>1. v.opens <= Cardinality(FileCells(w, p))
      BY <2>1
    <3> HIDE DEF p, q
    <3>2. /\ Cardinality(FileCells(w, p)) \in Nat /\ Cardinality(FileCells(w, q)) \in Nat
          /\ Cardinality(FileCells(w, p)) <= Cardinality(FileCells(w, q))
          /\ (\E j \in (p + 1)..q : w[j] = "file") => Cardinality(FileCells(w, p)) + 1 <= Cardinality(FileCells(w, q))
      BY <2>4, FileCellsAre
    <3>3. z.opens <= Cardinality(FileCells(w, q))
      BY <2>3, <2>5, <3>1, <3>2
    <3>4. QED
      BY <3>3 DEF q
  <2>7. QED
    BY <2>2, <2>6 DEF z
<1>13. \A k \in 0..n : k \in T
  <2> HIDE DEF T, n
  <2> QED
    BY <1>1, <1>11, <1>12, UpTo
<1>14. QED
  BY <1>1, <1>9, <1>13

LEMMA UploadCloseType ==
  ASSUME NEW u \in UploadType, u.opens = u.closes + (IF u.opened THEN 1 ELSE 0)
  PROVE  /\ UploadClose(u) \in UploadType /\ UploadClose(u).opens = UploadClose(u).closes /\ UploadClose(u).opened = FALSE
         /\ UploadClose(u).opens = u.opens /\ UploadClose(u).done = u.done /\ UploadClose(u).state = u.state
         /\ UploadClose(u).file = u.file /\ UploadClose(u).at = u.at
<1> DEFINE n == u.closes + 1
           v == UploadClose(u)
           w == SetCloses(u, FALSE, n)
<1>1. u.opened \in BOOLEAN /\ u.closes \in Nat /\ n \in Nat
  BY DEF UploadType
<1>2. CASE u.opened
  <2>1. v = w
    BY <1>2 DEF UploadClose, SetCloses
  <2>2. u.opens = n
    BY <1>2
  <2> HIDE DEF n, v
  <2>3. w \in UploadType /\ w.at = u.at /\ w.filename = u.filename /\ w.ctype = u.ctype /\ w.fields = u.fields
        /\ w.opened = FALSE /\ w.file = u.file /\ w.opens = u.opens /\ w.closes = n /\ w.done = u.done /\ w.state = u.state
    BY <1>1, SetClosesIs
  <2> HIDE DEF w
  <2>4. QED
    BY <2>1, <2>2, <2>3 DEF v
<1>3. CASE ~u.opened
  <2>1. v = u
    BY <1>3 DEF UploadClose
  <2>2. u.opens = u.closes /\ u.opened = FALSE
    BY <1>1, <1>3
  <2> HIDE DEF v
  <2>3. QED
    BY <2>1, <2>2 DEF v
<1>4. QED
  BY <1>2, <1>3

-----------------------------------------------------------------------------
(* What a client sends.                                                    *)

Coded(c) == CASE c = SP -> <<"+">> [] c = "&" -> <<"%", "2", "6">> [] c = "=" -> <<"%", "3", "D">> [] OTHER -> <<c>>

LEMMA CodedType ==
  ASSUME NEW c \in Cells
  PROVE  Coded(c) \in Text
<1>1. "+" \in Cells /\ "%" \in Cells /\ "2" \in Cells /\ "6" \in Cells /\ "3" \in Cells /\ "D" \in Cells
  BY CellsAssumption
<1>2. <<"+">> \in Text /\ <<c>> \in Text
  BY <1>1, Words
<1>3. <<"%", "2", "6">> \in Text
  BY <1>1 DEF Text
<1>4. <<"%", "3", "D">> \in Text
  BY <1>1 DEF Text
<1>5. CASE c = SP
  <2>1. Coded(c) = <<"+">>
    BY <1>5 DEF Coded, SP
  <2>2. QED
    BY <1>2, <2>1
<1>6. CASE c = "&"
  <2>1. Coded(c) = <<"%", "2", "6">>
    BY <1>6 DEF Coded, SP
  <2>2. QED
    BY <1>3, <2>1
<1>7. CASE c = "="
  <2>1. Coded(c) = <<"%", "3", "D">>
    BY <1>7 DEF Coded, SP
  <2>2. QED
    BY <1>4, <2>1
<1>8. CASE c \notin {SP, "&", "="}
  <2>1. Coded(c) = <<c>>
    BY <1>8 DEF Coded
  <2>2. QED
    BY <1>2, <2>1
<1>9. QED
  BY <1>5, <1>6, <1>7, <1>8

LEMMA EncodedType ==
  ASSUME NEW v \in Text
  PROVE  Encoded(v) \in Text
<1> DEFINE n == Len(v)
           D == 1..n + 1
           B(g, i) == IF i > n THEN <<>>
                      ELSE (CASE v[i] = SP -> <<"+">> [] v[i] = "&" -> <<"%", "2", "6">>
                              [] v[i] = "=" -> <<"%", "3", "D">> [] OTHER -> <<v[i]>>) \o g[i + 1]
           Eq(g) == g = [i \in D |-> B(g, i)]
           c == CHOOSE g : Eq(g)
           F == [i \in 1..n |-> [x \in Text |-> Coded(v[i]) \o x]]
           G == [i \in 1..n |-> i + 1]
<1>1. n \in Nat /\ \A i \in 1..n : v[i] \in Cells
  BY TextLen
<1>0. ASSUME NEW g, NEW i \in 1..n
      PROVE  B(g, i) = Coded(v[i]) \o g[i + 1]
  <2> DEFINE x == CASE v[i] = SP -> <<"+">> [] v[i] = "&" -> <<"%", "2", "6">>
                    [] v[i] = "=" -> <<"%", "3", "D">> [] OTHER -> <<v[i]>>
  <2>1. ~(i > n)
    BY <1>1
  <2>2. B(g, i) = x \o g[i + 1]
    BY <2>1
  <2>3. x = Coded(v[i])
    BY DEF Coded
  <2> HIDE DEF x, B
  <2>4. QED
    BY <2>2, <2>3
<1>2. F \in [1..n -> [Text -> Text]]
  <2>1. \A i \in 1..n, x \in Text : Coded(v[i]) \o x \in Text
    BY <1>1, CodedType, CatText
  <2>2. QED
    BY <2>1
<1>3. G \in [1..n -> Nat] /\ \A i \in 1..n : G[i] \in (i + 1)..(n + 1)
  BY <1>1
<1>4. PICK f \in [1..(n + 1) -> Text] : GoesDown(f, n, <<>>, F, G)
  <2>1. <<>> \in Text
    BY Words
  <2> HIDE DEF n, F, G
  <2> QED
    BY <1>1, <1>2, <1>3, <2>1, RecursionDown
<1>5. \A i \in D : f[i] = B(f, i)
  <2>1. f[n + 1] = <<>> /\ \A i \in 1..n : f[i] = F[i][f[i + 1]]
    BY <1>4 DEF GoesDown
  <2>2. \A i \in 1..n : f[i + 1] \in Text
    <3>1. \A i \in 1..n : i + 1 \in 1..(n + 1)
      BY <1>1
    <3> HIDE DEF n
    <3>2. QED
      BY <1>4, <3>1
  <2>3. \A i \in 1..n : f[i] = Coded(v[i]) \o f[i + 1]
    BY <2>1, <2>2
  <2>4. \A i \in 1..n : B(f, i) = Coded(v[i]) \o f[i + 1]
    BY <1>0
  <2>5. n + 1 \in D /\ B(f, n + 1) = <<>> /\ \A i \in D : i = n + 1 \/ i \in 1..n
    BY <1>1
  <2> HIDE DEF F, B, D, n
  <2>6. QED
    BY <2>1, <2>3, <2>4, <2>5
<1>6. Eq(f)
  <2> HIDE DEF B
  <2> QED
    BY <1>4, <1>5
<1>7. Eq(c)
  <2> HIDE DEF Eq
  <2> QED
    BY <1>6
<1>8. Encoded(v) = c[1]
  BY DEF Encoded
<1> HIDE DEF c
<1>9. \A i \in D : c[i] = B(c, i)
  <2> HIDE DEF B
  <2> QED
    BY <1>7
<1> HIDE DEF Eq, F, G
<1>10. c[n + 1] = <<>> /\ \A i \in 1..n : c[i] = Coded(v[i]) \o c[i + 1]
  <2>1. \A i \in 1..n : B(c, i) = Coded(v[i]) \o c[i + 1]
    BY <1>0
  <2>a. \A i \in 1..n : i \in D
    BY <1>1
  <2>2. n + 1 \in D /\ B(c, n + 1) = <<>>
    BY <1>1
  <2> HIDE DEF B, D
  <2>3. QED
    BY <1>9, <2>1, <2>a, <2>2
<1> DEFINE T == {i \in 1..n : c[i] \in Text}
<1>11. \A k \in 1..n : (\A j \in (k + 1)..n : j \in T) => k \in T
  <2> SUFFICES ASSUME NEW k \in 1..n, \A j \in (k + 1)..n : j \in T
               PROVE  k \in T
    OBVIOUS
  <2>1. k + 1 = n + 1 \/ k + 1 \in (k + 1)..n
    BY <1>1
  <2>2. c[k + 1] \in Text
    BY <1>10, <2>1, Words
  <2>3. Coded(v[k]) \in Text
    BY <1>1, CodedType
  <2>4. Coded(v[k]) \o c[k + 1] \in Text
    BY <2>2, <2>3, CatText
  <2>5. QED
    BY <1>10, <2>4
<1>12. \A k \in 1..n : k \in T
  <2> HIDE DEF T
  <2> QED
    BY <1>1, <1>11, DownFrom
<1>13. 1 = n + 1 \/ 1 \in 1..n
  BY <1>1
<1>14. c[1] \in Text
  BY <1>10, <1>12, <1>13, Words
<1>15. QED
  BY <1>8, <1>14

LEMMA FieldTextType ==
  ASSUME NEW f \in FormField
  PROVE  FieldText(f) \in Text
<1>1. f.name \in Text /\ (f.value # Nil => f.value \in Text)
  BY DEF FormField
<1>2. <<"=">> \in Text /\ <<>> \in Text
  BY CellsAssumption, Words
<1>3. CASE f.value = Nil
  <2>1. FieldText(f) = f.name \o <<>>
    BY <1>3 DEF FieldText
  <2>2. QED
    BY <1>1, <1>2, <2>1, CatText
<1>4. CASE f.value # Nil
  <2> DEFINE x == <<"=">>
             y == Encoded(f.value)
  <2>1. FieldText(f) = f.name \o (x \o y)
    BY <1>4 DEF FieldText
  <2>2. x \in Text /\ y \in Text
    BY <1>1, <1>2, <1>4, EncodedType
  <2> HIDE DEF x, y
  <2>3. x \o y \in Text
    BY <2>2, CatText
  <2>4. QED
    BY <1>1, <2>1, <2>3, CatText
<1>5. QED
  BY <1>3, <1>4

LEMMA FormTextType ==
  ASSUME NEW fs \in Seq(FormField)
  PROVE  FormText(fs) \in Text
<1> DEFINE n == Len(fs)
           D == 0..n
           A(x, k) == x \o (IF k > 1 THEN <<"&">> ELSE <<>>) \o FieldText(fs[k])
           B(g, k) == IF k = 0 THEN <<>> ELSE g[k - 1] \o (IF k > 1 THEN <<"&">> ELSE <<>>) \o FieldText(fs[k])
           Eq(g) == g = [k \in D |-> B(g, k)]
           c == CHOOSE g : Eq(g)
           F == [k \in 1..n |-> [x \in Text |-> A(x, k)]]
<1>1. n \in Nat /\ \A k \in 1..n, x \in Text : A(x, k) \in Text
  <2>1. n \in Nat /\ \A k \in 1..n : fs[k] \in FormField
    OBVIOUS
  <2> SUFFICES ASSUME NEW k \in 1..n, NEW x \in Text
               PROVE  A(x, k) \in Text
    BY <2>1
  <2> DEFINE y == IF k > 1 THEN <<"&">> ELSE <<>>
             z == FieldText(fs[k])
  <2>2. y \in Text
    BY CellsAssumption, Words
  <2>3. z \in Text
    BY <2>1, FieldTextType
  <2> HIDE DEF y, z
  <2> DEFINE xy == x \o y
  <2>4. xy \in Text
    BY <2>2, CatText
  <2>5. A(x, k) = xy \o z
    BY DEF y, z
  <2> HIDE DEF xy, A
  <2>6. QED
    BY <2>3, <2>4, <2>5, CatText
<1>2. F \in [1..n -> [Text -> Text]]
  <2>1. \A k \in 1..n, x \in Text : A(x, k) \in Text
    BY <1>1
  <2> HIDE DEF A
  <2>2. QED
    BY <2>1
<1>3. PICK f \in [0..n -> Text] : GoesUp(f, n, <<>>, F)
  <2>1. <<>> \in Text
    BY Words
  <2> HIDE DEF F, n
  <2> QED
    BY <1>1, <1>2, <2>1, RecursionUp
<1>4. \A k \in D : f[k] = B(f, k)
  <2>1. f[0] = <<>> /\ \A k \in 1..n : f[k] = F[k][f[k - 1]]
    BY <1>3 DEF GoesUp
  <2>2. \A k \in 1..n : f[k - 1] \in Text
    <3>1. \A k \in 1..n : k - 1 \in 0..n
      BY <1>1
    <3> HIDE DEF n
    <3>2. QED
      BY <1>3, <3>1
  <2>3. \A k \in 1..n : f[k] = A(f[k - 1], k)
    <3> HIDE DEF A
    <3> QED
      BY <2>1, <2>2
  <2>4. \A k \in 1..n : B(f, k) = A(f[k - 1], k)
    BY <1>1, SMTT(30)
  <2>5. 0 \in D /\ B(f, 0) = <<>> /\ \A k \in D : k = 0 \/ k \in 1..n
    BY <1>1
  <2> HIDE DEF F, A, B, D, n
  <2>6. QED
    BY <2>1, <2>3, <2>4, <2>5
<1>5. Eq(f)
  <2> HIDE DEF B
  <2> QED
    BY <1>3, <1>4
<1>6. Eq(c)
  <2> HIDE DEF Eq
  <2> QED
    BY <1>5
<1>7. FormText(fs) = c[n]
  BY DEF FormText
<1> HIDE DEF c
<1>8. \A k \in D : c[k] = B(c, k)
  <2> HIDE DEF B
  <2> QED
    BY <1>6
<1>9. c[0] = <<>> /\ \A k \in 1..n : c[k] = A(c[k - 1], k)
  <2>1. \A k \in 1..n : k \in D /\ B(c, k) = A(c[k - 1], k)
    BY <1>1, SMTT(30)
  <2>2. 0 \in D /\ B(c, 0) = <<>>
    BY <1>1
  <2> HIDE DEF A, B, D
  <2>3. QED
    BY <1>8, <2>1, <2>2
<1> HIDE DEF Eq, F, B
<1> DEFINE T == {k \in 0..n : c[k] \in Text}
<1>10. 0 \in T
  BY <1>1, <1>9, Words
<1>11. ASSUME NEW k \in 1..n, k - 1 \in T
       PROVE  k \in T
  <2>1. A(c[k - 1], k) \in Text
    BY <1>1, <1>11
  <2>2. k \in 0..n
    BY <1>1
  <2> HIDE DEF A
  <2>3. c[k] = A(c[k - 1], k)
    BY <1>9
  <2>4. QED
    BY <2>1, <2>2, <2>3
<1>12. \A k \in 0..n : k \in T
  <2> HIDE DEF T, n
  <2> QED
    BY <1>1, <1>10, <1>11, UpTo
<1>13. n \in 0..n
  BY <1>1
<1>14. QED
  BY <1>7, <1>12, <1>13

\* The header lines, one behind the other.
HeaderText(hs, k) == <<hs[k].name, SP>> \o hs[k].value \o CRLF
HeadersText(hs) ==
  LET upto[k \in 0..Len(hs)] == IF k = 0 THEN <<>> ELSE upto[k - 1] \o HeaderText(hs, k)
  IN upto[Len(hs)]

LEMMA HeadersTextType ==
  ASSUME NEW hs \in Seq([name : Cells, value : Text])
  PROVE  HeadersText(hs) \in Text
<1> DEFINE n == Len(hs)
           D == 0..n
           A(x, k) == x \o HeaderText(hs, k)
           B(g, k) == IF k = 0 THEN <<>> ELSE g[k - 1] \o HeaderText(hs, k)
           Eq(g) == g = [k \in D |-> B(g, k)]
           c == CHOOSE g : Eq(g)
           F == [k \in 1..n |-> [x \in Text |-> A(x, k)]]
<1>1. n \in Nat /\ \A k \in 1..n, x \in Text : A(x, k) \in Text
  <2>1. n \in Nat /\ \A k \in 1..n : hs[k].name \in Cells /\ hs[k].value \in Text
    <3> DEFINE H == [name : Cells, value : Text]
    <3>1. \A h \in H : h.name \in Cells /\ h.value \in Text
      OBVIOUS
    <3>2. hs \in Seq(H)
      OBVIOUS
    <3> HIDE DEF H
    <3>3. Len(hs) \in Nat /\ \A k \in 1..Len(hs) : hs[k] \in H
      BY <3>2
    <3>4. QED
      BY <3>1, <3>3
  <2> SUFFICES ASSUME NEW k \in 1..n, NEW x \in Text
               PROVE  A(x, k) \in Text
    BY <2>1
  <2> DEFINE y == <<hs[k].name, SP>>
             z == y \o hs[k].value
             v == z \o CRLF
  <2>2. y \in Text
    <3>1. SP \in Cells /\ hs[k].name \in Cells
      BY <2>1, CellsAssumption
    <3>2. QED
      BY <3>1 DEF Text
  <2>3. A(x, k) = x \o v
    BY DEF HeaderText
  <2> HIDE DEF y, A
  <2>4. z \in Text
    BY <2>1, <2>2, CatText
  <2> HIDE DEF z
  <2>5. v \in Text
    BY <2>4, CRLFIs, CatText
  <2> HIDE DEF v
  <2>6. QED
    BY <2>3, <2>5, CatText
<1>2. F \in [1..n -> [Text -> Text]]
  <2>1. \A k \in 1..n, x \in Text : A(x, k) \in Text
    BY <1>1
  <2> HIDE DEF A
  <2>2. QED
    BY <2>1
<1>3. PICK f \in [0..n -> Text] : GoesUp(f, n, <<>>, F)
  <2>1. <<>> \in Text
    BY Words
  <2> HIDE DEF F, n
  <2> QED
    BY <1>1, <1>2, <2>1, RecursionUp
<1>4. \A k \in D : f[k] = B(f, k)
  <2>1. f[0] = <<>> /\ \A k \in 1..n : f[k] = F[k][f[k - 1]]
    BY <1>3 DEF GoesUp
  <2>2. \A k \in 1..n : f[k - 1] \in Text
    <3>1. \A k \in 1..n : k - 1 \in 0..n
      BY <1>1
    <3> HIDE DEF n
    <3>2. QED
      BY <1>3, <3>1
  <2>3. \A k \in 1..n : f[k] = A(f[k - 1], k)
    <3> HIDE DEF A
    <3> QED
      BY <2>1, <2>2
  <2>4. \A k \in 1..n : B(f, k) = A(f[k - 1], k)
    BY <1>1
  <2>5. 0 \in D /\ B(f, 0) = <<>> /\ \A k \in D : k = 0 \/ k \in 1..n
    BY <1>1
  <2> HIDE DEF F, A, B, D, n
  <2>6. QED
    BY <2>1, <2>3, <2>4, <2>5
<1>5. Eq(f)
  <2> HIDE DEF B
  <2> QED
    BY <1>3, <1>4
<1>6. Eq(c)
  <2> HIDE DEF Eq
  <2> QED
    BY <1>5
<1>7. HeadersText(hs) = c[n]
  BY DEF HeadersText
<1> HIDE DEF c
<1>8. \A k \in D : c[k] = B(c, k)
  <2> HIDE DEF B
  <2> QED
    BY <1>6
<1>9. c[0] = <<>> /\ \A k \in 1..n : c[k] = A(c[k - 1], k)
  <2>1. \A k \in 1..n : k \in D /\ B(c, k) = A(c[k - 1], k)
    BY <1>1
  <2>2. 0 \in D /\ B(c, 0) = <<>>
    BY <1>1
  <2> HIDE DEF A, B, D
  <2>3. QED
    BY <1>8, <2>1, <2>2
<1> HIDE DEF Eq, F, B
<1> DEFINE T == {k \in 0..n : c[k] \in Text}
<1>10. 0 \in T
  BY <1>1, <1>9, Words
<1>11. ASSUME NEW k \in 1..n, k - 1 \in T
       PROVE  k \in T
  <2>1. A(c[k - 1], k) \in Text
    BY <1>1, <1>11
  <2>2. k \in 0..n
    BY <1>1
  <2> HIDE DEF A
  <2>3. c[k] = A(c[k - 1], k)
    BY <1>9
  <2>4. QED
    BY <2>1, <2>2, <2>3
<1>12. \A k \in 0..n : k \in T
  <2> HIDE DEF T, n
  <2> QED
    BY <1>1, <1>10, <1>11, UpTo
<1>13. n \in 0..n
  BY <1>1
<1>14. QED
  BY <1>7, <1>12, <1>13

LEMMA HeadTextType ==
  ASSUME NEW r \in Request
  PROVE  HeadText(r) \in Text
<1>1. r.method \in Cells /\ r.path \in Text /\ r.query \in Seq(FormField) /\ r.version \in Cells
      /\ r.headers \in Seq([name : Cells, value : Text])
  BY DEF Request
<1> DEFINE h == HeadersText(r.headers)
           m == <<r.method>>
           mp == m \o r.path
           x == <<"?">>
           q == FormText(r.query)
           xq == IF r.query = <<>> THEN <<>> ELSE x \o q
           mpx == mp \o xq
           v == <<SP, r.version>>
           line == mpx \o v
           lines == line \o CRLF
           all == lines \o h
<1>2. HeadText(r) = all \o CRLF
  <2>1. HeadText(r) = lines \o h \o CRLF
    BY DEF HeadText, HeadersText, HeaderText
  <2>2. QED
    BY <2>1
<1>3. SP \in Cells
  BY CellsAssumption
<1>4. h \in Text
  BY <1>1, HeadersTextType
<1>5. m \in Text
  BY <1>1, Words
<1> HIDE DEF h, m
<1>6. mp \in Text
  BY <1>1, <1>5, CatText
<1>7. xq \in Text
  <2>1. CASE r.query = <<>>
    BY <2>1, Words
  <2>2. CASE r.query # <<>>
    <3>1. xq = x \o q
      BY <2>2
    <3>2. x \in Text
      BY CellsAssumption, Words
    <3>3. q \in Text
      BY <1>1, FormTextType
    <3> HIDE DEF x, q, xq
    <3>4. QED
      BY <3>1, <3>2, <3>3, CatText
  <2>3. QED
    BY <2>1, <2>2
<1> HIDE DEF mp, xq
<1>8. mpx \in Text
  BY <1>6, <1>7, CatText
<1> HIDE DEF mpx
<1>9. v \in Text
  BY <1>1, <1>3 DEF Text
<1> HIDE DEF v
<1>10. line \in Text
  BY <1>8, <1>9, CatText
<1> HIDE DEF line
<1>11. lines \in Text
  BY <1>10, CRLFIs, CatText
<1> HIDE DEF lines
<1>12. all \in Text
  BY <1>4, <1>11, CatText
<1> HIDE DEF all
<1>13. QED
  BY <1>2, <1>12, CRLFIs, CatText

-----------------------------------------------------------------------------
(* How many lines with a file name a text has.                             *)

Count(q) == Cardinality(FileCells(q, Len(q)))

LEMMA CountCat ==
  ASSUME NEW q \in Text, NEW h \in Text
  PROVE  /\ Count(q) \in Nat /\ Count(h) \in Nat /\ Count(q \o h) \in Nat
         /\ Count(q \o h) <= Count(q) + Count(h)
<1> DEFINE z == q \o h
           l == Len(q)
           m == Len(h)
           M == FileCells(z, l + m)
           N == FileCells(q, l)
           K == FileCells(h, m)
           S == {i \in M : i > l}
           g == [i \in S |-> i - l]
<1>1. l \in Nat /\ m \in Nat
  BY TextLen
<1>2. z \in Text /\ Len(z) = l + m /\ \A i \in 1..(l + m) : z[i] = IF i <= l THEN q[i] ELSE h[i - l]
  BY CatText
<1> HIDE DEF z, l, m
<1>3. IsFiniteSet(M) /\ IsFiniteSet(N) /\ IsFiniteSet(K) /\ Cardinality(M) \in Nat /\ Cardinality(N) \in Nat /\ Cardinality(K) \in Nat
  <2>1. l + m \in Nat /\ l <= l /\ m <= m /\ l + m <= l + m
    BY <1>1
  <2> DEFINE k == l + m
  <2> HIDE DEF k
  <2>2. k \in Nat /\ k <= k
    BY <2>1 DEF k
  <2>3. IsFiniteSet(FileCells(z, k)) /\ Cardinality(FileCells(z, k)) \in Nat
    BY <2>2, FileCellsAre
  <2>4. IsFiniteSet(N) /\ Cardinality(N) \in Nat
    BY <1>1, <2>1, FileCellsAre
  <2>5. IsFiniteSet(K) /\ Cardinality(K) \in Nat
    BY <1>1, <2>1, FileCellsAre
  <2>6. QED
    BY <2>3, <2>4, <2>5 DEF k
<1>4. M \subseteq N \cup S
  BY <1>1, <1>2 DEF FileCells
<1>5. \A i \in S : g[i] \in K
  BY <1>1, <1>2 DEF FileCells
<1>6. \A i, j \in S : g[i] = g[j] => i = j
  BY <1>1 DEF FileCells
<1>7. IsFiniteSet(S) /\ Cardinality(S) \in Nat /\ Cardinality(S) <= Cardinality(K)
  <2>1. S \subseteq M
    OBVIOUS
  <2>2. g \in [S -> K]
    BY <1>5
  <2> HIDE DEF M, S, g, K
  <2>3. g \in Injection(S, K)
    BY <1>6, <2>2 DEF Injection, IsInjective
  <2>4. IsFiniteSet(S) /\ Cardinality(S) \in Nat
    BY <1>3, <2>1, FS_Subset, FS_CardinalityType
  <2>5. Cardinality(S) <= Cardinality(K)
    BY <1>3, <2>3, FS_Injection
  <2>6. QED
    BY <2>4, <2>5
<1> HIDE DEF M, N, K, S, g
<1>8. IsFiniteSet(N \cup S) /\ Cardinality(N \cup S) = Cardinality(N) + Cardinality(S) - Cardinality(N \cap S)
      /\ Cardinality(N \cap S) \in Nat /\ Cardinality(N \cup S) \in Nat
  <2>1. IsFiniteSet(N \cap S)
    BY <1>3, FS_Subset
  <2>2. QED
    BY <1>3, <1>7, <2>1, FS_Union, FS_CardinalityType
<1>9. Cardinality(M) <= Cardinality(N \cup S)
  BY <1>4, <1>8, FS_Subset
<1>10. Cardinality(M) <= Cardinality(N) + Cardinality(K)
  BY <1>3, <1>7, <1>8, <1>9
<1>11. Count(z) = Cardinality(M) /\ Count(q) = Cardinality(N) /\ Count(h) = Cardinality(K)
  BY <1>2 DEF Count, M, N, K, l, m
<1>12. QED
  BY <1>3, <1>10, <1>11 DEF z

LEMMA CountNone ==
  ASSUME NEW q \in Text, \A i \in 1..Len(q) : q[i] # "file"
  PROVE  Count(q) = 0
<1>1. FileCells(q, Len(q)) = {}
  BY DEF FileCells
<1>2. QED
  BY <1>1, FS_EmptySet DEF Count

LEMMA PartTextIs ==
  ASSUME NEW p \in [file : BOOLEAN, data : Text], Without(p.data, {"file"})
  PROVE  PartText(p) \in Text /\ Count(PartText(p)) <= IF p.file THEN 1 ELSE 0
<1> DEFINE one == <<"file">>
           two == <<"type">>
           no  == <<"field">>
           oc  == one \o CRLF
           head == IF p.file THEN oc \o two ELSE no
           line == head \o CRLF
           lines == line \o CRLF
           m == IF p.file THEN 1 ELSE 0
<1>1. p.data \in Text /\ p.file \in BOOLEAN
  OBVIOUS
<1>2. /\ one \in Text /\ Len(one) = 1 /\ one[1] = "file"
      /\ two \in Text /\ Len(two) = 1 /\ two[1] = "type" /\ no \in Text /\ Len(no) = 1 /\ no[1] = "field"
  BY CellsAssumption, Words
<1>3. PartText(p) = lines \o p.data
  BY DEF PartText
<1> HIDE DEF one, two, no
<1>4. Count(two) = 0 /\ Count(no) = 0
  <2>1. \A i \in 1..1 : i = 1
    OBVIOUS
  <2>2. \A i \in 1..Len(two) : two[i] # "file"
    BY <1>2, <2>1
  <2>3. \A i \in 1..Len(no) : no[i] # "file"
    BY <1>2, <2>1
  <2>4. QED
    BY <1>2, <2>2, <2>3, CountNone
<1>5. Count(CRLF) = 0
  <2>1. \A i \in 1..Len(CRLF) : CRLF[i] # "file"
    <3>1. CR # "file" /\ LF # "file"
      BY DEF CR, LF
    <3>2. \A i \in 1..2 : i = 1 \/ i = 2
      OBVIOUS
    <3>3. QED
      BY <3>1, <3>2, CRLFIs
  <2>2. QED
    BY <2>1, CRLFIs, CountNone
<1>6. Count(p.data) = 0
  <2>1. \A i \in 1..Len(p.data) : p.data[i] # "file"
    BY <1>1, TextLen DEF Without
  <2>2. QED
    BY <1>1, <2>1, CountNone
<1>7. Count(one) <= 1 /\ Count(one) \in Nat
  <2>1. FileCells(one, 1) \subseteq {1}
    BY DEF FileCells
  <2>2. IsFiniteSet({1}) /\ Cardinality({1}) = 1
    BY FS_Singleton
  <2>3. IsFiniteSet(FileCells(one, 1)) /\ Cardinality(FileCells(one, 1)) <= 1 /\ Cardinality(FileCells(one, 1)) \in Nat
    BY <2>1, <2>2, FS_Subset, FS_CardinalityType
  <2>4. QED
    BY <1>2, <2>3 DEF Count
<1>8. oc \in Text /\ Count(oc) \in Nat /\ Count(oc) <= 1
  <2>1. oc \in Text
    BY <1>2, CRLFIs, CatText
  <2>2. Count(oc) \in Nat /\ Count(oc) <= Count(one) + Count(CRLF)
    BY <1>2, CRLFIs, CountCat
  <2>3. QED
    BY <1>5, <1>7, <2>1, <2>2
<1> HIDE DEF oc
<1>9. head \in Text /\ Count(head) \in Nat /\ Count(head) <= m
  <2>1. CASE p.file
    <3>1. head = oc \o two /\ m = 1
      BY <2>1
    <3>2. oc \o two \in Text /\ Count(oc \o two) \in Nat /\ Count(oc \o two) <= Count(oc) + Count(two)
      BY <1>2, <1>8, CatText, CountCat
    <3> HIDE DEF head, m
    <3>3. QED
      BY <1>4, <1>8, <3>1, <3>2
  <2>2. CASE ~p.file
    <3>1. head = no /\ m = 0
      BY <2>2
    <3> HIDE DEF head, m
    <3>2. QED
      BY <1>2, <1>4, <3>1
  <2>3. QED
    BY <2>1, <2>2
<1>10. m \in Nat
  OBVIOUS
<1> HIDE DEF head
<1>11. line \in Text /\ Count(line) \in Nat /\ Count(line) <= Count(head) + Count(CRLF)
  BY <1>9, CRLFIs, CatText, CountCat
<1> HIDE DEF line
<1>12. lines \in Text /\ Count(lines) \in Nat /\ Count(lines) <= Count(line) + Count(CRLF)
  BY <1>11, CRLFIs, CatText, CountCat
<1> HIDE DEF lines
<1> DEFINE all == lines \o p.data
<1>13. all \in Text /\ Count(all) \in Nat /\ Count(all) <= Count(lines) + Count(p.data)
  BY <1>1, <1>12, CatText, CountCat
<1> HIDE DEF all, m
<1>14. Count(all) <= m
  BY <1>5, <1>6, <1>9, <1>10, <1>11, <1>12, <1>13
<1>15. QED
  BY <1>3, <1>13, <1>14 DEF all, m

LEMMA MarksCount ==
  Count(FIRST) = 0 /\ Count(NORMAL) = 0 /\ Count(LAST) = 0
<1>1. \A t \in {FIRST, NORMAL, LAST} : t \in Text /\ \A k \in 1..Len(t) : t[k] # "file"
  BY MarkCells, MarksAre
<1>2. QED
  BY <1>1, CountNone

LEMMA PartsTextIs ==
  ASSUME NEW ps \in Seq([file : BOOLEAN, data : Text]), ps # <<>>, \A k \in DOMAIN ps : Without(ps[k].data, {"file"})
  PROVE  /\ PartsText(ps) \in Text
         /\ Count(PartsText(ps)) <= Cardinality({k \in DOMAIN ps : ps[k].file})
<1> DEFINE n == Len(ps)
           D == 1..n
           A(x, k) == (IF k = 1 THEN FIRST ELSE x \o NORMAL) \o PartText(ps[k])
           B(g, k) == (IF k = 1 THEN FIRST ELSE g[k - 1] \o NORMAL) \o PartText(ps[k])
           Eq(g) == g = [k \in D |-> B(g, k)]
           c == CHOOSE g : Eq(g)
           F == [k \in 1..n |-> [x \in Text |-> A(x, k)]]
           P == [file : BOOLEAN, data : Text]
<1>1. n \in Nat /\ n # 0 /\ DOMAIN ps = 1..n /\ \A k \in 1..n : ps[k] \in P /\ Without(ps[k].data, {"file"})
  <2> HIDE DEF P
  <2>1. ps \in Seq(P)
    BY DEF P
  <2>2. QED
    BY <2>1
<1>2. \A k \in 1..n : PartText(ps[k]) \in Text /\ Count(PartText(ps[k])) <= IF ps[k].file THEN 1 ELSE 0
  <2> HIDE DEF n
  <2>1. QED
    BY <1>1, PartTextIs
<1>3. \A k \in 1..n, x \in Text : A(x, k) \in Text
  <2> SUFFICES ASSUME NEW k \in 1..n, NEW x \in Text
               PROVE  A(x, k) \in Text
    OBVIOUS
  <2>1. x \o NORMAL \in Text /\ FIRST \in Text
    BY MarksAre, CatText
  <2>2. QED
    BY <1>2, <2>1, CatText
<1>4. F \in [1..n -> [Text -> Text]]
  <2> HIDE DEF A
  <2> QED
    BY <1>3
<1>5. PICK f \in [0..n -> Text] : GoesUp(f, n, <<>>, F)
  <2>1. <<>> \in Text
    BY Words
  <2> HIDE DEF F, n
  <2> QED
    BY <1>1, <1>4, <2>1, RecursionUp
<1> DEFINE h == [k \in D |-> f[k]]
<1>6. \A k \in D : h[k] = B(h, k)
  <2>1. \A k \in 1..n : f[k] = F[k][f[k - 1]]
    BY <1>5 DEF GoesUp
  <2>2. \A k \in 1..n : f[k - 1] \in Text
    <3>1. \A k \in 1..n : k - 1 \in 0..n
      BY <1>1
    <3> HIDE DEF n
    <3>2. QED
      BY <1>5, <3>1
  <2>3. \A k \in 1..n : f[k] = A(f[k - 1], k)
    <3> HIDE DEF A
    <3> QED
      BY <2>1, <2>2
  <2>4. \A k \in 1..n : B(h, k) = A(f[k - 1], k)
    <3>1. \A k \in 1..n : k # 1 => k - 1 \in D
      BY <1>1
    <3>2. \A k \in 1..n : k # 1 => h[k - 1] = f[k - 1]
      <4> HIDE DEF D
      <4> QED
        BY <3>1
    <3> HIDE DEF h, D
    <3>3. QED
      BY <3>2
  <2> HIDE DEF F, A, B
  <2>5. QED
    BY <2>3, <2>4
<1>7. Eq(h)
  <2> HIDE DEF B
  <2>1. h = [k \in D |-> h[k]]
    OBVIOUS
  <2> HIDE DEF h
  <2>2. QED
    BY <1>6, <2>1
<1>8. Eq(c)
  <2> HIDE DEF Eq, h
  <2> QED
    BY <1>7
<1>9. PartsText(ps) = c[n] \o LAST
  BY DEF PartsText
<1> HIDE DEF c, h
<1>10. \A k \in D : c[k] = B(c, k)
  <2> HIDE DEF B
  <2> QED
    BY <1>8
<1> HIDE DEF Eq, F
<1> DEFINE w == [j \in 1..n |-> IF ps[j].file THEN "file" ELSE "field"]
           Files(k) == Cardinality(FileCells(w, k))
           T == {k \in 0..n : k = 0 \/ (c[k] \in Text /\ Count(c[k]) <= Files(k))}
<1>11. 0 \in T
  BY <1>1
<1>12. ASSUME NEW k \in 1..n, k - 1 \in T
       PROVE  k \in T
  <2> DEFINE p == PartText(ps[k])
             before == IF k = 1 THEN FIRST ELSE c[k - 1] \o NORMAL
             m == k - 1
             z == before \o p
  <2>1. c[k] = z
    <3>1. c[k] = B(c, k)
      BY <1>10
    <3> HIDE DEF c
    <3>2. QED
      BY <3>1
  <2>2. p \in Text /\ Count(p) <= IF ps[k].file THEN 1 ELSE 0
    BY <1>2
  <2>3. m \in Nat /\ k \in Nat /\ m <= k /\ m + 1 = k
    BY <1>1
  <2>4. /\ Files(m) \in Nat /\ Files(k) \in Nat /\ Files(m) <= Files(k)
        /\ (\E j \in (m + 1)..k : w[j] = "file") => Files(m) + 1 <= Files(k)
    <3> HIDE DEF m, w, n
    <3> QED
      BY <2>3, FileCellsAre
  <2>5. before \in Text /\ Count(before) \in Nat /\ Count(before) <= Files(m)
    <3>1. CASE k = 1
      <4>1. before = FIRST
        BY <3>1
      <4> HIDE DEF before
      <4>2. FIRST \in Text /\ Count(FIRST) = 0
        BY MarksAre, MarksCount
      <4> HIDE DEF Files
      <4>3. QED
        BY <2>4, <4>1, <4>2
    <3>2. CASE k # 1
      <4>1. before = c[m] \o NORMAL
        BY <3>2
      <4>2. m # 0
        BY <1>1, <3>2
      <4>3. c[m] \in Text /\ Count(c[m]) <= Files(m)
        BY <1>12, <4>2
      <4> HIDE DEF before, Files
      <4>4. NORMAL \in Text /\ Count(NORMAL) = 0
        BY MarksAre, MarksCount
      <4> HIDE DEF m
      <4>5. before \in Text /\ Count(before) \in Nat /\ Count(c[m]) \in Nat /\ Count(before) <= Count(c[m]) + Count(NORMAL)
        BY <4>1, <4>3, <4>4, CatText, CountCat
      <4>6. QED
        BY <2>4, <4>3, <4>4, <4>5
    <3>3. QED
      BY <3>1, <3>2
  <2> HIDE DEF before
  <2>6. z \in Text /\ Count(z) \in Nat /\ Count(p) \in Nat /\ Count(z) <= Count(before) + Count(p)
    <3> HIDE DEF p
    <3> QED
      BY <2>2, <2>5, CatText, CountCat
  <2>7. Count(before) + Count(p) <= Files(k)
    <3>1. CASE ps[k].file
      <4>1. w[k] = "file" /\ k \in (m + 1)..k
        BY <2>3, <3>1
      <4>2. Count(p) <= 1
        BY <2>2, <3>1
      <4>3. Files(m) + 1 <= Files(k)
        <5> HIDE DEF m, Files, w
        <5> QED
          BY <2>4, <4>1
      <4> HIDE DEF p, Files, w, m
      <4>4. QED
        BY <2>4, <2>5, <2>6, <4>2, <4>3
    <3>2. CASE ~ps[k].file
      <4>1. Count(p) <= 0
        BY <2>2, <3>2
      <4> HIDE DEF p, Files, w, m
      <4>2. QED
        BY <2>4, <2>5, <2>6, <4>1
    <3>3. QED
      BY <3>1, <3>2
  <2>8. k \in 0..n
    BY <1>1
  <2>9. Count(z) <= Files(k)
    <3> HIDE DEF z, p, Files
    <3> QED
      BY <2>4, <2>5, <2>6, <2>7
  <2> HIDE DEF z, Files
  <2>10. QED
    BY <2>1, <2>6, <2>8, <2>9
<1>13. \A k \in 0..n : k \in T
  <2> HIDE DEF T, n
  <2> QED
    BY <1>1, <1>11, <1>12, UpTo
<1>14. c[n] \in Text /\ Count(c[n]) <= Files(n)
  <2>1. n \in 0..n
    BY <1>1
  <2>2. QED
    BY <1>1, <1>13, <2>1
<1>15. FileCells(w, n) = {k \in DOMAIN ps : ps[k].file}
  <2>1. \A k \in 1..n : (w[k] = "file") <=> ps[k].file
    BY "file" # "field"
  <2>2. FileCells(w, n) = {k \in 1..n : ps[k].file}
    <3> HIDE DEF w, n
    <3> QED
      BY <2>1 DEF FileCells
  <2>3. QED
    BY <1>1, <2>2
<1>16. LAST \in Text /\ Count(LAST) = 0
  BY MarksAre, MarksCount
<1> DEFINE last == c[n]
<1>17. last \o LAST \in Text /\ Count(last \o LAST) <= Count(last) + Count(LAST) /\ Count(last) \in Nat /\ Count(last \o LAST) \in Nat
  <2>1. last \in Text
    BY <1>14
  <2> HIDE DEF last
  <2>2. QED
    BY <1>16, <2>1, CatText, CountCat
<1>18. Files(n) \in Nat
  <2> HIDE DEF w, n
  <2>1. n <= n
    BY <1>1
  <2>2. QED
    BY <1>1, <2>1, FileCellsAre
<1>19. Count(last \o LAST) <= Files(n)
  <2>1. Count(last) <= Files(n)
    BY <1>14
  <2> HIDE DEF last, Files
  <2>2. QED
    BY <1>16, <1>17, <1>18, <2>1
<1>20. Files(n) = Cardinality({k \in DOMAIN ps : ps[k].file})
  BY <1>15
<1>21. QED
  BY <1>9, <1>17, <1>19, <1>20

\* What a client sends is text, and has no more lines with a file name than
\* the request has file parts.
LEMMA WireIs ==
  ASSUME NEW r \in Asks
  PROVE  /\ Wire[r] \in Text /\ Len(Wire[r]) \in Nat
         /\ Cardinality(FileCells(Wire[r], Len(Wire[r]))) \in Nat /\ Cardinality(FileParts(r)) \in Nat
         /\ Cardinality(FileCells(Wire[r], Len(Wire[r]))) <= Cardinality(FileParts(r))
<1> DEFINE h == HeadText(r)
           b == BodyText(r)
<1>1. r \in Request /\ PartsFit(r)
  BY AsksAssumption
<1>2. Wire[r] = h \o b
  BY DEF Wire
<1>3. h \in Text
  BY <1>1, HeadTextType
<1>4. r.form \in Seq(FormField) /\ r.parts \in Seq([file : BOOLEAN, data : Text])
  BY <1>1 DEF Request
<1> DEFINE f == FormText(r.form)
<1>5. f \in Text
  BY <1>4, FormTextType
<1>6. Count(h) = 0 /\ Count(f) = 0
  <2>1. Without(h \o f, {"file"})
    BY <1>1 DEF PartsFit
  <2> HIDE DEF h, f
  <2>2. h \o f \in Text /\ Len(h \o f) = Len(h) + Len(f)
        /\ \A i \in 1..(Len(h) + Len(f)) : (h \o f)[i] = IF i <= Len(h) THEN h[i] ELSE f[i - Len(h)]
    BY <1>3, <1>5, CatText
  <2>3. Len(h) \in Nat /\ Len(f) \in Nat /\ DOMAIN (h \o f) = 1..(Len(h) + Len(f))
    BY <1>3, <1>5, <2>2, TextLen
  <2>4. \A i \in 1..(Len(h) + Len(f)) : (h \o f)[i] # "file"
    BY <2>1, <2>3 DEF Without
  <2>5. \A i \in 1..Len(h) : h[i] # "file"
    BY <2>2, <2>3, <2>4
  <2>6. \A i \in 1..Len(f) : f[i] # "file"
    <3> SUFFICES ASSUME NEW i \in 1..Len(f)
                 PROVE  f[i] # "file"
      OBVIOUS
    <3>1. Len(h) + i \in 1..(Len(h) + Len(f)) /\ ~(Len(h) + i <= Len(h)) /\ Len(h) + i - Len(h) = i
      BY <2>3
    <3>2. QED
      BY <2>2, <2>4, <3>1
  <2>7. QED
    BY <1>3, <1>5, <2>5, <2>6, CountNone
<1> HIDE DEF h
<1>7. IsFiniteSet(FileParts(r)) /\ Cardinality(FileParts(r)) \in Nat
  <2>1. FileParts(r) \subseteq 1..Len(r.parts) /\ Len(r.parts) \in Nat
    <3>1. DOMAIN r.parts = 1..Len(r.parts) /\ Len(r.parts) \in Nat
      BY <1>4
    <3>2. QED
      BY <3>1 DEF FileParts
  <2>2. IsFiniteSet(1..Len(r.parts))
    BY <2>1, FS_Interval
  <2>3. QED
    BY <2>1, <2>2, FS_Subset, FS_CardinalityType
<1>8. b \in Text /\ Count(b) \in Nat /\ Count(b) <= Cardinality(FileParts(r))
  <2>1. CASE r.parts # <<>>
    <3>1. b = PartsText(r.parts)
      BY <2>1 DEF BodyText
    <3>2. \A k \in DOMAIN r.parts : Without(r.parts[k].data, {"file"})
      BY <1>1 DEF PartsFit
    <3>3. b \in Text /\ Count(b) <= Cardinality({k \in DOMAIN r.parts : r.parts[k].file})
      BY <1>4, <2>1, <3>1, <3>2, PartsTextIs
    <3> HIDE DEF b
    <3>4. Count(b) \in Nat
      BY <3>3, Words, CountCat
    <3>5. QED
      BY <3>3, <3>4 DEF FileParts
  <2>2. CASE r.parts = <<>>
    <3>1. b = f
      BY <2>2 DEF BodyText
    <3> HIDE DEF b, f
    <3>2. QED
      BY <1>5, <1>6, <1>7, <3>1
  <2>3. QED
    BY <2>1, <2>2
<1> HIDE DEF b
<1>9. h \o b \in Text /\ Count(h \o b) \in Nat /\ Count(h) \in Nat /\ Count(h \o b) <= Count(h) + Count(b)
  BY <1>3, <1>8, CatText, CountCat
<1> DEFINE w == h \o b
<1> HIDE DEF w
<1>10. w \in Text /\ Len(w) \in Nat
  BY <1>9, TextLen DEF w
<1>11. Count(w) \in Nat /\ Count(w) <= Cardinality(FileParts(r))
  BY <1>6, <1>7, <1>8, <1>9 DEF w
<1>12. Wire[r] = w
  BY <1>2 DEF w
<1>13. QED
  BY <1>7, <1>10, <1>11, <1>12 DEF Count

-----------------------------------------------------------------------------
(* Reading.                                                                *)

LEMMA MinTwo ==
  ASSUME NEW a \in Int, NEW b \in Int
  PROVE  Min({a, b}) = IF a <= b THEN a ELSE b
<1> DEFINE S == {a, b}
           m == IF a <= b THEN a ELSE b
           c == CHOOSE x \in S : \A y \in S : x <= y
<1>1. m \in S /\ \A y \in S : m <= y
  OBVIOUS
<1>2. c \in S /\ \A y \in S : c <= y
  <2> HIDE DEF m, S
  <2> QED
    BY <1>1
<1>3. c = m
  <2> HIDE DEF c
  <2> QED
    BY <1>2
<1>4. QED
  BY <1>3 DEF Min

\* What a read returns: the next cells, as many as have arrived and fit.
LEMMA Next1Is ==
  ASSUME ask \in Asks, sent \in 0..Len(Wire[ask]), got \in 0..sent, NEW room \in Int, room >= -1
  PROVE  /\ Next1(room) \in Text /\ Len(Next1(room)) \in Nat
         /\ got + Len(Next1(room)) <= sent /\ (room >= 0 => Len(Next1(room)) <= room) /\ (room < 0 => Len(Next1(room)) = 0)
         /\ \A i \in 1..Len(Next1(room)) : Next1(room)[i] = Wire[ask][got + i]
<1> DEFINE W == Wire[ask]
           m == got + 1
           n == Min({sent, got + room})
           t == Next1(room)
<1>1. W \in Text /\ Len(W) \in Nat
  BY WireIs
<1> HIDE DEF W
<1>2. sent \in Nat /\ sent <= Len(W) /\ got \in Nat /\ got <= sent /\ got + room \in Int
  BY <1>1 DEF W
<1>3. n = IF sent <= got + room THEN sent ELSE got + room
  BY <1>2, MinTwo
<1>4. n \in Int /\ n <= sent /\ n <= got + room /\ m \in Nat \ {0} /\ n - m + 1 = n - got
  BY <1>2, <1>3
<1>5. t = SubSeq(W, m, n)
  BY DEF Next1, W
<1> HIDE DEF n, m, t
<1>6. \A i \in m..n : W[i] \in Cells
  BY <1>1, <1>2, <1>4, TextLen
<1>7. t \in Text /\ Len(t) = (IF m <= n THEN n - m + 1 ELSE 0) /\ \A i \in 1..(n - m + 1) : t[i] = W[m + i - 1]
  BY <1>4, <1>5, <1>6, SubSeqProperties DEF Text
<1>8. Len(t) \in Nat /\ got + Len(t) <= sent /\ (room >= 0 => Len(t) <= room) /\ (room < 0 => Len(t) = 0)
  BY <1>2, <1>4, <1>7 DEF m
<1>9. \A i \in 1..Len(t) : t[i] = W[got + i]
  <2>1. \A i \in 1..Len(t) : i \in 1..(n - m + 1)
    BY <1>4, <1>7
  <2>2. \A i \in 1..Len(t) : m + i - 1 = got + i
    BY <1>2, <1>8 DEF m
  <2>3. QED
    BY <1>7, <2>1, <2>2
<1>10. QED
  BY <1>7, <1>8, <1>9 DEF t, W

LEMMA SameAt ==
  ASSUME NEW w, NEW z, NEW a, NEW b, a = b, NEW x, x \in {w[a], z}
  PROVE  x \in {w[b], z}
OBVIOUS

LEMMA ReceivedWindow ==
  ASSUME NEW t, SessionOK(t), NEW w, NEW g \in Nat, Window(t, w, g), NEW cells \in Text, t.off + Len(cells) <= BufSize,
         \A i \in 1..Len(cells) : cells[i] = w[g + i]
  PROVE  Window(Received(t, cells), w, g + Len(cells))
<1> DEFINE r == Received(t, cells)
           l == Len(cells)
<1>1. r.off = t.off + l
      /\ \A i \in 1..(t.off + l) : r.buf[i] = IF i <= t.off THEN t.buf[i] ELSE cells[i - t.off]
  BY ReceivedIs
<1>2. t.off \in Nat /\ l \in Nat /\ t.off <= g
  BY SessionFields, TextLen DEF Window
<1> HIDE DEF r, l
<1>3. r.off <= g + l
  BY <1>1, <1>2
<1>4. ASSUME NEW i \in 1..r.off
      PROVE  r.buf[i] \in {w[g + l - r.off + i], NUL}
  <2>1. g + l - r.off + i = g - t.off + i
    BY <1>1, <1>2
  <2>2. CASE i <= t.off
    <3>1. i \in 1..t.off /\ r.buf[i] = t.buf[i]
      BY <1>1, <1>2, <2>2
    <3>2. QED
      BY <2>1, <3>1 DEF Window
  <2>3. CASE ~(i <= t.off)
    <3>1. i - t.off \in 1..l /\ r.buf[i] = cells[i - t.off] /\ g + (i - t.off) = g - t.off + i
      BY <1>1, <1>2, <2>3
    <3>2. cells[i - t.off] = w[g + (i - t.off)]
      BY <3>1 DEF l
    <3>3. QED
      BY <2>1, <3>1, <3>2
  <2>4. QED
    BY <2>2, <2>3
<1>5. Window(r, w, g + l)
  <2> DEFINE m == g + l
  <2>0. m = g + l
    OBVIOUS
  <2>1. r.off <= m
    BY <1>3
  <2> HIDE DEF m
  <2>2. ASSUME NEW i \in 1..r.off
        PROVE  r.buf[i] \in {w[m - r.off + i], NUL}
    <3>1. r.buf[i] \in {w[g + l - r.off + i], NUL}
      BY <1>4
    <3>2. g + l - r.off + i = m - r.off + i
      BY <1>1, <1>2, <2>0
    <3>3. QED
      BY <3>1, <3>2, SameAt
  <2>3. Window(r, w, m)
    BY <2>1, <2>2 DEF Window
  <2>4. QED
    BY <2>3 DEF m
<1>6. QED
  BY <1>5 DEF r, l

\* A session that was read for or that was dispatched.
Dispatch(t, v) ==
  /\ SessionOK(v) /\ v.off = t.off /\ \A w, g : Window(t, w, g) => Window(v, w, g)
  /\ v.stale = t.stale
  /\ v.ops = "default" => Parsing(v) /\ v.phase # "RESPONSE"
  /\ v.ops = "upload" => v.phase = "RESPONSE" /\ v.off = Len(v.buf) /\ v.req = t.req

LEMMA DispatchedType ==
  ASSUME NEW t, Parsing(t) \/ Lost(t)
  PROVE  Dispatch(t, Dispatched(t))
<1> DEFINE v == Dispatched(t)
<1>1. SessionOK(t) /\ t \in SessionType /\ t.req \in RequestType /\ t.off \in Nat /\ t.buf \in Text
  BY SessionFields DEF Parsing, Lost
<1>2. CASE t.phase # "RESPONSE"
  <2>1. v = t
    BY <1>2 DEF Dispatched
  <2> HIDE DEF v
  <2>2. t.ops = "none" \/ t.ops = "default"
    BY DEF Parsing, Lost
  <2>3. t.ops = "default" => Parsing(t)
    BY DEF Parsing, Lost
  <2>4. QED
    BY <1>1, <1>2, <2>1, <2>2, <2>3 DEF Dispatch, v
<1>3. CASE t.phase = "RESPONSE" /\ t.req.method = "POST" /\ t.req.path = UploadUrl
  <2> DEFINE u == Trimmed(t)
  <2>1. v = [u EXCEPT !.ops = "upload"]
    BY <1>3 DEF Dispatched
  <2>2. SessionOK(u) /\ u \in SessionType /\ u.off = t.off /\ Len(u.buf) = t.off /\ u.phase = "RESPONSE" /\ u.req = t.req
        /\ u.stale = t.stale /\ \A i \in 1..t.off : u.buf[i] = t.buf[i]
    BY <1>1, <1>3, TrimmedIs DEF SameButBuffer, SessionOK
  <2> HIDE DEF u, v
  <2>3. v \in SessionType /\ v.off = u.off /\ v.buf = u.buf /\ v.phase = u.phase /\ v.req = u.req /\ v.stale = u.stale
        /\ v.ops = "upload"
    BY <2>1, <2>2 DEF SessionType
  <2>4. SessionOK(v)
    BY <2>2, <2>3 DEF SessionOK
  <2>5. ASSUME NEW w, NEW g, Window(t, w, g)
        PROVE  Window(v, w, g)
    BY <2>2, <2>3, <2>5 DEF Window
  <2>6. QED
    BY <2>2, <2>3, <2>4, <2>5 DEF Dispatch, v
<1>4. CASE t.phase = "RESPONSE" /\ ~(t.req.method = "POST" /\ t.req.path = UploadUrl)
  <2> DEFINE x == str_normalize_path(<<"/", "/">> \o t.req.path).text
             q == t.req
             k == [q EXCEPT !.path = x]
             t1 == [t EXCEPT !.ops = "none"]
  <2>1. v = [t EXCEPT !.ops = "none", !.req.path = x]
    BY <1>3, <1>4 DEF Dispatched
  <2>2. t.req.path \in Text
    BY <1>4 DEF Parsing, Lost
  <2>3. x \in Paths
    BY <2>2 DEF Paths
  <2> HIDE DEF x
  <2>4. v = [t1 EXCEPT !.req = k]
    <3> HIDE DEF v
    <3> QED
      BY <1>1, <2>1 DEF SessionType
  <2>5. k \in RequestType /\ k.qoff = q.qoff /\ k.clen = q.clen
    <3>1. q \in RequestType
      BY <1>1
    <3> HIDE DEF q
    <3>2. QED
      BY <2>3, <3>1 DEF RequestType
  <2>6. t1 \in SessionType /\ t1.ops = "none" /\ t1.off = t.off /\ t1.buf = t.buf /\ t1.phase = t.phase /\ t1.stale = t.stale
    BY <1>1 DEF SessionType
  <2> HIDE DEF k, t1, v
  <2>7. v \in SessionType /\ v.ops = "none" /\ v.off = t.off /\ v.buf = t.buf /\ v.phase = t.phase /\ v.stale = t.stale
        /\ v.req = k
    BY <2>4, <2>5, <2>6 DEF SessionType
  <2>8. SessionOK(v)
    BY <1>1, <2>5, <2>7 DEF SessionOK
  <2>9. QED
    BY <2>7, <2>8 DEF Dispatch, Window, v
<1>5. QED
  BY <1>2, <1>3, <1>4

-----------------------------------------------------------------------------
(* The inductive invariant.                                                *)

\* The lines with a file name among the first n cells the client sends.
FilesUpTo(n) == Cardinality(FileCells(Wire[ask], n))

\* What was received and is not taken is the end of what was read.  Before
\* its upload begins a session has none; an upload that goes on has opened no
\* more files than there are lines with a file name in front of its buffer.
ClientInv ==
  /\ ask \in Asks /\ sent \in 0..Len(Wire[ask]) /\ got \in 0..sent /\ gone \in BOOLEAN /\ split \in BOOLEAN
SessionInv ==
  /\ SessionOK(s) /\ (s.ops # "none" => Window(s, Wire[ask], got))
  /\ s.ops = "default" => Parsing(s) /\ s.phase # "RESPONSE" /\ up = NewUpload
  /\ s.ops = "upload" => s.phase = "RESPONSE" /\ s.off = Len(s.buf)
UploadInv ==
  /\ up \in UploadType /\ up.opens = up.closes + (IF up.opened THEN 1 ELSE 0)
  /\ up.done \in 0..1 /\ up.opens <= FilesUpTo(got)
  /\ s.ops = "upload" => up.done = 0 /\ up.opens <= FilesUpTo(got - s.off)
  /\ s.ops = "none" /\ s.phase # "FAULT" => ~up.opened

ReceiveInv == ClientInv /\ SessionInv /\ UploadInv

LEMMA FilesGrow ==
  ASSUME NEW n \in Nat, NEW m \in Nat, n <= m
  PROVE  FilesUpTo(n) \in Nat /\ FilesUpTo(m) \in Nat /\ FilesUpTo(n) <= FilesUpTo(m)
BY FileCellsAre DEF FilesUpTo

LEMMA NewUploadIs ==
  /\ NewUpload \in UploadType /\ NewUpload.opens = 0 /\ NewUpload.closes = 0 /\ NewUpload.opened = FALSE
  /\ NewUpload.done = 0 /\ NewUpload.state = "more" /\ NewUpload.at = 1 /\ NewUpload.file = <<>>
<1>1. <<>> \in Text /\ <<>> \in Seq(Opt(Text))
  BY Words
<1>2. QED
  BY <1>1 DEF NewUpload, UploadType

LEMMA ReceiveInit ==
  ASSUME Init
  PROVE  ReceiveInv
<1>1. ask \in Asks /\ sent = 0 /\ got = 0 /\ gone = FALSE /\ split = FALSE /\ s = NewSession /\ up = NewUpload
  BY DEF Init
<1>2. ClientInv
  <2>1. Len(Wire[ask]) \in Nat
    BY <1>1, WireIs
  <2>2. 0 \in 0..Len(Wire[ask]) /\ 0 \in 0..0
    BY <2>1
  <2>3. QED
    BY <1>1, <2>2 DEF ClientInv
<1>3. Parsing(s) /\ s.off = 0 /\ s.phase = "METHOD"
  BY <1>1, NewSessionIs
<1>4. SessionInv
  <2>1. SessionOK(s) /\ s.ops = "default"
    BY <1>3 DEF Parsing
  <2>2. Window(s, Wire[ask], got)
    BY <1>1, <1>3 DEF Window
  <2>3. QED
    BY <1>1, <1>3, <2>1, <2>2 DEF SessionInv
<1>5. UploadInv
  <2>1. up \in UploadType /\ up.opens = 0 /\ up.closes = 0 /\ up.opened = FALSE /\ up.done = 0
    BY <1>1, NewUploadIs
  <2>2. 0 <= FilesUpTo(got)
    <3>1. got \in Nat /\ got <= got
      BY <1>1
    <3>2. QED
      BY <3>1, FilesGrow
  <2>3. s.ops = "default"
    BY <1>3 DEF Parsing
  <2>4. QED
    BY <2>1, <2>2, <2>3 DEF UploadInv
<1>6. QED
  BY <1>2, <1>4, <1>5 DEF ReceiveInv

LEMMA ReadRequestInv ==
  ASSUME ReceiveInv, ReadRequest
  PROVE  ReceiveInv'
<1> DEFINE W     == Wire[ask]
           room  == BufSize - s.off
           cells == Next1(room)
           h     == HandleRead(s, cells)
           gw    == got + Len(cells)
<1>1. /\ ask \in Asks /\ sent \in 0..Len(W) /\ got \in 0..sent /\ gone \in BOOLEAN /\ split \in BOOLEAN
      /\ Parsing(s) /\ s.phase # "RESPONSE" /\ up = NewUpload /\ SessionOK(s) /\ Window(s, W, got)
  BY DEF ReadRequest, ReceiveInv, ClientInv, SessionInv, Parsing
<1>2. /\ ask' = ask /\ sent' = sent /\ gone' = gone /\ up' = up /\ split' = split /\ got' = gw
      /\ \E t \in Outcomes(h) : s' = IF t.phase = "CLOSE" THEN [t EXCEPT !.ops = "none"] ELSE Dispatched(t)
  BY DEF ReadRequest
<1>3. s.off \in Nat /\ s.off <= BufSize /\ BufSize \in Nat /\ room \in Int /\ room >= 0 /\ W \in Text /\ Len(W) \in Nat
      /\ got \in Nat /\ sent \in Nat /\ got <= sent
  BY <1>1, SessionFields, WireIs
<1>4. /\ cells \in Text /\ Len(cells) \in Nat /\ gw <= sent /\ Len(cells) <= room
      /\ \A i \in 1..Len(cells) : cells[i] = W[got + i]
  <2> HIDE DEF room
  <2>1. room >= -1
    BY <1>3
  <2>2. QED
    BY <1>1, <1>3, <2>1, Next1Is
<1>5. s.off + Len(cells) <= BufSize /\ gw \in Nat /\ gw >= got
  BY <1>3, <1>4
<1> HIDE DEF W, room, cells
<1>6. PICK t \in Outcomes(h) : s' = IF t.phase = "CLOSE" THEN [t EXCEPT !.ops = "none"] ELSE Dispatched(t)
  BY <1>2
<1>7. /\ SessionOK(s') /\ Window(s', W, gw)
      /\ s'.ops = "default" => Parsing(s') /\ s'.phase # "RESPONSE"
      /\ s'.ops = "upload" => s'.phase = "RESPONSE" /\ s'.off = Len(s'.buf)
  <2>1. CASE cells # <<>>
    <3> DEFINE r == Received(s, cells)
    <3>1. h = Parsed(r)
      BY <2>1 DEF HandleRead
    <3>2. SessionOK(r) /\ SameButBuffer(r, s) /\ Window(r, W, gw)
      BY <1>1, <1>3, <1>4, <1>5, ReceivedIs, ReceivedWindow
    <3> HIDE DEF r, h, gw
    <3>3. Parsing(r)
      BY <1>1, <3>2 DEF Parsing, SameButBuffer
    <3>4. (Parsing(h) \/ Lost(h)) /\ Window(h, W, gw)
      BY <1>5, <3>1, <3>2, <3>3, ParsedType
    <3>5. (Parsing(t) \/ Lost(t)) /\ Window(t, W, gw)
      BY <1>5, <1>6, <3>4, OutcomesAre
    <3>6. t.phase # "CLOSE"
      BY <3>5 DEF Parsing, Lost
    <3>7. Dispatch(t, s')
      BY <1>6, <3>5, <3>6, DispatchedType
    <3>8. QED
      BY <3>5, <3>7 DEF Dispatch
  <2>2. CASE cells = <<>>
    <3>1. h = [s EXCEPT !.phase = "CLOSE"] /\ gw = got
      BY <1>3, <2>2, Words DEF HandleRead
    <3> HIDE DEF gw
    <3>2. h \in SessionType /\ h.phase = "CLOSE" /\ h.off = s.off /\ h.buf = s.buf /\ h.req = s.req /\ h.stale = s.stale
      BY <1>1, <3>1 DEF SessionOK, SessionType
    <3> HIDE DEF h
    <3>3. SessionOK(h)
      BY <1>1, <3>2 DEF SessionOK
    <3>4. t = h \/ t = [h EXCEPT !.undefined = FALSE] \/ t = Fault(h)
      BY DEF Outcomes
    <3>5. CASE t = Fault(h)
      <4>1. Lost(t) /\ t.buf = h.buf /\ t.off = h.off
        BY <3>3, <3>5, LostIs
      <4>2. t.phase # "CLOSE"
        BY <4>1 DEF Lost
      <4>3. Dispatch(t, s')
        BY <1>6, <4>1, <4>2, DispatchedType
      <4>4. Window(t, W, gw)
        BY <1>1, <3>1, <3>2, <4>1 DEF Window
      <4>5. QED
        BY <4>3, <4>4 DEF Dispatch
    <3>6. CASE t # Fault(h)
      <4>1. SessionOK(t) /\ t.buf = h.buf /\ t.off = h.off /\ t.phase = "CLOSE"
        <5>1. CASE t = h
          BY <3>2, <3>3, <5>1
        <5>2. CASE t = [h EXCEPT !.undefined = FALSE]
          BY <3>2, <3>3, <5>2, DoubtIs
        <5>3. QED
          BY <3>4, <3>6, <5>1, <5>2
      <4>2. s' = [t EXCEPT !.ops = "none"]
        BY <1>6, <4>1
      <4> DEFINE v == [t EXCEPT !.ops = "none"]
      <4>3. v \in SessionType /\ v.ops = "none" /\ v.buf = t.buf /\ v.off = t.off /\ v.req = t.req
        BY <4>1 DEF SessionOK, SessionType
      <4>4. s' = v
        BY <4>2
      <4> HIDE DEF v
      <4>5. SessionOK(v)
        BY <4>1, <4>3 DEF SessionOK
      <4>6. Window(v, W, gw)
        BY <1>1, <3>1, <3>2, <4>1, <4>3 DEF Window
      <4>7. QED
        BY <4>3, <4>4, <4>5, <4>6
    <3>7. QED
      BY <3>5, <3>6
  <2>3. QED
    BY <2>1, <2>2
<1> HIDE DEF gw
<1>8. ClientInv'
  <2>1. gw \in 0..sent
    BY <1>3, <1>4, <1>5
  <2>2. QED
    BY <1>1, <1>2, <2>1 DEF ClientInv, W
<1>9. SessionInv'
  BY <1>1, <1>2, <1>7 DEF SessionInv, W
<1>10. UploadInv'
  <2>1. up \in UploadType /\ up.opens = 0 /\ up.closes = 0 /\ up.opened = FALSE /\ up.done = 0
    BY <1>1, NewUploadIs
  <2>2. s'.off \in Nat /\ s'.off <= gw
    BY <1>7, SessionFields DEF Window
  <2>3. gw - s'.off \in Nat /\ gw - s'.off <= gw
    BY <1>5, <2>2
  <2>4. 0 <= FilesUpTo(gw) /\ 0 <= FilesUpTo(gw - s'.off)
    BY <1>5, <2>3, FilesGrow
  <2>5. FilesUpTo(got)' = FilesUpTo(gw) /\ FilesUpTo(got - s.off)' = FilesUpTo(gw - s'.off)
    BY <1>2 DEF FilesUpTo
  <2>6. QED
    BY <1>2, <2>1, <2>4, <2>5 DEF UploadInv
<1>11. QED
  BY <1>8, <1>9, <1>10 DEF ReceiveInv

\* What is left of the upload's buffer is the end of what was read.
LEMMA RestIs ==
  ASSUME NEW at \in Nat, NEW len \in Nat, NEW off \in Nat, NEW g \in Nat, NEW c \in Nat, NEW l \in Nat,
         1 <= at, at <= len + 1, len = off + l, c = g - off
  PROVE  /\ c + at - 1 \in Nat /\ g + l \in Nat /\ c + at - 1 <= g + l
         /\ \A n \in Nat : n = len - at + 1 => n <= len /\ n <= g + l /\ g + l - n = c + at - 1
         /\ \A n \in Nat, i \in Nat : n = len - at + 1 /\ 1 <= i /\ i <= n
               => at + i - 1 \in 1..(off + l) /\ c + (at + i - 1) = g + l - n + i
OBVIOUS

LEMMA ReadUploadInv ==
  ASSUME ReceiveInv, ReadUpload
  PROVE  ReceiveInv'
<1> DEFINE W     == Wire[ask]
           whole == HasFrom(s.buf, 1, LAST)
           room  == BufSize - s.off - 1
           cells == IF whole THEN <<>> ELSE Next1(room)
           l     == Len(cells)
           b     == s.buf \o cells
           v     == UploadLoop(up, b)
           ends  == v.state = "close" \/ (cells = <<>> /\ ~whole)
           lost  == v.state = "fault" \/ Endless(v, b)
           rest  == SubSeq(b, v.at, Len(b))
           c     == got - s.off
<1>1. /\ ask \in Asks /\ sent \in 0..Len(W) /\ got \in 0..sent /\ gone \in BOOLEAN /\ split \in BOOLEAN
      /\ SessionOK(s) /\ Window(s, W, got) /\ s.phase = "RESPONSE" /\ s.off = Len(s.buf) /\ s.ops = "upload"
      /\ up \in UploadType /\ up.opens = up.closes + (IF up.opened THEN 1 ELSE 0) /\ up.done = 0
      /\ up.opens <= FilesUpTo(c)
  BY DEF ReadUpload, ReceiveInv, ClientInv, SessionInv, UploadInv
<1>2. /\ ask' = ask /\ sent' = sent /\ gone' = gone /\ got' = got + l
      /\ up' = (IF ends /\ ~lost THEN UploadClose(v) ELSE v)
      /\ s' = (IF lost THEN Fault(s)
               ELSE IF ends THEN [s EXCEPT !.phase = "CLOSE", !.ops = "none"]
               ELSE [s EXCEPT !.buf = rest, !.off = Len(rest)])
      /\ split' = (split \/ (rest = <<>> /\ EndsBeforeBoundary(got + l)))
  BY DEF ReadUpload
<1> HIDE DEF lost
<1>3. s.off \in Nat /\ s.off <= BufSize /\ BufSize \in Nat /\ room \in Int /\ room >= -1 /\ W \in Text /\ Len(W) \in Nat
      /\ got \in Nat /\ sent \in Nat /\ got <= sent /\ s.off <= got /\ c \in Nat /\ s.buf \in Text
  <2>1. s.off \in Nat /\ s.off <= BufSize /\ BufSize \in Nat /\ s.buf \in Text /\ s.off <= got
    BY <1>1, SessionFields DEF Window
  <2>2. W \in Text /\ Len(W) \in Nat
    BY <1>1, WireIs
  <2> HIDE DEF W
  <2>3. QED
    BY <1>1, <2>1, <2>2
<1>4. /\ cells \in Text /\ l \in Nat /\ got + l <= sent /\ s.off + l <= BufSize
      /\ \A i \in 1..l : cells[i] = W[got + i]
  <2>1. CASE whole
    <3>1. cells = <<>>
      BY <2>1
    <3> HIDE DEF cells, room
    <3>2. cells \in Text /\ l = 0
      BY <3>1, Words
    <3> HIDE DEF l, W
    <3>3. QED
      BY <1>3, <3>2
  <2>2. CASE ~whole
    <3>1. cells = Next1(room)
      BY <2>2
    <3> HIDE DEF cells, whole
    <3>2. /\ Next1(room) \in Text /\ Len(Next1(room)) \in Nat
          /\ got + Len(Next1(room)) <= sent /\ (room >= 0 => Len(Next1(room)) <= room) /\ (room < 0 => Len(Next1(room)) = 0)
          /\ \A i \in 1..Len(Next1(room)) : Next1(room)[i] = W[got + i]
      <4> HIDE DEF room
      <4> QED
        BY <1>1, <1>3, Next1Is
    <3>3. s.off + l <= BufSize
      <4>1. l \in Nat /\ (room >= 0 => l <= room) /\ (room < 0 => l = 0)
        BY <3>1, <3>2
      <4> HIDE DEF l
      <4>2. QED
        BY <1>3, <4>1
    <3>4. QED
      BY <3>1, <3>2, <3>3
  <2>3. QED
    BY <2>1, <2>2
<1> HIDE DEF room, cells, l, ends, whole, W
<1>5. /\ b \in Text /\ Len(b) = s.off + l /\ \A i \in 1..(s.off + l) : b[i] \in {W[c + i], NUL}
  <2>1. b \in Text /\ Len(b) = Len(s.buf) + Len(cells)
        /\ \A i \in 1..(Len(s.buf) + Len(cells)) : b[i] = IF i <= Len(s.buf) THEN s.buf[i] ELSE cells[i - Len(s.buf)]
    BY <1>3, <1>4, CatText
  <2> HIDE DEF b
  <2>2. ASSUME NEW i \in 1..(s.off + l)
        PROVE  b[i] \in {W[c + i], NUL}
    <3>1. CASE i <= s.off
      <4>1. i \in 1..s.off /\ b[i] = s.buf[i]
        BY <1>1, <1>3, <1>4, <2>1, <3>1 DEF l
      <4>2. s.buf[i] \in {W[got - s.off + i], NUL}
        BY <1>1, <4>1 DEF Window
      <4>3. QED
        BY <4>1, <4>2
    <3>2. CASE ~(i <= s.off)
      <4>1. i - s.off \in 1..l /\ got + (i - s.off) = c + i
        BY <1>3, <1>4, <3>2
      <4>2. b[i] = cells[i - s.off]
        BY <1>1, <2>1, <3>2 DEF l
      <4>3. QED
        BY <1>4, <4>1, <4>2
    <3>3. QED
      BY <3>1, <3>2
  <2>3. Len(b) = s.off + l
    BY <1>1, <2>1 DEF l
  <2>4. QED
    BY <2>1, <2>2, <2>3
<1> HIDE DEF b
<1>6. \A i \in 1..Len(b) : b[i] = "file" => W[c + i] = "file"
  <2>1. NUL # "file"
    BY DEF NUL
  <2>2. QED
    BY <1>5, <2>1
<1>7. Moving(v, b) /\ v.opens <= FilesUpTo(c + v.at - 1)
  <2>1. up.opens <= Cardinality(FileCells(W, c))
    BY <1>1 DEF FilesUpTo, W
  <2> HIDE DEF c
  <2>2. Moving(v, b) /\ v.opens <= Cardinality(FileCells(W, c + v.at - 1))
    BY <1>1, <1>3, <1>5, <1>6, <2>1, LoopType
  <2>3. QED
    BY <2>2 DEF FilesUpTo, W
<1> HIDE DEF v
<1>8. v \in UploadType /\ v.at \in 1..(Len(b) + 1) /\ v.opens = v.closes + (IF v.opened THEN 1 ELSE 0) /\ v.opens \in Nat
      /\ v.done = (IF v.state = "close" THEN 1 ELSE 0)
  BY <1>7 DEF Moving, UploadOK, UploadType
<1>a. /\ v.at \in Nat \ {0} /\ Len(b) \in Nat /\ v.at <= Len(b) + 1 /\ Len(b) = s.off + l
      /\ c = got - s.off /\ c \in Nat /\ l \in Nat /\ s.off \in Nat /\ got \in Nat /\ BufSize \in Nat /\ s.off + l <= BufSize
  <2>1. Len(b) \in Nat
    BY <1>5, TextLen
  <2>2. v.at \in Nat \ {0} /\ v.at <= Len(b) + 1
    BY <1>8, <2>1
  <2>3. QED
    BY <1>3, <1>4, <1>5, <2>1, <2>2
<1> HIDE DEF c
<1>b. /\ c + v.at - 1 \in Nat /\ got + l \in Nat /\ c + v.at - 1 <= got + l
      /\ \A n \in Nat : n = Len(b) - v.at + 1 => n <= Len(b) /\ n <= got + l /\ got + l - n = c + v.at - 1
      /\ \A n \in Nat, i \in Nat : n = Len(b) - v.at + 1 /\ 1 <= i /\ i <= n
            => v.at + i - 1 \in 1..(s.off + l) /\ c + (v.at + i - 1) = got + l - n + i
  <2> DEFINE at == v.at
             len == Len(b)
             off == s.off
  <2>1. /\ at \in Nat /\ len \in Nat /\ off \in Nat /\ got \in Nat /\ c \in Nat /\ l \in Nat
        /\ 1 <= at /\ at <= len + 1 /\ len = off + l /\ c = got - off
    BY <1>a
  <2> HIDE DEF at, len, off
  <2>2. /\ c + at - 1 \in Nat /\ got + l \in Nat /\ c + at - 1 <= got + l
        /\ \A n \in Nat : n = len - at + 1 => n <= len /\ n <= got + l /\ got + l - n = c + at - 1
        /\ \A n \in Nat, i \in Nat : n = len - at + 1 /\ 1 <= i /\ i <= n
              => at + i - 1 \in 1..(off + l) /\ c + (at + i - 1) = got + l - n + i
    BY <2>1, RestIs
  <2>3. QED
    BY <2>2 DEF at, len, off
<1>9. FilesUpTo(c + v.at - 1) \in Nat /\ FilesUpTo(got + l) \in Nat /\ FilesUpTo(c + v.at - 1) <= FilesUpTo(got + l)
  <2> DEFINE p == c + v.at - 1
             q == got + l
  <2>1. p \in Nat /\ q \in Nat /\ p <= q
    BY <1>b
  <2> HIDE DEF p, q
  <2>2. FilesUpTo(p) \in Nat /\ FilesUpTo(q) \in Nat /\ FilesUpTo(p) <= FilesUpTo(q)
    BY <2>1, FilesGrow
  <2>3. QED
    BY <2>2 DEF p, q
<1>10. \A n : FilesUpTo(n)' = FilesUpTo(n)
  BY <1>2 DEF FilesUpTo
<1>11. ClientInv'
  <2>1. got + l \in 0..sent
    BY <1>3, <1>4
  <2>2. split' \in BOOLEAN
    BY <1>1, <1>2 DEF EndsBeforeBoundary
  <2>3. QED
    BY <1>1, <1>2, <2>1, <2>2 DEF ClientInv, W
<1>12. UploadInv' /\ SessionInv'
  <2>1. CASE lost
    <3>1. up' = v /\ s' = Fault(s)
      BY <1>2, <2>1
    <3>2. SessionOK(s') /\ s'.ops = "none" /\ s'.phase = "FAULT"
      BY <1>1, <3>1, LostIs DEF Lost
    <3>3. SessionInv'
      BY <3>2 DEF SessionInv
    <3>4. v.done \in 0..1
      BY <1>8
    <3>5. v.opens <= FilesUpTo(got + l)
      BY <1>7, <1>8, <1>9
    <3>6. UploadInv'
      BY <1>2, <1>8, <1>10, <3>1, <3>2, <3>4, <3>5 DEF UploadInv
    <3>7. QED
      BY <3>3, <3>6
  <2>2. CASE ~lost /\ ends
    <3> DEFINE u == UploadClose(v)
    <3>1. up' = u /\ s' = [s EXCEPT !.phase = "CLOSE", !.ops = "none"]
      BY <1>2, <2>2
    <3>2. SessionOK(s') /\ s'.ops = "none"
      BY <1>1, <3>1 DEF SessionOK, SessionType
    <3>3. u \in UploadType /\ u.opens = u.closes /\ u.opened = FALSE /\ u.opens = v.opens /\ u.done = v.done
      BY <1>8, UploadCloseType
    <3> HIDE DEF u
    <3>4. SessionInv'
      BY <3>2 DEF SessionInv
    <3>5. u.done \in 0..1
      BY <1>8, <3>3
    <3>6. u.opens <= FilesUpTo(got + l)
      BY <1>7, <1>8, <1>9, <3>3
    <3>7. u.opens = u.closes + (IF u.opened THEN 1 ELSE 0)
      BY <3>3 DEF UploadType
    <3>8. UploadInv'
      BY <1>2, <1>10, <3>1, <3>2, <3>3, <3>5, <3>6, <3>7 DEF UploadInv
    <3>9. QED
      BY <3>4, <3>8
  <2>3. CASE ~lost /\ ~ends
    <3> DEFINE n == Len(rest)
               t == [s EXCEPT !.buf = rest, !.off = n]
    <3>1. up' = v /\ s' = t
      BY <1>2, <2>3
    <3>2. /\ rest \in Text /\ n \in Nat /\ n = Len(b) - v.at + 1 /\ \A i \in 1..n : rest[i] = b[v.at + i - 1]
      <4>1. Len(b) \in Nat /\ v.at \in Nat \ {0}
        BY <1>5, <1>8, TextLen
      <4>2. /\ rest \in Text /\ n = (IF v.at <= Len(b) THEN Len(b) - v.at + 1 ELSE 0)
            /\ \A i \in 1..(Len(b) - v.at + 1) : rest[i] = b[v.at + i - 1]
        BY <1>5, <4>1, SubText
      <4> HIDE DEF n, rest
      <4>3. n = Len(b) - v.at + 1
        BY <1>8, <4>1, <4>2
      <4>4. n \in Nat
        BY <1>8, <4>1, <4>3
      <4>5. QED
        BY <4>2, <4>3, <4>4
    <3> HIDE DEF rest, n
    <3>3. n <= BufSize /\ n <= got + l /\ got + l - n = c + v.at - 1
      <4>1. n \in Nat /\ n = Len(b) - v.at + 1
        BY <3>2
      <4>2. n <= Len(b) /\ n <= got + l /\ got + l - n = c + v.at - 1
        BY <1>b, <4>1
      <4>3. n <= s.off + l
        BY <1>a, <4>2
      <4>4. n <= BufSize
        <5> HIDE DEF t
        <5>1. \A x, y, z \in Nat : x <= y /\ y <= z => x <= z
          OBVIOUS
        <5>2. s.off + l \in Nat
          BY <1>a
        <5>3. QED
          BY <1>a, <4>1, <4>3, <5>1, <5>2
      <4>5. QED
        BY <4>2, <4>4
    <3>4. t \in SessionType /\ t.buf = rest /\ t.off = n /\ t.phase = s.phase /\ t.ops = s.ops /\ t.req = s.req
      BY <1>1, <3>2 DEF SessionOK, SessionType
    <3> HIDE DEF t
    <3>5. SessionOK(t) /\ t.off = Len(t.buf)
      BY <1>1, <3>2, <3>3, <3>4 DEF SessionOK, n
    <3> DEFINE g == got + l
    <3>6. Window(t, W, g)
      <4>1. t.off <= g
        BY <3>3, <3>4
      <4>2. ASSUME NEW i \in 1..t.off
            PROVE  t.buf[i] \in {W[g - t.off + i], NUL}
        <5>1. v.at + i - 1 \in 1..(s.off + l) /\ c + (v.at + i - 1) = g - t.off + i
          <6>1. i \in Int /\ 1 <= i /\ i <= n /\ t.off = n
            BY <3>2, <3>4
          <6> HIDE DEF t
          <6>2. n \in Nat /\ n = Len(b) - v.at + 1
            BY <3>2
          <6>3. i \in Nat
            BY <6>1
          <6>4. v.at + i - 1 \in 1..(s.off + l) /\ c + (v.at + i - 1) = got + l - n + i
            BY <1>b, <6>1, <6>2, <6>3
          <6>5. g - t.off + i = got + l - n + i
            BY <1>a, <6>1, <6>2
          <6>6. QED
            BY <6>4, <6>5
        <5>2. t.buf[i] = b[v.at + i - 1]
          BY <3>2, <3>4
        <5>3. b[v.at + i - 1] \in {W[c + (v.at + i - 1)], NUL}
          BY <1>5, <5>1
        <5>4. QED
          BY <5>1, <5>2, <5>3
      <4> HIDE DEF g
      <4>3. QED
        BY <4>1, <4>2 DEF Window
    <3>7. SessionInv'
      <4>1. t.ops = "upload" /\ t.phase = "RESPONSE"
        BY <1>1, <3>4
      <4>2. Window(s', Wire[ask'], got')
        BY <1>2, <3>1, <3>6 DEF W
      <4>3. QED
        BY <3>1, <3>5, <4>1, <4>2 DEF SessionInv
    <3>8. v.done = 0
      BY <1>8, <2>3 DEF ends
    <3>9. v.opens <= FilesUpTo(got + l)
      BY <1>7, <1>8, <1>9
    <3>10. v.opens <= FilesUpTo(got - s.off)'
      <4>1. (got - s.off)' = c + v.at - 1
        <5>1. got' = got + l /\ s'.off = n
          BY <1>2, <3>1, <3>4
        <5>2. (got - s.off)' = got' - s'.off
          OBVIOUS
        <5>3. got' \in Nat /\ got + l \in Nat /\ s'.off \in Nat
          BY <1>b, <3>2, <5>1
        <5>4. got' - s'.off = got + l - n
          BY <1>a, <3>2, <5>1, <5>3
        <5>5. QED
          BY <3>3, <5>2, <5>4
      <4>2. v.opens <= FilesUpTo(c + v.at - 1)
        BY <1>7
      <4>3. v.opens <= Cardinality(FileCells(Wire[ask'], (got - s.off)'))
        BY <1>2, <4>1, <4>2 DEF FilesUpTo
      <4>4. QED
        BY <4>3 DEF FilesUpTo
    <3>11. UploadInv'
      <4>1. s'.ops = "upload"
        BY <1>1, <3>1, <3>4
      <4>2. v.opens <= FilesUpTo(got)'
        BY <1>2, <1>10, <3>9
      <4>3. v.done \in 0..1
        BY <3>8
      <4>4. QED
        BY <1>8, <3>1, <3>8, <3>10, <4>1, <4>2, <4>3 DEF UploadInv
    <3>12. QED
      BY <3>7, <3>11
  <2>4. QED
    BY <2>1, <2>2, <2>3
<1>13. QED
  BY <1>11, <1>12 DEF ReceiveInv

LEMMA ReceiveStep ==
  ASSUME ReceiveInv, [Next]_vars
  PROVE  ReceiveInv'
<1>1. CASE ReadRequest
  BY <1>1, ReadRequestInv
<1>2. CASE ReadUpload
  BY <1>2, ReadUploadInv
<1>3. CASE Send
  <2>1. /\ ask' = ask /\ got' = got /\ gone' = gone /\ s' = s /\ up' = up /\ split' = split
        /\ sent' \in sent + 1..Len(Wire[ask])
    BY <1>3 DEF Send
  <2>2. Len(Wire[ask]) \in Nat
    BY WireIs DEF ReceiveInv, ClientInv
  <2>3. ClientInv'
    BY <2>1, <2>2 DEF ReceiveInv, ClientInv
  <2>4. SessionInv' /\ UploadInv'
    BY <2>1 DEF ReceiveInv, SessionInv, UploadInv, FilesUpTo
  <2>5. QED
    BY <2>3, <2>4 DEF ReceiveInv
<1>4. CASE Leave
  <2>1. ask' = ask /\ sent' = sent /\ got' = got /\ gone' = TRUE /\ s' = s /\ up' = up /\ split' = split
    BY <1>4 DEF Leave
  <2>2. QED
    BY <2>1 DEF ReceiveInv, ClientInv, SessionInv, UploadInv, FilesUpTo
<1>5. CASE UNCHANGED vars
  BY <1>5 DEF vars, ReceiveInv, ClientInv, SessionInv, UploadInv, FilesUpTo
<1>6. QED
  BY <1>1, <1>2, <1>3, <1>4, <1>5 DEF Next

(* The invariant of a connection, and what follows from it. *)

LEMMA ReceiveAlways == Spec => []ReceiveInv
<1>1. Init => ReceiveInv
  BY ReceiveInit
<1>2. ReceiveInv /\ [Next]_vars => ReceiveInv'
  BY ReceiveStep
<1>3. QED
  BY <1>1, <1>2, PTL DEF Spec

\* However a request is cut and whenever the client leaves, what
\* webnet_request_parse_* leaves in the buffer is counted by buffer_offset
\* within it, a body is not read beyond its length, and _webnet_module_upload_handle
\* keeps its state among those of the switch.  The NUL behind a body is not
\* counted: it may lie behind the buffer (wn_request.c:512), and is undefined.
THEOREM ReceiveTypes == Spec => []TypeOK
<1>1. ReceiveInv => TypeOK
  <2> SUFFICES ASSUME ReceiveInv
               PROVE  TypeOK
    OBVIOUS
  <2>1. ask \in Asks /\ sent \in 0..Len(Wire[ask]) /\ got \in 0..sent /\ gone \in BOOLEAN /\ split \in BOOLEAN
    BY DEF ReceiveInv, ClientInv
  <2>2. SessionOK(s) /\ up \in UploadType /\ up.done \in 0..1
    BY DEF ReceiveInv, SessionInv, UploadInv
  <2>3. s.off \in 0..Len(s.buf) /\ Len(s.buf) <= BufSize /\ s.req.qoff \in 0..s.req.clen
    BY <2>2, SessionFields
  <2>4. s.phase \in {"METHOD", "HEADER", "QUERY", "RESPONSE", "CLOSE", "FAULT"} /\ s.ops \in {"default", "upload", "none"}
    BY <2>2 DEF SessionOK, SessionType
  <2>5. up.state \in {"more", "wait", "close", "fault"}
    BY <2>2 DEF UploadType
  <2>6. QED
    BY <2>1, <2>2, <2>3, <2>4, <2>5 DEF TypeOK
<1>2. QED
  BY <1>1, ReceiveAlways, PTL

\* _webnet_module_upload_handle calls upload_open at most once for each file part
\* that the client sent, and upload_close once for each open: at the next
\* boundary, or in _webnet_module_upload_close when the session ends.
THEOREM FilesArePaired == Spec => []FilesPaired
<1>1. ReceiveInv => FilesPaired
  <2> SUFFICES ASSUME ReceiveInv
               PROVE  FilesPaired
    OBVIOUS
  <2>1. up.opens = up.closes + (IF up.opened THEN 1 ELSE 0) /\ up.opens <= FilesUpTo(got) /\ up.opens \in Nat
        /\ (s.ops = "none" /\ s.phase # "FAULT" => ~up.opened)
    BY DEF ReceiveInv, UploadInv, UploadType
  <2>2. ask \in Asks /\ sent \in 0..Len(Wire[ask]) /\ got \in 0..sent
    BY DEF ReceiveInv, ClientInv
  <2>3. Len(Wire[ask]) \in Nat /\ FilesUpTo(Len(Wire[ask])) \in Nat /\ Cardinality(FileParts(ask)) \in Nat
        /\ FilesUpTo(Len(Wire[ask])) <= Cardinality(FileParts(ask))
    BY <2>2, WireIs DEF FilesUpTo
  <2>4. got \in Nat /\ got <= Len(Wire[ask])
    BY <2>2, <2>3
  <2>5. FilesUpTo(got) \in Nat /\ FilesUpTo(got) <= FilesUpTo(Len(Wire[ask]))
    BY <2>3, <2>4, FilesGrow
  <2>6. up.opens <= Cardinality(FileParts(ask))
    BY <2>1, <2>3, <2>5
  <2>7. QED
    BY <2>1, <2>6 DEF FilesPaired
<1>2. QED
  BY <1>1, ReceiveAlways, PTL

-----------------------------------------------------------------------------
(* Texts in texts.                                                         *)

\* t stands in w behind its first a cells.
Stands(w, a, t) == a + Len(t) <= Len(w) /\ \A i \in 1..Len(t) : w[a + i] = t[i]

LEMMA StandsCat ==
  ASSUME NEW u \in Text, NEW v \in Text
  PROVE  /\ u \o v \in Text /\ Len(u \o v) = Len(u) + Len(v) /\ Len(u) \in Nat /\ Len(v) \in Nat
         /\ Stands(u \o v, 0, u) /\ Stands(u \o v, Len(u), v)
<1> DEFINE z == u \o v
           l == Len(u)
           m == Len(v)
<1>1. l \in Nat /\ m \in Nat
  BY TextLen
<1>2. z \in Text /\ Len(z) = l + m /\ \A i \in 1..(l + m) : z[i] = IF i <= l THEN u[i] ELSE v[i - l]
  BY CatText
<1> HIDE DEF z
<1>3. Stands(z, 0, u)
  <2>1. \A i \in 1..l : z[0 + i] = u[i]
    <3> HIDE DEF l, m
    <3> QED
      BY <1>1, <1>2
  <2>2. QED
    BY <1>1, <1>2, <2>1 DEF Stands
<1>4. Stands(z, l, v)
  <2>1. \A i \in 1..m : z[l + i] = v[i]
    <3> SUFFICES ASSUME NEW i \in 1..m
                 PROVE  z[l + i] = v[i]
      OBVIOUS
    <3> HIDE DEF l, m
    <3> DEFINE k == l + i
    <3>1. k \in 1..(l + m) /\ ~(k <= l) /\ k - l = i
      BY <1>1
    <3> HIDE DEF k
    <3>2. z[k] = v[k - l]
      BY <1>2, <3>1
    <3>3. z[k] = v[i]
      BY <3>1, <3>2
    <3>4. QED
      BY <3>3 DEF k
  <2>2. QED
    BY <1>1, <1>2, <2>1 DEF Stands
<1>5. QED
  BY <1>1, <1>2, <1>3, <1>4 DEF z

LEMMA StandsIn ==
  ASSUME NEW w \in Text, NEW a \in Nat, NEW u \in Text, Stands(w, a, u), NEW b \in Nat, NEW v \in Text, Stands(u, b, v)
  PROVE  Stands(w, a + b, v)
<1>1. Len(u) \in Nat /\ Len(v) \in Nat /\ Len(w) \in Nat
  BY TextLen
<1>2. a + Len(u) <= Len(w) /\ b + Len(v) <= Len(u)
  BY DEF Stands
<1>3. (a + b) + Len(v) <= Len(w)
  BY <1>1, <1>2
<1>4. ASSUME NEW i \in 1..Len(v)
      PROVE  w[(a + b) + i] = v[i]
  <2>1. b + i \in 1..Len(u) /\ (a + b) + i = a + (b + i)
    BY <1>1, <1>2
  <2>2. w[a + (b + i)] = u[b + i] /\ u[b + i] = v[i]
    BY <2>1 DEF Stands
  <2>3. QED
    BY <2>1, <2>2
<1>5. QED
  BY <1>3, <1>4 DEF Stands

LEMMA StandsFirst ==
  ASSUME NEW u \in Text, NEW a \in Nat, NEW v \in Text, Stands(u, a, v), NEW x \in Text
  PROVE  Stands(u \o x, a, v)
<1> DEFINE z == u \o x
<1>1. z \in Text /\ Stands(z, 0, u)
  BY StandsCat
<1> HIDE DEF z
<1>2. Stands(z, 0 + a, v)
  BY <1>1, StandsIn
<1>3. QED
  BY <1>2 DEF z

\* A text put together of the pieces p[1] to p[n], with what there is of it
\* behind each.
Chain(c, p, n) ==
  /\ c \in [0..n -> Text] /\ p \in [1..n -> Text]
  /\ c[0] = <<>> /\ \A k \in 1..n : c[k] = c[k - 1] \o p[k]

LEMMA ChainStep ==
  ASSUME NEW n \in Nat, NEW c, NEW p, Chain(c, p, n), NEW k \in 1..n
  PROVE  /\ c[k] \in Text /\ c[k - 1] \in Text /\ p[k] \in Text
         /\ Len(c[k]) \in Nat /\ Len(c[k - 1]) \in Nat /\ Len(p[k]) \in Nat /\ Len(c[k]) = Len(c[k - 1]) + Len(p[k])
         /\ Stands(c[k], 0, c[k - 1]) /\ Stands(c[k], Len(c[k - 1]), p[k])
<1> DEFINE m == k - 1
<1>1. m \in 0..n /\ k \in 0..n
  OBVIOUS
<1>2. c[k] = c[m] \o p[k] /\ c[m] \in Text /\ p[k] \in Text /\ c[k] \in Text
  BY <1>1 DEF Chain
<1> DEFINE x == c[m]
           y == p[k]
<1>3. x \in Text /\ y \in Text /\ c[k] = x \o y
  BY <1>2
<1> HIDE DEF x, y
<1>4. /\ Len(x \o y) = Len(x) + Len(y) /\ Len(x) \in Nat /\ Len(y) \in Nat
      /\ Stands(x \o y, 0, x) /\ Stands(x \o y, Len(x), y)
  BY <1>3, StandsCat
<1>5. Len(c[k]) \in Nat
  BY <1>3, <1>4
<1>6. QED
  BY <1>2, <1>3, <1>4, <1>5 DEF x, y

LEMMA ChainPrefix ==
  ASSUME NEW n \in Nat, NEW c, NEW p, Chain(c, p, n), NEW m \in 0..n
  PROVE  \A k \in 0..m : c[k] \in Text /\ Len(c[k]) \in Nat /\ Len(c[k]) <= Len(c[m]) /\ Stands(c[m], 0, c[k])
<1> DEFINE T == {j \in 0..n : j < m \/ \A k \in 0..m : Stands(c[j], 0, c[k])}
           U == {j \in 0..n : \A k \in 0..j : Stands(c[j], 0, c[k])}
<1>1. ASSUME NEW k \in 0..n
      PROVE  c[k] \in Text /\ Len(c[k]) \in Nat /\ Stands(c[k], 0, c[k])
  <2>1. c[k] \in Text
    BY DEF Chain
  <2>2. Len(c[k]) \in Nat
    BY <2>1, TextLen
  <2>3. QED
    BY <2>1, <2>2 DEF Stands
<1>2. 0 \in U
  <2>1. \A k \in 0..0 : k = 0
    OBVIOUS
  <2>2. 0 \in 0..n
    OBVIOUS
  <2>3. QED
    BY <1>1, <2>1, <2>2
<1>3. ASSUME NEW j \in 1..n, j - 1 \in U
      PROVE  j \in U
  <2> DEFINE i == j - 1
  <2>1. i \in 0..n /\ j \in 0..n /\ \A k \in 0..j : k = j \/ k \in 0..i
    OBVIOUS
  <2>2. \A k \in 0..i : Stands(c[i], 0, c[k])
    BY <1>3
  <2>3. Stands(c[j], 0, c[i])
    BY ChainStep
  <2> HIDE DEF i
  <2>4. ASSUME NEW k \in 0..j
        PROVE  Stands(c[j], 0, c[k])
    <3>1. CASE k = j
      BY <1>1, <2>1, <3>1
    <3>2. CASE k # j
      <4>1. k \in 0..i /\ k \in 0..n
        BY <2>1, <3>2
      <4>2. Stands(c[i], 0, c[k])
        BY <2>2, <4>1
      <4> DEFINE x == c[j]
                 y == c[i]
                 z == c[k]
      <4>3. x \in Text /\ y \in Text /\ z \in Text /\ Stands(x, 0, y) /\ Stands(y, 0, z)
        BY <1>1, <2>1, <2>3, <4>1, <4>2
      <4> HIDE DEF x, y, z
      <4>4. Stands(x, 0 + 0, z)
        BY <4>3, StandsIn
      <4>5. QED
        BY <4>4 DEF x, z
    <3>3. QED
      BY <3>1, <3>2
  <2>5. QED
    BY <2>1, <2>4
<1>4. \A j \in 0..n : j \in U
  <2> HIDE DEF U
  <2> QED
    BY <1>2, <1>3, UpTo
<1>5. ASSUME NEW k \in 0..m
      PROVE  c[k] \in Text /\ Len(c[k]) \in Nat /\ Len(c[k]) <= Len(c[m]) /\ Stands(c[m], 0, c[k])
  <2>1. k \in 0..n
    OBVIOUS
  <2>2. Stands(c[m], 0, c[k])
    BY <1>4
  <2>3. c[k] \in Text /\ Len(c[k]) \in Nat /\ Len(c[m]) \in Nat
    BY <1>1, <2>1
  <2>4. QED
    BY <2>2, <2>3 DEF Stands
<1>6. QED
  BY <1>5

\* Each piece stands behind the pieces before it.
LEMMA ChainPiece ==
  ASSUME NEW n \in Nat, NEW c, NEW p, Chain(c, p, n), NEW k \in 1..n
  PROVE  Stands(c[n], Len(c[k - 1]), p[k]) /\ Len(c[k]) <= Len(c[n])
<1> DEFINE x == c[n]
           y == c[k]
           z == p[k]
           a == Len(c[k - 1])
<1>1. y \in Text /\ z \in Text /\ a \in Nat /\ Stands(y, a, z)
  BY ChainStep
<1>2. n \in 0..n /\ k \in 0..n
  OBVIOUS
<1>3. Stands(x, 0, y) /\ Len(y) <= Len(x) /\ x \in Text
  BY <1>2, ChainPrefix
<1> HIDE DEF x, y, z, a
<1>4. Stands(x, 0 + a, z) /\ 0 + a = a
  BY <1>1, <1>3, StandsIn
<1>5. QED
  BY <1>3, <1>4 DEF x, y, z, a

\* Each cell is in a piece.
\* Cell j of the chain is one of a piece.
Covered(c, p, n, j) == \E k \in 1..n : \E i \in 1..Len(p[k]) : j = Len(c[k - 1]) + i /\ c[n][j] = p[k][i]

LEMMA ChainCover ==
  ASSUME NEW n \in Nat, NEW c, NEW p, Chain(c, p, n), NEW j \in 1..Len(c[n])
  PROVE  Covered(c, p, n, j)
<1>0. \A k \in 1..n : Len(c[k]) \in Nat /\ Len(c[k - 1]) \in Nat /\ Len(p[k]) \in Nat /\ Len(c[k]) = Len(c[k - 1]) + Len(p[k])
                     /\ Stands(c[n], Len(c[k - 1]), p[k])
  <2> SUFFICES ASSUME NEW k \in 1..n
               PROVE  Len(c[k]) \in Nat /\ Len(c[k - 1]) \in Nat /\ Len(p[k]) \in Nat /\ Len(c[k]) = Len(c[k - 1]) + Len(p[k])
                      /\ Stands(c[n], Len(c[k - 1]), p[k])
    OBVIOUS
  <2>1. Stands(c[n], Len(c[k - 1]), p[k]) /\ Len(c[k]) <= Len(c[n])
    BY ChainPiece
  <2>2. /\ c[k] \in Text /\ c[k - 1] \in Text /\ p[k] \in Text
        /\ Len(c[k]) \in Nat /\ Len(c[k - 1]) \in Nat /\ Len(p[k]) \in Nat /\ Len(c[k]) = Len(c[k - 1]) + Len(p[k])
        /\ Stands(c[k], 0, c[k - 1]) /\ Stands(c[k], Len(c[k - 1]), p[k])
    BY ChainStep
  <2>3. QED
    BY <2>1, <2>2
<1>4. Len(c[n]) \in Nat /\ n \in 0..n
  <2>1. n \in 0..n
    OBVIOUS
  <2>2. QED
    BY <2>1, ChainPrefix
<1> DEFINE T == {k \in 0..n : j > Len(c[k]) \/ \E m \in 1..n : \E i \in 1..Len(p[m]) : j = Len(c[m - 1]) + i}
           Goal == \E m \in 1..n : \E i \in 1..Len(p[m]) : j = Len(c[m - 1]) + i
<1>1. 0 \in T
  <2>1. Len(c[0]) = 0
    BY DEF Chain
  <2>2. 0 \in 0..n
    OBVIOUS
  <2>3. QED
    BY <2>1, <2>2
<1>2. ASSUME NEW k \in 1..n, k - 1 \in T
      PROVE  k \in T
  <2>1. /\ Len(c[k]) \in Nat /\ Len(c[k - 1]) \in Nat /\ Len(p[k]) \in Nat /\ Len(c[k]) = Len(c[k - 1]) + Len(p[k])
    BY <1>0
  <2>2. CASE Goal
    BY <2>2
  <2>3. CASE ~Goal /\ j > Len(c[k])
    BY <2>3
  <2>4. CASE ~Goal /\ ~(j > Len(c[k]))
    <3>1. j > Len(c[k - 1]) /\ ~(j > Len(c[k]))
      BY <1>2, <2>4
    <3> DEFINE x == Len(c[k - 1])
               y == Len(c[k])
               z == Len(p[k])
               i == j - x
    <3>2. x \in Nat /\ y \in Nat /\ z \in Nat /\ y = x + z /\ j \in Nat /\ j > x /\ ~(j > y)
      <4>1. x \in Nat /\ y \in Nat /\ z \in Nat /\ y = x + z
        BY <2>1
      <4>2. j \in Nat
        <5> HIDE DEF x, y, z, T, Goal
        <5> QED
          BY <1>4
      <4>3. j > x /\ ~(j > y)
        BY <3>1
      <4>4. QED
        BY <4>1, <4>2, <4>3
    <3>3. i \in 1..z /\ j = x + i
      <4> HIDE DEF x, y, z, Goal, T
      <4> QED
        BY <3>2
    <3>4. QED
      BY <2>4, <3>3
  <2>5. QED
    BY <2>2, <2>3, <2>4
<1>3. \A k \in 0..n : k \in T
  <2> HIDE DEF T
  <2> QED
    BY <1>1, <1>2, UpTo
<1>5. Goal
  BY <1>3, <1>4
<1>6. PICK m \in 1..n : \E i \in 1..Len(p[m]) : j = Len(c[m - 1]) + i
  BY <1>5
<1>7. PICK i \in 1..Len(p[m]) : j = Len(c[m - 1]) + i
  BY <1>6
<1>8. c[n][Len(c[m - 1]) + i] = p[m][i]
  BY <1>0 DEF Stands
<1>9. QED
  BY <1>7, <1>8 DEF Covered

-----------------------------------------------------------------------------
(* Texts a client sends, as chains.                                        *)

LEMMA TextAssoc ==
  ASSUME NEW u \in Text, NEW v \in Text, NEW w \in Text
  PROVE  (u \o v) \o w = u \o (v \o w)
<1>1. u \in Seq(Cells) /\ v \in Seq(Cells) /\ w \in Seq(Cells)
  BY DEF Text
<1>2. QED
  BY <1>1, ConcatAssociative

LEMMA EncodedIs ==
  ASSUME NEW v \in Text
  PROVE  \E c : /\ Encoded(v) = c[1] /\ c[Len(v) + 1] = <<>>
               /\ \A i \in 1..Len(v) : c[i] = Coded(v[i]) \o c[i + 1]
<1> DEFINE n == Len(v)
           D == 1..n + 1
           B(g, i) == IF i > n THEN <<>>
                      ELSE (CASE v[i] = SP -> <<"+">> [] v[i] = "&" -> <<"%", "2", "6">>
                              [] v[i] = "=" -> <<"%", "3", "D">> [] OTHER -> <<v[i]>>) \o g[i + 1]
           Eq(g) == g = [i \in D |-> B(g, i)]
           c == CHOOSE g : Eq(g)
           F == [i \in 1..n |-> [x \in Text |-> Coded(v[i]) \o x]]
           G == [i \in 1..n |-> i + 1]
<1>1. n \in Nat /\ \A i \in 1..n : v[i] \in Cells
  BY TextLen
<1>0. ASSUME NEW g, NEW i \in 1..n
      PROVE  B(g, i) = Coded(v[i]) \o g[i + 1]
  <2> DEFINE x == CASE v[i] = SP -> <<"+">> [] v[i] = "&" -> <<"%", "2", "6">>
                    [] v[i] = "=" -> <<"%", "3", "D">> [] OTHER -> <<v[i]>>
  <2>1. ~(i > n)
    BY <1>1
  <2>2. B(g, i) = x \o g[i + 1]
    BY <2>1
  <2>3. x = Coded(v[i])
    BY DEF Coded
  <2> HIDE DEF x, B
  <2>4. QED
    BY <2>2, <2>3
<1>2. F \in [1..n -> [Text -> Text]]
  <2>1. \A i \in 1..n, x \in Text : Coded(v[i]) \o x \in Text
    BY <1>1, CodedType, CatText
  <2>2. QED
    BY <2>1
<1>3. G \in [1..n -> Nat] /\ \A i \in 1..n : G[i] \in (i + 1)..(n + 1)
  BY <1>1
<1>4. PICK f \in [1..(n + 1) -> Text] : GoesDown(f, n, <<>>, F, G)
  <2>1. <<>> \in Text
    BY Words
  <2> HIDE DEF n, F, G
  <2> QED
    BY <1>1, <1>2, <1>3, <2>1, RecursionDown
<1>5. \A i \in D : f[i] = B(f, i)
  <2>1. f[n + 1] = <<>> /\ \A i \in 1..n : f[i] = F[i][f[i + 1]]
    BY <1>4 DEF GoesDown
  <2>2. \A i \in 1..n : f[i + 1] \in Text
    <3>1. \A i \in 1..n : i + 1 \in 1..(n + 1)
      BY <1>1
    <3> HIDE DEF n
    <3>2. QED
      BY <1>4, <3>1
  <2>3. \A i \in 1..n : f[i] = Coded(v[i]) \o f[i + 1]
    BY <2>1, <2>2
  <2>4. \A i \in 1..n : B(f, i) = Coded(v[i]) \o f[i + 1]
    BY <1>0
  <2>5. n + 1 \in D /\ B(f, n + 1) = <<>> /\ \A i \in D : i = n + 1 \/ i \in 1..n
    BY <1>1
  <2> HIDE DEF F, B, D, n
  <2>6. QED
    BY <2>1, <2>3, <2>4, <2>5
<1>6. Eq(f)
  <2> HIDE DEF B
  <2> QED
    BY <1>4, <1>5
<1>7. Eq(c)
  <2> HIDE DEF Eq
  <2> QED
    BY <1>6
<1>8. Encoded(v) = c[1]
  BY DEF Encoded
<1> HIDE DEF c
<1>9. \A i \in D : c[i] = B(c, i)
  <2> HIDE DEF B
  <2> QED
    BY <1>7
<1> HIDE DEF Eq, F, G
<1>10. c[n + 1] = <<>> /\ \A i \in 1..n : c[i] = Coded(v[i]) \o c[i + 1]
  <2>1. \A i \in 1..n : B(c, i) = Coded(v[i]) \o c[i + 1]
    BY <1>0
  <2>a. \A i \in 1..n : i \in D
    BY <1>1
  <2>2. n + 1 \in D /\ B(c, n + 1) = <<>>
    BY <1>1
  <2> HIDE DEF B, D
  <2>3. QED
    BY <1>9, <2>1, <2>a, <2>2
<1>11. QED
  BY <1>8, <1>10

LEMMA FormTextIs ==
  ASSUME NEW fs \in Seq(FormField)
  PROVE  \E c : /\ FormText(fs) = c[Len(fs)] /\ c[0] = <<>>
               /\ \A k \in 1..Len(fs) : c[k] = c[k - 1] \o (IF k > 1 THEN <<"&">> ELSE <<>>) \o FieldText(fs[k])
<1> DEFINE n == Len(fs)
           D == 0..n
           A(x, k) == x \o (IF k > 1 THEN <<"&">> ELSE <<>>) \o FieldText(fs[k])
           B(g, k) == IF k = 0 THEN <<>> ELSE g[k - 1] \o (IF k > 1 THEN <<"&">> ELSE <<>>) \o FieldText(fs[k])
           Eq(g) == g = [k \in D |-> B(g, k)]
           c == CHOOSE g : Eq(g)
           F == [k \in 1..n |-> [x \in Text |-> A(x, k)]]
<1>1. n \in Nat /\ \A k \in 1..n, x \in Text : A(x, k) \in Text
  <2>1. n \in Nat /\ \A k \in 1..n : fs[k] \in FormField
    OBVIOUS
  <2> SUFFICES ASSUME NEW k \in 1..n, NEW x \in Text
               PROVE  A(x, k) \in Text
    BY <2>1
  <2> DEFINE y == IF k > 1 THEN <<"&">> ELSE <<>>
             z == FieldText(fs[k])
  <2>2. y \in Text
    BY CellsAssumption, Words
  <2>3. z \in Text
    BY <2>1, FieldTextType
  <2> HIDE DEF y, z
  <2> DEFINE xy == x \o y
  <2>4. xy \in Text
    BY <2>2, CatText
  <2>5. A(x, k) = xy \o z
    BY DEF y, z
  <2> HIDE DEF xy, A
  <2>6. QED
    BY <2>3, <2>4, <2>5, CatText
<1>2. F \in [1..n -> [Text -> Text]]
  <2>1. \A k \in 1..n, x \in Text : A(x, k) \in Text
    BY <1>1
  <2> HIDE DEF A
  <2>2. QED
    BY <2>1
<1>3. PICK f \in [0..n -> Text] : GoesUp(f, n, <<>>, F)
  <2>1. <<>> \in Text
    BY Words
  <2> HIDE DEF F, n
  <2> QED
    BY <1>1, <1>2, <2>1, RecursionUp
<1>4. \A k \in D : f[k] = B(f, k)
  <2>1. f[0] = <<>> /\ \A k \in 1..n : f[k] = F[k][f[k - 1]]
    BY <1>3 DEF GoesUp
  <2>2. \A k \in 1..n : f[k - 1] \in Text
    <3>1. \A k \in 1..n : k - 1 \in 0..n
      BY <1>1
    <3> HIDE DEF n
    <3>2. QED
      BY <1>3, <3>1
  <2>3. \A k \in 1..n : f[k] = A(f[k - 1], k)
    <3> HIDE DEF A
    <3> QED
      BY <2>1, <2>2
  <2>4. \A k \in 1..n : B(f, k) = A(f[k - 1], k)
    BY <1>1, SMTT(30)
  <2>5. 0 \in D /\ B(f, 0) = <<>> /\ \A k \in D : k = 0 \/ k \in 1..n
    BY <1>1
  <2> HIDE DEF F, A, B, D, n
  <2>6. QED
    BY <2>1, <2>3, <2>4, <2>5
<1>5. Eq(f)
  <2> HIDE DEF B
  <2> QED
    BY <1>3, <1>4
<1>6. Eq(c)
  <2> HIDE DEF Eq
  <2> QED
    BY <1>5
<1>7. FormText(fs) = c[n]
  BY DEF FormText
<1> HIDE DEF c
<1>8. \A k \in D : c[k] = B(c, k)
  <2> HIDE DEF B
  <2> QED
    BY <1>6
<1>9. c[0] = <<>> /\ \A k \in 1..n : c[k] = A(c[k - 1], k)
  <2>1. \A k \in 1..n : k \in D /\ B(c, k) = A(c[k - 1], k)
    BY <1>1, SMTT(30)
  <2>2. 0 \in D /\ B(c, 0) = <<>>
    BY <1>1
  <2> HIDE DEF A, B, D
  <2>3. QED
    BY <1>8, <2>1, <2>2
<1>10. QED
  BY <1>7, <1>9

LEMMA HeaderTextIs ==
  ASSUME NEW hs \in Seq([name : Cells, value : Text]), NEW k \in 1..Len(hs)
  PROVE  /\ hs[k].name \in Cells /\ hs[k].value \in Text /\ HeaderText(hs, k) \in Text
         /\ Len(hs[k].value) \in Nat /\ Len(HeaderText(hs, k)) = Len(hs[k].value) + 4
         /\ HeaderText(hs, k)[1] = hs[k].name /\ HeaderText(hs, k)[2] = SP
         /\ \A i \in 1..Len(hs[k].value) : HeaderText(hs, k)[i + 2] = hs[k].value[i]
         /\ HeaderText(hs, k)[Len(hs[k].value) + 3] = CR /\ HeaderText(hs, k)[Len(hs[k].value) + 4] = LF
<1>1. hs[k].name \in Cells /\ hs[k].value \in Text
  <2> DEFINE H == [name : Cells, value : Text]
  <2>1. \A h \in H : h.name \in Cells /\ h.value \in Text
    OBVIOUS
  <2>2. hs \in Seq(H)
    OBVIOUS
  <2> HIDE DEF H
  <2>3. QED
    BY <2>1, <2>2
<1> DEFINE y == <<hs[k].name, SP>>
           v == hs[k].value
           n == Len(v)
           z == y \o v
           t == z \o CRLF
<1>2. y \in Text /\ Len(y) = 2 /\ y[1] = hs[k].name /\ y[2] = SP
  <2>1. SP \in Cells
    BY CellsAssumption
  <2>2. QED
    BY <1>1, <2>1 DEF Text
<1>3. HeaderText(hs, k) = t
  BY DEF HeaderText
<1>4. v \in Text /\ n \in Nat
  BY <1>1, TextLen
<1> HIDE DEF y, v
<1>5. z \in Text /\ Len(z) = n + 2 /\ \A i \in 1..(n + 2) : z[i] = IF i <= 2 THEN y[i] ELSE v[i - 2]
  <2>1. z \in Text /\ Len(z) = Len(y) + Len(v) /\ \A i \in 1..(Len(y) + Len(v)) : z[i] = IF i <= Len(y) THEN y[i] ELSE v[i - Len(y)]
    BY <1>2, <1>4, CatText
  <2>2. Len(y) + Len(v) = n + 2
    BY <1>2, <1>4
  <2> HIDE DEF z, n
  <2>3. QED
    BY <1>2, <2>1, <2>2
<1> HIDE DEF z
<1>6. t \in Text /\ Len(t) = n + 4 /\ \A i \in 1..(n + 4) : t[i] = IF i <= n + 2 THEN z[i] ELSE CRLF[i - (n + 2)]
  <2>1. t \in Text /\ Len(t) = Len(z) + Len(CRLF) /\ \A i \in 1..(Len(z) + Len(CRLF)) : t[i] = IF i <= Len(z) THEN z[i] ELSE CRLF[i - Len(z)]
    BY <1>5, CRLFIs, CatText
  <2>2. Len(z) + Len(CRLF) = n + 4
    BY <1>4, <1>5, CRLFIs
  <2> HIDE DEF t, n
  <2>3. QED
    BY <1>5, <2>1, <2>2
<1> HIDE DEF t, n
<1>7. t[1] = y[1] /\ t[2] = y[2]
  <2>1. 1 \in 1..(n + 4) /\ 2 \in 1..(n + 4) /\ 1 \in 1..(n + 2) /\ 2 \in 1..(n + 2)
    BY <1>4
  <2>2. t[1] = z[1] /\ t[2] = z[2] /\ z[1] = y[1] /\ z[2] = y[2]
    BY <1>4, <1>5, <1>6, <2>1
  <2>3. QED
    BY <2>2
<1>8. \A i \in 1..n : t[i + 2] = v[i]
  <2> SUFFICES ASSUME NEW i \in 1..n
               PROVE  t[i + 2] = v[i]
    OBVIOUS
  <2> DEFINE j == i + 2
  <2>1. j \in 1..(n + 4) /\ j \in 1..(n + 2) /\ j <= n + 2 /\ ~(j <= 2) /\ j - 2 = i
    BY <1>4
  <2> HIDE DEF j
  <2>2. t[j] = z[j] /\ z[j] = v[j - 2]
    BY <1>5, <1>6, <2>1
  <2>3. QED
    BY <2>1, <2>2 DEF j
<1>9. t[n + 3] = CR /\ t[n + 4] = LF
  <2>1. n + 3 \in 1..(n + 4) /\ n + 4 \in 1..(n + 4) /\ ~(n + 3 <= n + 2) /\ ~(n + 4 <= n + 2) /\ n + 3 - (n + 2) = 1 /\ n + 4 - (n + 2) = 2
    BY <1>4
  <2> DEFINE a == n + 3
             d == n + 4
  <2>2. t[a] = CRLF[1] /\ t[d] = CRLF[2]
    <3>1. a \in 1..(n + 4) /\ d \in 1..(n + 4) /\ ~(a <= n + 2) /\ ~(d <= n + 2) /\ a - (n + 2) = 1 /\ d - (n + 2) = 2
      BY <1>4
    <3> HIDE DEF a, d
    <3>2. t[a] = CRLF[a - (n + 2)] /\ t[d] = CRLF[d - (n + 2)]
      BY <1>6, <3>1
    <3>3. QED
      BY <3>1, <3>2
  <2>3. QED
    BY <2>1, <2>2, CRLFIs
<1>10. QED
  BY <1>1, <1>2, <1>3, <1>4, <1>6, <1>7, <1>8, <1>9 DEF v, n

LEMMA HeadersAre ==
  ASSUME NEW hs \in Seq([name : Cells, value : Text])
  PROVE  \E c : /\ HeadersText(hs) = c[Len(hs)] /\ c[0] = <<>>
               /\ \A k \in 1..Len(hs) : c[k] = c[k - 1] \o HeaderText(hs, k)
<1> DEFINE n == Len(hs)
           D == 0..n
           A(x, k) == x \o HeaderText(hs, k)
           B(g, k) == IF k = 0 THEN <<>> ELSE g[k - 1] \o HeaderText(hs, k)
           Eq(g) == g = [k \in D |-> B(g, k)]
           c == CHOOSE g : Eq(g)
           F == [k \in 1..n |-> [x \in Text |-> A(x, k)]]
<1>1. n \in Nat /\ \A k \in 1..n, x \in Text : A(x, k) \in Text
  <2>1. n \in Nat /\ \A k \in 1..n : HeaderText(hs, k) \in Text
    <3>1. n \in Nat
      OBVIOUS
    <3>2. \A k \in 1..n : HeaderText(hs, k) \in Text
      BY HeaderTextIs
    <3>3. QED
      BY <3>1, <3>2
  <2>2. QED
    BY <2>1, CatText
<1>2. F \in [1..n -> [Text -> Text]]
  <2>1. \A k \in 1..n, x \in Text : A(x, k) \in Text
    BY <1>1
  <2> HIDE DEF A
  <2>2. QED
    BY <2>1
<1>3. PICK f \in [0..n -> Text] : GoesUp(f, n, <<>>, F)
  <2>1. <<>> \in Text
    BY Words
  <2> HIDE DEF F, n
  <2> QED
    BY <1>1, <1>2, <2>1, RecursionUp
<1>4. \A k \in D : f[k] = B(f, k)
  <2>1. f[0] = <<>> /\ \A k \in 1..n : f[k] = F[k][f[k - 1]]
    BY <1>3 DEF GoesUp
  <2>2. \A k \in 1..n : f[k - 1] \in Text
    <3>1. \A k \in 1..n : k - 1 \in 0..n
      BY <1>1
    <3> HIDE DEF n
    <3>2. QED
      BY <1>3, <3>1
  <2>3. \A k \in 1..n : f[k] = A(f[k - 1], k)
    <3> HIDE DEF A
    <3> QED
      BY <2>1, <2>2
  <2>4. \A k \in 1..n : B(f, k) = A(f[k - 1], k)
    BY <1>1
  <2>5. 0 \in D /\ B(f, 0) = <<>> /\ \A k \in D : k = 0 \/ k \in 1..n
    BY <1>1
  <2> HIDE DEF F, A, B, D, n
  <2>6. QED
    BY <2>1, <2>3, <2>4, <2>5
<1>5. Eq(f)
  <2> HIDE DEF B
  <2> QED
    BY <1>3, <1>4
<1>6. Eq(c)
  <2> HIDE DEF Eq
  <2> QED
    BY <1>5
<1>7. HeadersText(hs) = c[n]
  BY DEF HeadersText
<1> HIDE DEF c
<1>8. \A k \in D : c[k] = B(c, k)
  <2> HIDE DEF B
  <2> QED
    BY <1>6
<1>9. c[0] = <<>> /\ \A k \in 1..n : c[k] = A(c[k - 1], k)
  <2>1. \A k \in 1..n : k \in D /\ B(c, k) = A(c[k - 1], k)
    BY <1>1
  <2>2. 0 \in D /\ B(c, 0) = <<>>
    BY <1>1
  <2> HIDE DEF A, B, D
  <2>3. QED
    BY <1>8, <2>1, <2>2
<1>10. QED
  BY <1>7, <1>9

LEMMA PartsAre ==
  ASSUME NEW ps \in Seq([file : BOOLEAN, data : Text]), ps # <<>>, \A k \in DOMAIN ps : Without(ps[k].data, {"file"})
  PROVE  /\ \A k \in 1..Len(ps) : ps[k].data \in Text /\ PartText(ps[k]) \in Text
         /\ \E c : /\ PartsText(ps) = c[Len(ps)] \o LAST
                  /\ \A k \in 1..Len(ps) : c[k] = (IF k = 1 THEN FIRST ELSE c[k - 1] \o NORMAL) \o PartText(ps[k])
<1> DEFINE n == Len(ps)
           D == 1..n
           A(x, k) == (IF k = 1 THEN FIRST ELSE x \o NORMAL) \o PartText(ps[k])
           B(g, k) == (IF k = 1 THEN FIRST ELSE g[k - 1] \o NORMAL) \o PartText(ps[k])
           Eq(g) == g = [k \in D |-> B(g, k)]
           c == CHOOSE g : Eq(g)
           F == [k \in 1..n |-> [x \in Text |-> A(x, k)]]
           P == [file : BOOLEAN, data : Text]
<1>1. n \in Nat /\ n # 0 /\ DOMAIN ps = 1..n /\ \A k \in 1..n : ps[k] \in P /\ Without(ps[k].data, {"file"})
  <2> HIDE DEF P
  <2>1. ps \in Seq(P)
    BY DEF P
  <2>2. QED
    BY <2>1
<1>2. \A k \in 1..n : PartText(ps[k]) \in Text /\ Count(PartText(ps[k])) <= IF ps[k].file THEN 1 ELSE 0
  <2> HIDE DEF n
  <2>1. QED
    BY <1>1, PartTextIs
<1>3. \A k \in 1..n, x \in Text : A(x, k) \in Text
  <2> SUFFICES ASSUME NEW k \in 1..n, NEW x \in Text
               PROVE  A(x, k) \in Text
    OBVIOUS
  <2>1. x \o NORMAL \in Text /\ FIRST \in Text
    BY MarksAre, CatText
  <2>2. QED
    BY <1>2, <2>1, CatText
<1>4. F \in [1..n -> [Text -> Text]]
  <2> HIDE DEF A
  <2> QED
    BY <1>3
<1>5. PICK f \in [0..n -> Text] : GoesUp(f, n, <<>>, F)
  <2>1. <<>> \in Text
    BY Words
  <2> HIDE DEF F, n
  <2> QED
    BY <1>1, <1>4, <2>1, RecursionUp
<1> DEFINE h == [k \in D |-> f[k]]
<1>6. \A k \in D : h[k] = B(h, k)
  <2>1. \A k \in 1..n : f[k] = F[k][f[k - 1]]
    BY <1>5 DEF GoesUp
  <2>2. \A k \in 1..n : f[k - 1] \in Text
    <3>1. \A k \in 1..n : k - 1 \in 0..n
      BY <1>1
    <3> HIDE DEF n
    <3>2. QED
      BY <1>5, <3>1
  <2>3. \A k \in 1..n : f[k] = A(f[k - 1], k)
    <3> HIDE DEF A
    <3> QED
      BY <2>1, <2>2
  <2>4. \A k \in 1..n : B(h, k) = A(f[k - 1], k)
    <3>1. \A k \in 1..n : k # 1 => k - 1 \in D
      BY <1>1
    <3>2. \A k \in 1..n : k # 1 => h[k - 1] = f[k - 1]
      <4> HIDE DEF D
      <4> QED
        BY <3>1
    <3> HIDE DEF h, D
    <3>3. QED
      BY <3>2
  <2> HIDE DEF F, A, B
  <2>5. QED
    BY <2>3, <2>4
<1>7. Eq(h)
  <2> HIDE DEF B
  <2>1. h = [k \in D |-> h[k]]
    OBVIOUS
  <2> HIDE DEF h
  <2>2. QED
    BY <1>6, <2>1
<1>8. Eq(c)
  <2> HIDE DEF Eq, h
  <2> QED
    BY <1>7
<1>9. PartsText(ps) = c[n] \o LAST
  BY DEF PartsText
<1> HIDE DEF c, h
<1>10. \A k \in D : c[k] = B(c, k)
  <2> HIDE DEF B
  <2> QED
    BY <1>8
<1>11. QED
  BY <1>1, <1>2, <1>9, <1>10

LEMMA ChainIs ==
  ASSUME NEW n \in Nat, NEW p \in [1..n -> Text], NEW c, c[0] = <<>>, \A k \in 1..n : c[k] = c[k - 1] \o p[k]
  PROVE  Chain([k \in 0..n |-> c[k]], p, n)
<1> DEFINE T == {k \in 0..n : c[k] \in Text}
           d == [k \in 0..n |-> c[k]]
<1>1. 0 \in T
  BY Words
<1>2. ASSUME NEW k \in 1..n, k - 1 \in T
      PROVE  k \in T
  <2>1. c[k - 1] \in Text /\ p[k] \in Text /\ k \in 0..n
    BY <1>2
  <2>2. c[k - 1] \o p[k] \in Text
    BY <2>1, CatText
  <2>3. QED
    BY <2>1, <2>2
<1>3. \A k \in 0..n : k \in T
  <2> HIDE DEF T
  <2> QED
    BY <1>1, <1>2, UpTo
<1>4. d \in [0..n -> Text]
  BY <1>3
<1>5. \A k \in 1..n : d[k] = d[k - 1] \o p[k]
  <2>1. \A k \in 1..n : k \in 0..n /\ k - 1 \in 0..n
    OBVIOUS
  <2>2. QED
    BY <2>1
<1>6. d[0] = <<>>
  OBVIOUS
<1>7. QED
  BY <1>4, <1>5, <1>6 DEF Chain

HeaderPieces(hs) == [k \in 1..Len(hs) |-> HeaderText(hs, k)]
HeaderChain(hs) == CHOOSE c : Chain(c, HeaderPieces(hs), Len(hs)) /\ HeadersText(hs) = c[Len(hs)]

LEMMA HeaderChainIs ==
  ASSUME NEW hs \in Seq([name : Cells, value : Text])
  PROVE  Len(hs) \in Nat /\ Chain(HeaderChain(hs), HeaderPieces(hs), Len(hs)) /\ HeadersText(hs) = HeaderChain(hs)[Len(hs)]
<1> DEFINE n == Len(hs)
           p == HeaderPieces(hs)
<1>1. PICK c : /\ HeadersText(hs) = c[n] /\ c[0] = <<>>
               /\ \A k \in 1..n : c[k] = c[k - 1] \o HeaderText(hs, k)
  BY HeadersAre
<1>2. n \in Nat
  OBVIOUS
<1>3. p \in [1..n -> Text] /\ \A k \in 1..n : p[k] = HeaderText(hs, k)
  <2>1. \A k \in 1..n : HeaderText(hs, k) \in Text
    BY HeaderTextIs
  <2>2. QED
    BY <2>1 DEF HeaderPieces
<1> DEFINE d == [k \in 0..n |-> c[k]]
<1> HIDE DEF n, p
<1>4. \A k \in 1..n : c[k] = c[k - 1] \o p[k]
  BY <1>1, <1>3
<1>5. Chain(d, p, n)
  BY <1>1, <1>2, <1>3, <1>4, ChainIs
<1>6. HeadersText(hs) = d[n]
  BY <1>1, <1>2
<1> HIDE DEF d
<1>7. \E e : Chain(e, p, n) /\ HeadersText(hs) = e[n]
  BY <1>5, <1>6
<1>8. QED
  BY <1>2, <1>7 DEF HeaderChain, n, p

PartPiece(ps, k) == (IF k = 1 THEN FIRST ELSE NORMAL) \o PartText(ps[k])
PartPieces(ps) == [k \in 1..Len(ps) |-> PartPiece(ps, k)]
PartChain(ps) == CHOOSE c : Chain(c, PartPieces(ps), Len(ps)) /\ PartsText(ps) = c[Len(ps)] \o LAST

LEMMA PartChainIs ==
  ASSUME NEW ps \in Seq([file : BOOLEAN, data : Text]), ps # <<>>, \A k \in DOMAIN ps : Without(ps[k].data, {"file"})
  PROVE  /\ Len(ps) \in Nat /\ \A k \in 1..Len(ps) : ps[k].data \in Text /\ PartText(ps[k]) \in Text
         /\ Chain(PartChain(ps), PartPieces(ps), Len(ps)) /\ PartsText(ps) = PartChain(ps)[Len(ps)] \o LAST
<1> DEFINE n == Len(ps)
           p == PartPieces(ps)
<1>1. /\ \A k \in 1..n : ps[k].data \in Text /\ PartText(ps[k]) \in Text
      /\ \E c : /\ PartsText(ps) = c[n] \o LAST
                /\ \A k \in 1..n : c[k] = (IF k = 1 THEN FIRST ELSE c[k - 1] \o NORMAL) \o PartText(ps[k])
  BY PartsAre
<1>2. PICK c : /\ PartsText(ps) = c[n] \o LAST
               /\ \A k \in 1..n : c[k] = (IF k = 1 THEN FIRST ELSE c[k - 1] \o NORMAL) \o PartText(ps[k])
  BY <1>1
<1>3. n \in Nat /\ n # 0
  OBVIOUS
<1>4. p \in [1..n -> Text] /\ \A k \in 1..n : p[k] = (IF k = 1 THEN FIRST ELSE NORMAL) \o PartText(ps[k])
  <2>1. FIRST \in Text /\ NORMAL \in Text
    BY MarksAre
  <2>2. \A k \in 1..n : (IF k = 1 THEN FIRST ELSE NORMAL) \o PartText(ps[k]) \in Text
    <3> SUFFICES ASSUME NEW k \in 1..n
                 PROVE  (IF k = 1 THEN FIRST ELSE NORMAL) \o PartText(ps[k]) \in Text
      OBVIOUS
    <3> DEFINE m == IF k = 1 THEN FIRST ELSE NORMAL
               t == PartText(ps[k])
    <3>1. m \in Text /\ t \in Text
      BY <1>1, <2>1
    <3> HIDE DEF m, t
    <3>2. QED
      BY <3>1, CatText DEF m, t
  <2>3. QED
    BY <2>2 DEF PartPieces, PartPiece
<1> DEFINE e == [k \in 0..n |-> IF k = 0 THEN <<>> ELSE c[k]]
           d == [k \in 0..n |-> e[k]]
           T == {k \in 0..n : k = 0 \/ (c[k] \in Text /\ e[k] = e[k - 1] \o p[k])}
<1>a. e[0] = <<>> /\ e[n] = c[n] /\ \A k \in 1..n : e[k] = c[k] /\ (k # 1 => e[k - 1] = c[k - 1])
  <2>1. \A k \in 1..n : k \in 0..n /\ k # 0 /\ k - 1 \in 0..n /\ (k # 1 => k - 1 # 0)
    OBVIOUS
  <2>2. 0 \in 0..n /\ n \in 0..n
    BY <1>3
  <2> HIDE DEF n
  <2>3. QED
    BY <1>3, <2>1, <2>2
<1> HIDE DEF p, e, n
<1>5. 0 \in T
  BY <1>3
<1>6. ASSUME NEW k \in 1..n, k - 1 \in T
      PROVE  k \in T
  <2> DEFINE t == PartText(ps[k])
  <2>1. k \in 0..n /\ k \in Nat /\ k # 0
    BY <1>3
  <2>2. t \in Text
    BY <1>1
  <2>3. CASE k = 1
    <3>1. c[k] = FIRST \o t /\ p[k] = FIRST \o t /\ p[k] \in Text
      BY <1>2, <1>4, <2>3
    <3>2. e[k - 1] = <<>> /\ e[k] = p[k]
      BY <1>a, <2>3, <3>1
    <3>3. <<>> \o p[k] = p[k]
      BY <3>1, ConcatEmptySeq DEF Text
    <3>4. QED
      BY <2>1, <3>1, <3>2, <3>3
  <2>4. CASE k # 1
    <3>1. c[k] = (c[k - 1] \o NORMAL) \o t /\ p[k] = NORMAL \o t
      BY <1>2, <1>4, <2>4
    <3>2. k - 1 # 0
      BY <2>1, <2>4
    <3>3. c[k - 1] \in Text
      BY <1>6, <3>2
    <3> DEFINE x == c[k - 1]
    <3>4. x \in Text /\ NORMAL \in Text
      BY <3>3, MarksAre
    <3> HIDE DEF x, t
    <3>5. (x \o NORMAL) \o t = x \o (NORMAL \o t)
      BY <2>2, <3>4, TextAssoc
    <3>6. x \o NORMAL \in Text
      BY <3>4, CatText
    <3>7. (x \o NORMAL) \o t \in Text
      BY <2>2, <3>6, CatText
    <3>8. e[k] = c[k] /\ e[k - 1] = c[k - 1]
      BY <1>a, <2>4
    <3>9. c[k] \in Text /\ e[k] = e[k - 1] \o p[k]
      BY <3>1, <3>5, <3>7, <3>8 DEF x
    <3>10. QED
      BY <2>1, <3>9
  <2>5. QED
    BY <2>3, <2>4
<1>7. \A k \in 0..n : k \in T
  <2> HIDE DEF T
  <2> QED
    BY <1>3, <1>5, <1>6, UpTo
<1>8. \A k \in 1..n : e[k] = e[k - 1] \o p[k]
  <2>1. \A k \in 1..n : k \in 0..n /\ k # 0
    BY <1>3
  <2>2. QED
    BY <1>7, <2>1
<1>9. Chain(d, p, n)
  <2> HIDE DEF d
  <2> QED
    BY <1>3, <1>4, <1>8, <1>a, ChainIs DEF d
<1>10. PartsText(ps) = d[n] \o LAST
  <2>1. n \in 0..n
    BY <1>3
  <2>2. d[n] = c[n]
    BY <1>a, <2>1
  <2>3. QED
    BY <1>2, <2>2
<1> HIDE DEF d
<1>11. \E x : Chain(x, p, n) /\ PartsText(ps) = x[n] \o LAST
  BY <1>9, <1>10
<1>12. QED
  BY <1>1, <1>3, <1>11 DEF PartChain, n, p

\* A set of texts that has the pieces and is closed under putting them one
\* behind the other has what is made of them.
Closed(S) == <<>> \in S /\ \A u, v \in S : u \o v \in S

LEMMA EncodedIn ==
  ASSUME NEW S, Closed(S), NEW v \in Text, \A i \in 1..Len(v) : Coded(v[i]) \in S
  PROVE  Encoded(v) \in S
<1> DEFINE n == Len(v)
<1>1. PICK c : /\ Encoded(v) = c[1] /\ c[n + 1] = <<>>
               /\ \A i \in 1..n : c[i] = Coded(v[i]) \o c[i + 1]
  BY EncodedIs
<1>2. n \in Nat
  BY TextLen
<1> DEFINE T == {i \in 1..n : c[i] \in S}
<1>3. \A k \in 1..n : (\A j \in (k + 1)..n : j \in T) => k \in T
  <2> SUFFICES ASSUME NEW k \in 1..n, \A j \in (k + 1)..n : j \in T
               PROVE  k \in T
    OBVIOUS
  <2>1. k + 1 = n + 1 \/ k + 1 \in (k + 1)..n
    BY <1>2
  <2>2. c[k + 1] \in S
    BY <1>1, <2>1 DEF Closed
  <2>3. Coded(v[k]) \in S
    OBVIOUS
  <2>4. Coded(v[k]) \o c[k + 1] \in S
    BY <2>2, <2>3 DEF Closed
  <2>5. QED
    BY <1>1, <2>4
<1>4. \A k \in 1..n : k \in T
  <2> HIDE DEF T, n
  <2> QED
    BY <1>2, <1>3, DownFrom
<1>5. 1 = n + 1 \/ 1 \in 1..n
  BY <1>2
<1>6. QED
  BY <1>1, <1>4, <1>5 DEF Closed

LEMMA FormTextIn ==
  ASSUME NEW S, Closed(S), <<"&">> \in S, NEW fs \in Seq(FormField), \A k \in 1..Len(fs) : FieldText(fs[k]) \in S
  PROVE  FormText(fs) \in S
<1> DEFINE n == Len(fs)
           M(k) == IF k > 1 THEN <<"&">> ELSE <<>>
<1>1. PICK c : /\ FormText(fs) = c[n] /\ c[0] = <<>>
               /\ \A k \in 1..n : c[k] = c[k - 1] \o M(k) \o FieldText(fs[k])
  BY FormTextIs
<1>2. n \in Nat
  OBVIOUS
<1> DEFINE T == {k \in 0..n : c[k] \in S}
<1>3. 0 \in T
  BY <1>1, <1>2 DEF Closed
<1>4. ASSUME NEW k \in 1..n, k - 1 \in T
      PROVE  k \in T
  <2>1. M(k) \in S
    BY DEF Closed
  <2>2. c[k - 1] \in S /\ FieldText(fs[k]) \in S
    BY <1>4
  <2> HIDE DEF M
  <2>3. c[k - 1] \o M(k) \in S
    BY <2>1, <2>2 DEF Closed
  <2>4. c[k - 1] \o M(k) \o FieldText(fs[k]) \in S
    BY <2>2, <2>3 DEF Closed
  <2>5. c[k] \in S
    BY <1>1, <2>4
  <2>6. k \in 0..n
    BY <1>2
  <2>7. QED
    BY <2>5, <2>6
<1>5. \A k \in 0..n : k \in T
  <2> HIDE DEF T, n
  <2> QED
    BY <1>2, <1>3, <1>4, UpTo
<1>6. n \in 0..n
  BY <1>2
<1>7. QED
  BY <1>1, <1>5, <1>6

\* Nothing in it ends a request's target.
Plain(S) == {t \in Text : \A i \in 1..Len(t) : t[i] \notin S}

LEMMA PlainIs ==
  ASSUME NEW S
  PROVE  Closed(Plain(S)) /\ \A c \in Cells : c \notin S => <<c>> \in Plain(S)
<1>1. <<>> \in Plain(S)
  BY Words DEF Plain
<1>2. ASSUME NEW u \in Plain(S), NEW v \in Plain(S)
      PROVE  u \o v \in Plain(S)
  <2> DEFINE z == u \o v
  <2>1. u \in Text /\ v \in Text /\ Len(u) \in Nat /\ Len(v) \in Nat
    BY TextLen DEF Plain
  <2>2. z \in Text /\ Len(z) = Len(u) + Len(v) /\ \A i \in 1..(Len(u) + Len(v)) : z[i] = IF i <= Len(u) THEN u[i] ELSE v[i - Len(u)]
    BY <2>1, CatText
  <2> HIDE DEF z
  <2>3. ASSUME NEW i \in 1..Len(z)
        PROVE  z[i] \notin S
    <3>1. CASE i <= Len(u)
      <4>1. i \in 1..Len(u) /\ i \in 1..(Len(u) + Len(v))
        BY <2>1, <2>2, <3>1
      <4>2. z[i] = u[i]
        BY <2>2, <3>1, <4>1
      <4>3. QED
        BY <4>1, <4>2 DEF Plain
    <3>2. CASE ~(i <= Len(u))
      <4> DEFINE j == i - Len(u)
      <4>1. j \in 1..Len(v) /\ i \in 1..(Len(u) + Len(v))
        BY <2>1, <2>2, <3>2
      <4>2. z[i] = v[j]
        BY <2>2, <3>2, <4>1
      <4> HIDE DEF j
      <4>3. QED
        BY <4>1, <4>2 DEF Plain
    <3>3. QED
      BY <3>1, <3>2
  <2>4. QED
    BY <2>2, <2>3 DEF Plain, z
<1>3. ASSUME NEW c \in Cells, c \notin S
      PROVE  <<c>> \in Plain(S)
  <2> DEFINE t == <<c>>
  <2>1. t \in Text /\ Len(t) = 1 /\ t[1] = c
    BY Words
  <2> HIDE DEF t
  <2>2. \A i \in 1..1 : i = 1
    OBVIOUS
  <2>3. \A i \in 1..Len(t) : t[i] \notin S
    BY <1>3, <2>1, <2>2
  <2>4. QED
    BY <2>1, <2>3 DEF Plain, t
<1>4. QED
  BY <1>1, <1>2, <1>3 DEF Closed

LEMMA ThreeText ==
  ASSUME NEW S, NEW a \in Cells \ S, NEW b \in Cells \ S, NEW c \in Cells \ S
  PROVE  <<a, b, c>> \in Plain(S)
<1> DEFINE t == <<a, b, c>>
<1>1. t \in Text
  BY DEF Text
<1>2. Len(t) = 3 /\ t[1] = a /\ t[2] = b /\ t[3] = c
  OBVIOUS
<1>3. \A i \in 1..3 : i = 1 \/ i = 2 \/ i = 3
  OBVIOUS
<1> HIDE DEF t
<1>4. \A i \in 1..Len(t) : t[i] \notin S
  BY <1>2, <1>3
<1>5. QED
  BY <1>1, <1>4 DEF Plain, t

Ends == {NUL, CR, SP}

\* The text of a query goes through to the blank behind it.
LEMMA FormTextPlain ==
  ASSUME NEW fs \in Seq(FormField), FieldsFit(fs)
  PROVE  FormText(fs) \in Plain(Ends)
<1>1. Closed(Plain(Ends)) /\ \A c \in Cells : c \notin Ends => <<c>> \in Plain(Ends)
  BY PlainIs
<1>2. \A c \in {"&", "=", "+", "%", "2", "3", "6", "D"} : c \in Cells /\ c \notin Ends
  BY CellsAssumption DEF Ends, NUL, CR, SP
<1>3. <<"&">> \in Plain(Ends) /\ <<"=">> \in Plain(Ends) /\ <<"+">> \in Plain(Ends)
  BY <1>1, <1>2
<1>4. ASSUME NEW k \in 1..Len(fs)
      PROVE  FieldText(fs[k]) \in Plain(Ends)
  <2> DEFINE f == fs[k]
  <2>1. f \in FormField
    OBVIOUS
  <2>2. k \in DOMAIN fs
    OBVIOUS
  <2>3. Without(f.name, {NUL, CR, SP, "&", "="}) /\ (f.value # Nil => Without(f.value, {NUL, CR, "+", "%"}))
    BY <2>2 DEF FieldsFit
  <2> HIDE DEF f
  <2>4. f.name \in Text /\ (f.value # Nil => f.value \in Text)
    BY <2>1 DEF FormField
  <2>5. f.name \in Plain(Ends)
    <3>1. \A i \in 1..Len(f.name) : f.name[i] \notin {NUL, CR, SP, "&", "="}
      BY <2>3, <2>4, TextLen DEF Without
    <3>2. QED
      BY <2>4, <3>1 DEF Plain, Ends
  <2>6. CASE f.value = Nil
    <3>1. FieldText(f) = f.name \o <<>>
      BY <2>6 DEF FieldText
    <3>2. QED
      BY <1>1, <2>5, <3>1 DEF Closed, f
  <2>7. CASE f.value # Nil
    <3> DEFINE v == f.value
               x == <<"=">>
               y == Encoded(v)
    <3>1. FieldText(f) = f.name \o (x \o y)
      BY <2>7 DEF FieldText
    <3>2. v \in Text /\ \A i \in 1..Len(v) : v[i] \in Cells /\ v[i] \notin {NUL, CR, "+", "%"}
      BY <2>3, <2>4, <2>7, TextLen DEF Without
    <3> HIDE DEF v
    <3>3. ASSUME NEW i \in 1..Len(v)
          PROVE  Coded(v[i]) \in Plain(Ends)
      <4> DEFINE c == v[i]
      <4>1. c \in Cells /\ c \notin {NUL, CR}
        BY <3>2
      <4> HIDE DEF c
      <4>2. CASE c = SP
        <5>1. Coded(c) = <<"+">>
          BY <4>2 DEF Coded, SP
        <5>2. QED
          BY <1>3, <5>1 DEF c
      <4>3. CASE c = "&"
        <5>1. Coded(c) = <<"%", "2", "6">>
          BY <4>3 DEF Coded, SP
        <5>2. <<"%", "2", "6">> \in Plain(Ends)
          BY <1>2, ThreeText
        <5>3. QED
          BY <5>1, <5>2 DEF c
      <4>4. CASE c = "="
        <5>1. Coded(c) = <<"%", "3", "D">>
          BY <4>4 DEF Coded, SP
        <5>2. <<"%", "3", "D">> \in Plain(Ends)
          BY <1>2, ThreeText
        <5>3. QED
          BY <5>1, <5>2 DEF c
      <4>5. CASE c \notin {SP, "&", "="}
        <5>1. Coded(c) = <<c>>
          BY <4>5 DEF Coded
        <5>2. c \notin Ends
          BY <4>1, <4>5 DEF Ends
        <5>3. QED
          BY <1>1, <4>1, <5>1, <5>2 DEF c
      <4>6. QED
        BY <4>2, <4>3, <4>4, <4>5
    <3>4. y \in Plain(Ends)
      BY <1>1, <3>2, <3>3, EncodedIn
    <3> HIDE DEF y, x
    <3>5. x \o y \in Plain(Ends)
      BY <1>1, <1>3, <3>4 DEF Closed, x
    <3>6. f.name \o (x \o y) \in Plain(Ends)
      BY <1>1, <2>5, <3>5 DEF Closed
    <3>7. QED
      BY <3>1, <3>6 DEF f
  <2>8. QED
    BY <2>6, <2>7
<1>5. QED
  BY <1>1, <1>3, <1>4, FormTextIn

LEMMA StandsUp ==
  ASSUME NEW u \in Text, NEW x \in Text
  PROVE  /\ u \o x \in Text /\ Len(u \o x) = Len(u) + Len(x) /\ Len(u) \in Nat /\ Len(x) \in Nat
         /\ Stands(u \o x, Len(u), x)
         /\ \A a \in Nat, v \in Text : Stands(u, a, v) => Stands(u \o x, a, v)
<1>1. ASSUME NEW a \in Nat, NEW v \in Text, Stands(u, a, v)
      PROVE  Stands(u \o x, a, v)
  BY <1>1, StandsFirst
<1>2. QED
  BY <1>1, StandsCat

\* What a request asks for behind its path, and where its parts end.
Asked(r) == IF r.query = <<>> THEN <<>> ELSE <<"?">> \o FormText(r.query)
TargetLen(r) == Len(r.path) + Len(Asked(r))
LineLen(r) == TargetLen(r) + 5
HeadLen(r) == LineLen(r) + Len(HeadersText(r.headers)) + 2

LEMMA RequestIs ==
  ASSUME NEW r \in Asks
  PROVE  /\ r.method \in Cells /\ r.path \in Text /\ r.query \in Seq(FormField) /\ r.version \in Cells
         /\ r.headers \in Seq([name : Cells, value : Text]) /\ r.form \in Seq(FormField)
         /\ r.parts \in Seq([file : BOOLEAN, data : Text])
         /\ HeadFits(r) /\ BodyFits(r) /\ PartsFit(r)
<1>1. r \in Request /\ HeadFits(r) /\ BodyFits(r) /\ PartsFit(r)
  BY AsksAssumption
<1>2. QED
  BY <1>1 DEF Request

LEMMA AskedIs ==
  ASSUME NEW r \in Asks
  PROVE  Asked(r) \in Plain(Ends) /\ r.path \in Plain(Ends \cup {"?"})
<1>1. r.path \in Text /\ r.query \in Seq(FormField) /\ HeadFits(r)
  BY RequestIs
<1>2. FieldsFit(r.query) /\ Without(r.path, {NUL, CR, SP, "?"})
  BY <1>1 DEF HeadFits
<1>3. Closed(Plain(Ends)) /\ \A c \in Cells : c \notin Ends => <<c>> \in Plain(Ends)
  BY PlainIs
<1>4. "?" \in Cells /\ "?" \notin Ends
  BY CellsAssumption DEF Ends, NUL, CR, SP
<1> DEFINE x == <<"?">>
           y == FormText(r.query)
<1>5. x \in Plain(Ends)
  BY <1>3, <1>4
<1>6. y \in Plain(Ends)
  BY <1>1, <1>2, FormTextPlain
<1>7. Asked(r) = <<>> \/ Asked(r) = x \o y
  BY DEF Asked
<1> HIDE DEF x, y
<1>8. Asked(r) \in Plain(Ends)
  BY <1>3, <1>5, <1>6, <1>7 DEF Closed
<1>9. r.path \in Plain(Ends \cup {"?"})
  <2>1. \A i \in 1..Len(r.path) : r.path[i] \notin {NUL, CR, SP, "?"}
    BY <1>1, <1>2, TextLen DEF Without
  <2>2. QED
    BY <1>1, <2>1 DEF Plain, Ends
<1>10. QED
  BY <1>8, <1>9

LEMMA HeadStands ==
  ASSUME NEW r \in Asks
  PROVE  /\ HeadText(r) \in Text /\ Len(HeadText(r)) = HeadLen(r)
         /\ TargetLen(r) \in Nat /\ LineLen(r) \in Nat /\ HeadLen(r) \in Nat
         /\ Len(r.path) \in Nat /\ Len(Asked(r)) \in Nat /\ Len(HeadersText(r.headers)) \in Nat
         /\ HeadersText(r.headers) \in Text
         /\ Stands(HeadText(r), 0, <<r.method>>) /\ Stands(HeadText(r), 1, r.path)
         /\ Stands(HeadText(r), 1 + Len(r.path), Asked(r))
         /\ Stands(HeadText(r), TargetLen(r) + 1, <<SP, r.version>>) /\ Stands(HeadText(r), TargetLen(r) + 3, CRLF)
         /\ Stands(HeadText(r), LineLen(r), HeadersText(r.headers))
         /\ Stands(HeadText(r), LineLen(r) + Len(HeadersText(r.headers)), CRLF)
<1>1. /\ r.method \in Cells /\ r.path \in Text /\ r.query \in Seq(FormField) /\ r.version \in Cells
      /\ r.headers \in Seq([name : Cells, value : Text])
  BY RequestIs
<1> DEFINE p == r.path
           h == HeadersText(r.headers)
           m == <<r.method>>
           q == Asked(r)
           v == <<SP, r.version>>
           t1 == m \o p
           t2 == t1 \o q
           t3 == t2 \o v
           t4 == t3 \o CRLF
           t5 == t4 \o h
           t6 == t5 \o CRLF
<1>2. HeadText(r) = t6
  <2>1. HeadText(r) = t4 \o h \o CRLF
    BY DEF HeadText, HeadersText, HeaderText, Asked
  <2>2. QED
    BY <2>1
<1>3. h \in Text /\ p \in Text
  BY <1>1, HeadersTextType
<1>4. m \in Text /\ Len(m) = 1
  BY <1>1, Words
<1>5. v \in Text /\ Len(v) = 2
  <2>1. SP \in Cells
    BY CellsAssumption
  <2>2. QED
    BY <1>1, <2>1 DEF Text
<1>6. q \in Text
  BY AskedIs DEF Plain
<1>7. /\ Len(p) \in Nat /\ Len(q) \in Nat /\ Len(h) \in Nat /\ CRLF \in Text /\ Len(CRLF) = 2
      /\ TargetLen(r) = Len(p) + Len(q) /\ LineLen(r) = TargetLen(r) + 5 /\ HeadLen(r) = LineLen(r) + Len(h) + 2
  BY <1>3, <1>6, TextLen, CRLFIs DEF TargetLen, LineLen, HeadLen
<1> DEFINE a == Len(p)
           b == Len(q)
           c == Len(h)
<1>a. a \in Nat /\ b \in Nat /\ c \in Nat /\ TargetLen(r) = a + b /\ LineLen(r) = a + b + 5 /\ HeadLen(r) = a + b + c + 7
  <2>1. a \in Nat /\ b \in Nat /\ c \in Nat
    BY <1>7
  <2>2. TargetLen(r) = a + b /\ LineLen(r) = TargetLen(r) + 5 /\ HeadLen(r) = LineLen(r) + c + 2
    BY <1>7
  <2> HIDE DEF a, b, c
  <2>3. QED
    BY <2>1, <2>2
<1> HIDE DEF m, q, v, h, p
<1>8. /\ t1 \in Text /\ Len(t1) = 1 + a /\ Stands(t1, 1, p) /\ \A i \in Nat, x \in Text : Stands(m, i, x) => Stands(t1, i, x)
  BY <1>3, <1>4, StandsUp
<1> HIDE DEF t1
<1>9. /\ t2 \in Text /\ Len(t2) = 1 + a + b /\ Stands(t2, 1 + a, q) /\ \A i \in Nat, x \in Text : Stands(t1, i, x) => Stands(t2, i, x)
  BY <1>6, <1>8, StandsUp
<1> HIDE DEF t2, a, b, c
<1>10. /\ t3 \in Text /\ Len(t3) = a + b + 3 /\ Stands(t3, a + b + 1, v) /\ \A i \in Nat, x \in Text : Stands(t2, i, x) => Stands(t3, i, x)
  <2>1. 1 + a + b = a + b + 1 /\ a + b + 1 + 2 = a + b + 3
    BY <1>a
  <2>2. /\ t3 \in Text /\ Len(t3) = 1 + a + b + 2 /\ Stands(t3, 1 + a + b, v) /\ \A i \in Nat, x \in Text : Stands(t2, i, x) => Stands(t3, i, x)
    BY <1>5, <1>9, StandsUp
  <2>3. QED
    BY <2>1, <2>2
<1> HIDE DEF t3
<1>11. /\ t4 \in Text /\ Len(t4) = a + b + 5 /\ Stands(t4, a + b + 3, CRLF) /\ \A i \in Nat, x \in Text : Stands(t3, i, x) => Stands(t4, i, x)
  <2>1. a + b + 3 + 2 = a + b + 5
    BY <1>a
  <2>2. QED
    BY <1>7, <1>10, <2>1, StandsUp
<1> HIDE DEF t4
<1>12. /\ t5 \in Text /\ Len(t5) = a + b + 5 + c /\ Stands(t5, a + b + 5, h) /\ \A i \in Nat, x \in Text : Stands(t4, i, x) => Stands(t5, i, x)
  BY <1>3, <1>11, StandsUp DEF c
<1> HIDE DEF t5
<1>13. /\ t6 \in Text /\ Len(t6) = a + b + c + 7 /\ Stands(t6, a + b + 5 + c, CRLF) /\ \A i \in Nat, x \in Text : Stands(t5, i, x) => Stands(t6, i, x)
  <2>1. a + b + 5 + c + 2 = a + b + c + 7
    BY <1>a
  <2>2. QED
    BY <1>7, <1>12, <2>1, StandsUp
<1> HIDE DEF t6
<1>14. Stands(m, 0, m)
  BY <1>4 DEF Stands
<1>15. 0 \in Nat /\ 1 \in Nat /\ 1 + a \in Nat /\ a + b + 1 \in Nat /\ a + b + 3 \in Nat /\ a + b + 5 \in Nat
  BY <1>a
<1>16. Stands(t6, 0, m)
  BY <1>4, <1>8, <1>9, <1>10, <1>11, <1>12, <1>13, <1>14, <1>15
<1>17. Stands(t6, 1, p)
  BY <1>3, <1>8, <1>9, <1>10, <1>11, <1>12, <1>13, <1>15
<1>18. Stands(t6, 1 + a, q)
  BY <1>6, <1>9, <1>10, <1>11, <1>12, <1>13, <1>15
<1>19. Stands(t6, a + b + 1, v) /\ Stands(t6, a + b + 3, CRLF) /\ Stands(t6, a + b + 5, h)
  BY <1>3, <1>5, <1>7, <1>10, <1>11, <1>12, <1>13, <1>15
<1>20. a + b \in Nat /\ a + b + 5 \in Nat /\ a + b + c + 7 \in Nat
  BY <1>a
<1>21. QED
  BY <1>2, <1>3, <1>7, <1>a, <1>13, <1>16, <1>17, <1>18, <1>19, <1>20 DEF a, b, c, m, v, q, p, h

LEMMA BodyStands ==
  ASSUME NEW r \in Asks
  PROVE  /\ BodyText(r) \in Text /\ Wire[r] \in Text /\ Len(BodyText(r)) \in Nat
         /\ Len(Wire[r]) = HeadLen(r) + Len(BodyText(r)) /\ Stands(Wire[r], HeadLen(r), BodyText(r))
         /\ \A a \in Nat, v \in Text : Stands(HeadText(r), a, v) => Stands(Wire[r], a, v)
<1> DEFINE h == HeadText(r)
           b == BodyText(r)
<1>1. h \in Text /\ Len(h) = HeadLen(r) /\ Wire[r] = h \o b
  BY HeadStands DEF Wire
<1>2. r.form \in Seq(FormField) /\ r.parts \in Seq([file : BOOLEAN, data : Text]) /\ PartsFit(r)
  BY RequestIs
<1>3. b \in Text
  <2>1. CASE r.parts # <<>>
    <3>1. b = PartsText(r.parts)
      BY <2>1 DEF BodyText
    <3>2. \A k \in DOMAIN r.parts : Without(r.parts[k].data, {"file"})
      BY <1>2 DEF PartsFit
    <3>3. QED
      BY <1>2, <2>1, <3>1, <3>2, PartsTextIs
  <2>2. CASE r.parts = <<>>
    <3>1. b = FormText(r.form)
      BY <2>2 DEF BodyText
    <3>2. QED
      BY <1>2, <3>1, FormTextType
  <2>3. QED
    BY <2>1, <2>2
<1> DEFINE w == h \o b
<1> HIDE DEF h, b
<1>4. /\ w \in Text /\ Len(w) = Len(h) + Len(b) /\ Len(h) \in Nat /\ Len(b) \in Nat
      /\ Stands(w, Len(h), b)
      /\ \A a \in Nat, v \in Text : Stands(h, a, v) => Stands(w, a, v)
  BY <1>1, <1>3, StandsUp
<1>5. Wire[r] = w
  BY <1>1
<1> HIDE DEF w
<1>6. QED
  BY <1>1, <1>3, <1>4, <1>5 DEF h, b

\* The cells of a request's first line.
LEMMA WireLine ==
  ASSUME NEW r \in Asks
  PROVE  LET w == Wire[r]
             n == TargetLen(r)
             p == Len(r.path)
         IN  /\ w \in Text /\ Len(w) \in Nat /\ n \in Nat /\ p \in Nat /\ p <= n /\ n + 5 <= Len(w)
             /\ w[1] = r.method /\ w[n + 2] = SP /\ w[n + 3] = r.version /\ w[n + 4] = CR /\ w[n + 5] = LF
             /\ \A i \in 1..n : w[i + 1] \notin Ends
             /\ \A i \in 1..p : w[i + 1] = r.path[i] /\ r.path[i] # "?"
             /\ p # n => w[p + 2] = "?"
<1> DEFINE w == Wire[r]
           h == HeadText(r)
           n == TargetLen(r)
           q == Asked(r)
           p == Len(r.path)
           m == Len(q)
           v == <<SP, r.version>>
           o == <<r.method>>
<1>1. /\ n \in Nat /\ p \in Nat /\ m \in Nat /\ n = p + m /\ HeadLen(r) \in Nat
      /\ Stands(h, 0, o) /\ Stands(h, 1, r.path) /\ Stands(h, 1 + p, q) /\ Stands(h, n + 1, v) /\ Stands(h, n + 3, CRLF)
  BY HeadStands DEF TargetLen
<1>2. w \in Text /\ \A a \in Nat, t \in Text : Stands(h, a, t) => Stands(w, a, t)
  BY BodyStands
<1>3. Len(w) \in Nat
  BY <1>2, TextLen
<1>4. /\ r.method \in Cells /\ r.path \in Text /\ r.version \in Cells
  BY RequestIs
<1>5. o \in Text /\ Len(o) = 1 /\ o[1] = r.method
  BY <1>4, Words
<1>6. v \in Text /\ Len(v) = 2 /\ v[1] = SP /\ v[2] = r.version
  <2>1. SP \in Cells
    BY CellsAssumption
  <2>2. QED
    BY <1>4, <2>1 DEF Text
<1>7. q \in Text /\ (\A i \in 1..m : q[i] \notin Ends) /\ \A i \in 1..p : r.path[i] \notin Ends /\ r.path[i] # "?"
  BY AskedIs DEF Plain
<1>8. m # 0 => q[1] = "?"
  <2>1. CASE r.query = <<>>
    <3>1. q = <<>>
      BY <2>1 DEF Asked
    <3>2. QED
      BY <3>1
  <2>2. CASE r.query # <<>>
    <3> DEFINE x == <<"?">>
               y == FormText(r.query)
    <3>1. q = x \o y
      BY <2>2 DEF Asked
    <3>2. x \in Text /\ Len(x) = 1 /\ x[1] = "?"
      BY CellsAssumption, Words
    <3>3. y \in Text
      BY RequestIs, FormTextType
    <3> HIDE DEF x, y, q
    <3>4. Len(y) \in Nat /\ \A i \in 1..(Len(x) + Len(y)) : (x \o y)[i] = IF i <= Len(x) THEN x[i] ELSE y[i - Len(x)]
      BY <3>2, <3>3, CatText, TextLen
    <3>5. 1 \in 1..(Len(x) + Len(y)) /\ 1 <= Len(x)
      BY <3>2, <3>4
    <3>6. QED
      BY <3>1, <3>2, <3>4, <3>5
  <2>3. QED
    BY <2>1, <2>2
<1>9. Stands(w, 0, o) /\ Stands(w, 1, r.path) /\ Stands(w, 1 + p, q) /\ Stands(w, n + 1, v) /\ Stands(w, n + 3, CRLF)
  <2>1. 0 \in Nat /\ 1 \in Nat /\ 1 + p \in Nat /\ n + 1 \in Nat /\ n + 3 \in Nat
    BY <1>1
  <2> HIDE DEF w, h, n, p, v, o, q
  <2>2. QED
    BY <1>1, <1>2, <1>4, <1>5, <1>6, <1>7, <2>1, CRLFIs
<1> HIDE DEF w, h, n, m, v, o, q
<1>10. n + 5 <= Len(w) /\ w[(n + 3) + 1] = CR /\ w[(n + 3) + 2] = LF
  <2>1. n + 3 + Len(CRLF) <= Len(w) /\ \A i \in 1..Len(CRLF) : w[(n + 3) + i] = CRLF[i]
    BY <1>9 DEF Stands
  <2>2. Len(CRLF) = 2 /\ CRLF[1] = CR /\ CRLF[2] = LF /\ 1 \in 1..2 /\ 2 \in 1..2
    BY CRLFIs
  <2>3. QED
    BY <1>1, <1>3, <2>1, <2>2
<1>11. w[(n + 1) + 1] = SP /\ w[(n + 1) + 2] = r.version /\ w[0 + 1] = r.method
  <2>1. 1 \in 1..2 /\ 2 \in 1..2 /\ 1 \in 1..1
    OBVIOUS
  <2>2. QED
    BY <1>5, <1>6, <1>9, <2>1 DEF Stands
<1>12. \A i \in 1..p : w[1 + i] = r.path[i]
  BY <1>9 DEF Stands
<1>13. \A i \in 1..m : w[(1 + p) + i] = q[i]
  BY <1>9 DEF Stands, m
<1> HIDE DEF p
<1>14. \A i \in 1..n : w[i + 1] \notin Ends
  <2> SUFFICES ASSUME NEW i \in 1..n
               PROVE  w[i + 1] \notin Ends
    OBVIOUS
  <2>1. i + 1 = 1 + i
    BY <1>1
  <2>2. CASE i <= p
    <3>1. i \in 1..p
      BY <1>1, <2>2
    <3>2. QED
      BY <1>7, <1>12, <2>1, <3>1
  <2>3. CASE ~(i <= p)
    <3> DEFINE j == i - p
    <3>1. j \in 1..m /\ (1 + p) + j = i + 1
      BY <1>1, <2>3
    <3> HIDE DEF j
    <3>2. QED
      BY <1>7, <1>13, <3>1
  <2>4. QED
    BY <2>2, <2>3
<1>15. p # n => w[p + 2] = "?"
  <2> SUFFICES ASSUME p # n
               PROVE  w[p + 2] = "?"
    OBVIOUS
  <2>1. m # 0 /\ 1 \in 1..m /\ (1 + p) + 1 = p + 2
    BY <1>1
  <2>2. w[(1 + p) + 1] = q[1]
    BY <1>13, <2>1
  <2>3. QED
    BY <1>8, <2>1, <2>2
<1>16. (n + 3) + 1 = n + 4 /\ (n + 3) + 2 = n + 5 /\ (n + 1) + 1 = n + 2 /\ (n + 1) + 2 = n + 3 /\ 0 + 1 = 1 /\ p <= n
       /\ \A i \in 1..p : 1 + i = i + 1
  BY <1>1
<1>17. QED
  BY <1>1, <1>2, <1>3, <1>7, <1>10, <1>11, <1>12, <1>14, <1>15, <1>16 DEF w, n, p

\* The method line is found when it is there.
LEMMA FirstLine ==
  ASSUME NEW r \in Asks, ~Refused(r), NEW b \in Text, Len(b) <= Len(Wire[r]), \A i \in 1..Len(b) : b[i] = Wire[r][i]
  PROVE  LET n == TargetLen(r)
         IN  /\ Len(b) \in Nat /\ n \in Nat
             /\ n + 5 <= Len(b) => FindFrom(b, 1, CRLF) # 0
             /\ FindFrom(b, 1, CRLF) # 0 =>
                  /\ n + 5 <= Len(b) /\ CharAt(b, 1) \in MethodWords /\ b[1] = r.method
                  /\ FindFrom(b, 2, <<SP>>) = n + 2 /\ FindFrom(b, n + 3, CRLF) = n + 4 /\ CharAt(b, n + 3) = "HTTP/1"
<1> DEFINE w == Wire[r]
           n == TargetLen(r)
<1>1. /\ w \in Text /\ Len(w) \in Nat /\ n \in Nat /\ n + 5 <= Len(w)
      /\ w[1] = r.method /\ w[n + 2] = SP /\ w[n + 3] = r.version /\ w[n + 4] = CR /\ w[n + 5] = LF
      /\ \A i \in 1..n : w[i + 1] \notin Ends
  BY WireLine
<1>2. r.method \in MethodWords /\ r.version = "HTTP/1"
  BY DEF Refused
<1>3. Len(b) \in Nat
  BY TextLen
<1>4. r.method \notin Ends /\ r.version \notin Ends /\ SP \notin {NUL, CR} /\ SP \in Cells
  BY <1>2, CellsAssumption DEF MethodWords, Ends, NUL, CR, SP
<1> HIDE DEF w, n
<1>5. \A i \in 1..(n + 3) : w[i] \notin {NUL, CR} /\ (i # n + 2 => w[i] # SP)
  <2> SUFFICES ASSUME NEW i \in 1..(n + 3)
               PROVE  w[i] \notin {NUL, CR} /\ (i # n + 2 => w[i] # SP)
    OBVIOUS
  <2>1. i = 1 \/ i = n + 2 \/ i = n + 3 \/ (i - 1 \in 1..n /\ (i - 1) + 1 = i)
    BY <1>1
  <2>2. CASE i = 1 \/ i = n + 3
    BY <1>1, <1>4, <2>2 DEF Ends
  <2>3. CASE i = n + 2
    BY <1>1, <1>4, <2>3
  <2>4. CASE i - 1 \in 1..n /\ (i - 1) + 1 = i
    <3>1. w[(i - 1) + 1] \notin Ends
      BY <1>1, <2>4
    <3>2. QED
      BY <2>4, <3>1 DEF Ends
  <2>5. QED
    BY <2>1, <2>2, <2>3, <2>4
<1>6. \A i \in 1..Len(b) : b[i] = w[i]
  BY DEF w
<1>7. ASSUME n + 5 <= Len(b)
      PROVE  /\ \A i \in 1..(n + 5) : b[i] = w[i]
             /\ BeginsAt(b, n + 4, CRLF) /\ (n + 4) + 2 <= Len(b) + 1
             /\ \A j \in 1..(n + 5) : b[j] # NUL
  <2>1. \A i \in 1..(n + 5) : i \in 1..Len(b)
    BY <1>1, <1>3, <1>7
  <2>2. \A i \in 1..(n + 5) : b[i] = w[i]
    BY <1>6, <2>1
  <2>3. BeginsAt(b, n + 4, CRLF)
    <3>1. n + 4 \in Nat \ {0} /\ (n + 4) + 1 = n + 5 /\ n + 4 \in 1..(n + 5) /\ n + 5 \in 1..(n + 5)
      BY <1>1
    <3>2. b[n + 4] = CR /\ b[(n + 4) + 1] = LF
      BY <1>1, <2>2, <3>1
    <3>3. (n + 4) + 1 <= Len(b)
      BY <1>1, <1>3, <1>7
    <3>4. QED
      BY <3>1, <3>2, <3>3, CRLFAt
  <2>4. ASSUME NEW j \in 1..(n + 5)
        PROVE  b[j] # NUL
    <3>1. j \in 1..(n + 3) \/ j = n + 4 \/ j = n + 5
      BY <1>1
    <3>2. w[j] # NUL
      BY <1>1, <1>5, <3>1, CRLFIs
    <3>3. QED
      BY <2>2, <3>2
  <2>5. (n + 4) + 2 <= Len(b) + 1
    BY <1>1, <1>3, <1>7
  <2>6. QED
    BY <2>2, <2>3, <2>4, <2>5
<1>8. ASSUME n + 5 <= Len(b)
      PROVE  FindFrom(b, 1, CRLF) # 0
  <2> DEFINE p == n + 4
  <2>1. BeginsAt(b, p, CRLF) /\ p + 2 <= Len(b) + 1 /\ (\A j \in 1..(n + 5) : b[j] # NUL) /\ Len(CRLF) = 2 /\ CRLF \in Text
    BY <1>7, <1>8, CRLFIs
  <2>2. p \in Nat /\ 1 <= p /\ p + 2 - 1 = n + 5
    BY <1>1
  <2> HIDE DEF p
  <2>3. \A j \in 1..(p + Len(CRLF) - 1) : b[j] # NUL
    BY <2>1, <2>2
  <2>4. p + Len(CRLF) <= Len(b) + 1
    BY <2>1
  <2>5. 1 \in Nat \ {0}
    OBVIOUS
  <2>6. QED
    BY <2>1, <2>2, <2>3, <2>4, <2>5, FindsSome
<1>9. ASSUME FindFrom(b, 1, CRLF) # 0
      PROVE  n + 5 <= Len(b)
  <2> DEFINE p == FindFrom(b, 1, CRLF)
  <2>1. p \in 1..Len(b) /\ p + 1 \in 1..Len(b) /\ b[p] = CR
    <3>1. 1 \in Nat \ {0}
      OBVIOUS
    <3>2. QED
      BY <1>9, <3>1, LineEnd
  <2> HIDE DEF p
  <2>2. ~(p \in 1..(n + 3))
    BY <1>5, <1>6, <2>1
  <2>3. QED
    BY <1>1, <1>3, <2>1, <2>2
<1>10. ASSUME FindFrom(b, 1, CRLF) # 0
       PROVE  /\ CharAt(b, 1) \in MethodWords /\ b[1] = r.method
              /\ FindFrom(b, 2, <<SP>>) = n + 2 /\ FindFrom(b, n + 3, CRLF) = n + 4 /\ CharAt(b, n + 3) = "HTTP/1"
  <2>1. n + 5 <= Len(b)
    BY <1>9, <1>10
  <2>2. \A i \in 1..(n + 5) : b[i] = w[i] /\ b[i] # NUL
    BY <1>7, <2>1
  <2>3. 1 <= Len(b) /\ n + 3 <= Len(b) /\ 1 \in 1..(n + 5) /\ n + 2 \in 1..(n + 5) /\ n + 3 \in 1..(n + 5)
    BY <1>1, <1>3, <2>1
  <2>4. b[1] = r.method /\ CharAt(b, 1) = b[1] /\ CharAt(b, n + 3) = b[n + 3] /\ b[n + 3] = "HTTP/1" /\ b[n + 2] = SP
    BY <1>1, <1>2, <2>2, <2>3 DEF CharAt
  <2>5. FindFrom(b, 2, <<SP>>) = n + 2
    <3> DEFINE t == <<SP>>
               p == n + 2
    <3>1. t \in Text /\ Len(t) = 1 /\ t[1] = SP
      BY <1>4, Words
    <3>2. p \in Nat \ {0} /\ 2 <= p /\ p + 1 - 1 = p /\ p <= Len(b)
      BY <1>1, <1>3, <2>1
    <3> HIDE DEF t
    <3>3. BeginsAt(b, p, t)
      <4>1. \A k \in 1..1 : k = 1
        OBVIOUS
      <4>2. p + 1 - 1 <= Len(b) /\ b[p + 1 - 1] = SP
        BY <2>4, <3>2
      <4>3. \A k \in 1..Len(t) : t[k] # NUL
        BY <3>1, <4>1, CRLFIs
      <4> HIDE DEF p
      <4>4. \A k \in 1..Len(t) : p + k - 1 <= Len(b) /\ b[p + k - 1] = t[k]
        BY <3>1, <4>1, <4>2
      <4>5. QED
        BY <3>1, <3>2, <4>3, <4>4, BeginsWithin
    <3>4. \A j \in 2..(p + Len(t) - 1) : b[j] # NUL
      <4>1. \A j \in 2..p : j \in 1..(n + 5)
        BY <1>1
      <4>2. p + Len(t) - 1 = p
        BY <3>1, <3>2
      <4> HIDE DEF p
      <4>3. QED
        BY <2>2, <4>1, <4>2
    <3>5. ASSUME NEW j \in 2..(p - 1)
          PROVE  ~BeginsAt(b, j, t)
      <4>1. j \in 1..(n + 3) /\ j # n + 2 /\ j \in 1..(n + 5) /\ j <= Len(b) /\ j + 1 - 1 = j
        BY <1>1, <1>3, <2>1
      <4>2. b[j] # SP
        BY <1>5, <2>2, <4>1
      <4>3. CharAt(b, j + 1 - 1) # t[1]
        BY <3>1, <4>1, <4>2 DEF CharAt
      <4>4. 1 \in 1..Len(t)
        BY <3>1
      <4>5. QED
        BY <4>3, <4>4 DEF BeginsAt
    <3>6. p + Len(t) <= Len(b) + 1
      BY <1>3, <3>1, <3>2
    <3>7. 2 \in Nat \ {0} /\ p \in Nat /\ 2 <= p
      BY <3>2
    <3> HIDE DEF p
    <3>8. FindFrom(b, 2, t) = p
      BY <3>1, <3>3, <3>4, <3>5, <3>6, <3>7, FindsFirst
    <3>9. QED
      BY <3>8 DEF t, p
  <2>6. FindFrom(b, n + 3, CRLF) = n + 4
    <3> DEFINE p == n + 4
               q == n + 3
    <3>1. BeginsAt(b, p, CRLF) /\ p + 2 <= Len(b) + 1 /\ (\A j \in 1..(n + 5) : b[j] # NUL) /\ Len(CRLF) = 2 /\ CRLF \in Text
      BY <1>7, <2>1, CRLFIs
    <3>2. p \in Nat /\ q \in Nat \ {0} /\ q <= p /\ p + 2 - 1 = n + 5 /\ (\A j \in q..(n + 5) : j \in 1..(n + 5)) /\ \A j \in q..(p - 1) : j = q
      BY <1>1
    <3>3. ~BeginsAt(b, q, CRLF)
      <4>1. q \in 1..(n + 3) /\ q \in 1..(n + 5)
        BY <1>1
      <4>2. b[q] # CR
        BY <1>5, <2>2, <4>1
      <4>3. QED
        BY <3>2, <4>2, CRLFAt
    <3> HIDE DEF p, q
    <3>4. \A j \in q..(p + Len(CRLF) - 1) : b[j] # NUL
      BY <3>1, <3>2
    <3>5. \A j \in q..(p - 1) : ~BeginsAt(b, j, CRLF)
      BY <3>2, <3>3
    <3>6. p + Len(CRLF) <= Len(b) + 1
      BY <3>1
    <3>7. FindFrom(b, q, CRLF) = p
      BY <3>1, <3>2, <3>4, <3>5, <3>6, FindsFirst
    <3>8. QED
      BY <3>7 DEF p, q
  <2>7. QED
    BY <1>2, <2>4, <2>5, <2>6
<1>11. QED
  BY <1>1, <1>3, <1>8, <1>9, <1>10 DEF n

-----------------------------------------------------------------------------
(* The head of a request is parsed.                                        *)

\* What the buffer holds in front of the offset is the end of what was read.
Exact(t, w, g) == t.off <= g /\ \A i \in 1..t.off : t.buf[i] = w[g - t.off + i]

LEMMA ExactWindow ==
  ASSUME NEW t, NEW w, NEW g, Exact(t, w, g)
  PROVE  Window(t, w, g)
BY DEF Exact, Window

LEMMA ExactConsumed ==
  ASSUME NEW t, SessionOK(t), NEW w, NEW g \in Nat, t.off <= g, NEW n \in 0..t.off,
         \A i \in 1..t.off : i > n => t.buf[i] = w[g - t.off + i]
  PROVE  Exact(Consume(t, n), w, g) /\ Consume(t, n).off = t.off - n /\ SessionOK(Consume(t, n)) /\ SameButBuffer(Consume(t, n), t)
<1> DEFINE c == Consume(t, n)
           o == t.off
<1>1. o \in Nat /\ n \in Nat /\ n <= o
  BY SessionFields
<1>2. /\ SessionOK(c) /\ SameButBuffer(c, t) /\ c.off = IF n < o THEN o - n ELSE 0
      /\ \A i \in 1..(o - n) : c.buf[i] = t.buf[n + i]
  BY <1>1, ConsumeIs
<1> HIDE DEF c
<1>3. \A i \in 1..o : i > n => t.buf[i] = w[g - o + i]
  OBVIOUS
<1>4. o <= g
  OBVIOUS
<1> HIDE DEF o
<1>5. c.off = o - n
  BY <1>1, <1>2
<1>6. ASSUME NEW i \in 1..(o - n)
      PROVE  c.buf[i] = w[g - (o - n) + i]
  <2> DEFINE j == n + i
  <2>1. j \in 1..o /\ j > n /\ g - o + j = g - (o - n) + i
    BY <1>1
  <2>2. c.buf[i] = t.buf[j]
    BY <1>2
  <2> HIDE DEF j
  <2>3. QED
    BY <1>3, <2>1, <2>2
<1>7. o - n <= g
  BY <1>1, <1>4
<1>8. Exact(c, w, g)
  BY <1>5, <1>6, <1>7 DEF Exact
<1>9. QED
  BY <1>2, <1>5, <1>8 DEF c, o

\* The path is what stands before the '?'.
LEMMA PathIs ==
  ASSUME NEW r \in Asks, NEW text \in Text, Len(text) = TargetLen(r), \A i \in 1..Len(text) : text[i] = Wire[r][i + 1],
         NEW q \in RequestType
  PROVE  /\ WithPath(q, text).path = r.path /\ WithPath(q, text).method = q.method
         /\ WithPath(q, text).clen = q.clen /\ WithPath(q, text).ctype = q.ctype
<1> DEFINE w == Wire[r]
           n == TargetLen(r)
           p == Len(r.path)
           m == p + 1
<1>1. /\ n \in Nat /\ p \in Nat /\ p <= n
      /\ \A i \in 1..p : w[i + 1] = r.path[i] /\ r.path[i] # "?"
      /\ p # n => w[p + 2] = "?"
  BY WireLine
<1>2. r.path \in Text
  BY RequestIs
<1>3. Len(text) = n /\ \A i \in 1..n : text[i] = w[i + 1]
  OBVIOUS
<1> DEFINE v == WithPath(q, text)
<1>a. /\ (\A k \in 1..Len(text) : text[k] # "?") => v = [q EXCEPT !.path = text]
      /\ \A k \in 1..Len(text) : text[k] = "?" /\ (\A j \in 1..(k - 1) : text[j] # "?") =>
              v = [q EXCEPT !.path = SubSeq(text, 1, k - 1), !.query = SubSeq(text, k + 1, Len(text)),
                            !.items = QueryItems(SubSeq(text, k + 1, Len(text)))]
  BY WithPathIs
<1>b. Len(text) = n
  BY <1>3
<1>4. /\ (\A k \in 1..n : text[k] # "?") => v = [q EXCEPT !.path = text]
      /\ \A k \in 1..n : text[k] = "?" /\ (\A j \in 1..(k - 1) : text[j] # "?") =>
              v = [q EXCEPT !.path = SubSeq(text, 1, k - 1), !.query = SubSeq(text, k + 1, Len(text)),
                            !.items = QueryItems(SubSeq(text, k + 1, Len(text)))]
  <2> HIDE DEF v, n, w, p, m
  <2> QED
    BY <1>a, <1>b
<1> HIDE DEF w, n, p
<1>5. \A i \in 1..p : text[i] = r.path[i] /\ text[i] # "?"
  <2>1. \A i \in 1..p : i \in 1..n
    BY <1>1
  <2>2. QED
    BY <1>1, <1>3, <2>1
<1>6. CASE p = n
  <2>1. v = [q EXCEPT !.path = text]
    BY <1>4, <1>5, <1>6
  <2>2. text = r.path
    BY <1>2, <1>3, <1>5, <1>6, SameText DEF p
  <2> HIDE DEF v
  <2>3. v.path = text /\ v.method = q.method /\ v.clen = q.clen /\ v.ctype = q.ctype
    BY <2>1 DEF RequestType
  <2>4. QED
    BY <2>2, <2>3 DEF v
<1>7. CASE p # n
  <2> DEFINE x == SubSeq(text, 1, m - 1)
             y == SubSeq(text, m + 1, Len(text))
             z == QueryItems(y)
  <2>1. m \in 1..n /\ m + 1 = p + 2 /\ m - 1 = p /\ p <= Len(text) /\ p - 1 + 1 = p /\ (\A i \in 1..p : 1 + i - 1 = i) /\ (1 <= p \/ p = 0)
    BY <1>1, <1>3, <1>7
  <2>2. text[m] = "?" /\ \A j \in 1..(m - 1) : text[j] # "?"
    BY <1>1, <1>3, <1>5, <1>7, <2>1
  <2> HIDE DEF m
  <2>3. v = [q EXCEPT !.path = x, !.query = y, !.items = z]
    BY <1>4, <2>1, <2>2
  <2>4. x = r.path
    <3>1. x = SubSeq(text, 1, p)
      BY <2>1
    <3>2. x \in Text /\ Len(x) = (IF 1 <= p THEN p - 1 + 1 ELSE 0) /\ \A i \in 1..(p - 1 + 1) : x[i] = text[1 + i - 1]
      BY <1>1, <2>1, <3>1, SubText
    <3>3. Len(x) = p /\ \A i \in 1..p : x[i] = r.path[i]
      BY <1>5, <2>1, <3>2
    <3> HIDE DEF x
    <3>4. QED
      BY <1>2, <3>2, <3>3, SameText DEF p
  <2> HIDE DEF v, x, y, z
  <2>5. v.path = x /\ v.method = q.method /\ v.clen = q.clen /\ v.ctype = q.ctype
    BY <2>3 DEF RequestType
  <2>6. QED
    BY <2>4, <2>5 DEF v
<1>8. QED
  BY <1>6, <1>7

\* The method line is taken when it is there, and its path is the request's.
LEMMA MethodGood ==
  ASSUME NEW r \in Asks, ~Refused(r), NEW t, Parsing(t), t.phase = "METHOD",
         NEW g \in Nat, g <= Len(Wire[r]), Exact(t, Wire[r], g), t.off = g, Len(t.buf) = g
  PROVE  LET u == ParseMethod(t)
         IN  \/ u.phase = "FAULT"
             \/ u = t /\ g < LineLen(r)
             \/ /\ u.phase = "HEADER" /\ u.req.method = r.method /\ u.req.path = r.path
                /\ u.req.clen = t.req.clen /\ u.req.ctype = t.req.ctype /\ u.stale = t.stale
                /\ Exact(u, Wire[r], g) /\ u.off = g - LineLen(r) /\ LineLen(r) <= g
<1> DEFINE b     == t.buf
           n     == TargetLen(r)
           w     == Wire[r]
           space == FindFrom(b, 2, <<SP>>)
           line  == FindFrom(b, space + 1, CRLF)
           text  == SubSeq(b, 2, space - 1)
           q     == WithPath([t.req EXCEPT !.method = b[1]], text)
           u     == ParseMethod(t)
<1>1. SessionOK(t) /\ t \in SessionType /\ b \in Text /\ Len(b) \in Nat /\ t.req \in RequestType
  BY SessionFields DEF Parsing
<1>2. u = CASE FindFrom(b, 1, CRLF) = 0 -> t
       [] CharAt(b, 1) \notin MethodWords /\ FindFrom(b, 1, CRLF) # 0 -> [t EXCEPT !.req.code = 501]
       [] OTHER ->
          IF space = 0 THEN Consume([t EXCEPT !.req.code = 400, !.req.method = b[1]], 1)
          ELSE IF PathUndecodable(text) THEN Fault(t)
          ELSE IF CharAt(b, space + 1) # "HTTP/1"
               THEN Consume([t EXCEPT !.buf = Terminated(@, {space}), !.req = [q EXCEPT !.code = 501]], space)
          ELSE IF line = 0 THEN Fault(t)
          ELSE Consume([t EXCEPT !.buf = Terminated(@, {space, line, line + 1}), !.req = q, !.phase = "HEADER"], line + 1)
  BY DEF ParseMethod
<1>3. /\ Len(b) = g /\ \A i \in 1..g : b[i] = w[i]
  <2>1. \A i \in 1..g : b[i] = w[g - g + i]
    BY DEF Exact
  <2>2. \A i \in 1..g : g - g + i = i
    OBVIOUS
  <2>3. QED
    BY <2>1, <2>2
<1>4. /\ n \in Nat
      /\ n + 5 <= g => FindFrom(b, 1, CRLF) # 0
      /\ FindFrom(b, 1, CRLF) # 0 =>
           /\ n + 5 <= g /\ CharAt(b, 1) \in MethodWords /\ b[1] = r.method
           /\ space = n + 2 /\ FindFrom(b, n + 3, CRLF) = n + 4 /\ CharAt(b, n + 3) = "HTTP/1"
  BY <1>1, <1>3, FirstLine
<1>5. LineLen(r) = n + 5
  BY DEF LineLen
<1>6. CASE FindFrom(b, 1, CRLF) = 0
  <2>1. u = t
    BY <1>2, <1>6
  <2>2. ~(n + 5 <= g)
    BY <1>4, <1>6
  <2> HIDE DEF u, n
  <2>3. g < LineLen(r)
    BY <1>4, <1>5, <2>2
  <2>4. QED
    BY <2>1, <2>3 DEF u
<1>7. CASE FindFrom(b, 1, CRLF) # 0
  <2>1. /\ n + 5 <= g /\ CharAt(b, 1) \in MethodWords /\ b[1] = r.method
        /\ space = n + 2 /\ FindFrom(b, n + 3, CRLF) = n + 4 /\ CharAt(b, n + 3) = "HTTP/1"
    BY <1>4, <1>7
  <2>2. space + 1 = n + 3 /\ space # 0 /\ space - 1 = n + 1 /\ n + 4 + 1 = n + 5
    <3> HIDE DEF space, n
    <3> QED
      BY <1>4, <2>1
  <2>3. line = n + 4 /\ line # 0 /\ CharAt(b, space + 1) = "HTTP/1"
    <3>1. line = n + 4
      BY <2>1, <2>2
    <3> HIDE DEF line, n, space
    <3>2. QED
      BY <1>4, <2>1, <2>2, <3>1
  <2>4. CASE PathUndecodable(text)
    <3>1. u = Fault(t)
      BY <1>2, <1>7, <2>1, <2>2, <2>4
    <3>2. Fault(t).phase = "FAULT"
      BY <1>1, LostIs DEF Lost
    <3> HIDE DEF u
    <3>3. QED
      BY <3>1, <3>2 DEF u
  <2>5. CASE ~PathUndecodable(text)
    <3> DEFINE d == [t EXCEPT !.buf = Terminated(@, {space, line, line + 1}), !.req = q, !.phase = "HEADER"]
               P == {space, line, line + 1}
               k == line + 1
               e == [t.req EXCEPT !.method = b[1]]
    <3>1. u = Consume(d, k)
      BY <1>2, <1>7, <2>1, <2>2, <2>3, <2>5
    <3>2. text \in Text /\ Len(text) = n /\ \A i \in 1..n : text[i] = w[i + 1]
      <4>1. text = SubSeq(b, 2, n + 1)
        BY <2>2
      <4> DEFINE m == n + 1
      <4>2. m \in Nat /\ m <= Len(b) /\ 2 \in Nat \ {0} /\ m - 2 + 1 = n /\ (2 <= m \/ n = 0)
        <5> HIDE DEF n
        <5> QED
          BY <1>3, <1>4, <2>1
      <4> HIDE DEF m
      <4>3. SubSeq(b, 2, m) \in Text /\ Len(SubSeq(b, 2, m)) = (IF 2 <= m THEN m - 2 + 1 ELSE 0)
            /\ \A i \in 1..(m - 2 + 1) : SubSeq(b, 2, m)[i] = b[2 + i - 1]
        <5> DEFINE a == 2
        <5>1. a \in Nat \ {0}
          OBVIOUS
        <5> HIDE DEF a
        <5>2. SubSeq(b, a, m) \in Text /\ Len(SubSeq(b, a, m)) = (IF a <= m THEN m - a + 1 ELSE 0)
              /\ \A i \in 1..(m - a + 1) : SubSeq(b, a, m)[i] = b[a + i - 1]
          BY <1>1, <4>2, <5>1, SubText
        <5>3. QED
          BY <5>2 DEF a
      <4>4. \A i \in 1..n : 2 + i - 1 = i + 1 /\ i + 1 \in 1..g
        <5> HIDE DEF n
        <5> QED
          BY <1>4, <2>1
      <4>5. ~(2 <= m) => n = 0
        BY <4>2
      <4> HIDE DEF n, b
      <4>6. Len(SubSeq(b, 2, m)) = n /\ \A i \in 1..n : SubSeq(b, 2, m)[i] = w[i + 1]
        BY <1>3, <4>2, <4>3, <4>4, <4>5
      <4>7. QED
        BY <4>1, <4>3, <4>6 DEF m
    <3>3. b[1] \in Cells
      BY <2>1, RequestIs
    <3>4. e \in RequestType /\ e.method = r.method /\ e.clen = t.req.clen /\ e.ctype = t.req.ctype
      <4> DEFINE z == b[1]
                 x == t.req
      <4>1. z \in Cells /\ z = r.method /\ x \in RequestType
        BY <1>1, <2>1, <3>3
      <4> HIDE DEF z, x
      <4>2. [x EXCEPT !.method = z] \in RequestType /\ [x EXCEPT !.method = z].method = z
            /\ [x EXCEPT !.method = z].clen = x.clen /\ [x EXCEPT !.method = z].ctype = x.ctype
        BY <4>1 DEF RequestType, Opt
      <4>3. QED
        BY <4>1, <4>2 DEF z, x
    <3>5. q = WithPath(e, text)
      OBVIOUS
    <3>a. q = MethodRequest(t)
      BY DEF MethodRequest
    <3> HIDE DEF e, text
    <3>6. q.path = r.path /\ q.method = r.method /\ q.clen = t.req.clen /\ q.ctype = t.req.ctype
      <4> HIDE DEF q
      <4>1. WithPath(e, text).path = r.path /\ WithPath(e, text).method = e.method
            /\ WithPath(e, text).clen = e.clen /\ WithPath(e, text).ctype = e.ctype
        BY <3>2, <3>4, PathIs
      <4>2. QED
        BY <3>4, <3>5, <4>1
    <3>7. q \in RequestType /\ q.qoff <= q.clen
      <4>1. t.req.qoff <= t.req.clen /\ t.req.qoff \in Nat /\ t.req.clen \in Nat
        BY <1>1, SessionFields
      <4>2. MethodRequest(t) \in RequestType /\ MethodRequest(t).qoff = t.req.qoff /\ MethodRequest(t).clen = t.req.clen
        <5> HIDE DEF q
        <5> QED
          BY <1>1, <1>7, <2>2, MethodRequestType
      <4> HIDE DEF q
      <4>3. QED
        BY <3>a, <4>1, <4>2
    <3> HIDE DEF q
    <3>8. d = Changed(t, P, q, "HEADER")
      <4>1. d = [t EXCEPT !.buf = Terminated(t.buf, P), !.req = q, !.phase = "HEADER"]
        OBVIOUS
      <4> HIDE DEF d, P
      <4>2. QED
        BY <4>1 DEF Changed
    <3> HIDE DEF P
    <3>9. /\ SessionOK(d) /\ d.req = q /\ d.phase = "HEADER" /\ d.off = t.off /\ d.stale = t.stale /\ Len(d.buf) = Len(t.buf)
          /\ \A i \in 1..Len(t.buf) : d.buf[i] = IF i \in P THEN NUL ELSE t.buf[i]
      <4> HIDE DEF d
      <4> QED
        BY <1>1, <3>7, <3>8, ChangedIs
    <3> HIDE DEF d
    <3>10. k = n + 5 /\ k \in 0..d.off /\ k <= g /\ d.off = g
      <4>1. d.off = g
        BY <3>9
      <4>2. k = n + 5
        BY <2>2, <2>3
      <4> HIDE DEF k, n
      <4>3. QED
        BY <1>4, <2>1, <4>1, <4>2
    <3>11. \A i \in P : i <= k
      <4>1. \A i \in P : i = n + 2 \/ i = n + 4 \/ i = n + 5
        BY <2>1, <2>2, <2>3 DEF P
      <4> HIDE DEF k, n
      <4>2. QED
        BY <1>4, <3>10, <4>1
    <3>12. ASSUME NEW i \in 1..d.off, i > k
           PROVE  d.buf[i] = w[g - d.off + i]
      <4>1. i \in 1..g /\ i \in 1..Len(t.buf) /\ g - d.off + i = i
        BY <1>3, <3>10
      <4>2. i \notin P
        <5> HIDE DEF k
        <5> QED
          BY <1>4, <3>10, <3>11, <3>12, <4>1
      <4> HIDE DEF b
      <4>3. d.buf[i] = t.buf[i]
        BY <3>9, <4>1, <4>2
      <4>4. QED
        BY <1>3, <4>1, <4>3 DEF b
    <3> HIDE DEF k, w, n
    <3>13. Exact(Consume(d, k), w, g) /\ Consume(d, k).off = d.off - k /\ SameButBuffer(Consume(d, k), d)
      <4>1. \A i \in 1..d.off : i > k => d.buf[i] = w[g - d.off + i]
        BY <3>12
      <4>2. d.off <= g /\ k \in 0..d.off /\ SessionOK(d)
        BY <3>9, <3>10
      <4>3. QED
        BY <4>1, <4>2, ExactConsumed
    <3> HIDE DEF u
    <3>14. u.phase = "HEADER" /\ u.req = q /\ u.stale = t.stale /\ Exact(u, w, g) /\ u.off = g - (n + 5)
      BY <3>1, <3>9, <3>10, <3>13 DEF SameButBuffer
    <3>15. QED
      BY <1>5, <2>1, <3>6, <3>14 DEF u, w
  <2>6. QED
    BY <2>4, <2>5
<1>8. QED
  BY <1>6, <1>7

-----------------------------------------------------------------------------
(* The header lines of a request.                                          *)

\* Where the first k headers end.
HeadTo(r, k) == LineLen(r) + Len(HeaderChain(r.headers)[k])

LEMMA HeaderLine ==
  ASSUME NEW r \in Asks, NEW k \in 1..Len(r.headers)
  PROVE  LET w == Wire[r]
             a == HeadTo(r, k - 1)
             v == r.headers[k].value
             l == Len(v)
         IN  /\ a \in Nat /\ l \in Nat /\ HeadTo(r, k) = a + l + 4 /\ HeadTo(r, k) + 2 <= HeadLen(r)
             /\ w[a + 1] = r.headers[k].name /\ w[a + 2] = SP /\ (\A i \in 1..l : w[a + 2 + i] = v[i])
             /\ w[a + l + 3] = CR /\ w[a + l + 4] = LF
             /\ r.headers[k].name \notin {NUL, CR} /\ v \in Text /\ (\A i \in 1..l : v[i] \notin {NUL, CR}) /\ (l > 0 => v[1] # SP)
<1> DEFINE w  == Wire[r]
           hs == r.headers
           n  == Len(hs)
           c  == HeaderChain(hs)
           p  == HeaderPieces(hs)
           v  == hs[k].value
           l  == Len(v)
           h  == HeaderText(hs, k)
           m  == LineLen(r)
           a  == m + Len(c[k - 1])
<1>1. hs \in Seq([name : Cells, value : Text]) /\ HeadFits(r)
  BY RequestIs
<1>2. n \in Nat /\ Chain(c, p, n) /\ HeadersText(hs) = c[n] /\ k \in 1..n
  BY <1>1, HeaderChainIs
<1>3. p[k] = h
  BY <1>2 DEF HeaderPieces
<1>4. /\ hs[k].name \in Cells /\ v \in Text /\ h \in Text /\ l \in Nat /\ Len(h) = l + 4
      /\ h[1] = hs[k].name /\ h[2] = SP /\ (\A i \in 1..l : h[i + 2] = v[i]) /\ h[l + 3] = CR /\ h[l + 4] = LF
  BY <1>1, HeaderTextIs
<1>5. hs[k].name \notin {NUL, CR} /\ Without(v, {NUL, CR}) /\ CharAt(v, 1) # SP
  <2>1. k \in DOMAIN hs
    BY <1>1, <1>2
  <2>2. QED
    BY <1>1, <2>1 DEF HeadFits
<1>6. (\A i \in 1..l : v[i] \notin {NUL, CR}) /\ (l > 0 => v[1] # SP)
  <2>1. DOMAIN v = 1..l
    BY <1>4, TextLen
  <2>2. QED
    BY <1>4, <1>5, <2>1 DEF Without, CharAt
<1>7. m \in Nat /\ HeadLen(r) = m + Len(c[n]) + 2 /\ Stands(HeadText(r), m, c[n]) /\ HeadText(r) \in Text /\ c[n] \in Text
  BY <1>2, HeadStands DEF HeadLen
<1> HIDE DEF v, h
<1>8. /\ Len(c[k]) = Len(c[k - 1]) + Len(p[k]) /\ Len(c[k]) \in Nat /\ Len(c[k - 1]) \in Nat
  <2> HIDE DEF c, p, n
  <2>1. /\ c[k] \in Text /\ c[k - 1] \in Text /\ p[k] \in Text
        /\ Len(c[k]) \in Nat /\ Len(c[k - 1]) \in Nat /\ Len(p[k]) \in Nat /\ Len(c[k]) = Len(c[k - 1]) + Len(p[k])
        /\ Stands(c[k], 0, c[k - 1]) /\ Stands(c[k], Len(c[k - 1]), p[k])
    BY <1>2, ChainStep
  <2>2. QED
    BY <2>1
<1>9. Stands(c[n], Len(c[k - 1]), p[k]) /\ Len(c[k]) <= Len(c[n])
  BY <1>2, ChainPiece
<1>10. Len(c[n]) \in Nat
  BY <1>7, TextLen
<1>11. Stands(w, m + Len(c[k - 1]), h)
  <2> HIDE DEF w, c, p, m
  <2>1. Stands(HeadText(r), m + Len(c[k - 1]), h)
    BY <1>3, <1>4, <1>7, <1>8, <1>9, StandsIn
  <2>2. \A x \in Nat, t \in Text : Stands(HeadText(r), x, t) => Stands(w, x, t)
    BY BodyStands DEF w
  <2>3. QED
    BY <1>4, <1>7, <1>8, <2>1, <2>2, SMTT(30)
<1>12. HeadTo(r, k - 1) = a /\ HeadTo(r, k) = m + Len(c[k])
  BY DEF HeadTo
<1>13. /\ a \in Nat /\ m + Len(c[k]) = a + l + 4 /\ a + l + 4 + 2 <= HeadLen(r)
  <2> DEFINE x == Len(c[k - 1])
             y == Len(c[k])
             z == Len(c[n])
  <2>1. x \in Nat /\ y \in Nat /\ z \in Nat /\ y = x + (l + 4) /\ y <= z /\ HeadLen(r) = m + z + 2 /\ m \in Nat /\ l \in Nat
    BY <1>3, <1>4, <1>7, <1>8, <1>9, <1>10
  <2>2. a = m + x
    OBVIOUS
  <2> HIDE DEF x, y, z, m, l, a
  <2>3. a \in Nat /\ m + y = a + l + 4 /\ a + l + 4 + 2 <= HeadLen(r)
    BY <2>1, <2>2
  <2>4. QED
    BY <2>3 DEF y
<1>14. \A i \in 1..(l + 4) : w[a + i] = h[i]
  BY <1>4, <1>11 DEF Stands
<1> HIDE DEF w, a, l
<1>15. w[a + 1] = hs[k].name /\ w[a + 2] = SP /\ w[a + l + 3] = CR /\ w[a + l + 4] = LF
  <2>1. 1 \in 1..(l + 4) /\ 2 \in 1..(l + 4) /\ l + 3 \in 1..(l + 4) /\ l + 4 \in 1..(l + 4)
        /\ a + (l + 3) = a + l + 3 /\ a + (l + 4) = a + l + 4
    BY <1>4, <1>13
  <2>2. w[a + 1] = h[1] /\ w[a + 2] = h[2] /\ w[a + (l + 3)] = h[l + 3] /\ w[a + (l + 4)] = h[l + 4]
    BY <1>14, <2>1
  <2>3. QED
    BY <1>4, <2>1, <2>2
<1>16. \A i \in 1..l : w[a + 2 + i] = v[i]
  <2>1. \A i \in 1..l : i + 2 \in 1..(l + 4) /\ a + (i + 2) = a + 2 + i
    BY <1>4, <1>13
  <2>2. \A i \in 1..l : w[a + (i + 2)] = h[i + 2]
    BY <1>14, <2>1
  <2>3. QED
    BY <1>4, <2>1, <2>2
<1>17. QED
  BY <1>4, <1>5, <1>6, <1>12, <1>13, <1>15, <1>16 DEF w, a, l, v

LEMMA HeaderEnd ==
  ASSUME NEW r \in Asks
  PROVE  LET w == Wire[r]
             n == Len(r.headers)
         IN  /\ n \in Nat /\ w \in Text /\ Len(w) \in Nat /\ HeadLen(r) \in Nat /\ HeadLen(r) <= Len(w)
             /\ HeadTo(r, 0) = LineLen(r) /\ LineLen(r) \in Nat /\ HeadTo(r, n) + 2 = HeadLen(r)
             /\ w[HeadTo(r, n) + 1] = CR /\ w[HeadTo(r, n) + 2] = LF
             /\ \A k \in 0..n : HeadTo(r, k) \in Nat /\ HeadTo(r, k) + 2 <= HeadLen(r)
<1> DEFINE w  == Wire[r]
           hs == r.headers
           n  == Len(hs)
           c  == HeaderChain(hs)
           p  == HeaderPieces(hs)
           m  == LineLen(r)
           z  == Len(c[n])
<1>1. hs \in Seq([name : Cells, value : Text])
  BY RequestIs
<1>2. n \in Nat /\ Chain(c, p, n) /\ HeadersText(hs) = c[n]
  BY <1>1, HeaderChainIs
<1>3. w \in Text /\ Len(BodyText(r)) \in Nat /\ Len(w) = HeadLen(r) + Len(BodyText(r)) /\ HeadLen(r) \in Nat /\ m \in Nat
  BY BodyStands, HeadStands
<1>4. HeadLen(r) = m + z + 2 /\ c[n] \in Text /\ Stands(HeadText(r), m + z, CRLF)
  BY <1>2, HeadStands DEF HeadLen
<1>5. z \in Nat
  BY <1>4, TextLen
<1>6. c[0] = <<>> /\ Len(c[0]) = 0
  <2>1. c[0] = <<>>
    BY <1>2 DEF Chain
  <2>2. QED
    BY <2>1
<1>7. \A k \in 0..n : Len(c[k]) \in Nat /\ Len(c[k]) <= z
  <2>1. n \in 0..n
    BY <1>2
  <2>2. QED
    BY <1>2, <2>1, ChainPrefix
<1>8. Stands(w, m + z, CRLF)
  <2>1. \A x \in Nat, t \in Text : Stands(HeadText(r), x, t) => Stands(w, x, t)
    BY BodyStands
  <2>2. m + z \in Nat
    <3> HIDE DEF m, z
    <3> QED
      BY <1>3, <1>5
  <2>3. QED
    BY <1>4, <2>1, <2>2, CRLFIs
<1>9. w[m + z + 1] = CR /\ w[m + z + 2] = LF
  <2> HIDE DEF w, z, m
  <2> QED
    BY <1>8, CRLFIs DEF Stands
<1>10. \A k \in 0..n : HeadTo(r, k) = m + Len(c[k])
  BY DEF HeadTo
<1>11. HeadTo(r, 0) = m + 0 /\ HeadTo(r, n) = m + z
  <2>1. 0 \in 0..n /\ n \in 0..n
    BY <1>2
  <2>2. HeadTo(r, 0) = m + Len(c[0]) /\ HeadTo(r, n) = m + Len(c[n])
    BY <1>10, <2>1
  <2>3. QED
    BY <1>6, <2>2
<1> HIDE DEF w, n, c, p, m, z
<1>12. \A k \in 0..n : HeadTo(r, k) \in Nat /\ HeadTo(r, k) + 2 <= HeadLen(r)
  <2> TAKE k \in 0..n
  <2> DEFINE x == Len(c[k])
             y == HeadTo(r, k)
  <2>1. y = m + x /\ x \in Nat /\ x <= z
    BY <1>7, <1>10
  <2> HIDE DEF x, y
  <2>2. y \in Nat /\ y + 2 <= HeadLen(r)
    BY <1>3, <1>4, <1>5, <2>1
  <2>3. QED
    BY <2>2 DEF y
<1>14. Len(w) \in Nat /\ HeadLen(r) <= Len(w)
  BY <1>3
<1>15. HeadTo(r, 0) = m /\ HeadTo(r, n) + 2 = HeadLen(r)
  BY <1>3, <1>4, <1>5, <1>11
<1>16. w[HeadTo(r, n) + 1] = CR /\ w[HeadTo(r, n) + 2] = LF
  BY <1>9, <1>11
<1>17. QED
  BY <1>2, <1>3, <1>12, <1>14, <1>15, <1>16 DEF w, n, m

\* A header line in the buffer: found when it is there to its end, and
\* nothing else is taken for it.
LEMMA LineRead ==
  ASSUME NEW r \in Asks, NEW k \in 1..Len(r.headers), NEW b \in Text, NEW o \in Nat, o <= Len(b), NEW d \in Nat,
         \A i \in 1..o : b[i] = Wire[r][d + i], NEW i \in Nat \ {0}, d + i = HeadTo(r, k - 1) + 1
  PROVE  LET e == i + Len(r.headers[k].value) + 2
         IN  /\ e \in Nat /\ e > i /\ d + e + 1 = HeadTo(r, k)
             /\ i <= o => ~BeginsAt(b, i, CRLF) /\ CharAt(b, i) # NUL
             /\ e + 1 <= o => /\ FindFrom(b, i, CRLF) = e /\ i \notin HeaderStops(b)
                              /\ b[i] = r.headers[k].name /\ ValueOf(b, i) = r.headers[k].value
             /\ FindFrom(b, i, CRLF) # 0 /\ FindFrom(b, i, CRLF) + 1 <= o => e + 1 <= o
<1> DEFINE w == Wire[r]
           a == HeadTo(r, k - 1)
           v == r.headers[k].value
           z == r.headers[k].name
           l == Len(v)
           e == i + l + 2
           f == FindFrom(b, i, CRLF)
<1>1. /\ a \in Nat /\ l \in Nat /\ HeadTo(r, k) = a + l + 4
      /\ w[a + 1] = z /\ w[a + 2] = SP /\ (\A x \in 1..l : w[a + 2 + x] = v[x])
      /\ w[a + l + 3] = CR /\ w[a + l + 4] = LF
      /\ z \notin {NUL, CR} /\ v \in Text /\ (\A x \in 1..l : v[x] \notin {NUL, CR}) /\ (l > 0 => v[1] # SP)
  BY HeaderLine
<1>2. d + i = a + 1 /\ Len(b) \in Nat /\ o <= Len(b) /\ i \in Nat /\ i >= 1
  BY TextLen
<1>a. \A x \in 1..o : b[x] = w[d + x]
  OBVIOUS
<1> HIDE DEF w, a, v, z, l
<1>3. e \in Nat /\ e > i /\ d + e + 1 = HeadTo(r, k)
  <2>1. a \in Nat /\ l \in Nat /\ HeadTo(r, k) = a + l + 4 /\ d + i = a + 1 /\ i \in Nat
    BY <1>1, <1>2
  <2>2. d + (i + l + 2) + 1 = (d + i) + l + 3 /\ (a + 1) + l + 3 = a + l + 4
    BY <2>1
  <2>3. i + l + 2 \in Nat /\ i + l + 2 > i
    BY <2>1
  <2>4. QED
    BY <2>1, <2>2, <2>3
<1>b. o \in Nat /\ Len(b) \in Nat /\ o <= Len(b) /\ i \in Nat /\ i >= 1 /\ l \in Nat /\ e = i + l + 2
  BY <1>1, <1>2
<1>4. /\ i <= o => b[i] = z
      /\ i + 1 <= o => b[i + 1] = SP
      /\ \A x \in 1..l : i + 1 + x <= o => b[i + 1 + x] = v[x]
      /\ e <= o => b[e] = CR
      /\ e + 1 <= o => b[e + 1] = LF
  <2>1. \A x \in Nat : i + x <= o => b[i + x] = w[a + 1 + x]
    <3> TAKE x \in Nat
    <3>1. HAVE i + x <= o
    <3>2. i + x \in 1..o /\ d + (i + x) = a + 1 + x
      BY <1>1, <1>2, <3>1
    <3>3. b[i + x] = w[d + (i + x)]
      BY <1>a, <3>2
    <3>4. QED
      BY <3>2, <3>3
  <2>2. i + 0 = i /\ a + 1 + 0 = a + 1 /\ a + 1 + 1 = a + 2 /\ i + (l + 2) = e /\ a + 1 + (l + 2) = a + l + 3
        /\ i + (l + 3) = e + 1 /\ a + 1 + (l + 3) = a + l + 4 /\ l + 2 \in Nat /\ l + 3 \in Nat
    BY <1>1, <1>2
  <2>3. \A x \in 1..l : i + (x + 1) = i + 1 + x /\ a + 1 + (x + 1) = a + 2 + x /\ x + 1 \in Nat
    BY <1>1, <1>2
  <2> HIDE DEF e
  <2>4. i <= o => b[i] = z
    <3>1. i + 0 <= o => b[i + 0] = w[a + 1 + 0]
      BY <2>1
    <3>2. QED
      BY <1>1, <2>2, <3>1
  <2>5. i + 1 <= o => b[i + 1] = SP
    BY <1>1, <2>1, <2>2
  <2>6. \A x \in 1..l : i + 1 + x <= o => b[i + 1 + x] = v[x]
    <3> TAKE x \in 1..l
    <3>1. i + (x + 1) <= o => b[i + (x + 1)] = w[a + 1 + (x + 1)]
      BY <2>1, <2>3
    <3>2. QED
      BY <1>1, <2>3, <3>1
  <2>7. e <= o => b[e] = CR
    <3>1. i + (l + 2) <= o => b[i + (l + 2)] = w[a + 1 + (l + 2)]
      BY <2>1, <2>2
    <3>2. QED
      BY <1>1, <2>2, <3>1
  <2>8. e + 1 <= o => b[e + 1] = LF
    <3>1. i + (l + 3) <= o => b[i + (l + 3)] = w[a + 1 + (l + 3)]
      BY <2>1, <2>2
    <3>2. QED
      BY <1>1, <2>2, <3>1
  <2>9. QED
    BY <2>4, <2>5, <2>6, <2>7, <2>8
<1>5. ASSUME NEW j \in i..(e - 1), j <= o
      PROVE  b[j] \notin {NUL, CR}
  <2>1. SP \notin {NUL, CR}
    BY CRLFIs
  <2>2. CASE j = i
    BY <1>1, <1>4, <1>5, <2>2
  <2>3. CASE j = i + 1
    BY <1>4, <1>5, <2>1, <2>3
  <2>4. CASE j # i /\ j # i + 1
    <3> DEFINE x == j - i - 1
    <3>1. x \in 1..l /\ i + 1 + x = j
      BY <1>1, <1>2, <1>3, <2>4
    <3> HIDE DEF x
    <3>2. b[j] = v[x]
      BY <1>4, <1>5, <3>1
    <3>3. QED
      BY <1>1, <3>1, <3>2
  <2>5. QED
    BY <2>2, <2>3, <2>4
<1>6. i <= o => ~BeginsAt(b, i, CRLF) /\ CharAt(b, i) # NUL
  <2> SUFFICES ASSUME i <= o
               PROVE  ~BeginsAt(b, i, CRLF) /\ CharAt(b, i) # NUL
    OBVIOUS
  <2>1. b[i] \notin {NUL, CR} /\ i <= Len(b)
    BY <1>1, <1>2, <1>4
  <2>2. ~BeginsAt(b, i, CRLF)
    BY <2>1, CRLFAt
  <2>3. CharAt(b, i) = b[i]
    BY <2>1 DEF CharAt
  <2>4. QED
    BY <2>1, <2>2, <2>3
<1>7. ASSUME e + 1 <= o
      PROVE  f = e
  <2>1. BeginsAt(b, e, CRLF)
    <3>1. e \in Nat \ {0} /\ e + 1 <= Len(b) /\ e <= o
      BY <1>2, <1>3, <1>7
    <3>2. b[e] = CR /\ b[e + 1] = LF
      BY <1>4, <1>7, <3>1
    <3> HIDE DEF e
    <3>3. QED
      BY <3>1, <3>2, CRLFAt
  <2>2. \A j \in i..(e - 1) : b[j] \notin {NUL, CR} /\ j \in Nat \ {0}
    <3> TAKE j \in i..(e - 1)
    <3>1. j <= o /\ j \in Nat \ {0}
      BY <1>b, <1>7
    <3>2. QED
      BY <1>5, <3>1
  <2>3. \A j \in i..(e - 1) : ~BeginsAt(b, j, CRLF)
    BY <2>2, CRLFAt
  <2>4. \A j \in i..(e + Len(CRLF) - 1) : b[j] # NUL
    <3> TAKE j \in i..(e + Len(CRLF) - 1)
    <3>1. j \in i..(e - 1) \/ j = e \/ j = e + 1
      BY <1>b, CRLFIs
    <3>2. b[e] = CR /\ b[e + 1] = LF
      BY <1>2, <1>3, <1>4, <1>7
    <3> HIDE DEF e
    <3>3. QED
      BY <2>2, <3>1, <3>2, CRLFIs
  <2>5. e + Len(CRLF) <= Len(b) + 1 /\ i <= e /\ e \in Nat
    BY <1>2, <1>3, <1>7, CRLFIs
  <2> HIDE DEF e
  <2>6. QED
    BY <2>1, <2>3, <2>4, <2>5, CRLFIs, FindsFirst
<1>8. ASSUME e + 1 <= o
      PROVE  i \notin HeaderStops(b)
  <2>1. i <= o /\ e # 0
    BY <1>2, <1>3, <1>8
  <2> HIDE DEF e, f
  <2>2. ~BeginsAt(b, i, CRLF) /\ CharAt(b, i) # NUL /\ FindFrom(b, i, CRLF) # 0
    BY <1>6, <1>7, <1>8, <2>1 DEF f
  <2>3. QED
    BY <2>2 DEF HeaderStops
<1>9. ASSUME e + 1 <= o
      PROVE  b[i] = z /\ ValueOf(b, i) = v
  <2>1. i <= o /\ e # 0 /\ i + 1 <= o /\ f = e
    BY <1>2, <1>3, <1>7, <1>9
  <2> DEFINE p == ValueStart(b, i)
             u == ValueOf(b, i)
  <2>2. /\ p \in (i + 1)..f /\ CharAt(b, p) # SP /\ (\A j \in (i + 1)..(p - 1) : CharAt(b, j) = SP)
        /\ u = SubSeq(b, p, f - 1) /\ u \in Text
    <3>1. f # 0 /\ ~BeginsAt(b, i, CRLF)
      BY <1>6, <2>1
    <3> QED
      BY <3>1, ValueIs
  <2> HIDE DEF p, u, f
  <2>3. p = i + 2
    <3>1. p # i + 1
      <4>1. CharAt(b, i + 1) = SP
        BY <1>2, <1>4, <2>1 DEF CharAt
      <4>2. QED
        BY <2>2, <4>1
    <3>2. ASSUME p > i + 2
          PROVE  FALSE
      <4>1. i + 2 \in (i + 1)..(p - 1) /\ l > 0 /\ i + 2 <= o /\ 1 \in 1..l /\ i + 1 + 1 = i + 2
        <5>1. p \in Int /\ p <= f /\ f = i + l + 2 /\ i \in Nat /\ l \in Nat /\ o \in Nat /\ i + l + 2 + 1 <= o
          <6>1. f = e
            BY <2>1
          <6>2. f \in Nat /\ f = i + l + 2 /\ i \in Nat /\ l \in Nat /\ o \in Nat /\ i + l + 2 + 1 <= o
            BY <1>b, <1>9, <6>1
          <6>3. p \in (i + 1)..f
            BY <2>2
          <6> HIDE DEF e
          <6>4. QED
            BY <6>2, <6>3
        <5> HIDE DEF e
        <5>2. l > 0
          BY <3>2, <5>1
        <5>3. QED
          BY <3>2, <5>1, <5>2, SMTT(30)
      <4>2. CharAt(b, i + 2) = SP
        BY <2>2, <4>1
      <4>3. b[i + 2] = v[1]
        BY <1>4, <4>1
      <4>4. CharAt(b, i + 2) = b[i + 2]
        BY <1>2, <4>1 DEF CharAt
      <4>5. QED
        BY <1>1, <4>1, <4>2, <4>3, <4>4
    <3>3. p \in Int /\ p >= i + 1 /\ i \in Nat
      BY <1>2, <2>2
    <3>4. p = i + 1 \/ p = i + 2 \/ p > i + 2
      BY <3>3
    <3>5. QED
      BY <3>1, <3>2, <3>4
  <2> DEFINE m == i + 2
             n == e - 1
  <2>4. u = SubSeq(b, m, n)
    BY <2>1, <2>2, <2>3
  <2>a. /\ o \in Nat /\ Len(b) \in Nat /\ o <= Len(b) /\ i \in Nat /\ l \in Nat
        /\ m = i + 2 /\ n = i + l + 1 /\ i + l + 3 <= o
    <3>1. e \in Nat /\ e = i + l + 2 /\ e + 1 <= o /\ n = e - 1
      BY <1>b, <1>9
    <3> HIDE DEF e, n
    <3>2. n = i + l + 1 /\ i + l + 3 <= o
      BY <1>b, <3>1
    <3>3. QED
      BY <1>b, <3>2
  <2> HIDE DEF m, n, e
  <2>5. m \in Nat \ {0} /\ n \in Nat /\ n <= Len(b) /\ n - m + 1 = l /\ (m <= n \/ l = 0)
    <3>1. m \in Nat \ {0} /\ n \in Nat
      BY <2>a
    <3>2. n <= Len(b)
      BY <2>a
    <3>3. n - m + 1 = l
      BY <2>a
    <3>4. m <= n \/ l = 0
      BY <2>a
    <3>5. QED
      BY <3>1, <3>2, <3>3, <3>4
  <2>6. \A x \in 1..l : m + x - 1 = i + 1 + x /\ i + 1 + x <= o
    <3> TAKE x \in 1..l
    <3>1. x \in Nat /\ x <= l
      BY <2>a
    <3>2. QED
      BY <2>a, <3>1
  <2>7. Len(u) = (IF m <= n THEN n - m + 1 ELSE 0) /\ \A x \in 1..(n - m + 1) : u[x] = b[m + x - 1]
    BY <2>4, <2>5, SubText
  <2>8. Len(u) = l /\ \A x \in 1..l : u[x] = v[x]
    <3>1. Len(u) = l
      BY <2>5, <2>7
    <3>2. \A x \in 1..l : u[x] = b[i + 1 + x]
      BY <2>5, <2>6, <2>7
    <3>3. QED
      BY <1>4, <2>6, <3>1, <3>2
  <2>9. u = v
    BY <1>1, <2>2, <2>8, SameText DEF l
  <2>10. QED
    BY <1>4, <2>1, <2>9 DEF u
<1>10. ASSUME f # 0, f + 1 <= o
       PROVE  e + 1 <= o
  <2>1. f \in i..Len(b) /\ b[f] = CR /\ f \in Nat
    BY <1>10, LineEnd
  <2> HIDE DEF f
  <2>2. ASSUME f < e
        PROVE  FALSE
    <3>1. f \in i..(e - 1) /\ f <= o
      BY <1>2, <1>3, <1>10, <2>1, <2>2
    <3> HIDE DEF e
    <3>2. QED
      BY <1>5, <2>1, <3>1
  <2>3. QED
    BY <1>2, <1>3, <1>10, <2>1, <2>2
<1>11. QED
  <2> HIDE DEF e, f
  <2>1. e + 1 <= o => f = e /\ i \notin HeaderStops(b) /\ b[i] = z /\ ValueOf(b, i) = v
    BY <1>7, <1>8, <1>9
  <2>2. f # 0 /\ f + 1 <= o => e + 1 <= o
    BY <1>10
  <2>3. QED
    BY <1>3, <1>6, <2>1, <2>2 DEF e, f, z, v, l

\* What the session knows of a request behind its first k headers.
Known(q, r, k) ==
  /\ q.method = r.method /\ q.path = r.path
  /\ (\A j \in 1..k : r.headers[j].name # "Content-Length:") => q.clen = 0
  /\ \A j \in 1..k : r.headers[j].name = "Content-Length:" => q.clen = atoi(r.headers[j].value)
  /\ (\A j \in 1..k : r.headers[j].name # "Content-Type:") => q.ctype = Nil
  /\ \A j \in 1..k : r.headers[j].name = "Content-Type:" => q.ctype = r.headers[j].value

LEMMA KnownMore ==
  ASSUME NEW r \in Asks, NEW k \in 1..Len(r.headers), NEW q \in RequestType, Known(q, r, k - 1),
         NEW b, NEW i, b[i] = r.headers[k].name, ValueOf(b, i) = r.headers[k].value
  PROVE  Known(Recorded(q, b, i), r, k)
<1> DEFINE n == Len(r.headers)
           hs == r.headers
           u == Recorded(q, b, i)
           c == atoi(ValueOf(b, i))
           v == ValueOf(b, i)
<1>1. hs \in Seq([name : Cells, value : Text]) /\ HeadFits(r)
  BY RequestIs
<1>2. n \in Nat /\ DOMAIN hs = 1..n /\ k \in Nat /\ k >= 1 /\ k - 1 \in Nat
  BY <1>1
<1>3. \A j \in 1..(k - 1) : hs[j].name # hs[k].name
  <2> TAKE j \in 1..(k - 1)
  <2>1. j \in DOMAIN hs /\ k \in DOMAIN hs /\ j # k
    BY <1>2
  <2>2. QED
    BY <1>1, <2>1 DEF HeadFits
<1>4. 1..k = 1..(k - 1) \cup {k}
  BY <1>2
<1>5. /\ q.method = r.method /\ q.path = r.path
      /\ (\A j \in 1..(k - 1) : hs[j].name # "Content-Length:") => q.clen = 0
      /\ \A j \in 1..(k - 1) : hs[j].name = "Content-Length:" => q.clen = atoi(hs[j].value)
      /\ (\A j \in 1..(k - 1) : hs[j].name # "Content-Type:") => q.ctype = Nil
      /\ \A j \in 1..(k - 1) : hs[j].name = "Content-Type:" => q.ctype = hs[j].value
  BY DEF Known
<1>6. /\ u.method = q.method /\ u.path = q.path
      /\ u.clen = IF b[i] = "Content-Length:" THEN c ELSE q.clen
      /\ u.ctype = IF b[i] = "Content-Type:" THEN v ELSE q.ctype
  <2>1. u = CASE b[i] = "Content-Length:" -> [q EXCEPT !.clen = c]
             [] b[i] = "Content-Type:"   -> [q EXCEPT !.ctype = v]
             [] b[i] = "Host:"           -> [q EXCEPT !.host = v]
             [] OTHER                    -> q
    BY DEF Recorded
  <2>2. "Content-Length:" # "Content-Type:" /\ "Content-Length:" # "Host:" /\ "Content-Type:" # "Host:"
    OBVIOUS
  <2> HIDE DEF u, v, c
  <2>3. CASE b[i] = "Content-Length:"
    <3>1. u = [q EXCEPT !.clen = c]
      BY <2>1, <2>2, <2>3
    <3>2. QED
      BY <2>2, <2>3, <3>1 DEF RequestType
  <2>4. CASE b[i] = "Content-Type:"
    <3>1. u = [q EXCEPT !.ctype = v]
      BY <2>1, <2>2, <2>4
    <3>2. QED
      BY <2>2, <2>4, <3>1 DEF RequestType
  <2>5. CASE b[i] = "Host:"
    <3>1. u = [q EXCEPT !.host = v]
      BY <2>1, <2>2, <2>5
    <3>2. QED
      BY <2>2, <2>5, <3>1 DEF RequestType
  <2>6. CASE b[i] # "Content-Length:" /\ b[i] # "Content-Type:" /\ b[i] # "Host:"
    <3>1. u = q
      BY <2>1, <2>6
    <3>2. QED
      BY <2>6, <3>1
  <2>7. QED
    BY <2>3, <2>4, <2>5, <2>6
<1>7. b[i] = hs[k].name /\ v = hs[k].value /\ c = atoi(hs[k].value)
  OBVIOUS
<1> HIDE DEF u, v, c, hs
<1>8. /\ (\A j \in 1..k : hs[j].name # "Content-Length:") => u.clen = 0
      /\ \A j \in 1..k : hs[j].name = "Content-Length:" => u.clen = atoi(hs[j].value)
  BY <1>3, <1>4, <1>5, <1>6, <1>7
<1>9. /\ (\A j \in 1..k : hs[j].name # "Content-Type:") => u.ctype = Nil
      /\ \A j \in 1..k : hs[j].name = "Content-Type:" => u.ctype = hs[j].value
  BY <1>3, <1>4, <1>5, <1>6, <1>7
<1>10. QED
  BY <1>5, <1>6, <1>8, <1>9 DEF Known, u, hs

LEMMA KnownAll ==
  ASSUME NEW r \in Asks, NEW q, Known(q, r, Len(r.headers))
  PROVE  q.clen = LengthOf(r) /\ q.ctype = HeaderOf(r, "Content-Type:")
<1> DEFINE n == Len(r.headers)
           hs == r.headers
<1>1. n \in Nat /\ DOMAIN hs = 1..n
  <2>1. hs \in Seq([name : Cells, value : Text])
    BY RequestIs
  <2>2. QED
    BY <2>1
<1>2. ASSUME NEW x
      PROVE  LET v == HeaderOf(r, x)
             IN  \/ v = Nil /\ \A j \in 1..n : hs[j].name # x
                 \/ \E j \in 1..n : hs[j].name = x /\ v = hs[j].value
  <2> DEFINE ks == {j \in DOMAIN hs : hs[j].name = x}
  <2>1. HeaderOf(r, x) = IF ks = {} THEN Nil ELSE hs[Min(ks)].value
    BY DEF HeaderOf
  <2>2. ks \in SUBSET Nat
    BY <1>1
  <2>3. CASE ks = {}
    BY <1>1, <2>1, <2>3
  <2>4. CASE ks # {}
    <3>1. Min(ks) \in ks
      BY <2>2, <2>4, MinIn
    <3>2. Min(ks) \in 1..n /\ hs[Min(ks)].name = x
      BY <1>1, <3>1
    <3> HIDE DEF ks
    <3>3. QED
      BY <2>1, <2>4, <3>2
  <2>5. QED
    BY <2>3, <2>4
<1>3. /\ (\A j \in 1..n : hs[j].name # "Content-Length:") => q.clen = 0
      /\ \A j \in 1..n : hs[j].name = "Content-Length:" => q.clen = atoi(hs[j].value)
      /\ (\A j \in 1..n : hs[j].name # "Content-Type:") => q.ctype = Nil
      /\ \A j \in 1..n : hs[j].name = "Content-Type:" => q.ctype = hs[j].value
  BY DEF Known
<1>4. \A j \in 1..n : hs[j].value \in Text
  <2>1. hs \in Seq([name : Cells, value : Text])
    BY RequestIs
  <2>2. QED
    BY <2>1, HeaderTextIs
<1>5. q.ctype = HeaderOf(r, "Content-Type:")
  <2>1. LET v == HeaderOf(r, "Content-Type:")
        IN  \/ v = Nil /\ \A j \in 1..n : hs[j].name # "Content-Type:"
            \/ \E j \in 1..n : hs[j].name = "Content-Type:" /\ v = hs[j].value
    BY <1>2
  <2>2. QED
    BY <1>3, <2>1
<1>6. q.clen = LengthOf(r)
  <2> DEFINE v == HeaderOf(r, "Content-Length:")
  <2>1. \/ v = Nil /\ \A j \in 1..n : hs[j].name # "Content-Length:"
        \/ \E j \in 1..n : hs[j].name = "Content-Length:" /\ v = hs[j].value
    BY <1>2
  <2>2. LengthOf(r) = IF v = Nil THEN 0 ELSE atoi(v)
    BY DEF LengthOf
  <2> HIDE DEF v, n, hs
  <2>3. CASE v = Nil /\ \A j \in 1..n : hs[j].name # "Content-Length:"
    BY <1>3, <2>2, <2>3
  <2>4. CASE \E j \in 1..n : hs[j].name = "Content-Length:" /\ v = hs[j].value
    <3>1. PICK j \in 1..n : hs[j].name = "Content-Length:" /\ v = hs[j].value
      BY <2>4
    <3>2. v # Nil
      BY <1>4, <3>1, NilAssumption
    <3>3. QED
      BY <1>3, <2>2, <3>1, <3>2
  <2>5. QED
    BY <2>1, <2>3, <2>4
<1>7. QED
  BY <1>5, <1>6

\* The lines the parser takes are headers of the request, one after the other.
LEMMA LinesStand ==
  ASSUME NEW r \in Asks, NEW t, SessionOK(t), NEW g \in Nat, Exact(t, Wire[r], g),
         NEW k \in 0..Len(r.headers), g - t.off = HeadTo(r, k), LinesRead(t) <= t.off, Known(t.req, r, k)
  PROVE  LET m == k + Len(HeaderLines(t.buf))
         IN  /\ m \in 0..Len(r.headers) /\ HeadTo(r, k) + NextLine(t.buf, 1, HeaderLines(t.buf)) = HeadTo(r, m) + 1
             /\ Known(RequestBehind(t), r, m)
<1> DEFINE b  == t.buf
           w  == Wire[r]
           o  == t.off
           d  == HeadTo(r, k)
           l  == HeaderLines(b)
           n  == Len(l)
           N  == Len(r.headers)
           at(j) == IF j = 0 THEN 1 ELSE FindFrom(b, l[j], CRLF) + 2
           nx == NextLine(b, 1, l)
<1>1. b \in Text /\ Len(b) \in Nat /\ o \in Nat /\ o <= Len(b)
  BY SessionFields
<1>2. /\ IsLines(b, HeaderStops(b), 1, l) /\ l \in Seq(1..Len(b)) /\ n \in Nat /\ nx \in 1..(Len(b) + 1)
      /\ \A j \in 1..n : /\ l[j] \in 1..Len(b) /\ l[j] \notin HeaderStops(b)
                         /\ FindFrom(b, l[j], CRLF) \in l[j]..Len(b)
                         /\ FindFrom(b, l[j], CRLF) + 1 \in l[j]..Len(b)
                         /\ FindFrom(b, l[j], CRLF) + 2 <= nx
  BY <1>1, HeaderLinesIn
<1>3. /\ N \in Nat /\ d \in Nat /\ w \in Text /\ w[HeadTo(r, N) + 1] = CR /\ w[HeadTo(r, N) + 2] = LF
      /\ \A j \in 0..N : HeadTo(r, j) \in Nat
  BY HeaderEnd
<1>4. nx <= o + 1
  <2>1. LinesRead(t) = IF BeginsAt(b, nx, CRLF) THEN nx + 1 ELSE nx - 1
    BY DEF LinesRead
  <2> HIDE DEF nx, o
  <2>2. LinesRead(t) <= o
    BY DEF o
  <2>3. QED
    BY <1>1, <1>2, <2>1, <2>2
<1>5. \A i \in 1..o : b[i] = w[d + i]
  <2>1. \A i \in 1..o : b[i] = w[g - o + i]
    BY DEF Exact
  <2>2. g - o = d
    OBVIOUS
  <2> HIDE DEF b, w, o, d
  <2>3. QED
    BY <2>1, <2>2
<1>6. PICK c \in [0..n -> RequestType] :
            /\ RequestBehind(t) = c[n] /\ c[0] = t.req
            /\ \A j \in 1..n : c[j] = Recorded(c[j - 1], b, l[j])
  BY BehindIs
<1>7. /\ nx = at(n)
      /\ \A j \in 1..n : l[j] = at(j - 1)
  <2>1. nx = at(n)
    <3>1. n = 0 <=> l = <<>>
      BY <1>2
    <3>2. QED
      BY <3>1 DEF NextLine
  <2>2. \A j \in 1..n : l[j] = IF j = 1 THEN 1 ELSE FindFrom(b, l[j - 1], CRLF) + 2
    BY <1>2 DEF IsLines
  <2>3. \A j \in 1..n : j - 1 = 0 <=> j = 1
    BY <1>2
  <2>4. QED
    BY <2>1, <2>2, <2>3
<1> DEFINE T == {j \in 0..n : k + j <= N /\ d + at(j) = HeadTo(r, k + j) + 1 /\ Known(c[j], r, k + j)}
<1>8. 0 \in T
  <2>1. k + 0 = k /\ k <= N /\ 0 \in 0..n /\ at(0) = 1
    BY <1>2, <1>3
  <2>2. Known(c[0], r, k)
    BY <1>6
  <2>3. QED
    BY <2>1, <2>2
<1> HIDE DEF at, nx
<1>9. ASSUME NEW j \in 1..n, j - 1 \in T
      PROVE  j \in T
  <2> DEFINE i == l[j]
             f == FindFrom(b, i, CRLF)
             h == k + j
  <2>1. /\ i \in 1..Len(b) /\ i \notin HeaderStops(b) /\ f \in i..Len(b) /\ f + 2 <= nx /\ i = at(j - 1) /\ at(j) = f + 2
    <3>1. j # 0
      OBVIOUS
    <3>2. QED
      BY <1>2, <1>7, <3>1 DEF at
  <2>2. k + (j - 1) <= N /\ d + i = HeadTo(r, k + (j - 1)) + 1 /\ Known(c[j - 1], r, k + (j - 1))
    BY <1>9, <2>1
  <2>3. c[j] = Recorded(c[j - 1], b, i) /\ c[j - 1] \in RequestType
    <3>1. j - 1 \in 0..n
      BY <1>2
    <3>2. QED
      BY <1>6, <3>1
  <2> HIDE DEF i, f
  <2>4. i \in Nat \ {0} /\ f \in Nat /\ f + 1 <= o /\ i + 1 <= o /\ i <= o /\ f # 0
    <3>1. nx \in Nat /\ Len(b) \in Nat
      BY <1>1, <1>2
    <3>2. i \in 1..Len(b) /\ f \in i..Len(b) /\ f + 2 <= nx
      BY <2>1
    <3> HIDE DEF b, o, n
    <3>3. QED
      BY <1>1, <1>4, <3>1, <3>2
  <2>5. k + (j - 1) = h - 1 /\ h \in Nat /\ h - 1 \in Nat
    BY <1>2, <1>3
  <2>6. CASE k + (j - 1) = N
    <3>1. d + i = HeadTo(r, N) + 1 /\ d + (i + 1) = HeadTo(r, N) + 2
      <4> DEFINE y == HeadTo(r, N)
      <4>1. y \in Nat
        <5>1. N \in 0..N
          BY <1>3
        <5>2. QED
          BY <1>3, <5>1
      <4>2. d + i = y + 1
        BY <2>2, <2>6
      <4>3. d \in Nat /\ i \in Nat
        BY <1>3, <2>4
      <4> HIDE DEF y, d
      <4>4. d + i = y + 1 /\ d + (i + 1) = y + 2
        BY <4>1, <4>2, <4>3
      <4>5. QED
        BY <4>4 DEF y
    <3>2. b[i] = w[d + i] /\ b[i + 1] = w[d + (i + 1)]
      BY <1>5, <2>4
    <3>3. b[i] = CR /\ b[i + 1] = LF /\ i + 1 <= Len(b)
      BY <1>1, <1>3, <2>4, <3>1, <3>2, SMTT(30)
    <3>4. BeginsAt(b, i, CRLF)
      BY <1>1, <2>4, <3>3, CRLFAt
    <3>5. i \in 1..(Len(b) + 1)
      BY <1>1, <2>1
    <3>6. FALSE
      BY <2>1, <3>4, <3>5 DEF HeaderStops
    <3>7. QED
      BY <3>6
  <2>7. CASE k + (j - 1) < N
    <3>1. h \in 1..N /\ d + i = HeadTo(r, h - 1) + 1 /\ h <= N
      BY <1>3, <2>2, <2>5, <2>7
    <3> DEFINE v == r.headers[h].value
               e == i + Len(v) + 2
    <3> HIDE DEF b, o, d, w, N, h
    <3>2. h \in 1..Len(r.headers) /\ \A x \in 1..o : b[x] = Wire[r][d + x]
      BY <1>5, <3>1 DEF N, w
    <3>3. /\ e \in Nat /\ e > i /\ d + e + 1 = HeadTo(r, h)
          /\ i <= o => ~BeginsAt(b, i, CRLF) /\ CharAt(b, i) # NUL
          /\ e + 1 <= o => /\ FindFrom(b, i, CRLF) = e /\ i \notin HeaderStops(b)
                           /\ b[i] = r.headers[h].name /\ ValueOf(b, i) = r.headers[h].value
          /\ FindFrom(b, i, CRLF) # 0 /\ FindFrom(b, i, CRLF) + 1 <= o => e + 1 <= o
      <4>1. b \in Text /\ o \in Nat /\ o <= Len(b) /\ d \in Nat /\ i \in Nat \ {0} /\ d + i = HeadTo(r, h - 1) + 1
        BY <1>1, <1>3, <2>4, <3>1
      <4>2. LET x == i + Len(r.headers[h].value) + 2
            IN  /\ x \in Nat /\ x > i /\ d + x + 1 = HeadTo(r, h)
                /\ i <= o => ~BeginsAt(b, i, CRLF) /\ CharAt(b, i) # NUL
                /\ x + 1 <= o => /\ FindFrom(b, i, CRLF) = x /\ i \notin HeaderStops(b)
                                 /\ b[i] = r.headers[h].name /\ ValueOf(b, i) = r.headers[h].value
                /\ FindFrom(b, i, CRLF) # 0 /\ FindFrom(b, i, CRLF) + 1 <= o => x + 1 <= o
        BY <3>2, <4>1, LineRead
      <4>3. QED
        BY <4>2
    <3> HIDE DEF e, v
    <3>4. e + 1 <= o
      BY <2>4, <3>3 DEF f
    <3>5. f = e /\ b[i] = r.headers[h].name /\ ValueOf(b, i) = r.headers[h].value
      BY <3>3, <3>4 DEF f
    <3>6. Known(c[j], r, h)
      <4>1. Known(c[j - 1], r, h - 1)
        BY <2>2, <2>5
      <4>2. QED
        BY <2>3, <3>2, <3>5, <4>1, KnownMore
    <3>7. d + at(j) = HeadTo(r, h) + 1
      <4>1. at(j) = e + 2
        BY <2>1, <3>5
      <4>2. QED
        BY <1>3, <3>3, <4>1
    <3>8. j \in 0..n
      BY <1>2
    <3>9. QED
      BY <3>1, <3>6, <3>7, <3>8 DEF h
  <2>8. QED
    BY <1>2, <1>3, <2>2, <2>6, <2>7
<1>10. n \in T
  <2> HIDE DEF T, n
  <2>1. \A j \in 1..n : j - 1 \in T => j \in T
    BY <1>9
  <2>2. \A j \in 0..n : j \in T
    BY <1>2, <1>8, <2>1, UpTo
  <2>3. QED
    BY <1>2, <2>2
<1>11. k + n <= N /\ d + nx = HeadTo(r, k + n) + 1 /\ Known(c[n], r, k + n)
  BY <1>7, <1>10
<1>12. k + n \in 0..N
  <2> HIDE DEF n, N
  <2> QED
    BY <1>2, <1>3, <1>11 DEF N
<1>13. QED
  BY <1>6, <1>11, <1>12 DEF nx

\* What the empty line makes of the request.
LEMMA EndOfHeadersIs ==
  ASSUME NEW t, SessionOK(t)
  PROVE  LET q == EndOfHeaders(t).req
         IN  /\ q.method = t.req.method /\ q.path = t.req.path /\ q.clen = t.req.clen
             /\ EndOfHeaders(t).phase = "QUERY" => q.qoff = 0 /\ q.clen # 0 /\ ~IsMultipart(t.req)
<1> DEFINE u == EndOfHeaders(t)
           k == t.req
<1>1. t \in SessionType /\ k \in RequestType /\ k.clen \in Nat
  BY SessionFields
<1>2. CASE k.clen = 0 \/ k.method # "POST"
  <2> DEFINE q == [k EXCEPT !.code = 200]
  <2>1. u = [t EXCEPT !.req = q, !.phase = "RESPONSE"]
    BY <1>1, <1>2 DEF EndOfHeaders, SessionType
  <2>2. q.method = k.method /\ q.path = k.path /\ q.clen = k.clen
    BY <1>1 DEF RequestType
  <2> HIDE DEF q, u
  <2>3. u.req = q /\ u.phase = "RESPONSE"
    BY <1>1, <2>1 DEF SessionType
  <2>4. QED
    BY <2>2, <2>3 DEF u
<1>3. CASE ~(k.clen = 0 \/ k.method # "POST") /\ (IsMultipart(k) \/ k.clen >= PostMax)
  <2> DEFINE x == k.ctype = Nil
  <2>1. u = [t EXCEPT !.phase = "RESPONSE", !.undefined = x]
    BY <1>3 DEF EndOfHeaders
  <2> HIDE DEF u, x
  <2>2. u.req = k /\ u.phase = "RESPONSE"
    BY <1>1, <2>1 DEF SessionType
  <2>3. QED
    BY <2>2 DEF u
<1>4. CASE ~(k.clen = 0 \/ k.method # "POST") /\ ~(IsMultipart(k) \/ k.clen >= PostMax)
  <2> DEFINE z == IF k.items = <<>> THEN k.items ELSE Freed
             q1 == [k EXCEPT !.query = <<>>]
             q2 == [q1 EXCEPT !.qoff = 0]
             q == [q2 EXCEPT !.items = z]
             x == k.ctype = Nil
  <2>1. u = [t EXCEPT !.phase = "QUERY", !.req = q, !.undefined = x]
    BY <1>1, <1>4 DEF EndOfHeaders, SessionType, RequestType
  <2>2. q1 \in RequestType /\ q1.method = k.method /\ q1.path = k.path /\ q1.clen = k.clen
    BY <1>1, Words DEF RequestType, Opt
  <2> HIDE DEF q1, z
  <2>3. q2 \in RequestType /\ q2.method = q1.method /\ q2.path = q1.path /\ q2.clen = q1.clen /\ q2.qoff = 0
    BY <2>2 DEF RequestType
  <2> HIDE DEF q2
  <2>a. q.method = q1.method /\ q.path = q1.path /\ q.clen = q1.clen /\ q.qoff = 0
    BY <2>3 DEF RequestType
  <2> HIDE DEF q, u, x
  <2>4. u.req = q
    BY <1>1, <2>1 DEF SessionType
  <2>5. QED
    BY <1>4, <2>2, <2>a, <2>4 DEF u
<1>5. QED
  BY <1>2, <1>3, <1>4

\* An upload is not taken for a form.
LEMMA UploadIsMultipart ==
  ASSUME NEW r \in Asks, IsUpload(r), NEW q, q.ctype = HeaderOf(r, "Content-Type:")
  PROVE  IsMultipart(q)
<1>1. TypeIs(r, "multipart")
  BY RequestIs DEF BodyFits
<1>2. QED
  BY <1>1 DEF TypeIs, IsMultipart

LEMMA SameExact ==
  ASSUME NEW t, NEW w, NEW g, Exact(t, w, g), NEW u, u.off = t.off, \A i \in 1..t.off : u.buf[i] = t.buf[i]
  PROVE  Exact(u, w, g)
BY DEF Exact

\* The lines that were read are headers; with them all the buffer is at the body.
LEMMA HeaderGood ==
  ASSUME NEW r \in Asks, NEW t, Parsing(t), t.phase = "HEADER", NEW g \in Nat, g <= Len(Wire[r]), Exact(t, Wire[r], g),
         NEW k \in 0..Len(r.headers), g - t.off = HeadTo(r, k), Known(t.req, r, k), ~ParseHeader(t).stale
  PROVE  LET u == ParseHeader(t)
         IN  /\ Exact(u, Wire[r], g) /\ u.off <= g
             /\ \/ /\ u.phase = "HEADER" /\ g < HeadLen(r)
                   /\ \E m \in 0..Len(r.headers) : g - u.off = HeadTo(r, m) /\ Known(u.req, r, m)
                \/ /\ g - u.off = HeadLen(r) /\ u.req.method = r.method /\ u.req.path = r.path
                   /\ \/ u.phase = "RESPONSE"
                      \/ u.phase = "QUERY" /\ u.req.qoff = 0 /\ u.req.clen = Len(BodyText(r)) /\ u.req.clen # 0 /\ ~IsUpload(r)
<1> DEFINE b  == t.buf
           w  == Wire[r]
           o  == t.off
           d  == HeadTo(r, k)
           l  == HeaderLines(b)
           N  == Len(r.headers)
           nx == NextLine(b, 1, l)
           rd == LinesRead(t)
           u  == ParseHeader(t)
           v  == WithLines(t)
           m  == k + Len(l)
           whole == BeginsAt(b, nx, CRLF)
<1>1. SessionOK(t) /\ b \in Text /\ Len(b) \in Nat /\ o \in Nat /\ o <= Len(b) /\ t.ops = "default" /\ t.req.qoff = 0 /\ t.req.path \in Text
  BY SessionFields DEF Parsing
<1>2. /\ Len(l) \in Nat /\ nx \in 1..(Len(b) + 1) /\ IsLines(b, HeaderStops(b), 1, l)
      /\ \A j \in 1..Len(l) : FindFrom(b, l[j], CRLF) \in l[j]..Len(b) /\ FindFrom(b, l[j], CRLF) + 2 <= nx
                              /\ l[j] \in 1..Len(b)
  BY <1>1, HeaderLinesIn
<1>3. rd = (IF whole THEN nx + 1 ELSE nx - 1) /\ rd \in Nat
  <2>1. rd = IF whole THEN nx + 1 ELSE nx - 1
    BY DEF LinesRead
  <2> HIDE DEF rd, nx, whole
  <2>2. QED
    BY <1>1, <1>2, <2>1
<1>4. rd <= o
  <2>1. Window(t, w, g)
    BY ExactWindow
  <2>2. ParseHeader(t).stale = (t.stale \/ LinesRead(t) > t.off)
    BY <2>1, ParseHeaderType
  <2>3. ~(rd > o)
    BY <2>2
  <2> HIDE DEF rd, o
  <2>4. QED
    BY <1>1, <1>3, <2>3
<1>5. /\ m \in 0..N /\ d + nx = HeadTo(r, m) + 1 /\ Known(RequestBehind(t), r, m)
  BY <1>1, <1>4, LinesStand
<1>6. /\ SessionOK(v) /\ v.phase = "HEADER" /\ v.ops = t.ops /\ v.off = o /\ v.req = RequestBehind(t) /\ Len(v.buf) = Len(b)
      /\ \A i \in 1..Len(b) : i \notin LineEnds(b) /\ i \notin {e + 1 : e \in LineEnds(b)} => v.buf[i] = b[i]
  BY <1>1, WithLinesIs
<1>7. \A i \in 1..o : b[i] = w[g - o + i]
  BY DEF Exact
<1>8. g - o = d /\ o <= g /\ d \in Nat
  <2>1. o <= g
    BY DEF Exact
  <2>2. QED
    BY <2>1, HeaderEnd
<1>9. ASSUME NEW i \in 1..o, i > nx - 1
      PROVE  v.buf[i] = b[i]
  <2>1. i \notin LineEnds(b) /\ i \notin {e + 1 : e \in LineEnds(b)}
    <3>1. \A e \in LineEnds(b) : e \in Nat /\ e + 2 <= nx
      <4> TAKE e \in LineEnds(b)
      <4>1. PICK j \in 1..Len(l) : e = FindFrom(b, l[j], CRLF)
        BY DEF LineEnds
      <4>2. e \in l[j]..Len(b) /\ l[j] \in 1..Len(b) /\ e + 2 <= nx
        BY <1>2, <4>1
      <4> HIDE DEF b, l, nx
      <4>3. QED
        BY <1>1, <4>2
    <3>2. nx \in Nat /\ i \in Nat /\ i >= nx
      BY <1>1, <1>2, <1>9
    <3> HIDE DEF nx
    <3>3. \A e \in LineEnds(b) : e < i /\ e + 1 < i
      BY <3>1, <3>2
    <3>4. QED
      BY <3>2, <3>3
  <2>2. i \in 1..Len(b)
    BY <1>1
  <2> HIDE DEF b, v
  <2>3. QED
    BY <1>6, <2>1, <2>2
<1>10. ASSUME NEW x, SessionOK(x), x.off = o, x.buf = v.buf
       PROVE  /\ Exact(Consume(x, rd), w, g) /\ Consume(x, rd).off = o - rd /\ SessionOK(Consume(x, rd))
              /\ SameButBuffer(Consume(x, rd), x)
  <2>1. \A i \in 1..x.off : i > rd => x.buf[i] = w[g - x.off + i]
    <3> TAKE i \in 1..x.off
    <3>1. HAVE i > rd
    <3>2. i \in 1..o /\ i > nx - 1
      <4>1. nx \in Nat /\ rd >= nx - 1 /\ x.off = o
        <5>1. nx \in Nat
          BY <1>1, <1>2
        <5> HIDE DEF nx, rd, whole
        <5>2. QED
          BY <1>3, <1>10, <5>1
      <4> HIDE DEF nx, rd, o
      <4>2. QED
        BY <1>1, <1>3, <3>1, <4>1
    <3>3. v.buf[i] = b[i] /\ b[i] = w[g - o + i]
      BY <1>7, <1>9, <3>2
    <3>4. QED
      BY <1>10, <3>3
  <2>2. x.off <= g /\ rd \in 0..x.off
    <3> HIDE DEF rd, o
    <3>1. QED
      BY <1>1, <1>3, <1>4, <1>8, <1>10
  <2> HIDE DEF rd, w, v, o
  <2>3. Exact(Consume(x, rd), w, g) /\ Consume(x, rd).off = x.off - rd /\ SessionOK(Consume(x, rd)) /\ SameButBuffer(Consume(x, rd), x)
    BY <1>10, <2>1, <2>2, ExactConsumed
  <2>4. QED
    BY <1>10, <2>3
<1>11. /\ N \in Nat /\ HeadTo(r, m) \in Nat /\ HeadTo(r, m) + 2 <= HeadLen(r) /\ HeadLen(r) \in Nat /\ HeadTo(r, N) + 2 = HeadLen(r)
       /\ w[HeadTo(r, N) + 1] = CR /\ w[HeadTo(r, N) + 2] = LF /\ HeadTo(r, N) \in Nat
  <2> HIDE DEF m
  <2>1. N \in Nat
    BY HeaderEnd
  <2>2. N \in 0..N
    BY <2>1
  <2>3. QED
    BY <1>5, <2>2, HeaderEnd
<1>12. \A i \in 1..o : b[i] = w[d + i]
  BY <1>7, <1>8
<1>13. nx \in Nat /\ nx >= 1 /\ d + nx = HeadTo(r, m) + 1
  BY <1>1, <1>2, <1>5
<1>14. u = IF whole THEN Trimmed(Consume(EndOfHeaders(v), rd)) ELSE Consume(v, rd)
  BY <1>1, ParseHeaderIs
<1>15. m < N => /\ nx <= o => ~BeginsAt(b, nx, CRLF) /\ CharAt(b, nx) # NUL
                /\ HeadTo(r, m + 1) \in Nat /\ HeadTo(r, m + 1) <= HeadLen(r)
                /\ d + o >= HeadTo(r, m + 1) => nx \notin HeaderStops(b)
  <2> SUFFICES ASSUME m < N
               PROVE  /\ nx <= o => ~BeginsAt(b, nx, CRLF) /\ CharAt(b, nx) # NUL
                      /\ HeadTo(r, m + 1) \in Nat /\ HeadTo(r, m + 1) <= HeadLen(r)
                      /\ d + o >= HeadTo(r, m + 1) => nx \notin HeaderStops(b)
    OBVIOUS
  <2> DEFINE h == m + 1
             e == nx + Len(r.headers[h].value) + 2
  <2>1. h \in 1..N /\ h - 1 = m /\ h \in 0..N
    <3> HIDE DEF m, N
    <3>1. QED
      BY <1>5, <1>11
  <2> HIDE DEF h, b, o, d, nx, w, m, l
  <2>2. b \in Text /\ o \in Nat /\ o <= Len(b) /\ d \in Nat /\ nx \in Nat \ {0} /\ d + nx = HeadTo(r, h - 1) + 1
        /\ h \in 1..Len(r.headers) /\ \A i \in 1..o : b[i] = Wire[r][d + i]
    BY <1>1, <1>8, <1>12, <1>13, <2>1 DEF w
  <2>3. /\ e \in Nat /\ e > nx /\ d + e + 1 = HeadTo(r, h)
        /\ nx <= o => ~BeginsAt(b, nx, CRLF) /\ CharAt(b, nx) # NUL
        /\ e + 1 <= o => /\ FindFrom(b, nx, CRLF) = e /\ nx \notin HeaderStops(b)
                         /\ b[nx] = r.headers[h].name /\ ValueOf(b, nx) = r.headers[h].value
        /\ FindFrom(b, nx, CRLF) # 0 /\ FindFrom(b, nx, CRLF) + 1 <= o => e + 1 <= o
    <3>1. LET x == nx + Len(r.headers[h].value) + 2
          IN  /\ x \in Nat /\ x > nx /\ d + x + 1 = HeadTo(r, h)
              /\ nx <= o => ~BeginsAt(b, nx, CRLF) /\ CharAt(b, nx) # NUL
              /\ x + 1 <= o => /\ FindFrom(b, nx, CRLF) = x /\ nx \notin HeaderStops(b)
                               /\ b[nx] = r.headers[h].name /\ ValueOf(b, nx) = r.headers[h].value
              /\ FindFrom(b, nx, CRLF) # 0 /\ FindFrom(b, nx, CRLF) + 1 <= o => x + 1 <= o
      BY <2>2, LineRead
    <3>2. QED
      BY <3>1
  <2> HIDE DEF e
  <2>4. HeadTo(r, h) \in Nat /\ HeadTo(r, h) + 2 <= HeadLen(r)
    BY <2>1, HeaderEnd
  <2>5. HeadTo(r, h) <= HeadLen(r)
    BY <1>11, <2>4
  <2>6. d + o >= HeadTo(r, h) => e + 1 <= o
    <3> DEFINE y == HeadTo(r, h)
    <3>1. y \in Nat /\ d + e + 1 = y
      BY <2>3, <2>4
    <3> HIDE DEF y
    <3>2. d + o >= y => e + 1 <= o
      BY <1>1, <1>8, <2>3, <3>1
    <3>3. QED
      BY <3>2 DEF y
  <2>7. QED
    BY <2>3, <2>4, <2>5, <2>6 DEF h
<1>16. m = N /\ nx + 1 <= o => BeginsAt(b, nx, CRLF)
  <2> SUFFICES ASSUME m = N, nx + 1 <= o
               PROVE  BeginsAt(b, nx, CRLF)
    OBVIOUS
  <2> DEFINE y == HeadTo(r, N)
  <2>1. d + nx = y + 1 /\ y \in Nat
    BY <1>11, <1>13
  <2> HIDE DEF y, d, nx, o, b, w, m, N
  <2>2. d + (nx + 1) = y + 2 /\ nx \in 1..o /\ nx + 1 \in 1..o /\ nx + 1 <= Len(b)
    BY <1>1, <1>8, <1>13, <2>1
  <2>3. b[nx] = w[y + 1] /\ b[nx + 1] = w[y + 2]
    <3>1. b[nx] = w[d + nx] /\ b[nx + 1] = w[d + (nx + 1)]
      BY <1>12, <2>2
    <3>2. QED
      BY <2>1, <2>2, <3>1
  <2>4. b[nx] = CR /\ b[nx + 1] = LF
    BY <1>11, <2>3 DEF y
  <2>5. QED
    BY <1>1, <1>13, <2>2, <2>4, CRLFAt
<1>17. CASE ~whole
  <2>1. u = Consume(v, rd) /\ rd = nx - 1
    BY <1>3, <1>14, <1>17
  <2>2. /\ Exact(u, w, g) /\ u.off = o - rd /\ SameButBuffer(u, v)
    BY <1>6, <1>10, <2>1
  <2>3. u.phase = "HEADER" /\ Known(u.req, r, m)
    BY <1>5, <1>6, <2>2 DEF SameButBuffer
  <2>4. g - u.off = HeadTo(r, m)
    <3> DEFINE y == HeadTo(r, m)
    <3>1. y \in Nat /\ d + nx = y + 1
      BY <1>11, <1>13
    <3>a. nx \in Nat /\ d \in Nat /\ o \in Nat /\ g - o = d /\ o <= g /\ u.off = o - rd /\ rd = nx - 1
      BY <1>1, <1>8, <1>13, <2>1, <2>2
    <3> HIDE DEF y, u, rd, nx, o, d, m, l
    <3>2. g - u.off = y
      BY <3>1, <3>a
    <3>3. QED
      BY <3>2 DEF y
  <2>5. nx \in HeaderStops(b)
    BY <1>2 DEF IsLines
  <2>6. ASSUME g >= HeadLen(r)
        PROVE  FALSE
    <3>1. g = d + o
      <4> HIDE DEF d, o
      <4> QED
        BY <1>1, <1>8
    <3>2. CASE m < N
      <4> DEFINE y == HeadTo(r, m + 1)
      <4>1. y \in Nat /\ y <= HeadLen(r) /\ (d + o >= y => nx \notin HeaderStops(b))
        BY <1>15, <3>2
      <4> HIDE DEF y, d, o, nx, b
      <4>2. d + o >= y
        BY <1>11, <2>6, <3>1, <4>1
      <4>3. QED
        BY <2>5, <4>1, <4>2
    <3>3. CASE ~(m < N)
      <4>1. m = N
        <5> HIDE DEF m, N
        <5> QED
          BY <1>5, <1>11, <3>3
      <4>2. d + nx = HeadTo(r, N) + 1
        BY <1>13, <4>1
      <4>3. nx + 1 <= o
        <5> DEFINE y == HeadTo(r, N)
        <5>1. y \in Nat /\ y + 2 = HeadLen(r) /\ d + nx = y + 1
          BY <1>11, <4>2
        <5> HIDE DEF y, d, nx, o
        <5>2. QED
          BY <1>1, <1>8, <1>11, <1>13, <2>6, <3>1, <5>1
      <4>4. QED
        BY <1>16, <1>17, <4>1, <4>3
    <3>4. QED
      BY <3>2, <3>3
  <2>7. g < HeadLen(r)
    BY <1>11, <2>6
  <2>8. u.off <= g
    BY <2>2 DEF Exact
  <2> HIDE DEF m
  <2>9. \E x \in 0..N : g - u.off = HeadTo(r, x) /\ Known(u.req, r, x)
    BY <1>5, <2>3, <2>4
  <2> HIDE DEF u
  <2>10. QED
    BY <2>2, <2>3, <2>7, <2>8, <2>9 DEF u
<1>18. CASE whole
  <2> DEFINE x == EndOfHeaders(v)
             y == Consume(x, rd)
             q == RequestBehind(t)
  <2>1. u = Trimmed(y) /\ rd = nx + 1
    BY <1>3, <1>14, <1>18
  <2>2. m = N
    <3>1. ASSUME m < N
          PROVE  FALSE
      <4>1. nx <= o
        <5>1. nx + 1 <= o
          BY <1>4, <2>1
        <5> HIDE DEF nx, o
        <5>2. QED
          BY <1>1, <1>13, <5>1
      <4>2. QED
        BY <1>15, <1>18, <3>1, <4>1
    <3> HIDE DEF m, N
    <3>2. QED
      BY <1>5, <1>11, <3>1
  <2>3. q.method = r.method /\ q.path = r.path /\ q.clen = LengthOf(r) /\ q.ctype = HeaderOf(r, "Content-Type:")
    <3>1. Known(q, r, N)
      BY <1>5, <2>2
    <3>2. QED
      BY <3>1, KnownAll DEF Known
  <2>4. v.req = q /\ v.req.qoff = 0 /\ v.req.path \in Text /\ v.phase = "HEADER" /\ v.ops = "default" /\ SessionOK(v)
    <3>1. q.path = t.req.path /\ q.qoff = t.req.qoff
      BY <1>1, BehindType
    <3>2. QED
      BY <1>1, <1>6, <3>1
  <2>5. Parsing(x) /\ x.phase \in {"QUERY", "RESPONSE"} /\ x.buf = v.buf /\ x.off = v.off
    BY <2>4, EndOfHeadersType
  <2>6. /\ x.req.method = q.method /\ x.req.path = q.path /\ x.req.clen = q.clen
        /\ x.phase = "QUERY" => x.req.qoff = 0 /\ x.req.clen # 0 /\ ~IsMultipart(q)
    BY <2>4, EndOfHeadersIs
  <2> HIDE DEF x, q, v
  <2>7. Exact(y, w, g) /\ y.off = o - rd /\ SessionOK(y) /\ SameButBuffer(y, x)
    <3>1. SessionOK(x) /\ x.off = o /\ x.buf = v.buf
      BY <1>6, <2>5 DEF Parsing
    <3>2. QED
      BY <1>10, <3>1
  <2> HIDE DEF y
  <2>8. /\ SameButBuffer(u, y) /\ u.off = y.off /\ \A i \in 1..y.off : u.buf[i] = y.buf[i]
    BY <2>1, <2>7, TrimmedIs
  <2> HIDE DEF u
  <2>9. Exact(u, w, g)
    BY <2>7, <2>8, SameExact
  <2>10. u.phase = x.phase /\ u.req = x.req /\ u.off = o - rd
    BY <2>7, <2>8 DEF SameButBuffer
  <2>11. u.off <= g
    BY <2>9 DEF Exact
  <2>12. g - u.off = HeadLen(r)
    <3> DEFINE z == HeadTo(r, N)
    <3>1. z \in Nat /\ z + 2 = HeadLen(r) /\ d + nx = z + 1
      BY <1>11, <1>13, <2>2
    <3> HIDE DEF z, d, o, nx, rd
    <3>2. QED
      BY <1>1, <1>3, <1>8, <1>11, <1>13, <2>1, <2>10, <3>1
  <2>13. LengthOf(r) \in {0, Len(BodyText(r))}
    BY RequestIs DEF BodyFits
  <2>14. x.phase = "QUERY" => ~IsUpload(r)
    BY <2>3, <2>6, UploadIsMultipart
  <2>15. QED
    BY <2>3, <2>5, <2>6, <2>9, <2>10, <2>11, <2>12, <2>13, <2>14 DEF u
<1>19. QED
  BY <1>17, <1>18

\* Content is counted until it is complete.
LEMMA QueryGood ==
  ASSUME NEW t, Parsing(t), t.phase = "QUERY", t.req.qoff < t.req.clen, NEW h \in Nat, NEW g \in Nat, t.off <= g,
         g - t.off = h + t.req.qoff
  PROVE  LET u == ParsePost(t)
         IN  \/ u.phase = "FAULT"
             \/ /\ u.req.method = t.req.method /\ u.req.path = t.req.path
                /\ \/ u.phase = "RESPONSE"
                   \/ /\ u.phase = "QUERY" /\ u.off = 0 /\ g = h + u.req.qoff /\ u.req.clen = t.req.clen
                      /\ u.req.qoff < u.req.clen /\ g < h + u.req.clen
<1> DEFINE u == ParsePost(t)
           n == Taken(t)
           o == t.off
           a == t.req.qoff
           c == t.req.clen
<1>1. SessionOK(t) /\ t.req.query \in Text
  BY DEF Parsing
<1>2. o \in Nat /\ a \in Nat /\ c \in Nat
  BY <1>1, SessionFields
<1>3. n \in Nat /\ n <= o /\ (a + o <= c => n = o) /\ n = IF a + o > c THEN c - a ELSE o
  BY <1>1, ContentIs DEF Taken
<1>4. u = IF o = 0 THEN t
          ELSE IF a + n < c THEN Trimmed(Consume(WithContent(t), n))
          ELSE IF IsFormRequest(t.req) /\ Undecodable(SoFar(t)) THEN Fault(t)
          ELSE Consume(WithItems(t), n)
  BY <1>1, ParsePostIs
<1>5. a < c /\ o <= g /\ g - o = h + a
  OBVIOUS
<1>6. CASE o = 0
  <2>1. u = t
    BY <1>4, <1>6
  <2> HIDE DEF u
  <2>2. g = h + a /\ g < h + c
    <3> HIDE DEF o, a, c
    <3> QED
      BY <1>2, <1>5, <1>6
  <2>3. QED
    BY <1>5, <1>6, <2>1, <2>2 DEF u
<1>7. CASE o # 0 /\ a + n < c
  <2> DEFINE v == WithContent(t)
             x == Consume(v, n)
             q == RequestWith(t)
  <2>1. u = Trimmed(x)
    BY <1>4, <1>7
  <2>2. n = o /\ g = h + (a + n) /\ g < h + c
    <3> HIDE DEF n, o, a, c
    <3> QED
      BY <1>2, <1>3, <1>5, <1>7
  <2>3. SessionOK(v) /\ v.req = q /\ v.phase = "QUERY" /\ v.off = o
    BY ContentSoFarIs
  <2>4. q.path = t.req.path /\ q.clen = c /\ q.qoff = a + n /\ q.method = t.req.method
    BY <1>1, WithContentIs
  <2> HIDE DEF v, q
  <2>5. SessionOK(x) /\ SameButBuffer(x, v) /\ x.off = IF n < v.off THEN v.off - n ELSE 0
    BY <1>3, <2>3, ConsumeIs
  <2>6. x.off = 0
    <3> HIDE DEF n, o, x
    <3> QED
      BY <1>2, <2>2, <2>3, <2>5
  <2> HIDE DEF x
  <2>7. SameButBuffer(u, x) /\ u.off = x.off
    BY <2>1, <2>5, TrimmedIs
  <2> HIDE DEF u
  <2>8. u.phase = "QUERY" /\ u.req = q /\ u.off = 0
    BY <2>3, <2>5, <2>6, <2>7 DEF SameButBuffer
  <2> HIDE DEF n, a, c
  <2>9. QED
    BY <1>7, <2>2, <2>4, <2>8 DEF u, c
<1>8. CASE o # 0 /\ ~(a + n < c)
  <2>1. CASE IsFormRequest(t.req) /\ Undecodable(SoFar(t))
    <3>1. u = Fault(t)
      BY <1>4, <1>8, <2>1
    <3>2. Fault(t).phase = "FAULT"
      BY <1>1, LostIs DEF Lost
    <3> HIDE DEF u
    <3>3. QED
      BY <3>1, <3>2 DEF u
  <2>2. CASE ~(IsFormRequest(t.req) /\ Undecodable(SoFar(t)))
    <3> DEFINE v == WithItems(t)
               q == RequestDone(t)
    <3>1. u = Consume(v, n)
      BY <1>4, <1>8, <2>2
    <3>2. SessionOK(v) /\ v.req = q /\ v.phase = "RESPONSE"
      BY CompleteIs
    <3>3. q.path = t.req.path /\ q.method = t.req.method
      BY <1>1, WithItemsIs
    <3> HIDE DEF v, q
    <3>4. SameButBuffer(Consume(v, n), v)
      BY <1>3, <3>2, ConsumeIs
    <3> HIDE DEF u
    <3>5. u.phase = "RESPONSE" /\ u.req = q
      BY <3>1, <3>2, <3>4 DEF SameButBuffer
    <3>6. QED
      BY <3>3, <3>5 DEF u
  <2>3. QED
    BY <2>1, <2>2
<1>9. QED
  BY <1>6, <1>7, <1>8

\* Where a session stands in its request while it reads it.
ReadingLine(t, r, g)    == /\ t.phase = "METHOD" /\ Exact(t, Wire[r], g) /\ t.off = g /\ Len(t.buf) = g
                           /\ t.req.clen = 0 /\ t.req.ctype = Nil
ReadingHeaders(t, r, g) == /\ t.phase = "HEADER" /\ Exact(t, Wire[r], g)
                           /\ \E k \in 0..Len(r.headers) : g - t.off = HeadTo(r, k) /\ Known(t.req, r, k)
ReadingContent(t, r, g) == /\ t.phase = "QUERY" /\ t.off <= g /\ g - t.off = HeadLen(r) + t.req.qoff
                           /\ t.req.clen = Len(BodyText(r)) /\ t.req.qoff < t.req.clen
                           /\ t.req.method = r.method /\ t.req.path = r.path /\ ~IsUpload(r)
Reading(t, r, g) == ReadingLine(t, r, g) \/ ReadingHeaders(t, r, g) \/ ReadingContent(t, r, g)

LEMMA ReceivedExact ==
  ASSUME NEW t, SessionOK(t), NEW w, NEW g \in Nat, Exact(t, w, g), NEW cells \in Text, t.off + Len(cells) <= BufSize,
         \A i \in 1..Len(cells) : cells[i] = w[g + i]
  PROVE  Exact(Received(t, cells), w, g + Len(cells))
<1> DEFINE l == Len(cells)
           o == t.off
           v == Received(t, cells)
<1>1. l \in Nat /\ o \in Nat
  BY TextLen, SessionFields
<1>2. v.off = o + l /\ \A i \in 1..(o + l) : v.buf[i] = IF i <= o THEN t.buf[i] ELSE cells[i - o]
  BY ReceivedIs
<1>3. o <= g /\ (\A i \in 1..o : t.buf[i] = w[g - o + i]) /\ \A i \in 1..l : cells[i] = w[g + i]
  BY DEF Exact
<1> HIDE DEF v, o, l
<1>4. ASSUME NEW i \in 1..(o + l)
      PROVE  v.buf[i] = w[(g + l) - (o + l) + i]
  <2>1. (g + l) - (o + l) + i = g - o + i
    BY <1>1, <1>3
  <2>2. CASE i <= o
    BY <1>1, <1>2, <1>3, <2>1, <2>2
  <2>3. CASE ~(i <= o)
    <3>1. i - o \in 1..l /\ g + (i - o) = g - o + i
      BY <1>1, <1>3, <2>3
    <3>2. v.buf[i] = cells[i - o] /\ cells[i - o] = w[g + (i - o)]
      BY <1>2, <1>3, <2>3, <3>1
    <3>3. QED
      BY <2>1, <3>1, <3>2
  <2>4. QED
    BY <2>2, <2>3
<1>5. v.off <= g + l
  BY <1>1, <1>2, <1>3
<1>6. QED
  BY <1>2, <1>4, <1>5 DEF Exact, v, l

LEMMA ReceivedReading ==
  ASSUME NEW r \in Asks, NEW t, SessionOK(t), NEW g \in Nat, Reading(t, r, g), NEW cells \in Text, t.off + Len(cells) <= BufSize,
         \A i \in 1..Len(cells) : cells[i] = Wire[r][g + i]
  PROVE  Reading(Received(t, cells), r, g + Len(cells))
<1> DEFINE l == Len(cells)
           v == Received(t, cells)
           n == g + l
<1>1. l \in Nat /\ t.off \in Nat /\ n \in Nat
  BY TextLen, SessionFields
<1>2. v.off = t.off + l /\ SameButBuffer(v, t) /\ (Len(t.buf) = t.off => Len(v.buf) = t.off + l)
  BY ReceivedIs
<1>3. Exact(t, Wire[r], g) => Exact(v, Wire[r], n)
  BY ReceivedExact
<1>4. v.phase = t.phase /\ v.req = t.req
  BY <1>2 DEF SameButBuffer
<1> HIDE DEF v, l
<1>5. t.off <= g => v.off <= n /\ n - v.off = g - t.off
  BY <1>1, <1>2
<1>6. CASE ReadingLine(t, r, g)
  <2>1. ReadingLine(v, r, n)
    BY <1>1, <1>2, <1>3, <1>4, <1>6 DEF ReadingLine
  <2>2. QED
    BY <2>1 DEF Reading, v, l
<1>7. CASE ReadingHeaders(t, r, g)
  <2>1. t.off <= g
    BY <1>7 DEF ReadingHeaders, Exact
  <2>2. n - v.off = g - t.off
    BY <1>5, <2>1
  <2>3. ReadingHeaders(v, r, n)
    BY <1>3, <1>4, <1>7, <2>2 DEF ReadingHeaders
  <2>4. QED
    BY <2>3 DEF Reading, v, l
<1>8. CASE ReadingContent(t, r, g)
  <2>1. ReadingContent(v, r, n)
    BY <1>4, <1>5, <1>8 DEF ReadingContent
  <2>2. QED
    BY <2>1 DEF Reading, v, l
<1>9. QED
  BY <1>6, <1>7, <1>8 DEF Reading

\* What the session is after a read: still reading, with more to come, lost,
\* or at the end of the head with the request it was sent.
Through(u, r, g) ==
  \/ u.phase = "FAULT"
  \/ Reading(u, r, g) /\ g < Len(Wire[r])
  \/ /\ u.phase = "RESPONSE" /\ u.req.method = r.method /\ u.req.path = r.path
     /\ IsUpload(r) => Exact(u, Wire[r], g) /\ g - u.off = HeadLen(r)

LEMMA ContentThrough ==
  ASSUME NEW r \in Asks, NEW t, Parsing(t), NEW g \in Nat, ReadingContent(t, r, g)
  PROVE  Through(ParsePost(t), r, g)
<1> DEFINE u == ParsePost(t)
           h == HeadLen(r)
<1>1. /\ t.phase = "QUERY" /\ t.off <= g /\ g - t.off = h + t.req.qoff /\ t.req.clen = Len(BodyText(r)) /\ t.req.qoff < t.req.clen
      /\ t.req.method = r.method /\ t.req.path = r.path /\ ~IsUpload(r)
  BY DEF ReadingContent
<1>2. h \in Nat /\ Len(Wire[r]) = h + Len(BodyText(r))
  BY BodyStands, HeadStands
<1> HIDE DEF h
<1>3. \/ u.phase = "FAULT"
      \/ /\ u.req.method = t.req.method /\ u.req.path = t.req.path
         /\ \/ u.phase = "RESPONSE"
            \/ /\ u.phase = "QUERY" /\ u.off = 0 /\ g = h + u.req.qoff /\ u.req.clen = t.req.clen
               /\ u.req.qoff < u.req.clen /\ g < h + u.req.clen
  BY <1>1, <1>2, QueryGood
<1> HIDE DEF u
<1>4. CASE u.phase = "FAULT"
  BY <1>4 DEF Through, u
<1>5. CASE u.req.method = t.req.method /\ u.req.path = t.req.path /\ u.phase = "RESPONSE"
  BY <1>1, <1>5 DEF Through, u
<1>6. CASE /\ u.req.method = t.req.method /\ u.req.path = t.req.path
           /\ u.phase = "QUERY" /\ u.off = 0 /\ g = h + u.req.qoff /\ u.req.clen = t.req.clen
           /\ u.req.qoff < u.req.clen /\ g < h + u.req.clen
  <2>1. u.off <= g /\ g - u.off = h + u.req.qoff
    BY <1>6
  <2>2. ReadingContent(u, r, g)
    BY <1>1, <1>6, <2>1 DEF ReadingContent, h
  <2>3. g < Len(Wire[r])
    BY <1>1, <1>2, <1>6
  <2>4. QED
    BY <2>2, <2>3 DEF Through, Reading, u
<1>7. QED
  BY <1>3, <1>4, <1>5, <1>6

LEMMA HeadersThrough ==
  ASSUME NEW r \in Asks, NEW t, Parsing(t), NEW g \in Nat, g <= Len(Wire[r]), ReadingHeaders(t, r, g),
         LET h == ParseHeader(t) IN ~(IF h.phase = "QUERY" THEN ParsePost(h) ELSE h).stale
  PROVE  LET h == ParseHeader(t) IN Through(IF h.phase = "QUERY" THEN ParsePost(h) ELSE h, r, g)
<1> DEFINE w == Wire[r]
           h == ParseHeader(t)
           u == IF h.phase = "QUERY" THEN ParsePost(h) ELSE h
<1>1. t.phase = "HEADER" /\ Exact(t, w, g)
  BY DEF ReadingHeaders
<1>2. PICK k \in 0..Len(r.headers) : g - t.off = HeadTo(r, k) /\ Known(t.req, r, k)
  BY DEF ReadingHeaders
<1>3. Window(t, w, g)
  BY <1>1, ExactWindow
<1>4. Parsing(h) /\ Window(h, w, g) /\ h.phase \in {"HEADER", "QUERY", "RESPONSE"}
  BY <1>1, <1>3, ParseHeaderType
<1>5. ~h.stale
  <2>1. CASE h.phase = "QUERY"
    <3>1. ParsePost(h).stale = h.stale
      <4> HIDE DEF h, w
      <4> QED
        BY <1>4, <2>1, ParsePostType
    <3>2. u = ParsePost(h)
      BY <2>1
    <3>3. ~u.stale
      OBVIOUS
    <3> HIDE DEF u, h
    <3>4. QED
      BY <3>1, <3>2, <3>3
  <2>2. CASE h.phase # "QUERY"
    <3>1. u = h
      BY <2>2
    <3>2. ~u.stale
      OBVIOUS
    <3> HIDE DEF u, h
    <3>3. QED
      BY <3>1, <3>2
  <2>3. QED
    BY <2>1, <2>2
<1>6. /\ Exact(h, w, g) /\ h.off <= g
      /\ \/ /\ h.phase = "HEADER" /\ g < HeadLen(r)
            /\ \E m \in 0..Len(r.headers) : g - h.off = HeadTo(r, m) /\ Known(h.req, r, m)
         \/ /\ g - h.off = HeadLen(r) /\ h.req.method = r.method /\ h.req.path = r.path
            /\ \/ h.phase = "RESPONSE"
               \/ h.phase = "QUERY" /\ h.req.qoff = 0 /\ h.req.clen = Len(BodyText(r)) /\ h.req.clen # 0 /\ ~IsUpload(r)
  BY <1>1, <1>2, <1>5, HeaderGood
<1>7. HeadLen(r) \in Nat /\ HeadLen(r) <= Len(w) /\ Len(w) \in Nat
  BY HeaderEnd
<1> HIDE DEF h, w
<1>8. CASE h.phase = "HEADER"
  <2>1. u = h
    BY <1>8
  <2>2. ReadingHeaders(h, r, g)
    BY <1>6, <1>8 DEF ReadingHeaders, w
  <2>3. g < Len(w)
    BY <1>6, <1>7, <1>8
  <2>4. Through(h, r, g)
    BY <2>2, <2>3 DEF Through, Reading, w
  <2>5. QED
    BY <2>1, <2>4 DEF h
<1>9. CASE h.phase = "RESPONSE"
  <2>1. u = h
    BY <1>9
  <2>2. Through(h, r, g)
    BY <1>6, <1>9 DEF Through, w
  <2>3. QED
    BY <2>1, <2>2 DEF h
<1>10. CASE h.phase = "QUERY"
  <2>1. u = ParsePost(h)
    BY <1>10
  <2>2. h.req.qoff < h.req.clen /\ h.req.qoff = 0 /\ g - h.off = HeadLen(r) + h.req.qoff
    <3>1. h.req.clen \in Nat
      BY <1>4, SessionFields DEF Parsing
    <3>2. QED
      BY <1>6, <1>7, <1>10, <3>1
  <2>3. ReadingContent(h, r, g)
    BY <1>6, <1>10, <2>2 DEF ReadingContent
  <2>4. Through(ParsePost(h), r, g)
    BY <1>4, <2>3, ContentThrough
  <2>5. QED
    BY <2>1, <2>4 DEF h
<1>11. QED
  BY <1>4, <1>8, <1>9, <1>10

LEMMA ParsedThrough ==
  ASSUME NEW r \in Asks, ~Refused(r), NEW t, Parsing(t), NEW g \in Nat, g <= Len(Wire[r]), Reading(t, r, g), ~Parsed(t).stale
  PROVE  Through(Parsed(t), r, g)
<1> DEFINE w == Wire[r]
           m == IF t.phase = "METHOD" THEN ParseMethod(t) ELSE t
           h == IF m.phase = "HEADER" THEN ParseHeader(m) ELSE m
           u == Parsed(t)
<1>1. u = IF h.phase = "QUERY" THEN ParsePost(h) ELSE h
  BY DEF Parsed
<1>2. ~u.stale
  OBVIOUS
<1> HIDE DEF u
<1>3. ASSUME Parsing(m), ReadingHeaders(m, r, g)
      PROVE  Through(u, r, g)
  <2> DEFINE x == ParseHeader(m)
             y == IF x.phase = "QUERY" THEN ParsePost(x) ELSE x
  <2>1. m.phase = "HEADER"
    BY <1>3 DEF ReadingHeaders
  <2> HIDE DEF m
  <2>2. u = y
    BY <1>1, <2>1
  <2>3. ~y.stale
    <3> HIDE DEF y
    <3> QED
      BY <1>2, <2>2
  <2>4. Through(y, r, g)
    BY <1>3, <2>3, HeadersThrough
  <2> HIDE DEF y
  <2>5. QED
    BY <2>2, <2>4
<1>4. CASE ReadingContent(t, r, g)
  <2>1. t.phase = "QUERY"
    BY <1>4 DEF ReadingContent
  <2>2. u = ParsePost(t)
    BY <1>1, <2>1
  <2>3. QED
    BY <1>4, <2>2, ContentThrough DEF u
<1>5. CASE ReadingHeaders(t, r, g)
  <2>1. t.phase = "HEADER"
    BY <1>5 DEF ReadingHeaders
  <2>2. m = t
    BY <2>1
  <2>3. QED
    BY <1>3, <1>5, <2>2 DEF u
<1>6. CASE ReadingLine(t, r, g)
  <2> DEFINE v == ParseMethod(t)
  <2>1. t.phase = "METHOD" /\ Exact(t, w, g) /\ t.off = g /\ Len(t.buf) = g /\ t.req.clen = 0 /\ t.req.ctype = Nil
    BY <1>6 DEF ReadingLine
  <2>2. m = v
    BY <2>1
  <2>3. \/ v.phase = "FAULT"
        \/ v = t /\ g < LineLen(r)
        \/ /\ v.phase = "HEADER" /\ v.req.method = r.method /\ v.req.path = r.path
           /\ v.req.clen = t.req.clen /\ v.req.ctype = t.req.ctype /\ v.stale = t.stale
           /\ Exact(v, Wire[r], g) /\ v.off = g - LineLen(r) /\ LineLen(r) <= g
    BY <2>1, MethodGood
  <2>4. LineLen(r) \in Nat /\ LineLen(r) + 2 <= HeadLen(r) /\ HeadLen(r) \in Nat /\ HeadLen(r) <= Len(w) /\ Len(w) \in Nat
        /\ HeadTo(r, 0) = LineLen(r) /\ 0 \in 0..Len(r.headers)
    <3>1. 0 \in 0..Len(r.headers)
      BY HeaderEnd
    <3>2. QED
      BY <3>1, HeaderEnd
  <2> HIDE DEF v
  <2>5. CASE v.phase = "FAULT"
    <3>1. u = v
      BY <1>1, <2>2, <2>5
    <3>2. QED
      BY <2>5, <3>1 DEF Through, u
  <2>6. CASE v = t /\ g < LineLen(r)
    <3>1. u = t
      BY <1>1, <2>1, <2>2, <2>6
    <3>2. g < Len(w)
      BY <2>4, <2>6
    <3>3. QED
      BY <1>6, <3>1, <3>2 DEF Through, Reading, u
  <2>7. CASE /\ v.phase = "HEADER" /\ v.req.method = r.method /\ v.req.path = r.path
             /\ v.req.clen = t.req.clen /\ v.req.ctype = t.req.ctype /\ v.stale = t.stale
             /\ Exact(v, Wire[r], g) /\ v.off = g - LineLen(r) /\ LineLen(r) <= g
    <3>1. Parsing(v)
      <4>1. Window(t, w, g)
        BY <2>1, ExactWindow
      <4>2. Parsing(v) \/ Lost(v)
        BY <2>1, <4>1, ParseMethodType DEF v
      <4>3. QED
        BY <2>7, <4>2 DEF Lost
    <3>2. Known(v.req, r, 0)
      <4>1. \A j \in 1..0 : FALSE
        OBVIOUS
      <4>2. QED
        BY <2>1, <2>7, <4>1 DEF Known
    <3>3. g - v.off = HeadTo(r, 0)
      BY <2>4, <2>7
    <3>4. ReadingHeaders(v, r, g)
      BY <2>4, <2>7, <3>2, <3>3 DEF ReadingHeaders
    <3>5. QED
      BY <1>3, <2>2, <3>1, <3>4 DEF u
  <2>8. QED
    BY <2>3, <2>5, <2>6, <2>7
<1>7. QED
  BY <1>4, <1>5, <1>6 DEF Reading

-----------------------------------------------------------------------------
(* An upload's parts on the wire.                                          *)

PartHead(p) == (IF p.file THEN <<"file">> \o CRLF \o <<"type">> ELSE <<"field">>) \o CRLF \o CRLF

LEMMA PartHeadIs ==
  ASSUME NEW p \in [file : BOOLEAN, data : Text]
  PROVE  LET h == PartHead(p)
         IN  /\ h \in Text /\ PartText(p) = h \o p.data /\ p.data \in Text
             /\ \/ Len(h) = 5 /\ h[1] = "field" /\ h[2] = CR /\ h[3] = LF /\ h[4] = CR /\ h[5] = LF
                \/ /\ Len(h) = 8 /\ h[1] = "file" /\ h[2] = CR /\ h[3] = LF /\ h[4] = "type" /\ h[5] = CR /\ h[6] = LF
                   /\ h[7] = CR /\ h[8] = LF
<1> DEFINE one == <<"file">>
           two == <<"type">>
           no  == <<"field">>
           h   == PartHead(p)
<1>1. p.data \in Text /\ p.file \in BOOLEAN
  OBVIOUS
<1>2. /\ one \in Text /\ Len(one) = 1 /\ one[1] = "file"
      /\ two \in Text /\ Len(two) = 1 /\ two[1] = "type" /\ no \in Text /\ Len(no) = 1 /\ no[1] = "field"
  BY CellsAssumption, Words
<1>3. PartText(p) = h \o p.data
  BY DEF PartText, PartHead
<1>4. CRLF \in Text /\ Len(CRLF) = 2 /\ CRLF[1] = CR /\ CRLF[2] = LF
  BY CRLFIs
<1>5. CASE p.file
  <2> DEFINE oc == one \o CRLF
             ot == oc \o two
             a  == ot \o CRLF
             b  == a \o CRLF
  <2>1. h = b
    BY <1>5 DEF PartHead
  <2> HIDE DEF one, two
  <2>2. oc \in Text /\ Len(oc) = 3 /\ oc[1] = "file" /\ oc[2] = CR /\ oc[3] = LF
    <3>1. oc \in Text /\ Len(oc) = Len(one) + Len(CRLF)
          /\ \A i \in 1..(Len(one) + Len(CRLF)) : oc[i] = IF i <= Len(one) THEN one[i] ELSE CRLF[i - Len(one)]
      BY <1>2, <1>4, CatText
    <3> HIDE DEF oc
    <3>2. QED
      BY <1>2, <1>4, <3>1
  <2> HIDE DEF oc
  <2>3. ot \in Text /\ Len(ot) = 4 /\ ot[1] = "file" /\ ot[2] = CR /\ ot[3] = LF /\ ot[4] = "type"
    <3>1. ot \in Text /\ Len(ot) = Len(oc) + Len(two)
          /\ \A i \in 1..(Len(oc) + Len(two)) : ot[i] = IF i <= Len(oc) THEN oc[i] ELSE two[i - Len(oc)]
      BY <1>2, <2>2, CatText
    <3> HIDE DEF ot
    <3>2. QED
      BY <1>2, <2>2, <3>1
  <2> HIDE DEF ot
  <2>4. a \in Text /\ Len(a) = 6 /\ a[1] = "file" /\ a[2] = CR /\ a[3] = LF /\ a[4] = "type" /\ a[5] = CR /\ a[6] = LF
    <3>1. a \in Text /\ Len(a) = Len(ot) + Len(CRLF)
          /\ \A i \in 1..(Len(ot) + Len(CRLF)) : a[i] = IF i <= Len(ot) THEN ot[i] ELSE CRLF[i - Len(ot)]
      BY <1>4, <2>3, CatText
    <3> HIDE DEF a
    <3>2. QED
      BY <1>4, <2>3, <3>1
  <2> HIDE DEF a
  <2>5. b \in Text /\ Len(b) = 8 /\ b[1] = "file" /\ b[2] = CR /\ b[3] = LF /\ b[4] = "type" /\ b[5] = CR /\ b[6] = LF
        /\ b[7] = CR /\ b[8] = LF
    <3>1. b \in Text /\ Len(b) = Len(a) + Len(CRLF)
          /\ \A i \in 1..(Len(a) + Len(CRLF)) : b[i] = IF i <= Len(a) THEN a[i] ELSE CRLF[i - Len(a)]
      BY <1>4, <2>4, CatText
    <3> HIDE DEF b
    <3>2. QED
      BY <1>4, <2>4, <3>1
  <2> HIDE DEF b, h
  <2>6. QED
    BY <1>1, <1>3, <2>1, <2>5 DEF h
<1>6. CASE ~p.file
  <2> DEFINE a  == no \o CRLF
             b  == a \o CRLF
  <2>1. h = b
    BY <1>6 DEF PartHead
  <2> HIDE DEF no
  <2>4. a \in Text /\ Len(a) = 3 /\ a[1] = "field" /\ a[2] = CR /\ a[3] = LF
    <3>1. a \in Text /\ Len(a) = Len(no) + Len(CRLF)
          /\ \A i \in 1..(Len(no) + Len(CRLF)) : a[i] = IF i <= Len(no) THEN no[i] ELSE CRLF[i - Len(no)]
      BY <1>2, <1>4, CatText
    <3> HIDE DEF a
    <3>2. QED
      BY <1>2, <1>4, <3>1
  <2> HIDE DEF a
  <2>5. b \in Text /\ Len(b) = 5 /\ b[1] = "field" /\ b[2] = CR /\ b[3] = LF /\ b[4] = CR /\ b[5] = LF
    <3>1. b \in Text /\ Len(b) = Len(a) + Len(CRLF)
          /\ \A i \in 1..(Len(a) + Len(CRLF)) : b[i] = IF i <= Len(a) THEN a[i] ELSE CRLF[i - Len(a)]
      BY <1>4, <2>4, CatText
    <3> HIDE DEF b
    <3>2. QED
      BY <1>4, <2>4, <3>1
  <2> HIDE DEF b, h
  <2>6. QED
    BY <1>1, <1>3, <2>1, <2>5 DEF h
<1>7. QED
  BY <1>1, <1>5, <1>6

\* No cell of a part's head is one of a boundary.
LEMMA PartHeadPlain ==
  ASSUME NEW p \in [file : BOOLEAN, data : Text]
  PROVE  Len(PartHead(p)) \in {5, 8} /\ \A i \in 1..Len(PartHead(p)) : PartHead(p)[i] # "--b1"
<1> DEFINE h == PartHead(p)
<1>1. \/ Len(h) = 5 /\ h[1] = "field" /\ h[2] = CR /\ h[3] = LF /\ h[4] = CR /\ h[5] = LF
      \/ /\ Len(h) = 8 /\ h[1] = "file" /\ h[2] = CR /\ h[3] = LF /\ h[4] = "type" /\ h[5] = CR /\ h[6] = LF
         /\ h[7] = CR /\ h[8] = LF
  BY PartHeadIs
<1> HIDE DEF h
<1>2. CR # "--b1" /\ LF # "--b1"
  BY DEF CR, LF
<1>3. CASE Len(h) = 5
  <2>1. \A i \in 1..5 : i = 1 \/ i = 2 \/ i = 3 \/ i = 4 \/ i = 5
    OBVIOUS
  <2>2. QED
    BY <1>1, <1>2, <1>3, <2>1 DEF h
<1>4. CASE Len(h) = 8
  <2>1. \A i \in 1..8 : i = 1 \/ i = 2 \/ i = 3 \/ i = 4 \/ i = 5 \/ i = 6 \/ i = 7 \/ i = 8
    OBVIOUS
  <2>2. QED
    BY <1>1, <1>2, <1>4, <2>1 DEF h
<1>5. QED
  BY <1>1, <1>3, <1>4

MarkLen(k) == IF k = 1 THEN 4 ELSE 6

LEMMA PieceIs ==
  ASSUME NEW ps \in Seq([file : BOOLEAN, data : Text]), NEW k \in 1..Len(ps)
  PROVE  LET p == PartPiece(ps, k)
             m == MarkLen(k)
             h == PartHead(ps[k])
             d == ps[k].data
         IN  /\ p \in Text /\ h \in Text /\ d \in Text /\ Len(h) \in {5, 8} /\ Len(d) \in Nat
             /\ Len(p) = m + Len(h) + Len(d) /\ Stands(p, m, h) /\ Stands(p, m + Len(h), d)
             /\ (\A i \in 1..(m + Len(h)) : p[i] = "--b1" => i = m - 3)
             /\ k # 1 => p[1] = CR
<1> DEFINE p == PartPiece(ps, k)
           m == MarkLen(k)
           h == PartHead(ps[k])
           d == ps[k].data
           f == IF k = 1 THEN FIRST ELSE NORMAL
           t == PartText(ps[k])
<1>1. ps[k] \in [file : BOOLEAN, data : Text]
  <2> DEFINE H == [file : BOOLEAN, data : Text]
  <2>1. ps \in Seq(H) /\ k \in 1..Len(ps)
    OBVIOUS
  <2> HIDE DEF H
  <2>2. ps[k] \in H
    BY <2>1
  <2>3. QED
    BY <2>2 DEF H
<1>2. h \in Text /\ t = h \o d /\ d \in Text
  BY <1>1, PartHeadIs
<1>3. Len(h) \in {5, 8} /\ \A i \in 1..Len(h) : h[i] # "--b1"
  BY <1>1, PartHeadPlain
<1>4. f \in Text /\ Len(f) = m /\ m \in {4, 6} /\ (\A i \in 1..m : f[i] = "--b1" => i = m - 3) /\ (k # 1 => f[1] = CR)
  <2>1. CR # "--b1" /\ LF # "--b1"
    BY DEF CR, LF
  <2>2. CASE k = 1
    <3>1. \A i \in 1..4 : i = 1 \/ i = 2 \/ i = 3 \/ i = 4
      OBVIOUS
    <3>2. m = 4 /\ f = FIRST /\ 4 - 3 = 1
      BY <2>2 DEF MarkLen
    <3> HIDE DEF m, f
    <3>3. QED
      BY <2>1, <2>2, <3>1, <3>2, MarksAre
  <2>3. CASE k # 1
    <3>1. \A i \in 1..6 : i = 1 \/ i = 2 \/ i = 3 \/ i = 4 \/ i = 5 \/ i = 6
      OBVIOUS
    <3>2. m = 6 /\ f = NORMAL /\ 6 - 3 = 3
      BY <2>3 DEF MarkLen
    <3> HIDE DEF m, f
    <3>3. QED
      BY <2>1, <2>3, <3>1, <3>2, MarksAre
  <2>4. QED
    BY <2>2, <2>3
<1>5. p = f \o t
  BY DEF PartPiece
<1> HIDE DEF f, h, d, m, t, p
<1>6. /\ h \o d \in Text /\ Len(h \o d) = Len(h) + Len(d) /\ Len(h) \in Nat /\ Len(d) \in Nat
      /\ Stands(h \o d, 0, h) /\ Stands(h \o d, Len(h), d)
  BY <1>2, StandsCat
<1>7. t \in Text /\ Len(t) = Len(h) + Len(d) /\ Len(h) \in Nat /\ Len(d) \in Nat /\ Stands(t, 0, h) /\ Stands(t, Len(h), d)
  BY <1>2, <1>6
<1>8. /\ f \o t \in Text /\ Len(f \o t) = Len(f) + Len(t) /\ Len(f) \in Nat /\ Len(t) \in Nat
      /\ Stands(f \o t, 0, f) /\ Stands(f \o t, Len(f), t)
  BY <1>4, <1>7, StandsCat
<1>9. p \in Text /\ Len(p) = m + Len(t) /\ Stands(p, 0, f) /\ Stands(p, m, t) /\ m \in Nat
  BY <1>4, <1>5, <1>8
<1>10. Stands(p, m + 0, h)
  <2>1. 0 \in Nat
    OBVIOUS
  <2>2. QED
    BY <1>2, <1>7, <1>9, <2>1, StandsIn
<1>11. Stands(p, m + Len(h), d)
  BY <1>2, <1>7, <1>9, StandsIn
<1>12. Stands(p, m, h) /\ Len(p) = m + Len(h) + Len(d)
  <2>1. m + 0 = m /\ Len(p) = m + Len(h) + Len(d)
    BY <1>7, <1>9
  <2>2. QED
    BY <1>10, <2>1
<1>13. \A i \in 1..(m + Len(h)) : p[i] = "--b1" => i = m - 3
  <2> SUFFICES ASSUME NEW i \in 1..(m + Len(h)), p[i] = "--b1"
               PROVE  i = m - 3
    OBVIOUS
  <2>1. CASE i <= m
    <3>1. i \in 1..m /\ 0 + i = i
      BY <1>7, <1>9, <2>1
    <3>2. p[0 + i] = f[i]
      BY <1>4, <1>9, <3>1 DEF Stands
    <3>3. QED
      BY <1>4, <3>1, <3>2
  <2>2. CASE ~(i <= m)
    <3> DEFINE j == i - m
    <3>1. j \in 1..Len(h) /\ m + j = i
      BY <1>7, <1>9, <2>2
    <3> HIDE DEF j
    <3>2. p[m + j] = h[j]
      BY <1>12, <3>1 DEF Stands
    <3>3. QED
      BY <1>3, <3>1, <3>2
  <2>3. QED
    BY <2>1, <2>2
<1>14. k # 1 => p[1] = CR
  <2>1. 1 \in 1..m /\ 0 + 1 = 1
    BY <1>4
  <2>2. p[0 + 1] = f[1]
    BY <1>4, <1>9, <2>1 DEF Stands
  <2>3. QED
    BY <1>4, <2>1, <2>2
<1>15. QED
  BY <1>2, <1>3, <1>7, <1>9, <1>11, <1>12, <1>13, <1>14 DEF p, m, h, d

\* Where an upload's last boundary starts: behind so many cells.
LastAt(r) == Len(Wire[r]) - 7

LEMMA UploadWire ==
  ASSUME NEW r \in Asks, r.parts # <<>>
  PROVE  LET ps == r.parts
             n  == Len(ps)
             c  == PartChain(ps)
         IN  /\ Chain(c, PartPieces(ps), n) /\ n \in Nat /\ c[n] \in Text /\ Len(c[n]) \in Nat
             /\ LastAt(r) = HeadLen(r) + Len(c[n]) /\ LastAt(r) \in Nat /\ HeadLen(r) \in Nat /\ Len(Wire[r]) = LastAt(r) + 7
             /\ Stands(Wire[r], HeadLen(r), c[n]) /\ Stands(Wire[r], LastAt(r), LAST)
<1> DEFINE ps == r.parts
           n  == Len(ps)
           c  == PartChain(ps)
           w  == Wire[r]
           x  == c[n]
           h  == HeadLen(r)
<1>1. ps \in Seq([file : BOOLEAN, data : Text]) /\ \A k \in DOMAIN ps : Without(ps[k].data, {"file"})
  BY RequestIs DEF PartsFit
<1>2. n \in Nat /\ Chain(c, PartPieces(ps), n) /\ PartsText(ps) = x \o LAST
  BY <1>1, PartChainIs
<1>3. BodyText(r) = x \o LAST
  BY <1>2 DEF BodyText
<1>4. x \in Text
  <2>1. n \in 0..n
    BY <1>2
  <2>2. QED
    BY <1>2, <2>1 DEF Chain
<1>5. /\ x \o LAST \in Text /\ Len(x \o LAST) = Len(x) + Len(LAST) /\ Len(x) \in Nat /\ Len(LAST) = 7
      /\ Stands(x \o LAST, 0, x) /\ Stands(x \o LAST, Len(x), LAST)
  BY <1>4, MarksAre, StandsCat
<1>6. w \in Text /\ Len(w) = h + Len(BodyText(r)) /\ Stands(w, h, BodyText(r)) /\ h \in Nat
  BY BodyStands, HeadStands
<1>7. Len(w) = h + Len(x) + 7 /\ LastAt(r) = h + Len(x) /\ LastAt(r) \in Nat /\ Len(w) = LastAt(r) + 7
  <2>1. Len(w) = h + (Len(x) + 7)
    BY <1>3, <1>5, <1>6
  <2>2. LastAt(r) = Len(w) - 7
    BY DEF LastAt
  <2> HIDE DEF x, w, h
  <2>3. QED
    BY <1>5, <1>6, <2>1, <2>2
<1> HIDE DEF x, w, h
<1>8. Stands(w, h + 0, x) /\ Stands(w, h + Len(x), LAST)
  <2>1. Stands(w, h, x \o LAST) /\ 0 \in Nat /\ LAST \in Text
    BY <1>3, <1>6, MarksAre
  <2>2. QED
    BY <1>4, <1>5, <1>6, <2>1, StandsIn
<1>9. Stands(w, h, x)
  <2>1. h + 0 = h
    BY <1>6
  <2>2. QED
    BY <1>8, <2>1
<1>10. QED
  BY <1>2, <1>4, <1>5, <1>6, <1>7, <1>8, <1>9 DEF x, w, h

\* What looks like a boundary behind the head is one: a part's head follows,
\* or it is the last.
LEMMA BoundaryFound ==
  ASSUME NEW r \in Asks, r.parts # <<>>, NEW q \in Nat, q >= HeadLen(r), Stands(Wire[r], q, Boundary)
  PROVE  \/ q = LastAt(r) + 2
         \/ \E k \in 1..Len(r.parts) : /\ Stands(Wire[r], q + 4, PartHead(r.parts[k]))
                                       /\ q + 4 + Len(PartHead(r.parts[k])) <= LastAt(r)
<1> DEFINE ps == r.parts
           n  == Len(ps)
           c  == PartChain(ps)
           p  == PartPieces(ps)
           w  == Wire[r]
           x  == c[n]
           h  == HeadLen(r)
           j  == (q + 1) - h
<1>1. ps \in Seq([file : BOOLEAN, data : Text]) /\ \A k \in DOMAIN ps : ~HasFrom(ps[k].data, 1, Boundary)
  BY RequestIs DEF PartsFit
<1>2. /\ Chain(c, p, n) /\ n \in Nat /\ x \in Text /\ Len(x) \in Nat
      /\ LastAt(r) = h + Len(x) /\ LastAt(r) \in Nat /\ h \in Nat /\ Len(w) = LastAt(r) + 7
      /\ Stands(w, h, x) /\ Stands(w, LastAt(r), LAST)
  BY UploadWire
<1>3. w[q + 1] = "--b1" /\ w[q + 2] = "b2" /\ q + 2 <= Len(w)
  <2>1. 1 \in 1..2 /\ 2 \in 1..2
    OBVIOUS
  <2>2. QED
    BY <2>1, MarksAre DEF Stands
<1>4. CR # "b2" /\ CR # "--b1" /\ LF # "--b1"
  BY DEF CR, LF
<1>5. j \in Nat /\ j >= 1 /\ h + j = q + 1 /\ h + (j + 1) = q + 2
  <2>1. q >= h /\ h \in Nat
    BY <1>2
  <2> HIDE DEF h
  <2>2. QED
    BY <2>1
<1>a. x = c[n] /\ n = Len(ps) /\ \A k \in 1..n : p[k] = PartPiece(ps, k)
  BY DEF PartPieces
<1> HIDE DEF j, c, p, n
<1>6. w \in Text
  BY BodyStands
<1>7. CASE j > Len(x)
  <2> DEFINE i == j - Len(x)
             a == LastAt(r)
  <2>1. i \in 1..7 /\ a + i = q + 1
    <3> HIDE DEF x, w, h, a
    <3> QED
      BY <1>2, <1>3, <1>5, <1>7, SMTT(30) DEF a
  <2>2. Len(LAST) = 7
    BY MarksAre
  <2> HIDE DEF i
  <2>3. w[a + i] = LAST[i]
    BY <1>2, <2>1, <2>2 DEF Stands
  <2>4. LAST[i] = "--b1"
    BY <1>3, <2>1, <2>3
  <2>5. i = 3
    <3>1. i = 1 \/ i = 2 \/ i = 3 \/ i = 4 \/ i = 5 \/ i = 6 \/ i = 7
      BY <2>1
    <3>2. QED
      BY <1>4, <2>4, <3>1, MarksAre
  <2>6. q = a + 2
    <3> HIDE DEF a
    <3> QED
      BY <1>2, <2>1, <2>5 DEF a
  <2>7. QED
    BY <2>6
<1>8. CASE ~(j > Len(x))
  <2>1. j \in 1..Len(x)
    BY <1>2, <1>5, <1>8
  <2>0. j \in 1..Len(c[n])
    BY <1>a, <2>1
  <2>a. Covered(c, p, n, j)
    <3>1. Chain(c, p, n) /\ n \in Nat
      BY <1>2
    <3>2. QED
      BY <2>0, <3>1, ChainCover
  <2>2. PICK k \in 1..n : \E i \in 1..Len(p[k]) : j = Len(c[k - 1]) + i /\ c[n][j] = p[k][i]
    BY <2>a DEF Covered
  <2>3. PICK i \in 1..Len(p[k]) : j = Len(c[k - 1]) + i /\ c[n][j] = p[k][i]
    BY <2>2
  <2> DEFINE t == p[k]
             m == MarkLen(k)
             e == PartHead(ps[k])
             d == ps[k].data
             b == Len(c[k - 1])
  <2>4. t = PartPiece(ps, k) /\ k \in 1..Len(ps)
    BY <1>a
  <2>5. /\ t \in Text /\ e \in Text /\ d \in Text /\ Len(e) \in {5, 8} /\ Len(d) \in Nat
        /\ Len(t) = m + Len(e) + Len(d) /\ Stands(t, m, e) /\ Stands(t, m + Len(e), d)
        /\ (\A a \in 1..(m + Len(e)) : t[a] = "--b1" => a = m - 3)
    BY <1>1, <2>4, PieceIs
  <2>6. m \in {4, 6}
    BY DEF MarkLen
  <2>7. Stands(x, b, t) /\ Len(c[k]) <= Len(x)
    BY <1>2, ChainPiece
  <2>8. b \in Nat /\ Len(c[k]) \in Nat /\ Len(c[k]) = b + Len(t)
    <3>1. /\ c[k] \in Text /\ c[k - 1] \in Text /\ p[k] \in Text
          /\ Len(c[k]) \in Nat /\ Len(c[k - 1]) \in Nat /\ Len(p[k]) \in Nat /\ Len(c[k]) = Len(c[k - 1]) + Len(p[k])
          /\ Stands(c[k], 0, c[k - 1]) /\ Stands(c[k], Len(c[k - 1]), p[k])
      BY <1>2, ChainStep
    <3>2. QED
      BY <3>1
  <2>9. t[i] = "--b1"
    <3>1. x[j] = w[h + j]
      BY <1>2, <2>1 DEF Stands
    <3>2. QED
      BY <1>3, <1>5, <2>3, <3>1
  <2> DEFINE le == Len(e)
             ld == Len(d)
             lt == Len(t)
             lx == Len(x)
  <2>10. le \in {5, 8} /\ ld \in Nat /\ lt = m + le + ld /\ lx \in Nat /\ i \in 1..lt /\ j = b + i /\ b + lt <= lx /\ Len(c[k]) = b + lt
    BY <1>2, <2>3, <2>5, <2>7, <2>8
  <2>11. Stands(w, h + b, t)
    BY <1>2, <1>6, <2>5, <2>7, <2>8, StandsIn
  <2>12. CASE i <= m + le
    <3>1. i = m - 3
      <4>1. i \in 1..(m + le)
        <5> HIDE DEF le, lt, m
        <5> QED
          BY <2>6, <2>10, <2>12
      <4>2. QED
        BY <2>5, <2>9, <4>1
    <3>2. m \in Nat
      BY <2>6
    <3>3. Stands(w, (h + b) + m, e)
      <4>1. h + b \in Nat
        <5>1. h \in Nat /\ b \in Nat
          BY <1>2, <2>8
        <5> HIDE DEF h, b
        <5>2. QED
          BY <5>1
      <4>2. QED
        BY <1>6, <2>5, <2>11, <3>2, <4>1, StandsIn
    <3>4. (h + b) + m = q + 4 /\ q + 4 + le <= LastAt(r)
      <4> HIDE DEF h, b, m, le, ld, lt, lx
      <4>1. h \in Nat /\ b \in Nat /\ h + (b + (m - 3)) = q + 1
        BY <1>2, <1>5, <2>8, <2>10, <3>1
      <4>2. LastAt(r) = h + lx
        BY <1>2 DEF lx
      <4>3. QED
        BY <2>10, <3>2, <4>1, <4>2
    <3>5. k \in 1..Len(r.parts)
      BY <2>4
    <3>6. Stands(w, q + 4, e) /\ q + 4 + Len(e) <= LastAt(r)
      BY <3>3, <3>4
    <3>7. QED
      BY <3>5, <3>6
  <2>13. CASE ~(i <= m + le)
    <3> DEFINE o == i - (m + le)
    <3>1. o \in 1..ld /\ (m + le) + o = i /\ m + le \in Nat
      <4> HIDE DEF le, ld, lt, lx, m, b
      <4> QED
        BY <2>6, <2>10, <2>13
    <3> HIDE DEF o
    <3>2. d[o] = "--b1"
      <4>1. t[(m + le) + o] = d[o]
        BY <2>5, <3>1 DEF Stands
      <4>2. QED
        BY <2>9, <3>1, <4>1
    <3>3. CASE o < ld
      <4>1. o + 1 \in 1..ld /\ (m + le) + (o + 1) = i + 1 /\ i + 1 \in 1..lt /\ b + (i + 1) = j + 1 /\ j + 1 \in 1..lx
        <5> HIDE DEF le, ld, lt, lx, m, b
        <5> QED
          BY <2>6, <2>8, <2>10, <3>1, <3>3
      <4>2. d[o + 1] = t[(m + le) + (o + 1)]
        BY <2>5, <4>1 DEF Stands
      <4>3. t[i + 1] = x[b + (i + 1)]
        BY <2>7, <4>1 DEF Stands
      <4>4. x[j + 1] = w[h + (j + 1)]
        BY <1>2, <4>1 DEF Stands
      <4>5. d[o + 1] = "b2"
        BY <1>3, <1>5, <4>1, <4>2, <4>3, <4>4
      <4>6. o \in 1..Len(d) /\ o + 1 <= Len(d) /\ o \in Nat \ {0}
        BY <3>1, <4>1, <2>5
      <4>7. BeginsAt(d, o, Boundary)
        <5>1. \A a \in 1..Len(Boundary) : o + a - 1 <= Len(d) /\ d[o + a - 1] = Boundary[a]
          <6>1. \A a \in 1..Len(Boundary) : (a = 1 /\ o + a - 1 = o) \/ (a = 2 /\ o + a - 1 = o + 1)
            BY <4>6, MarksAre
          <6>2. Boundary[1] = "--b1" /\ Boundary[2] = "b2"
            BY MarksAre
          <6>3. o <= Len(d)
            BY <4>6
          <6> HIDE DEF d
          <6>4. QED
            BY <3>2, <4>5, <4>6, <6>1, <6>2, <6>3
        <5>2. QED
          BY <2>5, <4>6, <5>1, MarkAt
      <4>8. k \in DOMAIN ps
        BY <1>1, <2>4
      <4>9. ~HasFrom(d, 1, Boundary)
        BY <1>1, <4>8
      <4>10. QED
        BY <4>6, <4>7, <4>9 DEF HasFrom
    <3>4. CASE ~(o < ld)
      <4>1. j = b + lt /\ j \in Nat
        <5> HIDE DEF le, ld, lt, lx, m, b
        <5> QED
          BY <2>6, <2>8, <2>10, <3>1, <3>4
      <4>2. CASE k < n
        <5> DEFINE k2 == k + 1
                   t2 == p[k2]
        <5>1. k2 \in 1..n /\ k2 - 1 = k /\ k2 # 1
          BY <1>2, <4>2
        <5>2. t2 = PartPiece(ps, k2) /\ k2 \in 1..Len(ps)
          BY <1>a, <5>1
        <5> HIDE DEF k2
        <5>a. LET y == PartPiece(ps, k2)
                  m2 == MarkLen(k2)
                  h2 == PartHead(ps[k2])
                  d2 == ps[k2].data
              IN  /\ y \in Text /\ h2 \in Text /\ d2 \in Text /\ Len(h2) \in {5, 8} /\ Len(d2) \in Nat
                  /\ Len(y) = m2 + Len(h2) + Len(d2) /\ Stands(y, m2, h2) /\ Stands(y, m2 + Len(h2), d2)
                  /\ (\A a \in 1..(m2 + Len(h2)) : y[a] = "--b1" => a = m2 - 3)
                  /\ k2 # 1 => y[1] = CR
          BY <1>1, <5>2, PieceIs
        <5>3. /\ t2 \in Text /\ (k2 # 1 => t2[1] = CR) /\ Len(PartHead(ps[k2])) \in {5, 8} /\ Len(ps[k2].data) \in Nat
              /\ Len(t2) = MarkLen(k2) + Len(PartHead(ps[k2])) + Len(ps[k2].data)
          BY <5>2, <5>a
        <5>4. MarkLen(k2) \in {4, 6}
          BY DEF MarkLen
        <5>5. 1 \in 1..Len(t2)
          <6> DEFINE y1 == Len(PartHead(ps[k2]))
                     y2 == Len(ps[k2].data)
                     y3 == MarkLen(k2)
          <6>1. y1 \in {5, 8} /\ y2 \in Nat /\ y3 \in {4, 6} /\ Len(t2) = y3 + y1 + y2
            BY <5>3, <5>4
          <6> HIDE DEF y1, y2, y3
          <6>2. QED
            BY <6>1
        <5>6. Stands(x, Len(c[k2 - 1]), t2)
          BY <1>2, <5>1, ChainPiece
        <5>7. Stands(x, j, t2)
          BY <2>10, <4>1, <5>1, <5>6
        <5>8. x[j + 1] = CR
          BY <5>1, <5>3, <5>5, <5>7 DEF Stands
        <5>9. j + 1 \in 1..lx
          <6> DEFINE y == Len(t2)
          <6>1. j + y <= lx /\ y \in Nat /\ 1 <= y
            <7>1. j + y <= lx
              BY <5>7 DEF Stands
            <7>2. QED
              BY <5>3, <5>5, <7>1, TextLen
          <6> HIDE DEF y, lx
          <6>2. QED
            BY <2>10, <4>1, <6>1, SMTT(30)
        <5>10. x[j + 1] = w[h + (j + 1)]
          BY <1>2, <5>9 DEF Stands
        <5>11. QED
          BY <1>3, <1>4, <1>5, <5>8, <5>10
      <4>3. CASE ~(k < n)
        <5>1. k = n
          BY <1>2, <4>3
        <5>2. j = Len(x)
          BY <2>10, <4>1, <5>1
        <5>3. h + (j + 1) = LastAt(r) + 1
          <6> DEFINE y == LastAt(r)
          <6>1. y = h + j /\ h \in Nat /\ j \in Nat
            BY <1>2, <1>5, <5>2
          <6> HIDE DEF h, y
          <6>2. h + (j + 1) = y + 1
            BY <6>1
          <6>3. QED
            BY <6>2 DEF y
        <5>4. w[LastAt(r) + 1] = CR
          <6>1. 1 \in 1..Len(LAST) /\ LAST[1] = CR
            BY MarksAre
          <6>2. QED
            BY <1>2, <6>1 DEF Stands
        <5>5. QED
          BY <1>3, <1>4, <1>5, <5>3, <5>4
      <4>4. QED
        BY <4>2, <4>3
    <3>5. QED
      BY <3>3, <3>4
  <2>14. QED
    BY <2>12, <2>13
<1>9. QED
  BY <1>7, <1>8

\* b has t from i on, as far as it goes.
Follows(b, i, t) == \A k \in 1..Len(t) : i + k - 1 <= Len(b) => b[i + k - 1] = t[k]

\* A line of one cell ends behind it.
LEMMA WordLine ==
  ASSUME NEW b \in Text, NEW i \in 1..Len(b), b[i] # NUL, b[i] # CR,
         i + 1 <= Len(b) => b[i + 1] = CR, i + 2 <= Len(b) => b[i + 2] = LF,
         FindFrom(b, i, CRLF) # 0
  PROVE  FindFrom(b, i, CRLF) = i + 1
<1> DEFINE e == FindFrom(b, i, CRLF)
<1>1. Len(b) \in Nat /\ i \in Nat \ {0}
  BY TextLen
<1>2. e \in i..Len(b) /\ e + 1 \in i..Len(b) /\ b[e] = CR /\ b[e + 1] = LF
  BY <1>1, LineEnd
<1>3. \A j \in i..(e - 1) : ~BeginsAt(b, j, CRLF)
  BY <1>1, FindIn, CRLFIs
<1> HIDE DEF e
<1>4. e # i
  BY <1>2
<1>5. ASSUME e > i + 1
      PROVE  FALSE
  <2> DEFINE j == i + 1
  <2>1. j \in i..(e - 1) /\ i + 2 <= Len(b) /\ j + 1 = i + 2 /\ j + 1 <= Len(b) /\ j <= Len(b) /\ j \in Nat \ {0}
    BY <1>1, <1>2, <1>5
  <2>2. b[j] = CR /\ b[j + 1] = LF
    BY <2>1
  <2> HIDE DEF j
  <2>3. BeginsAt(b, j, CRLF)
    BY <2>1, <2>2, CRLFAt
  <2>4. QED
    BY <1>3, <2>1, <2>3
<1>6. e = i + 1
  BY <1>1, <1>2, <1>4, <1>5
<1>7. QED
  BY <1>6 DEF e

\* A header ends at its empty line.
LEMMA EmptyLine ==
  ASSUME NEW b \in Text, NEW i \in 1..(Len(b) + 1), i <= Len(b) => b[i] = CR, i + 1 <= Len(b) => b[i + 1] = LF
  PROVE  i \in PartStops(b)
<1>1. Len(b) \in Nat /\ i \in Nat \ {0}
  BY TextLen
<1>2. CASE i + 1 <= Len(b)
  <2>1. i <= Len(b)
    BY <1>1, <1>2
  <2>2. BeginsAt(b, i, CRLF)
    BY <1>1, <1>2, <2>1, CRLFAt
  <2>3. QED
    BY <1>1, <2>2 DEF PartStops
<1>3. CASE ~(i + 1 <= Len(b)) /\ i <= Len(b)
  <2> DEFINE e == FindFrom(b, i, CRLF)
  <2>1. e # 0 => e \in i..Len(b) /\ e + 1 \in i..Len(b)
    BY <1>1, LineEnd
  <2> HIDE DEF e
  <2>2. e = 0
    BY <1>1, <1>3, <2>1
  <2>3. QED
    BY <1>1, <2>2 DEF PartStops, e
<1>4. CASE i > Len(b)
  BY <1>1, <1>4 DEF PartStops
<1>5. QED
  BY <1>1, <1>2, <1>3, <1>4

\* The header lines of a part end inside its head.
LEMMA HeadAt ==
  ASSUME NEW b \in Text, NEW i \in 1..(Len(b) + 1), NEW p \in [file : BOOLEAN, data : Text], Follows(b, i, PartHead(p))
  PROVE  PartEnd(b, i) \in Nat /\ PartEnd(b, i) + 2 <= i + Len(PartHead(p))
<1> DEFINE h == PartHead(p)
           l == PartLines(b, i)
           Z == PartStops(b)
           end == PartEnd(b, i)
           n == Len(b)
<1>1. n \in Nat /\ i \in Nat \ {0}
  BY TextLen
<1>2. \/ Len(h) = 5 /\ h[1] = "field" /\ h[2] = CR /\ h[3] = LF /\ h[4] = CR /\ h[5] = LF
      \/ /\ Len(h) = 8 /\ h[1] = "file" /\ h[2] = CR /\ h[3] = LF /\ h[4] = "type" /\ h[5] = CR /\ h[6] = LF
         /\ h[7] = CR /\ h[8] = LF
  BY PartHeadIs
<1>3. \A k \in 1..Len(h) : i + k - 1 <= n => b[i + k - 1] = h[k]
  BY DEF Follows
<1>4. IsLines(b, Z, i, l) /\ l \in Seq(1..n) /\ Len(l) \in Nat /\ end = NextLine(b, i, l) /\ end \in i..(n + 1)
  BY PartLinesIn
<1>5. \A k \in 1..Len(l) : l[k] \notin Z /\ l[k] = IF k = 1 THEN i ELSE FindFrom(b, l[k - 1], CRLF) + 2
  BY <1>4 DEF IsLines
<1>a. \A k \in 1..Len(l) : l[k] \in 1..n
  <2>1. \A k \in 1..Len(l) : l[k] \in i..n
    BY PartLinesIn
  <2> HIDE DEF l, n
  <2>2. QED
    BY <1>1, <2>1
<1> HIDE DEF h, l, Z, end, n
<1>6. /\ i <= n => b[i] = h[1]
      /\ i + 1 <= n => b[i + 1] = h[2]
      /\ i + 2 <= n => b[i + 2] = h[3]
      /\ i + 3 <= n => b[i + 3] = h[4]
      /\ i + 4 <= n => b[i + 4] = h[5]
  <2>1. 1 \in 1..Len(h) /\ 2 \in 1..Len(h) /\ 3 \in 1..Len(h) /\ 4 \in 1..Len(h) /\ 5 \in 1..Len(h)
    BY <1>2
  <2>2. i + 1 - 1 = i /\ i + 2 - 1 = i + 1 /\ i + 3 - 1 = i + 2 /\ i + 4 - 1 = i + 3 /\ i + 5 - 1 = i + 4
    BY <1>1
  <2>3. QED
    BY <1>3, <2>1, <2>2
<1>7. CR # "field" /\ CR # "file" /\ CR # "type" /\ NUL # "field" /\ NUL # "file" /\ NUL # "type"
  BY DEF CR, NUL
<1>8. CASE l = <<>>
  <2>1. end = i
    BY <1>4, <1>8 DEF NextLine
  <2>2. QED
    BY <1>1, <1>2, <2>1 DEF end, h
<1>9. CASE l # <<>>
  <2>1. Len(l) >= 1
    BY <1>4, <1>9
  <2>2. l[1] = i /\ i \in 1..n
    <3>1. 1 \in 1..Len(l)
      BY <1>4, <2>1
    <3>2. QED
      BY <1>5, <1>a, <3>1
  <2>3. FindFrom(b, i, CRLF) # 0
    <3>1. i \notin Z
      <4>1. 1 \in 1..Len(l)
        BY <1>4, <2>1
      <4>2. QED
        BY <1>5, <2>2, <4>1
    <3>2. i \in 1..(Len(b) + 1)
      OBVIOUS
    <3>3. QED
      BY <3>1, <3>2 DEF Z, PartStops
  <2>4. FindFrom(b, i, CRLF) = i + 1
    <3>1. b[i] # NUL /\ b[i] # CR /\ (i + 1 <= n => b[i + 1] = CR) /\ (i + 2 <= n => b[i + 2] = LF)
      BY <1>2, <1>6, <1>7, <2>2
    <3>2. QED
      BY <2>2, <2>3, <3>1, WordLine DEF n
  <2>5. CASE Len(l) = 1
    <3>1. end = FindFrom(b, l[1], CRLF) + 2
      BY <1>4, <1>9, <2>5 DEF NextLine
    <3>2. end = i + 3
      BY <1>1, <2>2, <2>4, <3>1
    <3>3. QED
      BY <1>1, <1>2, <3>2 DEF end, h
  <2>6. CASE Len(l) # 1
    <3> DEFINE j == i + 3
    <3>0. Len(l) \in Nat
      BY <1>4
    <3>1. 2 \in 1..Len(l) /\ 2 - 1 = 1 /\ (Len(l) # 2 => 3 \in 1..Len(l)) /\ 3 - 1 = 2
      <4> DEFINE y == Len(l)
      <4>1. y \in Nat /\ y >= 1 /\ y # 1
        BY <2>1, <2>6, <3>0
      <4> HIDE DEF y, j
      <4>2. 2 \in 1..y /\ 2 - 1 = 1 /\ (y # 2 => 3 \in 1..y) /\ 3 - 1 = 2
        BY <4>1
      <4>3. QED
        BY <4>2 DEF y
    <3>2. l[2] = j /\ j \in 1..n /\ j \notin Z
      <4>1. l[2] = FindFrom(b, l[1], CRLF) + 2 /\ l[2] \notin Z /\ l[2] \in 1..n
        BY <1>5, <1>a, <3>1
      <4>2. l[2] = j
        BY <1>1, <2>2, <2>4, <4>1
      <4>3. QED
        BY <4>1, <4>2
    <3>3. Len(h) = 8 /\ h[1] = "file" /\ h[2] = CR /\ h[3] = LF /\ h[4] = "type" /\ h[5] = CR /\ h[6] = LF
          /\ h[7] = CR /\ h[8] = LF
      <4> SUFFICES ASSUME Len(h) = 5, h[4] = CR, h[5] = LF
                   PROVE  FALSE
        BY <1>2
      <4>1. (j <= n => b[j] = CR) /\ (j + 1 <= n => b[j + 1] = LF)
        <5>1. j + 1 = i + 4
          BY <1>1
        <5>2. QED
          BY <1>6, <5>1
      <4>2. j \in 1..(Len(b) + 1)
        <5> HIDE DEF j
        <5> QED
          BY <1>1, <3>2 DEF n
      <4> HIDE DEF j
      <4>3. j \in Z
        BY <4>1, <4>2, EmptyLine DEF n, Z
      <4>4. QED
        BY <3>2, <4>3
    <3>4. /\ j <= n => b[j] = "type"
          /\ j + 1 <= n => b[j + 1] = CR
          /\ j + 2 <= n => b[j + 2] = LF
          /\ j + 3 <= n => b[j + 3] = CR
          /\ j + 4 <= n => b[j + 4] = LF
      <4>1. 4 \in 1..Len(h) /\ 5 \in 1..Len(h) /\ 6 \in 1..Len(h) /\ 7 \in 1..Len(h) /\ 8 \in 1..Len(h)
        BY <3>3
      <4>2. i + 4 - 1 = j /\ i + 5 - 1 = j + 1 /\ i + 6 - 1 = j + 2 /\ i + 7 - 1 = j + 3 /\ i + 8 - 1 = j + 4
        BY <1>1
      <4> HIDE DEF j
      <4>3. QED
        BY <1>3, <3>3, <4>1, <4>2
    <3>a. j \in Nat \ {0}
      BY <1>1
    <3>b. j + 6 <= i + Len(h) + 1 /\ j + 5 = i + 8
      BY <1>1, <3>3
    <3> HIDE DEF j
    <3>5. FindFrom(b, j, CRLF) # 0
      <4>1. j \in 1..(Len(b) + 1)
        BY <1>1, <3>2 DEF n
      <4>2. QED
        BY <3>2, <4>1 DEF Z, PartStops
    <3>6. FindFrom(b, j, CRLF) = j + 1
      <4>1. b[j] # NUL /\ b[j] # CR /\ (j + 1 <= n => b[j + 1] = CR) /\ (j + 2 <= n => b[j + 2] = LF)
        BY <1>7, <3>2, <3>4
      <4>2. QED
        BY <3>2, <3>5, <4>1, WordLine DEF n
    <3>7. Len(l) = 2
      <4> SUFFICES ASSUME Len(l) # 2
                   PROVE  FALSE
        OBVIOUS
      <4> DEFINE m == j + 3
      <4>1. 3 \in 1..Len(l) /\ 3 - 1 = 2
        BY <3>1
      <4>2. l[3] = FindFrom(b, l[2], CRLF) + 2 /\ l[3] \notin Z /\ l[3] \in 1..n
        BY <1>5, <1>a, <4>1
      <4>3. l[3] = m
        BY <3>a, <3>2, <3>6, <4>2
      <4>4. m + 1 = j + 4
        BY <3>a
      <4>5. (m <= n => b[m] = CR) /\ (m + 1 <= n => b[m + 1] = LF)
        BY <3>4, <4>4
      <4> HIDE DEF m
      <4>6. m \in 1..(Len(b) + 1)
        BY <1>1, <4>2, <4>3 DEF n
      <4>7. m \in Z
        BY <4>5, <4>6, EmptyLine DEF n, Z
      <4>8. QED
        BY <4>2, <4>3, <4>7
    <3>8. end = FindFrom(b, l[2], CRLF) + 2
      BY <1>4, <1>9, <3>7 DEF NextLine
    <3>9. end = j + 3
      BY <3>a, <3>2, <3>6, <3>8
    <3>10. end \in Nat /\ end + 2 <= i + Len(h)
      BY <1>1, <3>3, <3>9, <3>a, <3>b
    <3>11. QED
      BY <3>10 DEF end, h
  <2>7. QED
    BY <2>5, <2>6
<1>10. QED
  BY <1>8, <1>9

\* What a part's header takes ends with it.
LEMMA WithHeaderWithin ==
  ASSUME NEW b \in Text, NEW u, UploadOK(u, b), NEW i \in u.at..(Len(b) + 1),
         NEW p \in [file : BOOLEAN, data : Text], Follows(b, i, PartHead(p)), WithHeader(u, b, i).state # "fault"
  PROVE  WithHeader(u, b, i).at <= i + Len(PartHead(p))
<1> DEFINE end == PartEnd(b, i)
           v == WithHeader(u, b, i)
           y == i + Len(PartHead(p))
           e == end + 2
<1>1. u \in UploadType /\ u.at \in Nat \ {0} /\ Len(b) \in Nat /\ i \in 1..(Len(b) + 1)
  BY TextLen DEF UploadOK
<1>2. end \in Nat /\ end + 2 <= y
  BY <1>1, HeadAt
<1>a. y \in Nat
  <2> DEFINE z == Len(PartHead(p))
  <2>1. z \in {5, 8}
    BY PartHeadPlain
  <2> HIDE DEF z
  <2>2. i + z \in Nat
    BY <1>1, <2>1
  <2>3. QED
    BY <2>2 DEF z
<1> HIDE DEF end, y
<1>3. CASE BeginsAt(b, end, CRLF)
  <2> DEFINE f == PartHas(b, i, {"file"})
             c == PartHas(b, i, {"type"})
             g == IF PartHas(b, i, {"field", "file"}) THEN Append(u.fields, Nil) ELSE u.fields
  <2>1. v = SetHeader(u, f, c, e, g)
    BY <1>3 DEF WithHeader, end, SetHeader
  <2>2. f \in BOOLEAN /\ c \in BOOLEAN
    BY DEF PartHas
  <2>3. e \in Nat /\ e <= y
    BY <1>2
  <2>5. g \in Seq(Opt(Text))
    <3>1. u.fields \in Seq(Opt(Text)) /\ Nil \in Opt(Text)
      BY <1>1 DEF UploadType, Opt
    <3>2. QED
      BY <3>1
  <2> HIDE DEF f, c, g, v, e
  <2> DEFINE w == SetHeader(u, f, c, e, g)
  <2>6. w \in UploadType /\ w.at = e /\ w.filename = f /\ w.ctype = c /\ w.fields = g
          /\ w.opened = u.opened /\ w.file = u.file /\ w.opens = u.opens /\ w.closes = u.closes /\ w.done = u.done /\ w.state = u.state
    BY <1>1, <2>2, <2>3, <2>5, SetHeaderIs
  <2> HIDE DEF w
  <2>7. v = w
    BY <2>1 DEF w
  <2>8. v.at = e
    BY <2>6, <2>7
  <2>9. QED
    BY <2>3, <2>8 DEF v, y
<1>4. CASE ~BeginsAt(b, end, CRLF) /\ end > Len(b)
  <2> DEFINE in_file == u.filename /\ u.ctype
             f == u.filename /\ ~in_file
             c == u.ctype /\ ~in_file
  <2>1. v = SetPart(u, f, c, end)
    BY <1>4 DEF WithHeader, end, SetPart
  <2>2. f \in BOOLEAN /\ c \in BOOLEAN
    OBVIOUS
  <2>a. end \in Nat
    BY <1>2
  <2> HIDE DEF f, c, v, e, in_file
  <2>b. u \in UploadType
    BY <1>1
  <2> DEFINE w == SetPart(u, f, c, end)
  <2>3. w \in UploadType /\ w.at = end /\ w.filename = f /\ w.ctype = c /\ w.fields = u.fields
          /\ w.opened = u.opened /\ w.file = u.file /\ w.opens = u.opens /\ w.closes = u.closes /\ w.done = u.done /\ w.state = u.state
    BY <2>2, <2>a, <2>b, SetPartIs
  <2> HIDE DEF w
  <2>4. v = w
    BY <2>1 DEF w
  <2>5. v.at = end
    BY <2>3, <2>4
  <2>6. v.at <= y
    BY <1>2, <1>a, <2>5
  <2>7. QED
    BY <2>6 DEF v, y
<1>5. CASE ~BeginsAt(b, end, CRLF) /\ ~(end > Len(b))
  <2>1. v = SetState(u, "fault")
    BY <1>5 DEF WithHeader, end, SetState
  <2> HIDE DEF v
  <2>2. v.state = "fault"
    BY <1>1, <2>1, SetStateIs
  <2>3. QED
    BY <2>2 DEF v
<1>6. QED
  BY <1>3, <1>4, <1>5

\* Where the last boundary starts, all or as much of it as has arrived, data
\* ends; but for a line end that is read without what follows.
LEMMA DataKept ==
  ASSUME NEW b \in Text, NEW at \in Nat \ {0}, NEW lim \in Nat, at <= lim, at <= Len(b) + 1, Follows(b, lim, LAST)
  PROVE  LET z == IF NextBoundary(b, at) = 0 THEN Len(b) + 1 ELSE NextBoundary(b, at)
         IN  z <= lim \/ (z = Len(b) + 1 /\ Len(b) = lim + 1)
<1> DEFINE whole == {j \in at..Len(b) : BeginsAt(b, j, COMMON)}
           crs   == {j \in at..Len(b) : b[j] = CR}
           last  == Max(crs)
           tail  == SubSeq(b, last + 2, Len(b))
           n     == Len(b)
           nb    == NextBoundary(b, at)
<1>1. n \in Nat /\ lim \in Nat \ {0}
  BY TextLen
<1>2. nb # 0 => nb \in at..n
  BY NextBoundaryIn
<1>3. whole # {} => nb = Min(whole) /\ Min(whole) \in whole /\ \A j \in whole : Min(whole) <= j
  <2> SUFFICES ASSUME whole # {}
               PROVE  nb = Min(whole) /\ Min(whole) \in whole /\ \A j \in whole : Min(whole) <= j
    OBVIOUS
  <2>1. whole \in SUBSET Nat
    BY <1>1
  <2>2. nb = Min(whole)
    BY DEF NextBoundary
  <2> HIDE DEF whole, nb
  <2>3. QED
    BY <2>1, <2>2, MinIn
<1>4. whole = {} /\ crs # {} =>
        /\ last \in crs /\ \A j \in crs : j <= last
        /\ nb = IF last = n THEN last
                ELSE IF last = n - 1 /\ b[n] = LF THEN 0
                ELSE IF IsPrefix(tail, Boundary) THEN last ELSE 0
  <2> SUFFICES ASSUME whole = {}, crs # {}
               PROVE  /\ last \in crs /\ \A j \in crs : j <= last
                      /\ nb = IF last = n THEN last
                              ELSE IF last = n - 1 /\ b[n] = LF THEN 0
                              ELSE IF IsPrefix(tail, Boundary) THEN last ELSE 0
    OBVIOUS
  <2>1. crs \in SUBSET (0..n)
    BY <1>1
  <2>2. last \in crs /\ \A j \in crs : j <= last
    <3> HIDE DEF crs, n
    <3> QED
      BY <1>1, <2>1, MaxIn
  <2>3. nb = IF last = n THEN last
             ELSE IF last = n - 1 /\ b[n] = LF THEN 0
             ELSE IF IsPrefix(tail, Boundary) THEN last ELSE 0
    BY DEF NextBoundary
  <2>4. QED
    BY <2>2, <2>3
<1>5. /\ lim <= n => b[lim] = CR
      /\ lim + 1 <= n => b[lim + 1] = LF
      /\ lim + 2 <= n => b[lim + 2] = "--b1"
      /\ lim + 3 <= n => b[lim + 3] = "b2"
  <2>1. 1 \in 1..7 /\ 2 \in 1..7 /\ 3 \in 1..7 /\ 4 \in 1..7
    OBVIOUS
  <2>2. lim + 1 - 1 = lim /\ lim + 2 - 1 = lim + 1 /\ lim + 3 - 1 = lim + 2 /\ lim + 4 - 1 = lim + 3
    OBVIOUS
  <2>3. QED
    BY <2>1, <2>2, MarksAre DEF Follows
<1>6. \A j \in whole : j \in at..n /\ j + 3 <= n
  <2> SUFFICES ASSUME NEW j \in whole
               PROVE  j \in at..n /\ j + 3 <= n
    OBVIOUS
  <2>1. j \in at..n /\ BeginsAt(b, j, COMMON)
    OBVIOUS
  <2>2. j \in Nat \ {0}
    BY <2>1
  <2>3. QED
    BY <2>1, <2>2, MarkAt
<1>7. lim + 3 <= n => lim \in whole
  <2> SUFFICES ASSUME lim + 3 <= n
               PROVE  lim \in whole
    OBVIOUS
  <2>1. lim \in at..n /\ lim + 1 <= n /\ lim + 2 <= n /\ lim <= n
    BY <1>1
  <2>2. \A k \in 1..Len(COMMON) : lim + k - 1 <= Len(b) /\ b[lim + k - 1] = COMMON[k]
    <3>1. \A k \in 1..Len(COMMON) : (k = 1 /\ lim + k - 1 = lim) \/ (k = 2 /\ lim + k - 1 = lim + 1)
             \/ (k = 3 /\ lim + k - 1 = lim + 2) \/ (k = 4 /\ lim + k - 1 = lim + 3)
      BY MarksAre
    <3>2. COMMON[1] = CR /\ COMMON[2] = LF /\ COMMON[3] = "--b1" /\ COMMON[4] = "b2"
      BY MarksAre
    <3>3. b[lim] = CR /\ b[lim + 1] = LF /\ b[lim + 2] = "--b1" /\ b[lim + 3] = "b2"
      BY <1>5, <2>1
    <3>4. QED
      BY <2>1, <3>1, <3>2, <3>3
  <2>3. BeginsAt(b, lim, COMMON)
    BY <1>1, <2>2, MarkAt
  <2>4. QED
    BY <2>1, <2>3
<1> DEFINE z == IF nb = 0 THEN n + 1 ELSE nb
<1>8. CASE whole # {}
  <2>1. Min(whole) <= lim
    <3>1. CASE lim + 3 <= n
      BY <1>3, <1>7, <1>8, <3>1
    <3>2. CASE ~(lim + 3 <= n)
      <4> DEFINE m == Min(whole)
      <4>1. m \in at..n /\ m + 3 <= n
        BY <1>3, <1>6, <1>8
      <4> HIDE DEF m, n
      <4>2. m <= lim
        BY <1>1, <3>2, <4>1
      <4>3. QED
        BY <4>2 DEF m
    <3>3. QED
      BY <3>1, <3>2
  <2>2. nb = Min(whole) /\ nb # 0
    <3>1. nb = Min(whole) /\ nb \in at..n
      <4>1. nb = Min(whole) /\ Min(whole) \in whole
        BY <1>3, <1>8
      <4>2. QED
        BY <4>1
    <3> HIDE DEF nb
    <3>2. nb # 0
      BY <1>1, <3>1
    <3>3. QED
      BY <3>1, <3>2
  <2>3. z <= lim
    <3> HIDE DEF nb, whole
    <3> QED
      BY <2>1, <2>2
  <2>4. QED
    BY <2>3
<1>9. CASE whole = {}
  <2>1. ~(lim + 3 <= n)
    BY <1>7, <1>9
  <2>2. CASE n < lim
    <3>1. z \in Nat /\ z <= n + 1
      <4>1. nb # 0 => nb \in Nat /\ nb <= n
        BY <1>1, <1>2
      <4> HIDE DEF nb, n, whole, crs, last, tail
      <4>2. CASE nb = 0
        <5>1. z = n + 1
          BY <4>2
        <5> HIDE DEF z
        <5>2. QED
          BY <1>1, <5>1
      <4>3. CASE nb # 0
        <5>1. z = nb
          BY <4>3
        <5> HIDE DEF z
        <5>2. QED
          BY <1>1, <4>1, <4>3, <5>1
      <4>4. QED
        BY <4>2, <4>3
    <3> HIDE DEF z, n
    <3>2. z <= lim
      BY <1>1, <2>2, <3>1
    <3>3. QED
      BY <3>2 DEF z, n
  <2>3. CASE ~(n < lim)
    <3>1. lim \in crs /\ crs # {}
      BY <1>1, <1>5, <2>3
    <3>2. last \in crs /\ lim <= last
      BY <1>4, <1>9, <3>1
    <3>3. nb = IF last = n THEN last
               ELSE IF last = n - 1 /\ b[n] = LF THEN 0
               ELSE IF IsPrefix(tail, Boundary) THEN last ELSE 0
      BY <1>4, <1>9, <3>1
    <3>4. b[last] = CR /\ last \in lim..n
      BY <1>1, <3>2
    <3>5. CR # LF /\ CR # "--b1"
      BY DEF CR, LF
    <3> HIDE DEF whole, crs, last, n, nb, z
    <3>6. last = lim
      <4>1. n <= lim + 2 /\ (lim + 1 <= n => last # lim + 1) /\ (lim + 2 <= n => last # lim + 2)
        BY <1>1, <1>5, <2>1, <3>4, <3>5
      <4>2. QED
        BY <1>1, <3>4, <4>1
    <3>7. CASE n = lim
      <4>1. nb = lim
        BY <3>3, <3>6, <3>7
      <4>2. z <= lim
        BY <1>1, <4>1 DEF z
      <4>3. QED
        BY <4>2 DEF z, nb, n
    <3>8. CASE n = lim + 1
      <4>1. b[n] = LF /\ last = n - 1 /\ last # n
        BY <1>1, <1>5, <3>6, <3>8
      <4>2. nb = 0
        BY <3>3, <4>1
      <4>3. z = n + 1
        BY <4>2 DEF z
      <4>4. QED
        BY <3>8, <4>3 DEF z, nb, n
    <3>9. CASE n = lim + 2
      <4> DEFINE m == lim + 2
      <4>1. last # n /\ last # n - 1 /\ m <= n /\ n = m /\ m \in Nat \ {0}
        BY <1>1, <3>6, <3>9
      <4>2. tail = SubSeq(b, m, m) /\ b[m] = "--b1"
        <5>1. last + 2 = m
          BY <3>6
        <5>2. QED
          BY <1>5, <4>1, <5>1 DEF n
      <4> HIDE DEF m, tail
      <4>3. tail \in Text /\ Len(tail) = 1 /\ tail[1] = "--b1"
        <5>1. /\ SubSeq(b, m, m) \in Text /\ Len(SubSeq(b, m, m)) = IF m <= m THEN m - m + 1 ELSE 0
              /\ \A i \in 1..(m - m + 1) : SubSeq(b, m, m)[i] = b[m + i - 1]
          <6>1. m <= Len(b) /\ m \in Nat
            BY <4>1 DEF n
          <6>2. QED
            BY <4>1, <6>1, SubText
        <5>2. m - m + 1 = 1 /\ m <= m /\ 1 \in 1..1 /\ m + 1 - 1 = m
          BY <4>1
        <5> DEFINE y == SubSeq(b, m, m)
        <5>3. y \in Text /\ Len(y) = 1 /\ y[1] = b[m]
          BY <5>1, <5>2
        <5> HIDE DEF y
        <5>4. tail = y
          BY <4>2 DEF y
        <5>5. QED
          BY <4>2, <5>3, <5>4
      <4>4. IsPrefix(tail, Boundary)
        <5>1. Boundary \in Text /\ Len(Boundary) = 2 /\ Boundary[1] = "--b1"
          BY MarksAre
        <5> DEFINE x == SubSeq(tail, 1, 1)
                   y == SubSeq(Boundary, 1, 1)
        <5>2. \A v \in Text : 1 <= Len(v) => SubSeq(v, 1, 1) \in Text /\ Len(SubSeq(v, 1, 1)) = 1 /\ SubSeq(v, 1, 1)[1] = v[1]
          <6> SUFFICES ASSUME NEW v \in Text, 1 <= Len(v)
                       PROVE  SubSeq(v, 1, 1) \in Text /\ Len(SubSeq(v, 1, 1)) = 1 /\ SubSeq(v, 1, 1)[1] = v[1]
            OBVIOUS
          <6> DEFINE o == 1
                     sv == SubSeq(v, o, o)
          <6>1. o \in Nat \ {0} /\ o \in Nat /\ o <= Len(v) /\ o <= o /\ o - o + 1 = 1 /\ o + 1 - 1 = 1 /\ 1 \in 1..(o - o + 1)
            OBVIOUS
          <6> HIDE DEF o
          <6>2. /\ SubSeq(v, o, o) \in Text
                /\ Len(SubSeq(v, o, o)) = IF o <= o THEN o - o + 1 ELSE 0
                /\ \A i \in 1..(o - o + 1) : SubSeq(v, o, o)[i] = v[o + i - 1]
            BY <6>1, SubText
          <6> HIDE DEF sv
          <6>3. sv \in Text /\ Len(sv) = 1 /\ sv[1] = v[1]
            BY <6>1, <6>2 DEF sv
          <6>4. QED
            BY <6>3 DEF sv, o
        <5>3. x \in Text /\ Len(x) = 1 /\ x[1] = "--b1" /\ y \in Text /\ Len(y) = 1 /\ y[1] = "--b1"
          <6>1. 1 <= Len(tail) /\ 1 <= Len(Boundary)
            BY <4>3, <5>1
          <6>2. x \in Text /\ Len(x) = 1 /\ x[1] = tail[1]
            BY <4>3, <5>2, <6>1
          <6>3. y \in Text /\ Len(y) = 1 /\ y[1] = Boundary[1]
            BY <5>1, <5>2, <6>1
          <6> HIDE DEF x, y
          <6>4. QED
            BY <4>3, <5>1, <6>2, <6>3
        <5> HIDE DEF x, y
        <5>4. x = y
          <6>1. \A i \in 1..Len(x) : x[i] = y[i]
            BY <5>3
          <6>2. QED
            BY <5>3, <6>1, SameText
        <5>5. Len(tail) <= Len(Boundary) /\ SubSeq(tail, 1, Len(tail)) = SubSeq(Boundary, 1, Len(tail))
          BY <4>3, <5>1, <5>4 DEF x, y
        <5>6. QED
          BY <5>5 DEF IsPrefix
      <4>5. nb = lim
        BY <3>3, <3>6, <4>1, <4>4
      <4>6. z <= lim
        BY <1>1, <4>5 DEF z
      <4>7. QED
        BY <4>6 DEF z, nb, n
    <3>10. QED
      BY <1>1, <2>1, <2>3, <3>7, <3>8, <3>9
  <2>4. QED
    BY <2>2, <2>3
<1>10. QED
  BY <1>8, <1>9

\* b is what is on the wire behind its first base cells, all of them of the
\* parts: it starts no later than the last boundary.
OfParts(b, r, base) ==
  /\ base \in Nat /\ HeadLen(r) <= base /\ base <= LastAt(r) /\ base + Len(b) <= Len(Wire[r])
  /\ \A x \in 1..Len(b) : b[x] = Wire[r][base + x]

\* Where the last boundary starts in it.
Limit(r, base) == (LastAt(r) + 1) - base

LEMMA LimitIs ==
  ASSUME NEW r \in Asks, r.parts # <<>>, NEW b \in Text, NEW base, OfParts(b, r, base)
  PROVE  /\ Limit(r, base) \in Nat \ {0} /\ Follows(b, Limit(r, base), LAST)
         /\ LastAt(r) = (base + Limit(r, base)) - 1 /\ Len(Wire[r]) = (base + Limit(r, base)) + 6 /\ Len(b) <= Limit(r, base) + 6
<1> DEFINE lim == Limit(r, base)
           w == Wire[r]
           n == Len(b)
           a == LastAt(r)
           lw == Len(w)
<1>1. a \in Nat /\ HeadLen(r) \in Nat /\ lw = a + 7 /\ Stands(w, a, LAST)
  BY UploadWire
<1>2. base \in Nat /\ base <= a /\ base + n <= lw /\ (\A x \in 1..n : b[x] = w[base + x]) /\ n \in Nat
  BY TextLen DEF OfParts
<1>3. lim = (a + 1) - base
  BY DEF Limit
<1> HIDE DEF lim, a, w, n, lw
<1>4. lim \in Nat \ {0} /\ a = (base + lim) - 1 /\ lw = (base + lim) + 6 /\ n <= lim + 6
  BY <1>1, <1>2, <1>3
<1>5. Follows(b, lim, LAST)
  <2> SUFFICES ASSUME NEW k \in 1..Len(LAST), lim + k - 1 <= Len(b)
               PROVE  b[lim + k - 1] = LAST[k]
    BY DEF Follows
  <2> DEFINE x == lim + k - 1
  <2>1. x \in 1..n /\ base + x = a + k
    <3>1. k \in 1..7 /\ lim + k - 1 <= n
      BY MarksAre DEF n
    <3>2. QED
      BY <1>1, <1>2, <1>4, <3>1
  <2> HIDE DEF x
  <2>2. b[x] = w[a + k]
    BY <1>2, <2>1
  <2>3. w[a + k] = LAST[k]
    BY <1>1 DEF Stands
  <2>4. QED
    BY <2>2, <2>3 DEF x
<1>6. QED
  BY <1>4, <1>5 DEF lim, a, w, n, lw

LEMMA HeaderFollows ==
  ASSUME NEW r \in Asks, r.parts # <<>>, NEW b \in Text, NEW base, OfParts(b, r, base),
         NEW at \in Nat \ {0}, at <= Limit(r, base), HeaderAt(b, at) # 0
  PROVE  \E k \in 1..Len(r.parts) : /\ Follows(b, HeaderAt(b, at), PartHead(r.parts[k]))
                                    /\ HeaderAt(b, at) + Len(PartHead(r.parts[k])) <= Limit(r, base)
<1> DEFINE lim == Limit(r, base)
           w == Wire[r]
           n == Len(b)
           a == LastAt(r)
           i == HeaderAt(b, at)
           j == i - 4
           q == base + j - 1
           hl == HeadLen(r)
<1>1. /\ lim \in Nat \ {0} /\ Follows(b, lim, LAST) /\ a = (base + lim) - 1
  BY LimitIs
<1>2. base \in Nat /\ hl <= base /\ base + n <= Len(w) /\ (\A x \in 1..n : b[x] = w[base + x]) /\ n \in Nat
      /\ hl \in Nat /\ Len(w) \in Nat
  BY TextLen, BodyStands, HeadStands DEF OfParts
<1>3. /\ j \in Nat \ {0} /\ i = j + 4 /\ j + 1 <= n /\ b[j] = "--b1" /\ b[j + 1] = "b2"
      /\ j = at \/ (j = at + 2 /\ at + 4 <= n /\ b[at + 4] = CR)
  <2>1. CASE BeginsAt(b, at, NORMAL)
    <3>0. Len(NORMAL) = 6 /\ NORMAL[1] = CR /\ NORMAL[3] = "--b1" /\ NORMAL[4] = "b2" /\ NORMAL[5] = CR
          /\ Len(FIRST) = 4 /\ FIRST[1] = "--b1"
      BY MarksAre
    <3>1. \A k \in 1..Len(NORMAL) : at + k - 1 <= Len(b) /\ b[at + k - 1] = NORMAL[k]
      BY <2>1, MarkAt
    <3>2. 1 \in 1..6 /\ 3 \in 1..6 /\ 4 \in 1..6 /\ 5 \in 1..6 /\ 1 \in 1..4
      OBVIOUS
    <3>3. at + 1 - 1 = at /\ at + 3 - 1 = at + 2 /\ at + 4 - 1 = at + 3 /\ at + 5 - 1 = at + 4
      OBVIOUS
    <3>4. /\ b[at + 2] = "--b1" /\ at + 2 <= n /\ b[at + 3] = "b2" /\ at + 3 <= n /\ b[at + 4] = CR /\ at + 4 <= n /\ b[at] = CR
      BY <3>0, <3>1, <3>2, <3>3
    <3>a. ~BeginsAt(b, at, FIRST)
      <4>1. CR # "--b1"
        BY DEF CR
      <4>2. BeginsAt(b, at, FIRST) => \A k \in 1..Len(FIRST) : at + k - 1 <= Len(b) /\ b[at + k - 1] = FIRST[k]
        BY MarkAt
      <4>a. 1 \in 1..Len(FIRST)
        BY <3>0
      <4>3. QED
        BY <3>0, <3>3, <3>4, <4>1, <4>2, <4>a
    <3>5. i = at + 6
      BY <2>1, <3>0, <3>a DEF HeaderAt
    <3> HIDE DEF i
    <3>6. j = at + 2 /\ j + 1 = at + 3
      BY <3>5
    <3> HIDE DEF j, n
    <3>7. QED
      BY <3>4, <3>5, <3>6
  <2>2. CASE ~BeginsAt(b, at, NORMAL)
    <3>a. Len(FIRST) = 4 /\ FIRST[1] = "--b1" /\ FIRST[2] = "b2"
      BY MarksAre
    <3>0. BeginsAt(b, at, FIRST) /\ i = at + 4
      BY <2>2, <3>a DEF HeaderAt
    <3>1. \A k \in 1..Len(FIRST) : at + k - 1 <= Len(b) /\ b[at + k - 1] = FIRST[k]
      BY <3>0, MarkAt
    <3>2. 1 \in 1..4 /\ 2 \in 1..4
      OBVIOUS
    <3>3. at + 1 - 1 = at /\ at + 2 - 1 = at + 1
      OBVIOUS
    <3>4. b[at] = "--b1" /\ at <= n /\ b[at + 1] = "b2" /\ at + 1 <= n
      BY <3>1, <3>2, <3>3, <3>a
    <3> HIDE DEF i
    <3>6. j = at /\ j + 1 = at + 1
      BY <3>0
    <3> HIDE DEF j, n
    <3>7. QED
      BY <3>0, <3>4, <3>6
  <2>3. QED
    BY <2>1, <2>2
<1> HIDE DEF j, i, n, lim, hl
<1>4. q \in Nat /\ q >= hl /\ q + 1 = base + j /\ q + 2 = base + (j + 1) /\ q + 2 <= Len(w) /\ j \in 1..n /\ j + 1 \in 1..n
  <2> DEFINE lw == Len(w)
  <2>1. base \in Nat /\ hl <= base /\ base + n <= lw /\ n \in Nat /\ hl \in Nat /\ lw \in Nat
    BY <1>2
  <2>2. j \in Nat \ {0} /\ j + 1 <= n
    BY <1>3
  <2> HIDE DEF lw, w, a
  <2>3. q \in Nat /\ q >= hl /\ q + 1 = base + j /\ q + 2 = base + (j + 1) /\ q + 2 <= lw /\ j \in 1..n /\ j + 1 \in 1..n
    BY <2>1, <2>2
  <2>4. QED
    BY <2>3 DEF lw
<1>5. q + 4 = (base + i) - 1 /\ base + j = q + 1
  BY <1>2, <1>3
<1> HIDE DEF q, w
<1>6. Stands(w, q, Boundary)
  <2>1. w[q + 1] = "--b1" /\ w[q + 2] = "b2"
    BY <1>2, <1>3, <1>4
  <2>2. \A x \in 1..2 : x = 1 \/ x = 2
    OBVIOUS
  <2>3. \A x \in 1..2 : w[q + x] = Boundary[x]
    BY <2>1, <2>2, MarksAre
  <2>4. QED
    BY <1>4, <2>3, MarksAre DEF Stands
<1>7. q # a + 2
  <2> SUFFICES ASSUME q = a + 2
               PROVE  FALSE
    OBVIOUS
  <2>1. j = lim + 2
    <3>1. a = (base + lim) - 1 /\ lim \in Nat /\ base \in Nat /\ j \in Nat /\ base + j = q + 1 /\ q \in Nat
      BY <1>1, <1>2, <1>3, <1>4, <1>5
    <3> HIDE DEF a
    <3>2. QED
      BY <3>1
  <2>2. at = lim /\ j = at + 2 /\ at + 4 <= n /\ b[at + 4] = CR
    <3>1. at <= lim
      BY DEF lim
    <3>2. QED
      BY <1>1, <1>3, <2>1, <3>1
  <2>3. b[lim + 5 - 1] = LAST[5]
    <3>1. 5 \in 1..Len(LAST) /\ lim + 5 - 1 = lim + 4
      BY <1>1, MarksAre
    <3>2. lim + 5 - 1 <= Len(b)
      BY <2>2, <3>1 DEF n
    <3>3. QED
      BY <1>1, <3>1, <3>2 DEF Follows
  <2>4. lim + 5 - 1 = at + 4
    BY <1>1, <2>2
  <2>5. CR # "--"
    BY DEF CR
  <2>6. QED
    BY <2>2, <2>3, <2>4, <2>5, MarksAre
<1>8. PICK k \in 1..Len(r.parts) : /\ Stands(w, q + 4, PartHead(r.parts[k]))
                                   /\ q + 4 + Len(PartHead(r.parts[k])) <= a
  <2>1. Stands(Wire[r], q, Boundary) /\ q \in Nat /\ q >= HeadLen(r)
    BY <1>4, <1>6 DEF w, hl
  <2>2. \/ q = LastAt(r) + 2
        \/ \E k \in 1..Len(r.parts) : /\ Stands(Wire[r], q + 4, PartHead(r.parts[k]))
                                      /\ q + 4 + Len(PartHead(r.parts[k])) <= LastAt(r)
    BY <2>1, BoundaryFound
  <2>3. QED
    BY <1>7, <2>2 DEF w
<1> DEFINE h == PartHead(r.parts[k])
           lh == Len(h)
<1>9. lh \in Nat
  <2>1. r.parts[k] \in [file : BOOLEAN, data : Text]
    <3> DEFINE H == [file : BOOLEAN, data : Text]
               ps == r.parts
    <3>1. ps \in Seq(H) /\ k \in 1..Len(ps)
      BY RequestIs
    <3> HIDE DEF H, ps
    <3>2. ps[k] \in H
      BY <3>1
    <3>3. QED
      BY <3>2 DEF H, ps
  <2>2. QED
    BY <2>1, PartHeadPlain
<1> HIDE DEF a
<1>10. i + lh <= lim
  <2>1. q + 4 + lh <= a
    BY <1>8 DEF a
  <2> HIDE DEF lh
  <2>2. i \in Nat
    BY <1>3
  <2>3. QED
    BY <1>1, <1>2, <1>5, <1>9, <2>1, <2>2
<1>11. Follows(b, i, h)
  <2> HIDE DEF h
  <2> SUFFICES ASSUME NEW m \in 1..lh, i + m - 1 <= Len(b)
               PROVE  b[i + m - 1] = h[m]
    BY DEF Follows
  <2> DEFINE x == i + m - 1
  <2> HIDE DEF lh
  <2>1. x \in 1..n /\ base + x = (q + 4) + m
    <3>1. i + m - 1 <= n /\ i \in Nat \ {0}
      BY <1>3 DEF n
    <3>2. QED
      BY <1>2, <1>4, <1>5, <1>9, <3>1
  <2> HIDE DEF x
  <2>2. b[x] = w[(q + 4) + m]
    BY <1>2, <2>1
  <2>3. w[(q + 4) + m] = h[m]
    BY <1>8 DEF Stands, h, lh
  <2>4. QED
    BY <2>2, <2>3 DEF x
<1>12. QED
  BY <1>10, <1>11 DEF i, h, lh, lim

\* The loop stops no later than where the last boundary starts, unless it is
\* at its end; it waits for no boundary that is there.
Kept(u, b, lim) ==
  /\ u.at <= lim \/ u.state \in {"close", "fault"} \/ (u.at = Len(b) + 1 /\ Len(b) = lim + 1)
  /\ u.state = "wait" => ~HasFrom(b, u.at, LAST)

LEMMA DataIsKept ==
  ASSUME NEW b \in Text, NEW u, UploadOK(u, b), NEW lim \in Nat, u.at <= lim, Follows(b, lim, LAST), u.state = "more"
  PROVE  Kept(Data(u, b), b, lim)
<1> DEFINE v == Data(u, b)
           z == IF NextBoundary(b, u.at) = 0 THEN Len(b) + 1 ELSE NextBoundary(b, u.at)
<1>1. u.at \in Nat \ {0} /\ u.at <= Len(b) + 1
  <2>1. u.at \in 1..(Len(b) + 1) /\ Len(b) \in Nat
    BY TextLen DEF UploadOK
  <2>2. QED
    BY <2>1
<1>2. z <= lim \/ (z = Len(b) + 1 /\ Len(b) = lim + 1)
  <2> DEFINE at == u.at
  <2>1. at \in Nat \ {0} /\ at <= lim /\ at <= Len(b) + 1
    BY <1>1
  <2> HIDE DEF at
  <2>2. LET y == IF NextBoundary(b, at) = 0 THEN Len(b) + 1 ELSE NextBoundary(b, at)
        IN  y <= lim \/ (y = Len(b) + 1 /\ Len(b) = lim + 1)
    BY <2>1, DataKept
  <2>3. QED
    BY <2>2 DEF at
<1>3. v.at = z /\ v.state # "wait"
  BY DataType
<1> HIDE DEF v, z
<1>4. QED
  BY <1>2, <1>3 DEF Kept, v

LEMMA StepKept ==
  ASSUME NEW r \in Asks, r.parts # <<>>, NEW b \in Text, NEW base, OfParts(b, r, base),
         NEW u, Moving(u, b), Kept(u, b, Limit(r, base))
  PROVE  Kept(UploadStep(u, b), b, Limit(r, base))
<1> DEFINE v == UploadStep(u, b)
           h == HeaderAt(b, u.at)
           x == WithHeader(u, b, h)
           p == Part(x, b)
           lim == Limit(r, base)
<1>1. UploadOK(u, b) /\ u \in UploadType /\ u.at \in Nat \ {0} /\ u.at <= Len(b) + 1 /\ Len(b) \in Nat
  BY TextLen DEF Moving, UploadOK, UploadType
<1>2. lim \in Nat \ {0} /\ Follows(b, lim, LAST)
  BY LimitIs
<1>3. CASE u.state # "more" \/ u.at > Len(b)
  <2>1. v = u
    BY <1>3 DEF UploadStep
  <2>2. QED
    BY <2>1
<1>4. CASE u.state = "more" /\ ~(u.at > Len(b))
  <2>1. v = IF BeginsAt(b, u.at, LAST) THEN [u EXCEPT !.done = @ + 1, !.state = "close"]
       ELSE IF (Len(b) + 1) - u.at < Third /\ ~HasFrom(b, u.at, LAST) THEN [u EXCEPT !.state = "wait"]
       ELSE IF h # 0 THEN p
       ELSE Data(u, b)
    BY <1>4 DEF UploadStep
  <2>2. u.at <= lim
    <3> DEFINE a == u.at
               n == Len(b)
    <3>1. a <= lim \/ a = n + 1
      BY <1>4 DEF Kept
    <3>2. a \in Nat /\ n \in Nat /\ ~(a > n)
      BY <1>1, <1>4
    <3> HIDE DEF a, n, lim
    <3>3. a <= lim
      BY <3>1, <3>2
    <3>4. QED
      BY <3>3 DEF a
  <2>3. CASE v = [u EXCEPT !.done = @ + 1, !.state = "close"]
    <3>1. v.state = "close"
      BY <1>1, <2>3 DEF UploadType
    <3> HIDE DEF v
    <3>2. QED
      BY <3>1 DEF Kept, v
  <2>4. CASE ~HasFrom(b, u.at, LAST) /\ v = [u EXCEPT !.state = "wait"]
    <3>1. v = SetState(u, "wait")
      BY <2>4 DEF SetState
    <3> HIDE DEF v
    <3>2. v.at = u.at
      BY <1>1, <3>1, SetStateIs
    <3>3. QED
      BY <2>2, <2>4, <3>2 DEF Kept, v
  <2>5. CASE h # 0 /\ v = p
    <3>1. h \in u.at..(Len(b) + 1) /\ h \in Nat
      <4>1. h \in (u.at + 4)..(Len(b) + 1)
        BY <1>1, <2>5, HeaderAtIn
      <4> HIDE DEF h
      <4>2. QED
        BY <1>1, <4>1
    <3>2. PICK k \in 1..Len(r.parts) : /\ Follows(b, h, PartHead(r.parts[k]))
                                       /\ h + Len(PartHead(r.parts[k])) <= lim
      <4> DEFINE at == u.at
      <4>1. at \in Nat \ {0} /\ at <= Limit(r, base) /\ HeaderAt(b, at) # 0
        BY <1>1, <2>2, <2>5
      <4> HIDE DEF at
      <4>2. \E k \in 1..Len(r.parts) : /\ Follows(b, HeaderAt(b, at), PartHead(r.parts[k]))
                                       /\ HeaderAt(b, at) + Len(PartHead(r.parts[k])) <= Limit(r, base)
        BY <4>1, HeaderFollows
      <4>3. QED
        BY <4>2 DEF at
    <3> DEFINE q == r.parts[k]
               l == Len(PartHead(q))
    <3>3. q \in [file : BOOLEAN, data : Text]
      <4> DEFINE H == [file : BOOLEAN, data : Text]
                 ps == r.parts
      <4>1. ps \in Seq(H) /\ k \in 1..Len(ps)
        BY RequestIs
      <4> HIDE DEF H, ps
      <4>2. ps[k] \in H
        BY <4>1
      <4>3. QED
        BY <4>2 DEF H, ps
    <3> HIDE DEF q, h
    <3>4. l \in {5, 8}
      BY <3>3, PartHeadPlain
    <3>5. /\ UploadOK(x, b) /\ x.state \in {u.state, "fault"}
      BY <1>1, <3>1, WithHeaderType
    <3>6. CASE x.state = "fault"
      <4>1. p = x
        BY <3>6 DEF Part
      <4> HIDE DEF v, x, p
      <4>2. v.state = "fault"
        BY <2>5, <3>6, <4>1
      <4>3. QED
        BY <4>2 DEF Kept, v
    <3>7. CASE x.state # "fault"
      <4>1. x.at <= h + l
        BY <1>1, <3>1, <3>2, <3>3, <3>7, WithHeaderWithin DEF q
      <4> DEFINE o == OpenOrClose(x)
      <4>2. p = Data(o, b)
        BY <3>7 DEF Part
      <4>3. UploadOK(o, b) /\ o.at = x.at /\ o.state = x.state
        BY <3>5, OpenOrCloseType
      <4>4. o.state = "more"
        BY <1>4, <3>5, <3>7, <4>3
      <4>5. o.at <= lim
        <5> DEFINE y == o.at
        <5>1. y <= h + l /\ h + l <= lim /\ y \in Nat
          BY <3>2, <4>1, <4>3 DEF q, UploadOK, UploadType
        <5> HIDE DEF y, l, lim
        <5>2. y <= lim
          BY <1>2, <3>1, <3>4, <5>1
        <5>3. QED
          BY <5>2 DEF y
      <4> HIDE DEF o
      <4>6. Kept(Data(o, b), b, lim)
        BY <1>2, <4>3, <4>4, <4>5, DataIsKept
      <4>7. QED
        BY <2>5, <4>2, <4>6
    <3>8. QED
      BY <3>6, <3>7
  <2>6. CASE v = Data(u, b)
    <3>1. Kept(Data(u, b), b, lim)
      BY <1>1, <1>2, <1>4, <2>2, DataIsKept
    <3>2. QED
      BY <2>6, <3>1
  <2>7. QED
    <3> HIDE DEF v, p, h
    <3> QED
      BY <2>1, <2>3, <2>4, <2>5, <2>6
<1>5. QED
  BY <1>3, <1>4

LEMMA LoopKept ==
  ASSUME NEW r \in Asks, r.parts # <<>>, NEW b \in Text, NEW base, OfParts(b, r, base),
         NEW u \in UploadType, u.opens = u.closes + (IF u.opened THEN 1 ELSE 0), u.done = 0
  PROVE  Kept(UploadLoop(u, b), b, Limit(r, base))
<1> DEFINE n == Len(b)
           D == 0..n
           u0 == [u EXCEPT !.at = 1, !.state = "more"]
           B(g, k) == IF k = 0 THEN u0 ELSE UploadStep(g[k - 1], b)
           Eq(g) == g = [k \in D |-> B(g, k)]
           run == CHOOSE g : Eq(g)
           S == {v \in UploadType : Moving(v, b)}
           F == [k \in 1..n |-> [v \in S |-> UploadStep(v, b)]]
           lim == Limit(r, base)
<1>1. n \in Nat
  BY TextLen
<1>0. lim \in Nat \ {0}
  BY LimitIs
<1>2. u0 \in UploadType /\ u0.at = 1 /\ u0.opened = u.opened /\ u0.opens = u.opens /\ u0.closes = u.closes /\ u0.done = u.done
      /\ u0.state = "more"
  BY LoopStartIs
<1> HIDE DEF u0, lim
<1>3. u0 \in S
  BY <1>1, <1>2 DEF Moving, UploadOK
<1>4. F \in [1..n -> [S -> S]]
  <2>1. \A v \in S : UploadStep(v, b) \in S
    BY StepType DEF Moving, UploadOK
  <2> HIDE DEF S
  <2>2. QED
    BY <2>1
<1>5. PICK f \in [0..n -> S] : GoesUp(f, n, u0, F)
  <2> HIDE DEF F, n, S
  <2> QED
    BY <1>1, <1>3, <1>4, RecursionUp
<1>6. \A k \in D : f[k] = B(f, k)
  <2>1. f[0] = u0 /\ \A k \in 1..n : f[k] = F[k][f[k - 1]]
    BY <1>5 DEF GoesUp
  <2>2. \A k \in 1..n : f[k - 1] \in S
    <3>1. \A k \in 1..n : k - 1 \in 0..n
      BY <1>1
    <3> HIDE DEF n, S
    <3>2. QED
      BY <1>5, <3>1
  <2>3. \A k \in 1..n : f[k] = UploadStep(f[k - 1], b)
    <3> HIDE DEF S
    <3> QED
      BY <2>1, <2>2
  <2> HIDE DEF F, S
  <2>4. QED
    BY <1>1, <2>1, <2>3
<1>7. Eq(f)
  <2> HIDE DEF B, S
  <2> QED
    BY <1>5, <1>6
<1>8. Eq(run)
  <2> HIDE DEF Eq
  <2> QED
    BY <1>7
<1>9. UploadLoop(u, b) = run[n]
  BY DEF UploadLoop, u0
<1> HIDE DEF run
<1>10. \A k \in D : run[k] = B(run, k)
  <2> HIDE DEF B
  <2> QED
    BY <1>8
<1> HIDE DEF Eq, F, S
<1> DEFINE T == {k \in 0..n : Moving(run[k], b) /\ Kept(run[k], b, lim)}
<1>11. 0 \in T
  <2>1. run[0] = u0
    BY <1>1, <1>10
  <2>2. Moving(u0, b)
    BY <1>3 DEF S
  <2>3. Kept(u0, b, lim)
    BY <1>0, <1>2 DEF Kept
  <2>4. QED
    BY <1>1, <2>1, <2>2, <2>3
<1>12. ASSUME NEW k \in 1..n, k - 1 \in T
       PROVE  k \in T
  <2> DEFINE v == run[k - 1]
             z == run[k]
  <2>1. z = UploadStep(v, b) /\ Moving(v, b) /\ Kept(v, b, lim)
    BY <1>1, <1>10, <1>12
  <2> HIDE DEF v, z
  <2>2. Moving(z, b)
    BY <2>1, StepType
  <2>3. Kept(z, b, lim)
    BY <2>1, StepKept DEF lim
  <2>4. QED
    BY <2>2, <2>3 DEF z
<1>13. \A k \in 0..n : k \in T
  <2> HIDE DEF T, n
  <2> QED
    BY <1>1, <1>11, <1>12, UpTo
<1>14. QED
  BY <1>1, <1>9, <1>13 DEF lim

\* What stays in an upload's buffer starts no later than the last boundary,
\* and more is to come; unless a boundary's line end was all that was left.
Stays(b, base, v) ==
  LET g == base + Len(b)
      c == base + v.at - 1
  IN  \/ SubSeq(b, v.at, Len(b)) = <<>> /\ EndsBeforeBoundary(g)
      \/ HeadLen(ask) <= c /\ c <= LastAt(ask) /\ g < Len(Wire[ask])

LEMMA UploadStays ==
  ASSUME ask \in Asks, ask.parts # <<>>, NEW b \in Text, NEW base, OfParts(b, ask, base),
         NEW v, Moving(v, b), Kept(v, b, Limit(ask, base)), v.state \notin {"close", "fault"}, ~Endless(v, b)
  PROVE  Stays(b, base, v)
<1> DEFINE w   == Wire[ask]
           n   == Len(b)
           a   == LastAt(ask)
           at  == v.at
           lim == Limit(ask, base)
           hl  == HeadLen(ask)
           lw  == Len(w)
           g   == base + n
           rest == SubSeq(b, at, n)
           c   == base + at - 1
<1> SUFFICES \/ rest = <<>> /\ EndsBeforeBoundary(g)
             \/ hl <= c /\ c <= a /\ g < lw
  BY DEF Stays
<1>1. lim \in Nat \ {0} /\ Follows(b, lim, LAST) /\ a = (base + lim) - 1 /\ lw = (base + lim) + 6 /\ n <= lim + 6
  BY LimitIs
<1>2. base \in Nat /\ hl <= base /\ base <= a /\ base + n <= lw /\ n \in Nat
  BY TextLen DEF OfParts
<1>3. /\ hl \in Nat /\ a \in Nat /\ w \in Text /\ lw \in Nat /\ Stands(w, a, LAST)
  BY UploadWire, BodyStands
<1>4. at \in Nat /\ 1 <= at /\ at <= n + 1 /\ v.state \in {"more", "wait"}
  <2>1. v.at \in 1..(Len(b) + 1) /\ v.state \in {"more", "wait", "close", "fault"}
    BY DEF Moving, UploadOK, UploadType
  <2>2. at \in 1..(n + 1)
    BY <2>1
  <2> HIDE DEF at, n
  <2>3. QED
    BY <1>2, <2>1, <2>2
<1>5. at <= lim \/ (at = n + 1 /\ n = lim + 1)
  BY DEF Kept
<1>6. v.state = "wait" => ~HasFrom(b, at, LAST)
  BY DEF Kept
<1>7. v.state = "more" => ~(at <= n)
  BY DEF Endless
<1>8. g = base + n /\ c = base + at - 1
  OBVIOUS
<1> HIDE DEF w, n, a, at, lim, hl, lw, g, rest, c
<1>9. CASE at <= lim
  <2>1. hl <= c /\ c <= a
    BY <1>1, <1>2, <1>3, <1>4, <1>8, <1>9
  <2>2. ASSUME ~(g < lw)
        PROVE  FALSE
    <3>1. n = lim + 6
      BY <1>1, <1>2, <1>8, <2>2
    <3>2. at <= n
      BY <1>1, <1>2, <1>4, <1>9, <3>1
    <3>3. v.state = "wait" /\ ~HasFrom(b, at, LAST)
      BY <1>4, <1>6, <1>7, <3>2
    <3>4. lim \in at..n
      BY <1>1, <1>2, <1>4, <1>9, <3>1
    <3>5. BeginsAt(b, lim, LAST)
      <4> SUFFICES ASSUME NEW k \in 1..Len(LAST)
                   PROVE  CharAt(b, lim + k - 1) = LAST[k]
        BY DEF BeginsAt
      <4>1. k \in 1..7
        BY MarksAre
      <4>2. lim + k - 1 <= n
        BY <1>1, <1>2, <3>1, <4>1
      <4>3. b[lim + k - 1] = LAST[k]
        BY <1>1, <4>2 DEF Follows, n
      <4>4. QED
        BY <4>2, <4>3 DEF CharAt, n
    <3>6. HasFrom(b, at, LAST)
      BY <3>4, <3>5 DEF HasFrom, n
    <3>7. QED
      BY <3>3, <3>6
  <2>3. g < lw
    BY <2>2
  <2>4. QED
    BY <2>1, <2>3
<1>10. CASE at = n + 1 /\ n = lim + 1
  <2>1. g = a + 2
    <3>1. lim \in Nat /\ base \in Nat /\ n = lim + 1 /\ a = (base + lim) - 1
      BY <1>1, <1>2, <1>10
    <3>2. (base + lim) - 1 + 2 = base + (lim + 1)
      BY <3>1
    <3>3. QED
      BY <1>8, <3>1, <3>2
  <2>2. rest = <<>>
    BY <1>2, <1>10 DEF rest, Text
  <2>3. a + 7 = lw
    BY <1>1, <1>2, <1>3
  <2>4. w[a + 1] = CR /\ w[a + 2] = LF /\ w[a + 3] = "--b1" /\ w[a + 4] = "b2"
    <3>1. \A i \in 1..7 : w[a + i] = LAST[i]
      BY <1>3, MarksAre DEF Stands
    <3>2. 1 \in 1..7 /\ 2 \in 1..7 /\ 3 \in 1..7 /\ 4 \in 1..7
      OBVIOUS
    <3>3. QED
      BY <3>1, <3>2, MarksAre
  <2>5. SubSeq(w, g - 1, g) = CRLF
    <3> DEFINE x == SubSeq(w, a + 1, a + 2)
    <3>1. /\ x \in Text /\ Len(x) = (IF a + 1 <= a + 2 THEN (a + 2) - (a + 1) + 1 ELSE 0)
          /\ \A i \in 1..((a + 2) - (a + 1) + 1) : x[i] = w[(a + 1) + i - 1]
      <4>1. a + 1 \in Nat \ {0} /\ a + 2 \in Nat /\ a + 2 <= Len(w)
        BY <1>3, <2>3 DEF lw
      <4>2. QED
        BY <1>3, <4>1, SubText
    <3> HIDE DEF x
    <3>2. Len(x) = 2 /\ x[1] = w[a + 1] /\ x[2] = w[a + 2]
      <4>1. (a + 2) - (a + 1) + 1 = 2 /\ a + 1 <= a + 2 /\ (a + 1) + 1 - 1 = a + 1 /\ (a + 1) + 2 - 1 = a + 2
        BY <1>3
      <4>2. Len(x) = 2 /\ \A i \in 1..2 : x[i] = w[(a + 1) + i - 1]
        BY <3>1, <4>1
      <4>3. 1 \in 1..2 /\ 2 \in 1..2
        OBVIOUS
      <4>4. QED
        BY <4>1, <4>2, <4>3
    <3>3. x = CRLF
      <4>1. \A i \in 1..2 : x[i] = CRLF[i]
        <5>1. x[1] = CRLF[1] /\ x[2] = CRLF[2]
          BY <2>4, <3>2, CRLFIs
        <5>2. \A i \in 1..2 : i = 1 \/ i = 2
          OBVIOUS
        <5>3. QED
          BY <5>1, <5>2
      <4>2. QED
        BY <3>1, <3>2, <4>1, CRLFIs, SameText
    <3>4. g - 1 = a + 1 /\ g = a + 2
      BY <1>3, <2>1
    <3>5. QED
      BY <3>3, <3>4 DEF x
  <2>6. BeginsAt(w, g + 1, Boundary)
    <3> SUFFICES ASSUME NEW k \in 1..Len(Boundary)
                 PROVE  CharAt(w, g + 1 + k - 1) = Boundary[k]
      BY DEF BeginsAt
    <3>1. k = 1 \/ k = 2
      BY MarksAre
    <3>2. (k = 1 => g + 1 + k - 1 = a + 3) /\ (k = 2 => g + 1 + k - 1 = a + 4) /\ a + 3 <= Len(w) /\ a + 4 <= Len(w)
      BY <1>3, <2>1, <2>3 DEF lw
    <3>3. QED
      BY <2>4, <3>1, <3>2, MarksAre DEF CharAt
  <2>7. g >= 2
    BY <1>3, <2>1
  <2>8. QED
    BY <2>2, <2>5, <2>6, <2>7 DEF EndsBeforeBoundary, w
<1>11. QED
  BY <1>5, <1>9, <1>10

-----------------------------------------------------------------------------
(* What was read and is not answered leaves something to come.             *)

\* A session that is over has its answer, or was ended.  One that reads its
\* request is where the client is in it, and more is to come.  The buffer of
\* an upload holds what was sent last, from no later than the last boundary
\* on, and more is to come; unless all of it came with the head.
UploadStands(t, g) ==
  /\ IsUpload(ask) /\ Exact(t, Wire[ask], g) /\ HeadLen(ask) <= g - t.off /\ g - t.off <= LastAt(ask)
  /\ g < Len(Wire[ask]) \/ (up = NewUpload /\ HasFrom(t.buf, 1, LAST))

Ended == s.ops = "none" => s.phase \in {"RESPONSE", "CLOSE", "FAULT"}
RequestGoesOn ==
  ~Refused(ask) /\ ~s.stale /\ s.ops = "default" => Reading(s, ask, got) /\ got < Len(Wire[ask])
UploadGoesOn ==
  ~Refused(ask) /\ ~s.stale /\ ~split /\ s.ops = "upload" => UploadStands(s, got)

ServedInv == Ended /\ RequestGoesOn /\ UploadGoesOn

LEMMA UploadHasParts ==
  ASSUME NEW r \in Asks, IsUpload(r)
  PROVE  r.parts # <<>>
BY RequestIs DEF BodyFits

LEMMA ServedInit ==
  ASSUME Init
  PROVE  ServedInv
<1>1. ask \in Asks /\ got = 0 /\ s = NewSession
  BY DEF Init
<1>2. s.phase = "METHOD" /\ s.off = 0 /\ Len(s.buf) = 0 /\ s.ops = "default"
  BY <1>1, NewSessionIs DEF Parsing
<1>3. s.req.clen = 0 /\ s.req.ctype = Nil
  BY <1>1 DEF NewSession, NewRequest
<1>4. Exact(s, Wire[ask], got)
  BY <1>1, <1>2 DEF Exact
<1>5. Reading(s, ask, got)
  BY <1>1, <1>2, <1>3, <1>4 DEF Reading, ReadingLine
<1>6. got < Len(Wire[ask])
  <2> DEFINE n == TargetLen(ask)
             w == Wire[ask]
             m == Len(w)
  <2>1. n \in Nat /\ m \in Nat /\ n + 5 <= m
    BY <1>1, WireLine
  <2> HIDE DEF n, m
  <2>2. 0 < m
    BY <2>1
  <2>3. QED
    BY <1>1, <2>2 DEF m
<1>7. QED
  BY <1>2, <1>5, <1>6 DEF ServedInv, Ended, RequestGoesOn, UploadGoesOn

\* webnet_module_handle_uri leaves a session that reads on as it is, and starts
\* an upload only for one.
LEMMA DispatchedEnds ==
  ASSUME NEW t, Parsing(t) \/ Lost(t)
  PROVE  /\ Dispatched(t).ops = "none" => Dispatched(t).phase \in {"RESPONSE", "FAULT"}
         /\ Dispatched(t).ops = "default" => Dispatched(t) = t /\ t.phase # "FAULT"
         /\ Dispatched(t).ops = "upload" => /\ t.phase = "RESPONSE" /\ t.req.method = "POST" /\ t.req.path = UploadUrl
                                            /\ \A i \in 1..t.off : Dispatched(t).buf[i] = t.buf[i]
<1> DEFINE v == Dispatched(t)
<1>1. SessionOK(t) /\ t \in SessionType /\ t.off \in Nat
  BY SessionFields DEF Parsing, Lost
<1>2. CASE t.phase # "RESPONSE"
  <2>1. v = t
    BY <1>2 DEF Dispatched
  <2> HIDE DEF v
  <2>2. t.ops = "default" \/ (t.ops = "none" /\ t.phase = "FAULT")
    BY DEF Parsing, Lost
  <2>3. t.ops = "default" => t.phase # "FAULT"
    BY DEF Parsing, Lost
  <2>4. QED
    BY <2>1, <2>2, <2>3 DEF v
<1>3. CASE t.phase = "RESPONSE" /\ t.req.method = "POST" /\ t.req.path = UploadUrl
  <2>1. v = [Trimmed(t) EXCEPT !.ops = "upload"]
    BY <1>3 DEF Dispatched
  <2>2. Trimmed(t) \in SessionType /\ \A i \in 1..t.off : Trimmed(t).buf[i] = t.buf[i]
    BY <1>1, TrimmedIs DEF SessionOK
  <2>3. v.ops = "upload" /\ v.buf = Trimmed(t).buf
    BY <2>1, <2>2 DEF SessionType
  <2>4. QED
    BY <1>3, <2>2, <2>3
<1>4. CASE t.phase = "RESPONSE" /\ ~(t.req.method = "POST" /\ t.req.path = UploadUrl)
  <2>1. v = [t EXCEPT !.ops = "none", !.req.path = str_normalize_path(<<"/", "/">> \o @).text]
    BY <1>4 DEF Dispatched
  <2>2. v.ops = "none" /\ v.phase = "RESPONSE"
    BY <1>1, <1>4, <2>1 DEF SessionType
  <2>3. QED
    BY <2>2
<1>5. QED
  BY <1>2, <1>3, <1>4

\* An upload that was read to its end with the head is whole in the buffer.
LEMMA WholeUpload ==
  ASSUME ask \in Asks, IsUpload(ask), NEW t, SessionOK(t), t.off = Len(t.buf), NEW g \in Nat, g <= Len(Wire[ask]),
         Exact(t, Wire[ask], g), g - t.off = HeadLen(ask)
  PROVE  HeadLen(ask) <= LastAt(ask) /\ (g < Len(Wire[ask]) \/ HasFrom(t.buf, 1, LAST))
<1> DEFINE w  == Wire[ask]
           a  == LastAt(ask)
           hl == HeadLen(ask)
           lw == Len(w)
           o  == t.off
           c  == PartChain(ask.parts)
           n  == Len(ask.parts)
           y  == Len(c[n])
           j  == (a - hl) + 1
<1>1. a = hl + y /\ y \in Nat /\ a \in Nat /\ hl \in Nat /\ lw = a + 7 /\ Stands(w, a, LAST)
  BY UploadHasParts, UploadWire
<1>2. o \in Nat /\ o <= g /\ \A i \in 1..o : t.buf[i] = w[g - o + i]
  BY SessionFields DEF Exact
<1>3. g - o = hl /\ g <= lw
  OBVIOUS
<1> HIDE DEF y, a, hl, lw, w, o, c, n
<1>4. hl <= a
  BY <1>1
<1>5. CASE g = lw
  <2>1. o = j + 6 /\ j \in Nat /\ 1 <= j /\ j <= o
    BY <1>1, <1>2, <1>3, <1>5
  <2>2. BeginsAt(t.buf, j, LAST)
    <3> SUFFICES ASSUME NEW k \in 1..Len(LAST)
                 PROVE  CharAt(t.buf, j + k - 1) = LAST[k]
      BY DEF BeginsAt
    <3> DEFINE i == j + k - 1
    <3>1. k \in 1..7
      BY MarksAre
    <3>2. i \in 1..o /\ g - o + i = a + k
      <4>1. a \in Nat /\ hl \in Nat /\ o \in Nat /\ k \in Nat /\ 1 <= k /\ k <= 7 /\ g - o = hl
        BY <1>1, <1>2, <1>3, <3>1
      <4>2. o = j + 6 /\ j \in Nat /\ 1 <= j
        BY <2>1
      <4>3. j = (a - hl) + 1
        OBVIOUS
      <4> HIDE DEF j
      <4>4. i \in 1..o
        BY <4>1, <4>2
      <4>5. hl + i = a + k
        BY <4>1, <4>2, <4>3
      <4>6. QED
        BY <4>1, <4>4, <4>5
    <3> HIDE DEF i
    <3>3. t.buf[i] = w[a + k]
      BY <1>2, <3>2
    <3>4. w[a + k] = LAST[k]
      BY <1>1 DEF Stands
    <3>5. i <= Len(t.buf)
      BY <1>2, <3>2 DEF o
    <3>6. QED
      BY <3>3, <3>4, <3>5 DEF CharAt, i
  <2>3. j \in 1..Len(t.buf)
    BY <1>2, <2>1 DEF o
  <2> HIDE DEF j
  <2>4. HasFrom(t.buf, 1, LAST)
    BY <2>2, <2>3 DEF HasFrom
  <2>5. QED
    BY <1>4, <2>4 DEF a, hl
<1>6. CASE g # lw
  <2>1. g < lw
    BY <1>1, <1>3, <1>6
  <2>2. QED
    BY <1>4, <2>1 DEF a, hl, lw, w
<1>7. QED
  BY <1>5, <1>6

LEMMA ReadRequestServed ==
  ASSUME ReceiveInv, ServedInv, ReadRequest
  PROVE  ServedInv'
<1> DEFINE W     == Wire[ask]
           room  == BufSize - s.off
           cells == Next1(room)
           h     == HandleRead(s, cells)
           gw    == got + Len(cells)
<1>1. /\ ask \in Asks /\ sent \in 0..Len(W) /\ got \in 0..sent /\ s.ops = "default"
      /\ Parsing(s) /\ s.phase # "RESPONSE" /\ up = NewUpload /\ SessionOK(s) /\ Window(s, W, got)
  BY DEF ReadRequest, ReceiveInv, ClientInv, SessionInv, Parsing
<1>2. /\ ask' = ask /\ up' = up /\ split' = split /\ got' = gw
      /\ \E t \in Outcomes(h) : s' = IF t.phase = "CLOSE" THEN [t EXCEPT !.ops = "none"] ELSE Dispatched(t)
  BY DEF ReadRequest
<1>3. s.off \in Nat /\ s.off <= BufSize /\ BufSize \in Nat /\ room \in Int /\ room >= 0 /\ W \in Text /\ Len(W) \in Nat
      /\ got \in Nat /\ sent \in Nat /\ got <= sent /\ sent <= Len(W)
  BY <1>1, SessionFields, WireIs
<1>4. /\ cells \in Text /\ Len(cells) \in Nat /\ gw <= sent /\ Len(cells) <= room
      /\ \A i \in 1..Len(cells) : cells[i] = W[got + i]
  <2> HIDE DEF room
  <2>1. room >= -1
    BY <1>3
  <2>2. QED
    BY <1>1, <1>3, <2>1, Next1Is
<1>5. s.off + Len(cells) <= BufSize /\ gw \in Nat /\ gw >= got /\ gw <= Len(W)
  BY <1>3, <1>4
<1>6. ~Refused(ask) /\ ~s.stale => Reading(s, ask, got)
  BY <1>1 DEF ServedInv, RequestGoesOn
<1> HIDE DEF W, room, cells
<1>7. PICK t \in Outcomes(h) : s' = IF t.phase = "CLOSE" THEN [t EXCEPT !.ops = "none"] ELSE Dispatched(t)
  BY <1>2
<1>8. CASE cells = <<>>
  <2>1. h = [s EXCEPT !.phase = "CLOSE"]
    BY <1>8 DEF HandleRead
  <2>2. h \in SessionType /\ h.phase = "CLOSE" /\ h.off = s.off /\ h.buf = s.buf /\ h.req = s.req
    BY <1>1, <2>1 DEF SessionOK, SessionType
  <2> HIDE DEF h
  <2>3. SessionOK(h)
    BY <1>1, <2>2 DEF SessionOK
  <2>4. t = h \/ t = [h EXCEPT !.undefined = FALSE] \/ t = Fault(h)
    BY DEF Outcomes
  <2>5. s'.ops = "none" /\ s'.phase \in {"RESPONSE", "CLOSE", "FAULT"}
    <3>1. CASE t = Fault(h)
      <4>1. Lost(t) /\ t.phase # "CLOSE" /\ t.phase # "RESPONSE"
        BY <2>3, <3>1, LostIs DEF Lost
      <4>2. s' = t
        BY <1>7, <4>1 DEF Dispatched
      <4>3. QED
        BY <4>1, <4>2 DEF Lost
    <3>2. CASE t # Fault(h)
      <4>1. t \in SessionType /\ t.phase = "CLOSE"
        <5>1. CASE t = h
          BY <2>2, <5>1
        <5>2. CASE t = [h EXCEPT !.undefined = FALSE]
          BY <2>2, <2>3, <5>2, DoubtIs DEF SessionOK
        <5>3. QED
          BY <2>4, <3>2, <5>1, <5>2
      <4>2. s' = [t EXCEPT !.ops = "none"]
        BY <1>7, <4>1
      <4>3. QED
        BY <4>1, <4>2 DEF SessionType
    <3>3. QED
      BY <3>1, <3>2
  <2>6. QED
    BY <2>5 DEF ServedInv, Ended, RequestGoesOn, UploadGoesOn
<1>9. CASE cells # <<>>
  <2> DEFINE r == Received(s, cells)
  <2>1. h = Parsed(r)
    BY <1>9 DEF HandleRead
  <2>2. SessionOK(r) /\ SameButBuffer(r, s) /\ Window(r, W, gw)
    BY <1>1, <1>3, <1>4, <1>5, ReceivedIs, ReceivedWindow
  <2>3. ~Refused(ask) /\ ~s.stale => Reading(r, ask, gw)
    BY <1>1, <1>3, <1>4, <1>5, <1>6, ReceivedReading DEF W
  <2> HIDE DEF r, h, gw
  <2>4. Parsing(r) /\ r.stale = s.stale
    BY <1>1, <2>2 DEF Parsing, SameButBuffer
  <2>5. (Parsing(h) \/ Lost(h)) /\ Window(h, W, gw) /\ (r.stale => h.stale)
    BY <1>5, <2>1, <2>2, <2>4, ParsedType
  <2>6. /\ Parsing(t) \/ Lost(t)
        /\ Window(t, W, gw) /\ t.stale = h.stale
        /\ Lost(t) \/ (t.buf = h.buf /\ t.off = h.off /\ t.phase = h.phase /\ t.ops = h.ops /\ t.req = h.req)
    BY <1>5, <1>7, <2>5, OutcomesAre
  <2>7. t.phase # "CLOSE"
    BY <2>6 DEF Parsing, Lost
  <2> DEFINE v == Dispatched(t)
  <2>8. s' = v
    BY <1>7, <2>7
  <2>9. Dispatch(t, v)
    BY <2>6, DispatchedType
  <2>10. /\ v.ops = "none" => v.phase \in {"RESPONSE", "FAULT"}
         /\ v.ops = "default" => v = t /\ t.phase # "FAULT"
         /\ v.ops = "upload" => /\ t.phase = "RESPONSE" /\ t.req.method = "POST" /\ t.req.path = UploadUrl
                                /\ \A i \in 1..t.off : v.buf[i] = t.buf[i]
    BY <2>6, DispatchedEnds
  <2> HIDE DEF v
  <2>11. v.stale = t.stale /\ v.off = t.off /\ SessionOK(v)
         /\ (v.ops = "default" => v.phase # "RESPONSE") /\ (v.ops = "upload" => v.off = Len(v.buf))
    BY <2>9 DEF Dispatch
  <2>12. Ended'
    BY <2>8, <2>10 DEF Ended
  <2>13. ASSUME ~Refused(ask), ~v.stale
         PROVE  \/ t.phase = "FAULT"
                \/ Reading(t, ask, gw) /\ gw < Len(W)
                \/ /\ t.phase = "RESPONSE" /\ t.req.method = ask.method /\ t.req.path = ask.path
                   /\ IsUpload(ask) => Exact(t, W, gw) /\ gw - t.off = HeadLen(ask)
    <3>1. ~h.stale /\ ~s.stale
      BY <2>4, <2>5, <2>6, <2>11, <2>13
    <3>2. Reading(r, ask, gw)
      BY <2>3, <2>13, <3>1
    <3>3. Through(h, ask, gw)
      BY <1>1, <1>5, <2>1, <2>4, <2>13, <3>1, <3>2, ParsedThrough DEF W
    <3>4. CASE Lost(t)
      BY <3>4 DEF Lost
    <3>5. CASE t.buf = h.buf /\ t.off = h.off /\ t.phase = h.phase /\ t.ops = h.ops /\ t.req = h.req
      <4>1. CASE h.phase = "FAULT"
        BY <3>5, <4>1
      <4>2. CASE Reading(h, ask, gw) /\ gw < Len(Wire[ask])
        <5>1. Reading(t, ask, gw)
          BY <3>5, <4>2 DEF Reading, ReadingLine, ReadingHeaders, ReadingContent, Exact
        <5>2. QED
          BY <4>2, <5>1 DEF W
      <4>3. CASE /\ h.phase = "RESPONSE" /\ h.req.method = ask.method /\ h.req.path = ask.path
                 /\ IsUpload(ask) => Exact(h, Wire[ask], gw) /\ gw - h.off = HeadLen(ask)
        BY <3>5, <4>3 DEF Exact, W
      <4>4. QED
        BY <3>3, <4>1, <4>2, <4>3 DEF Through
    <3>6. QED
      BY <2>6, <3>4, <3>5
  <2>14. RequestGoesOn'
    <3> SUFFICES ASSUME ~Refused(ask), ~v.stale, v.ops = "default"
                 PROVE  Reading(v, ask, gw) /\ gw < Len(W)
      BY <1>2, <2>8 DEF RequestGoesOn, W
    <3>1. v = t /\ t.phase # "FAULT" /\ t.phase # "RESPONSE"
      BY <2>10, <2>11
    <3>2. QED
      BY <2>13, <3>1
  <2>15. UploadGoesOn'
    <3> SUFFICES ASSUME ~Refused(ask), ~v.stale, v.ops = "upload"
                 PROVE  /\ IsUpload(ask) /\ Exact(v, Wire[ask], gw) /\ HeadLen(ask) <= gw - v.off /\ gw - v.off <= LastAt(ask)
                        /\ gw < Len(Wire[ask]) \/ (up = NewUpload /\ HasFrom(v.buf, 1, LAST))
      BY <1>2, <2>8 DEF UploadGoesOn, UploadStands
    <3>1. /\ t.phase = "RESPONSE" /\ t.req.method = "POST" /\ t.req.path = UploadUrl
          /\ \A i \in 1..t.off : v.buf[i] = t.buf[i]
      BY <2>10
    <3>2. t.phase # "FAULT" /\ ~Reading(t, ask, gw)
      BY <3>1 DEF Reading, ReadingLine, ReadingHeaders, ReadingContent
    <3>3. t.req.method = ask.method /\ t.req.path = ask.path
          /\ (IsUpload(ask) => Exact(t, W, gw) /\ gw - t.off = HeadLen(ask))
      BY <2>13, <3>2
    <3>4. IsUpload(ask)
      BY <3>1, <3>3 DEF IsUpload
    <3>5. Exact(v, Wire[ask], gw) /\ gw - v.off = HeadLen(ask)
      BY <2>11, <3>1, <3>3, <3>4, SameExact DEF W
    <3>6. HeadLen(ask) <= LastAt(ask) /\ (gw < Len(Wire[ask]) \/ HasFrom(v.buf, 1, LAST))
      BY <1>1, <1>5, <2>11, <3>4, <3>5, WholeUpload DEF W
    <3>7. HeadLen(ask) <= HeadLen(ask)
      <4>1. HeadLen(ask) \in Nat
        BY <1>1, HeadStands
      <4>2. \A x \in Nat : x <= x
        OBVIOUS
      <4>3. QED
        BY <4>1, <4>2
    <3>8. QED
      BY <1>1, <3>4, <3>5, <3>6, <3>7
  <2>16. QED
    BY <2>12, <2>14, <2>15 DEF ServedInv
<1>10. QED
  BY <1>8, <1>9

LEMMA ReadUploadServed ==
  ASSUME ReceiveInv, ServedInv, ReadUpload
  PROVE  ServedInv'
<1> DEFINE W     == Wire[ask]
           whole == HasFrom(s.buf, 1, LAST)
           room  == BufSize - s.off - 1
           cells == IF whole THEN <<>> ELSE Next1(room)
           l     == Len(cells)
           b     == s.buf \o cells
           v     == UploadLoop(up, b)
           ends  == v.state = "close" \/ (cells = <<>> /\ ~whole)
           lost  == v.state = "fault" \/ Endless(v, b)
           rest  == SubSeq(b, v.at, Len(b))
           base  == got - s.off
           g     == got + l
<1>1. /\ ask \in Asks /\ sent \in 0..Len(W) /\ got \in 0..sent /\ split \in BOOLEAN
      /\ SessionOK(s) /\ Window(s, W, got) /\ s.phase = "RESPONSE" /\ s.off = Len(s.buf) /\ s.ops = "upload"
      /\ up \in UploadType /\ up.opens = up.closes + (IF up.opened THEN 1 ELSE 0) /\ up.done = 0
      /\ up.opens <= FilesUpTo(base)
  BY DEF ReadUpload, ReceiveInv, ClientInv, SessionInv, UploadInv
<1>2. /\ ask' = ask /\ got' = g
      /\ s' = (IF lost THEN Fault(s)
               ELSE IF ends THEN [s EXCEPT !.phase = "CLOSE", !.ops = "none"]
               ELSE [s EXCEPT !.buf = rest, !.off = Len(rest)])
      /\ split' = (split \/ (rest = <<>> /\ EndsBeforeBoundary(g)))
  BY DEF ReadUpload
<1> HIDE DEF lost
<1>3. s.off \in Nat /\ s.off <= BufSize /\ BufSize \in Nat /\ room \in Int /\ room >= -1 /\ W \in Text /\ Len(W) \in Nat
      /\ got \in Nat /\ sent \in Nat /\ got <= sent /\ sent <= Len(W) /\ s.off <= got /\ base \in Nat /\ s.buf \in Text
  <2>1. s.off \in Nat /\ s.off <= BufSize /\ BufSize \in Nat /\ s.buf \in Text /\ s.off <= got
    BY <1>1, SessionFields DEF Window
  <2>2. W \in Text /\ Len(W) \in Nat
    BY <1>1, WireIs
  <2> HIDE DEF W
  <2>3. QED
    BY <1>1, <2>1, <2>2
<1>4. /\ cells \in Text /\ l \in Nat /\ g <= sent
      /\ \A i \in 1..l : cells[i] = W[got + i]
  <2>1. CASE whole
    <3>1. cells = <<>>
      BY <2>1
    <3> HIDE DEF cells, room
    <3>2. cells \in Text /\ l = 0
      BY <3>1, Words
    <3> HIDE DEF l, W
    <3>3. QED
      BY <1>3, <3>2
  <2>2. CASE ~whole
    <3>1. cells = Next1(room)
      BY <2>2
    <3> HIDE DEF cells, whole
    <3>2. /\ Next1(room) \in Text /\ Len(Next1(room)) \in Nat
          /\ got + Len(Next1(room)) <= sent /\ (room >= 0 => Len(Next1(room)) <= room) /\ (room < 0 => Len(Next1(room)) = 0)
          /\ \A i \in 1..Len(Next1(room)) : Next1(room)[i] = W[got + i]
      <4> HIDE DEF room
      <4> QED
        BY <1>1, <1>3, Next1Is
    <3>3. QED
      BY <3>1, <3>2
  <2>3. QED
    BY <2>1, <2>2
<1> HIDE DEF room, cells, l, ends, whole, W
<1>5. b \in Text /\ Len(b) = s.off + l /\ \A i \in 1..(s.off + l) : b[i] = IF i <= s.off THEN s.buf[i] ELSE cells[i - s.off]
  <2>1. b \in Text /\ Len(b) = Len(s.buf) + Len(cells)
        /\ \A i \in 1..(Len(s.buf) + Len(cells)) : b[i] = IF i <= Len(s.buf) THEN s.buf[i] ELSE cells[i - Len(s.buf)]
    BY <1>3, <1>4, CatText
  <2> HIDE DEF b
  <2>2. QED
    BY <1>1, <2>1 DEF l
<1> HIDE DEF b
<1>6. g = base + Len(b) /\ Len(b) \in Nat /\ g \in Nat /\ g <= Len(W)
  BY <1>3, <1>4, <1>5
<1>a. s.off \in Nat /\ l \in Nat /\ got \in Nat /\ base \in Nat /\ base = got - s.off
  BY <1>3, <1>4
<1>7. Moving(v, b)
  <2>1. \A i \in 1..(s.off + l) : b[i] \in {W[base + i], NUL}
    <3> SUFFICES ASSUME NEW i \in 1..(s.off + l)
                 PROVE  b[i] \in {W[base + i], NUL}
      OBVIOUS
    <3>1. CASE i <= s.off
      <4>1. i \in 1..s.off /\ b[i] = s.buf[i]
        BY <1>3, <1>4, <1>5, <3>1
      <4>2. s.buf[i] \in {W[got - s.off + i], NUL}
        BY <1>1, <4>1 DEF Window
      <4>3. QED
        BY <4>1, <4>2
    <3>2. CASE ~(i <= s.off)
      <4>1. i - s.off \in 1..l /\ got + (i - s.off) = base + i
        <5> HIDE DEF base
        <5>1. i \in Nat /\ i <= s.off + l /\ ~(i <= s.off)
          BY <1>a, <3>2
        <5>2. QED
          BY <1>a, <5>1
      <4>2. QED
        BY <1>4, <1>5, <3>2, <4>1
    <3>3. QED
      BY <3>1, <3>2
  <2>2. \A i \in 1..Len(b) : b[i] = "file" => W[base + i] = "file"
    BY <1>5, <2>1 DEF NUL
  <2>3. up.opens <= Cardinality(FileCells(W, base))
    BY <1>1 DEF FilesUpTo, W
  <2> HIDE DEF base
  <2>4. QED
    BY <1>1, <1>3, <1>5, <2>2, <2>3, LoopType
<1>8. CASE lost
  <2>1. s' = Fault(s)
    BY <1>2, <1>8
  <2>2. s'.ops = "none" /\ s'.phase = "FAULT"
    BY <1>1, <2>1, LostIs DEF Lost
  <2>3. QED
    BY <2>2 DEF ServedInv, Ended, RequestGoesOn, UploadGoesOn
<1>9. CASE ~lost /\ ends
  <2>1. s' = [s EXCEPT !.phase = "CLOSE", !.ops = "none"]
    BY <1>2, <1>9
  <2>2. s'.ops = "none" /\ s'.phase = "CLOSE"
    BY <1>1, <2>1 DEF SessionOK, SessionType
  <2>3. QED
    BY <2>2 DEF ServedInv, Ended, RequestGoesOn, UploadGoesOn
<1>10. CASE ~lost /\ ~ends
  <2> DEFINE n == Len(rest)
             at == v.at
             t == [s EXCEPT !.buf = rest, !.off = n]
             c == base + at - 1
  <2>1. s' = t
    BY <1>2, <1>10
  <2>2. v.state \notin {"close", "fault"} /\ ~Endless(v, b)
    BY <1>10 DEF lost, ends
  <2> HIDE DEF v
  <2>3. at \in Nat \ {0} /\ at <= Len(b) + 1
    BY <1>6, <1>7 DEF Moving, UploadOK
  <2>4. /\ rest \in Text /\ n \in Nat /\ n = Len(b) - at + 1 /\ \A i \in 1..n : rest[i] = b[at + i - 1]
    <3>1. /\ rest \in Text /\ n = (IF at <= Len(b) THEN Len(b) - at + 1 ELSE 0)
          /\ \A i \in 1..(Len(b) - at + 1) : rest[i] = b[at + i - 1]
      BY <1>5, <1>6, <2>3, SubText
    <3> HIDE DEF n, rest
    <3>2. n = Len(b) - at + 1
      BY <1>6, <2>3, <3>1
    <3>3. n \in Nat
      BY <1>6, <2>3, <3>2
    <3>4. QED
      BY <3>1, <3>2, <3>3
  <2>5. rest = SubSeq(b, v.at, Len(b))
    BY DEF v
  <2> HIDE DEF rest, n
  <2>6. t.buf = rest /\ t.off = n /\ t.phase = s.phase /\ t.ops = s.ops /\ t.stale = s.stale
    BY <1>1 DEF SessionOK, SessionType
  <2> HIDE DEF t
  <2>7. Ended' /\ RequestGoesOn'
    BY <1>1, <2>1, <2>6 DEF Ended, RequestGoesOn
  <2>8. UploadGoesOn'
    <3> SUFFICES ASSUME ~Refused(ask), ~t.stale, ~split, ~(rest = <<>> /\ EndsBeforeBoundary(g))
                 PROVE  IsUpload(ask) /\ Exact(t, W, g) /\ HeadLen(ask) <= g - t.off /\ g - t.off <= LastAt(ask) /\ g < Len(W)
      <4>1. split' = (split \/ (rest = <<>> /\ EndsBeforeBoundary(g)))
        BY <1>2
      <4>2. QED
        BY <1>2, <2>1, <4>1 DEF UploadGoesOn, UploadStands, W
    <3>1. /\ IsUpload(ask) /\ Exact(s, W, got) /\ HeadLen(ask) <= base /\ base <= LastAt(ask)
      BY <1>1, <2>6 DEF ServedInv, UploadGoesOn, UploadStands, W
    <3>2. ask.parts # <<>>
      BY <1>1, <3>1, UploadHasParts
    <3>3. \A x \in 1..Len(b) : b[x] = W[base + x]
      <4> SUFFICES ASSUME NEW x \in 1..(s.off + l)
                   PROVE  b[x] = W[base + x]
        BY <1>5
      <4>1. CASE x <= s.off
        <5>1. x \in 1..s.off /\ b[x] = s.buf[x]
          BY <1>3, <1>4, <1>5, <4>1
        <5>2. QED
          BY <3>1, <5>1 DEF Exact
      <4>2. CASE ~(x <= s.off)
        <5>1. x - s.off \in 1..l /\ got + (x - s.off) = base + x
          <6> HIDE DEF base
          <6>1. x \in Nat /\ x <= s.off + l /\ ~(x <= s.off)
            BY <1>a, <4>2
          <6>2. QED
            BY <1>a, <6>1
        <5>2. QED
          BY <1>4, <1>5, <4>2, <5>1
      <4>3. QED
        BY <4>1, <4>2
    <3> HIDE DEF base
    <3>4. OfParts(b, ask, base)
      BY <1>3, <1>6, <3>1, <3>3 DEF OfParts, W
    <3>5. Kept(v, b, Limit(ask, base))
      BY <1>1, <1>5, <3>2, <3>4, LoopKept DEF v
    <3> HIDE DEF g
    <3>6. \/ rest = <<>> /\ EndsBeforeBoundary(g)
          \/ HeadLen(ask) <= c /\ c <= LastAt(ask) /\ g < Len(Wire[ask])
      <4>1. Stays(b, base, v)
        BY <1>1, <1>5, <1>7, <2>2, <3>2, <3>4, <3>5, UploadStays
      <4>2. QED
        BY <1>6, <2>5, <4>1 DEF Stays
    <3>7. /\ g - n = c /\ n <= g /\ \A i \in 1..n : at + i - 1 \in 1..Len(b) /\ base + (at + i - 1) = g - n + i
      <4> DEFINE lb == Len(b)
      <4>1. g = base + lb /\ lb \in Nat /\ base \in Nat /\ at \in Nat /\ 1 <= at /\ at <= lb + 1 /\ n = lb - at + 1 /\ n \in Nat
        BY <1>3, <1>6, <2>3, <2>4
      <4> HIDE DEF lb, at
      <4>2. g - n = c /\ n <= g
        BY <4>1
      <4>3. ASSUME NEW i \in 1..n
            PROVE  at + i - 1 \in 1..lb /\ base + (at + i - 1) = g - n + i
        <5>1. i \in Nat /\ 1 <= i /\ i <= lb - at + 1
          BY <4>1
        <5>2. QED
          BY <4>1, <5>1
      <4>4. QED
        BY <4>2, <4>3 DEF lb
    <3>8. Exact(t, W, g)
      <4>1. \A i \in 1..n : rest[i] = W[g - n + i]
        BY <2>4, <3>3, <3>7 DEF base
      <4>2. QED
        BY <2>6, <3>7, <4>1 DEF Exact
    <3>9. QED
      BY <2>6, <3>1, <3>6, <3>7, <3>8 DEF W
  <2>9. QED
    BY <2>7, <2>8 DEF ServedInv
<1>11. QED
  BY <1>8, <1>9, <1>10

LEMMA ServedStep ==
  ASSUME ReceiveInv, ServedInv, [Next]_vars
  PROVE  ServedInv'
<1>1. CASE ReadRequest
  BY <1>1, ReadRequestServed
<1>2. CASE ReadUpload
  BY <1>2, ReadUploadServed
<1>3. CASE Send \/ Leave \/ UNCHANGED vars
  <2>1. ask' = ask /\ got' = got /\ s' = s /\ up' = up /\ split' = split
    BY <1>3 DEF Send, Leave, vars
  <2>2. QED
    BY <2>1 DEF ServedInv, Ended, RequestGoesOn, UploadGoesOn, UploadStands
<1>4. QED
  BY <1>1, <1>2, <1>3 DEF Next

\* However a request is cut, the read of _webnet_session_handle_read that takes its
\* last cell ends it: webnet_request_parse_* reach RESPONSE and the request is
\* answered, or _webnet_module_upload_handle finds the last boundary and reports
\* the upload done.  Not those that are refused, and not one that was cut where
\* it must not be.
THEOREM CompleteServed == Spec => []CompleteIsServed
<1>1. ReceiveInv /\ ServedInv => CompleteIsServed
  <2> SUFFICES ASSUME ReceiveInv, ServedInv, got = Len(Wire[ask]), Over = "no", ~Refused(ask)
               PROVE  s.ops = "upload" /\ up = NewUpload /\ HasFrom(s.buf, 1, LAST)
    BY DEF CompleteIsServed
  <2>1. s.ops \in {"default", "upload", "none"} /\ up.done \in 0..1 /\ got \in Nat
    <3>1. ask \in Asks /\ sent \in 0..Len(Wire[ask]) /\ got \in 0..sent
      BY DEF ReceiveInv, ClientInv
    <3>2. s \in SessionType /\ up.done \in 0..1
      BY DEF ReceiveInv, SessionInv, UploadInv, SessionOK
    <3>3. QED
      BY <3>1, <3>2 DEF SessionType
  <2>2. /\ ~(Miscut \/ s.phase = "FAULT" \/ (s.phase = "CLOSE" /\ up.done = 0))
        /\ ~(Answered \/ up.done = 1)
    BY DEF Over
  <2>3. up.done = 0 /\ ~s.stale /\ ~split /\ s.phase \notin {"FAULT", "CLOSE"}
    BY <2>1, <2>2 DEF Miscut
  <2>4. s.ops # "none"
    BY <2>2, <2>3 DEF ServedInv, Ended, Answered
  <2>5. ~(got < Len(Wire[ask]))
    BY <2>1
  <2>6. s.ops # "default"
    BY <2>3, <2>5 DEF ServedInv, RequestGoesOn
  <2>7. s.ops = "upload"
    BY <2>1, <2>4, <2>6
  <2>8. UploadStands(s, got)
    BY <2>3, <2>7 DEF ServedInv, UploadGoesOn
  <2>9. QED
    BY <2>5, <2>7, <2>8 DEF UploadStands
<1>2. Init => ReceiveInv /\ ServedInv
  BY ReceiveInit, ServedInit
<1>3. ReceiveInv /\ ServedInv /\ [Next]_vars => (ReceiveInv /\ ServedInv)'
  <2>1. ReceiveInv /\ ServedInv /\ [Next]_vars => ReceiveInv' /\ ServedInv'
    BY ReceiveStep, ServedStep
  <2>2. QED
    BY <2>1
<1>4. QED
  BY <1>1, <1>2, <1>3, PTL DEF Spec
=============================================================================
