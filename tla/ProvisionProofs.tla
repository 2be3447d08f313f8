---------------------------- MODULE ProvisionProofs ----------------------------
(***************************************************************************)
(* Theorems about WpsProvision, for every set of commands, networks and     *)
(* faults and every bound.  What the loop over a command's items returns is *)
(* proved by induction on the items; what is saved then follows from who    *)
(* holds which key.                                                         *)
(***************************************************************************)
EXTENDS WpsProvision, SequenceTheorems, LeastNumber, TLAPS

(***************************************************************************)
(* The inductive invariant: types, and the bounds that one more step may    *)
(* reach.                                                                  *)
(***************************************************************************)
Threads  == [at : {"idle", "kx", "reply", "decrypt", "parse", "save"},
             msg : Message \cup {Nil}, key : Keys \cup {Nil}]
Tasks    == [at : {"idle", "count", "encrypt"}, key : Keys \cup {Nil}]
Phones   == [kx : {"no", "sent", "have"}, key : Keys \cup {Nil}, cmd : Cmds \cup {Nil},
             verdict : {Nil, "ok", "error", "failed"}]
Stations == [net : Configs \cup {Nil}, state : {"idle", "trying", "joined"}]

TypeInv ==
  /\ TypeOK
  /\ thr \in Threads /\ ev \in Tasks /\ phone \in Phones /\ sta \in Stations
  /\ thr.at # "idle" => Len(queue) <= MaxQueue
  /\ ev.at = "count" => retry < MaxRetry

(***************************************************************************)
(* Who holds which key.  At most one key exchange is under way, and only    *)
(* while the phone waits for it; a command on its way carries the key the   *)
(* context has, until the context is freed.                                 *)
(***************************************************************************)
Exchanging(m) == m.kind \in {"kx", "key", "kxerror"}
Messages      == 1..Len(queue)

LinkInv ==
  /\ phone.cmd # Nil => phone.kx = "have"
  /\ phone.kx = "have" => phone.key = ctx
  /\ phone.kx # "sent" \/ thr.at \in {"kx", "reply"} => \A i \in Messages : ~Exchanging(queue[i])
  /\ phone.kx # "sent" => thr.at \notin {"kx", "reply"}
  /\ \A i, j \in Messages : Exchanging(queue[i]) /\ Exchanging(queue[j]) => i = j
  /\ \A i \in Messages : queue[i].kind = "key" => queue[i].key = ctx
  /\ \A i \in Messages : queue[i].kind = "sta" =>
       phone.cmd # Nil /\ queue[i].cmd \in sent /\ queue[i].key = phone.key
  /\ thr.at = "reply" => thr.key = ctx
  /\ thr.at = "decrypt" => phone.cmd # Nil

CommandInv ==
  /\ thr.at = "decrypt" => thr.msg.cmd \in sent /\ ctx \in {thr.msg.key, Nil}
  /\ thr.at \in {"parse", "save"} => thr.msg.cmd \in sent
  /\ thr.at = "save" => Parsed.join = 1

KeyInv ==
  /\ IF link = "up" THEN LinkInv ELSE \A i \in Messages : queue[i].kind \notin {"kx", "sta"}
  /\ CommandInv /\ SavedIsSent

(***************************************************************************)
(* A station command: what the loop has made of a type's array after the    *)
(* first k items.                                                          *)
(***************************************************************************)
FitTo(items, t, k)  == {i \in 1..k : Fits(items[i]) /\ items[i].type = t}
LastTo(items, t, k) == items[CHOOSE i \in FitTo(items, t, k) : \A j \in FitTo(items, t, k) : j <= i]

TextIs(f, items, t, k) ==
  IF FitTo(items, t, k) = {} THEN f = NoText
  ELSE /\ \A i \in FitTo(items, t, k) : items[i].size <= f.length
       /\ \E i \in FitTo(items, t, k) : items[i].size = f.length
       /\ f.value = IF LastTo(items, t, k).size = f.length THEN LastTo(items, t, k).value ELSE Junk

Joins(items, k) == IF \E i \in 1..k : Fits(items[i]) THEN 1 ELSE 0

LoopIs(c, items, k) ==
  \E a, b : /\ c = [ssid |-> a, password |-> b, join |-> Joins(items, k)]
            /\ TextIs(a, items, 1, k) /\ TextIs(b, items, 2, k)

LEMMA SizesAre == \A x \in Item : x.size \in Nat /\ x.size >= 1 /\ x.value \in Values
<1>1. \A x \in Item : x.size \in 1..255 /\ x.value \in Values
  BY DEF Item
<1>2. \A b \in 1..255 : b \in Nat /\ b >= 1
  OBVIOUS
<1>3. QED
  BY <1>1, <1>2

LEMMA LastIs ==
  ASSUME NEW items \in Seq(Item), NEW k \in 0..Len(items), NEW t, FitTo(items, t, k) # {}
  PROVE  \E i \in FitTo(items, t, k) : LastTo(items, t, k) = items[i] /\ items[i] \in Item
<1> DEFINE F == FitTo(items, t, k)
           m == CHOOSE i \in F : \A j \in F : j <= i
<1>1. k \in Nat /\ F \in SUBSET (0..k) /\ \A i \in F : i \in 1..Len(items)
  BY DEF FitTo
<1>2. m \in F
  <2>0. F # {}
    OBVIOUS
  <2> HIDE DEF F
  <2>1. \E i \in F : \A j \in F : j <= i
    BY <1>1, <2>0, Greatest
  <2>2. QED
    BY <2>1
<1>3. LastTo(items, t, k) = items[m]
  BY DEF LastTo
<1> HIDE DEF m
<1>4. items[m] \in Item
  BY <1>1, <1>2
<1>5. QED
  BY <1>2, <1>3, <1>4

LEMMA TextStep ==
  ASSUME NEW items \in Seq(Item), NEW k \in 1..Len(items), NEW t \in {1, 2, 3}, NEW f,
         TextIs(f, items, t, k - 1)
  PROVE  TextIs(IF Fits(items[k]) /\ items[k].type = t THEN Put(f, items[k]) ELSE f, items, t, k)
<1> DEFINE x == items[k]
           E == FitTo(items, t, k - 1)
           F == FitTo(items, t, k)
<1>1. x \in Item /\ x.size \in Nat /\ x.size >= 1
  BY SizesAre
<1>2. CASE Fits(x) /\ x.type = t
  <2>1. F = E \cup {k}
    BY <1>2 DEF FitTo
  <2>2. LastTo(items, t, k) = x
    <3>1. k \in F /\ \A i \in F : i \in Nat /\ i <= k
      BY <1>2 DEF FitTo
    <3>2. (CHOOSE i \in F : \A j \in F : j <= i) = k
      BY <3>1
    <3>3. QED
      BY <3>2 DEF LastTo
  <2>3. \A i \in E : items[i] \in Item /\ items[i].size \in Nat
    BY SizesAre DEF FitTo
  <2>4. f.length \in Nat
    <3>1. CASE E = {}
      BY <3>1 DEF TextIs, NoText
    <3>2. CASE E # {}
      BY <2>3, <3>2 DEF TextIs
    <3>3. QED
      BY <3>1, <3>2
  <2> DEFINE g == Put(f, x)
  <2>5. /\ g.length = (IF x.size >= f.length THEN x.size ELSE f.length)
        /\ g.value = (IF x.size >= f.length THEN x.value ELSE Junk)
    BY DEF Put
  <2>6. \A i \in E : items[i].size <= f.length
    BY DEF TextIs
  <2>7. E = {} => f.length = 0
    BY DEF TextIs, NoText
  <2>8. E # {} => \E i \in E : items[i].size = f.length
    BY DEF TextIs
  <2> HIDE DEF g, x, E, F
  <2>9. \A i \in F : items[i].size <= g.length
    BY <1>1, <2>1, <2>3, <2>4, <2>5, <2>6 DEF x
  <2>10. \E i \in F : items[i].size = g.length
    BY <1>1, <2>1, <2>4, <2>5, <2>7, <2>8 DEF x
  <2>11. g.value = IF x.size = g.length THEN x.value ELSE Junk
    BY <1>1, <2>4, <2>5
  <2>12. F # {}
    BY <2>1
  <2>13. TextIs(g, items, t, k)
    BY <2>2, <2>9, <2>10, <2>11, <2>12 DEF TextIs, F
  <2>14. QED
    BY <1>2, <2>13 DEF g, x
<1>3. CASE ~(Fits(x) /\ x.type = t)
  <2>1. F = E
    BY <1>3 DEF FitTo
  <2>2. LastTo(items, t, k) = LastTo(items, t, k - 1)
    BY <2>1 DEF LastTo
  <2>3. QED
    BY <1>3, <2>1, <2>2 DEF TextIs
<1>4. QED
  BY <1>2, <1>3

LEMMA WithItemIs ==
  ASSUME NEW a, NEW b, NEW j, NEW x \in Item
  PROVE  WithItem([ssid |-> a, password |-> b, join |-> j], x) =
           [ssid     |-> IF Fits(x) /\ x.type = 1 THEN Put(a, x) ELSE a,
            password |-> IF Fits(x) /\ x.type = 2 THEN Put(b, x) ELSE b,
            join     |-> IF Fits(x) THEN 1 ELSE j]
<1> DEFINE c == [ssid |-> a, password |-> b, join |-> j]
<1>1. CASE Fits(x) /\ x.type = 1
  <2> DEFINE v == Put(a, x)
  <2>1. WithItem(c, x) = [c EXCEPT !.ssid = v, !.join = 1]
    BY <1>1 DEF WithItem, Fits
  <2>2. [c EXCEPT !.ssid = v, !.join = 1] = [ssid |-> v, password |-> b, join |-> 1]
    <3> DEFINE y == [ssid |-> v, password |-> b, join |-> j]
    <3> HIDE DEF v
    <3>1. [c EXCEPT !.ssid = v] = y /\ [y EXCEPT !.join = 1] = [ssid |-> v, password |-> b, join |-> 1]
      OBVIOUS
    <3> HIDE DEF c, y
    <3>2. [c EXCEPT !.ssid = v, !.join = 1] = [[c EXCEPT !.ssid = v] EXCEPT !.join = 1]
      OBVIOUS
    <3>3. QED
      BY <3>1, <3>2
  <2>3. QED
    BY <1>1, <2>1, <2>2
<1>2. CASE Fits(x) /\ x.type = 2
  <2> DEFINE v == Put(b, x)
  <2>1. WithItem(c, x) = [c EXCEPT !.password = v, !.join = 1]
    BY <1>2 DEF WithItem, Fits
  <2>2. [c EXCEPT !.password = v, !.join = 1] = [ssid |-> a, password |-> v, join |-> 1]
    <3> DEFINE y == [ssid |-> a, password |-> v, join |-> j]
    <3> HIDE DEF v
    <3>1. [c EXCEPT !.password = v] = y /\ [y EXCEPT !.join = 1] = [ssid |-> a, password |-> v, join |-> 1]
      OBVIOUS
    <3> HIDE DEF c, y
    <3>2. [c EXCEPT !.password = v, !.join = 1] = [[c EXCEPT !.password = v] EXCEPT !.join = 1]
      OBVIOUS
    <3>3. QED
      BY <3>1, <3>2
  <2>3. QED
    BY <1>2, <2>1, <2>2
<1>3. CASE Fits(x) /\ x.type = 3
  <2>1. WithItem(c, x) = [c EXCEPT !.join = 1]
    BY <1>3 DEF WithItem, Fits
  <2>2. [c EXCEPT !.join = 1] = [ssid |-> a, password |-> b, join |-> 1]
    OBVIOUS
  <2>3. QED
    BY <1>3, <2>1, <2>2
<1>4. CASE ~Fits(x)
  <2>1. WithItem(c, x) = c
    BY <1>4 DEF WithItem, Fits
  <2>2. QED
    BY <1>4, <2>1
<1>5. QED
  BY <1>1, <1>2, <1>3, <1>4 DEF Fits

LEMMA LoopStep ==
  ASSUME NEW items \in Seq(Item), NEW k \in 1..Len(items), NEW c, LoopIs(c, items, k - 1)
  PROVE  LoopIs(WithItem(c, items[k]), items, k)
<1>1. PICK a, b : /\ c = [ssid |-> a, password |-> b, join |-> Joins(items, k - 1)]
                  /\ TextIs(a, items, 1, k - 1) /\ TextIs(b, items, 2, k - 1)
  BY DEF LoopIs
<1> DEFINE x == items[k]
           d == IF Fits(x) /\ x.type = 1 THEN Put(a, x) ELSE a
           e == IF Fits(x) /\ x.type = 2 THEN Put(b, x) ELSE b
<1>2. x \in Item
  OBVIOUS
<1>3. TextIs(d, items, 1, k) /\ TextIs(e, items, 2, k)
  BY <1>1, TextStep
<1>4. Joins(items, k) = IF Fits(x) THEN 1 ELSE Joins(items, k - 1)
  BY DEF Joins
<1>5. WithItem(c, x) = [ssid |-> d, password |-> e, join |-> IF Fits(x) THEN 1 ELSE Joins(items, k - 1)]
  BY <1>1, <1>2, WithItemIs
<1> HIDE DEF d, e, x
<1>6. WithItem(c, x) = [ssid |-> d, password |-> e, join |-> Joins(items, k)]
  BY <1>4, <1>5
<1>7. QED
  BY <1>3, <1>6 DEF LoopIs, x

LEMMA LoopReturns ==
  ASSUME NEW items \in Seq(Item)
  PROVE  LoopIs(wlan_config(items), items, Len(items))
<1> DEFINE n == Len(items)
           Eq(f) == f = [k \in 0..n |-> IF k = 0 THEN Empty ELSE WithItem(f[k - 1], items[k])]
           Good(k) == \E f : /\ f = [i \in 0..k |-> f[i]] /\ f[0] = Empty
                            /\ \A i \in 1..k : f[i] = WithItem(f[i - 1], items[i])
           c == CHOOSE f : Eq(f)
           T == {k \in 0..n : Good(k)}
<1>1. n \in Nat
  OBVIOUS
<1>2. 0 \in T
  <2>1. Good(0)
    <3> DEFINE f == [i \in 0..0 |-> Empty]
    <3>1. f = [i \in 0..0 |-> f[i]] /\ f[0] = Empty /\ \A i \in 1..0 : f[i] = WithItem(f[i - 1], items[i])
      OBVIOUS
    <3> HIDE DEF f
    <3>2. QED
      BY <3>1
  <2>2. QED
    BY <1>1, <2>1
<1>3. ASSUME NEW m \in 1..n, m - 1 \in T
      PROVE  m \in T
  <2>1. PICK f : /\ f = [i \in 0..(m - 1) |-> f[i]] /\ f[0] = Empty
                 /\ \A i \in 1..(m - 1) : f[i] = WithItem(f[i - 1], items[i])
    BY <1>3
  <2> DEFINE g == [i \in 0..m |-> IF i = m THEN WithItem(f[m - 1], items[m]) ELSE f[i]]
  <2>2. g[0] = Empty /\ g[m] = WithItem(g[m - 1], items[m])
    BY <1>1, <2>1
  <2>3. ASSUME NEW i \in 1..(m - 1)
        PROVE  g[i] = WithItem(g[i - 1], items[i])
    <3>1. i \in 0..m /\ i # m /\ i - 1 \in 0..m /\ i - 1 # m
      BY <1>1
    <3>2. g[i] = f[i] /\ g[i - 1] = f[i - 1]
      BY <3>1
    <3>3. QED
      BY <2>1, <3>2
  <2>4. g = [i \in 0..m |-> g[i]]
    OBVIOUS
  <2> HIDE DEF g
  <2>5. \A i \in 1..m : g[i] = WithItem(g[i - 1], items[i])
    <3>1. \A i \in 1..m : i = m \/ i \in 1..(m - 1)
      BY <1>1
    <3>2. QED
      BY <2>2, <2>3, <3>1
  <2>6. Good(m)
    BY <2>2, <2>4, <2>5, Zenon
  <2> HIDE DEF Good
  <2>7. QED
    BY <1>1, <2>6
<1>4. Good(n)
  <2> HIDE DEF Good
  <2>1. \A k \in 0..n : k \in T
    <3> HIDE DEF T
    <3> QED
      BY <1>1, <1>2, <1>3, UpTo
  <2>2. QED
    BY <1>1, <2>1
<1>5. Eq(c)
  <2>1. PICK f : /\ f = [i \in 0..n |-> f[i]] /\ f[0] = Empty
                 /\ \A i \in 1..n : f[i] = WithItem(f[i - 1], items[i])
    BY <1>4
  <2>2. [i \in 0..n |-> f[i]] = [k \in 0..n |-> IF k = 0 THEN Empty ELSE WithItem(f[k - 1], items[k])]
    <3>1. \A k \in 0..n : k = 0 \/ k \in 1..n
      BY <1>1
    <3>2. \A k \in 0..n : f[k] = IF k = 0 THEN Empty ELSE WithItem(f[k - 1], items[k])
      BY <1>1, <2>1, <3>1
    <3>3. QED
      BY <3>2, Zenon
  <2>3. Eq(f)
    BY <2>1, <2>2
  <2>4. QED
    BY <2>3
<1>6. wlan_config(items) = c[n]
  BY DEF wlan_config
<1> HIDE DEF c
<1>7. c[0] = Empty /\ \A k \in 1..n : c[k] = WithItem(c[k - 1], items[k])
  BY <1>1, <1>5
<1> DEFINE U == {k \in 0..n : LoopIs(c[k], items, k)}
<1>8. 0 \in U
  <2>1. FitTo(items, 1, 0) = {} /\ FitTo(items, 2, 0) = {}
    BY DEF FitTo
  <2>2. TextIs(NoText, items, 1, 0) /\ TextIs(NoText, items, 2, 0)
    BY <2>1 DEF TextIs
  <2>3. Joins(items, 0) = 0
    BY DEF Joins
  <2>4. LoopIs(Empty, items, 0)
    BY <2>2, <2>3 DEF LoopIs, Empty
  <2>5. QED
    BY <1>1, <1>7, <2>4
<1>9. ASSUME NEW k \in 1..n, k - 1 \in U
      PROVE  k \in U
  <2>1. LoopIs(c[k - 1], items, k - 1)
    BY <1>9
  <2>2. LoopIs(WithItem(c[k - 1], items[k]), items, k)
    BY <2>1, LoopStep
  <2>3. QED
    BY <1>1, <1>7, <2>2
<1>10. \A k \in 0..n : k \in U
  <2> HIDE DEF U
  <2> QED
    BY <1>1, <1>8, <1>9, UpTo
<1>11. n \in U
  BY <1>1, <1>10
<1>12. QED
  BY <1>6, <1>11

-----------------------------------------------------------------------------
(* The padding behind a command adds nothing to it.                        *)

LEMMA BytesTyped ==
  ASSUME NEW items \in Seq(Item)
  PROVE  Bytes(items) \in Nat
<1> DEFINE n == Len(items)
           Eq(f, m) == f = [k \in 0..m |-> IF k = 0 THEN 0 ELSE f[k - 1] + 2 + items[k].size]
           c == CHOOSE f : Eq(f, n)
           Sum(f, m) == f \in [0..m -> Nat] /\ f[0] = 0 /\ \A k \in 1..m : f[k] = f[k - 1] + 2 + items[k].size
           S == {m \in 0..n : ~\E f : Sum(f, m)}
<1>1. n \in Nat /\ \A k \in 1..n : items[k].size \in Nat
  <2>1. \A x \in Item : x.size \in 1..255
    BY DEF Item
  <2>2. \A b \in 1..255 : b \in Nat
    OBVIOUS
  <2>3. ASSUME NEW k \in 1..n
        PROVE  items[k].size \in Nat
    <3>1. items[k] \in Item
      OBVIOUS
    <3> HIDE DEF Item
    <3>2. items[k].size \in 1..255
      BY <2>1, <3>1
    <3>3. QED
      BY <2>2, <3>2
  <2>4. QED
    BY <2>3
<1>2. S = {}
  <2>1. SUFFICES ASSUME S # {}
                 PROVE  FALSE
    OBVIOUS
  <2>2. S \in SUBSET Nat
    BY <1>1
  <2>3. PICK m \in S : \A j \in S : m <= j
    <3> HIDE DEF S
    <3> QED
      BY <2>1, <2>2, Least
  <2>4. m # 0
    <3>1. Sum([k \in 0..0 |-> 0], 0)
      OBVIOUS
    <3>2. QED
      BY <3>1
  <2>5. m \in 1..n /\ m - 1 \in 0..n
    BY <1>1, <2>4
  <2>9. m - 1 \notin S
    <3> HIDE DEF S
    <3> QED
      BY <1>1, <2>3, <2>5
  <2>6. PICK f : Sum(f, m - 1)
    BY <2>5, <2>9
  <2> DEFINE g == [k \in 0..m |-> IF k = m THEN f[m - 1] + 2 + items[m].size ELSE f[k]]
  <2>7. Sum(g, m)
    <3>1. f[m - 1] \in Nat /\ items[m].size \in Nat
      BY <1>1, <2>5, <2>6
    <3> DEFINE z == f[m - 1] + 2 + items[m].size
    <3>2. z \in Nat
      BY <3>1
    <3> HIDE DEF z
    <3>3. g = [k \in 0..m |-> IF k = m THEN z ELSE f[k]]
      BY DEF z
    <3>4. g \in [0..m -> Nat]
      BY <2>5, <2>6, <3>2, <3>3
    <3>5. g[0] = 0
      BY <2>5, <2>6, <3>3
    <3>6. ASSUME NEW k \in 1..m
          PROVE  g[k] = g[k - 1] + 2 + items[k].size
      <4>1. CASE k = m
        BY <2>5, <3>3, <4>1 DEF z
      <4>2. CASE k # m
        <5>1. k \in 1..(m - 1) /\ g[k] = f[k] /\ g[k - 1] = f[k - 1]
          BY <2>5, <3>3, <4>2
        <5>2. QED
          BY <2>6, <5>1
      <4>3. QED
        BY <4>1, <4>2
    <3>7. QED
      BY <3>4, <3>5, <3>6
  <2>8. QED
    BY <2>7
<1>3. PICK f : Sum(f, n)
  BY <1>1, <1>2
<1>4. Eq(f, n)
  BY <1>1, <1>3
<1>5. Eq(c, n)
  BY <1>4
<1>6. Bytes(items) = c[n]
  BY DEF Bytes
<1> HIDE DEF c
<1>7. c[0] = 0 /\ \A k \in 1..n : c[k] = c[k - 1] + 2 + items[k].size
  BY <1>1, <1>5
<1> DEFINE T == {k \in 0..n : c[k] \notin Nat}
<1>8. T = {}
  <2>1. SUFFICES ASSUME T # {}
                 PROVE  FALSE
    OBVIOUS
  <2>2. T \in SUBSET Nat
    BY <1>1
  <2>3. PICK k \in T : \A j \in T : k <= j
    <3> HIDE DEF T
    <3> QED
      BY <2>1, <2>2, Least
  <2>4. k # 0
    BY <1>7
  <2>5. k \in 1..n /\ k - 1 \in 0..n /\ k - 1 \notin T
    BY <1>1, <2>3, <2>4
  <2>6. c[k] = c[k - 1] + 2 + items[k].size /\ c[k - 1] \in Nat /\ items[k].size \in Nat
    BY <1>1, <1>7, <2>5
  <2>7. QED
    BY <2>6
<1>9. QED
  BY <1>1, <1>6, <1>8 DEF c

LEMMA PaddingIs ==
  ASSUME NEW n \in Nat
  PROVE  \/ PaddingItem(n) = <<>>
         \/ \E x \in Item : PaddingItem(n) = <<x>> /\ ~Fits(x)
<1> DEFINE p == Padding(n)
           x == [type |-> p, size |-> p, value |-> Junk]
<1>1. p \in 1..16
  BY DEF Padding
<1>2. CASE p <= 2
  BY <1>1, <1>2 DEF PaddingItem
<1>3. CASE p > 2
  <2>1. PaddingItem(n) = <<x>>
    BY <1>3 DEF PaddingItem
  <2>2. x \in Item
    BY <1>1, ProvisionAssumption DEF Item
  <2>3. ~Fits(x)
    BY <1>1, <1>3, ProvisionAssumption DEF Fits
  <2>4. QED
    BY <2>1, <2>2, <2>3
<1>4. QED
  BY <1>1, <1>2, <1>3

\* An item that does not fit changes nothing at the end.
LEMMA LoopBehind ==
  ASSUME NEW items \in Seq(Item), NEW x \in Item, ~Fits(x), NEW c, LoopIs(c, items \o <<x>>, Len(items) + 1)
  PROVE  LoopIs(c, items, Len(items))
<1> DEFINE S == <<x>>
           U == items \o S
           n == Len(items)
<1>1. S \in Seq(Item) /\ Len(S) = 1 /\ S[1] = x /\ n \in Nat
  OBVIOUS
<1> HIDE DEF S
<1>2. /\ U \in Seq(Item) /\ Len(U) = n + Len(S)
      /\ \A i \in 1..(n + Len(S)) : U[i] = IF i <= n THEN items[i] ELSE S[i - n]
  BY <1>1, ConcatProperties
<1>0. LoopIs(c, U, n + 1)
  BY DEF S
<1> HIDE DEF U
<1>3. /\ \A i \in 1..n : U[i] = items[i]
      /\ U[n + 1] = x /\ Len(U) = n + 1
  BY <1>1, <1>2
<1>4. ASSUME NEW t
      PROVE  FitTo(U, t, n + 1) = FitTo(items, t, n)
  <2>1. \A i \in FitTo(U, t, n + 1) : i \in FitTo(items, t, n)
    BY <1>1, <1>3 DEF FitTo
  <2>2. \A i \in FitTo(items, t, n) : i \in FitTo(U, t, n + 1)
    BY <1>1, <1>3 DEF FitTo
  <2>3. QED
    BY <2>1, <2>2
<1>5. ASSUME NEW t, NEW f, TextIs(f, U, t, n + 1)
      PROVE  TextIs(f, items, t, n)
  <2> DEFINE F == FitTo(items, t, n)
  <2>1. F = FitTo(U, t, n + 1) /\ \A i \in F : U[i] = items[i]
    BY <1>3, <1>4 DEF FitTo
  <2>2. CASE F = {}
    BY <1>5, <2>1, <2>2 DEF TextIs
  <2>3. CASE F # {}
    <3> DEFINE m == CHOOSE i \in F : \A j \in F : j <= i
    <3>1. LastTo(U, t, n + 1) = U[m] /\ LastTo(items, t, n) = items[m]
      BY <2>1 DEF LastTo
    <3>2. m \in F
      <4>1. F \in SUBSET (0..n)
        BY <1>1 DEF FitTo
      <4> HIDE DEF F
      <4>2. \E i \in F : \A j \in F : j <= i
        BY <1>1, <2>3, <4>1, Greatest
      <4>3. QED
        BY <4>2
    <3>3. LastTo(U, t, n + 1) = LastTo(items, t, n)
      BY <2>1, <3>1, <3>2
    <3> HIDE DEF m
    <3>4. QED
      BY <1>5, <2>1, <2>3, <3>3 DEF TextIs
  <2>4. QED
    BY <2>2, <2>3
<1>6. Joins(U, n + 1) = Joins(items, n)
  BY <1>1, <1>3 DEF Joins
<1>7. PICK a, b : /\ c = [ssid |-> a, password |-> b, join |-> Joins(U, n + 1)]
                  /\ TextIs(a, U, 1, n + 1) /\ TextIs(b, U, 2, n + 1)
  BY <1>0 DEF LoopIs
<1>8. QED
  BY <1>5, <1>6, <1>7 DEF LoopIs

LEMMA ReceivedIs ==
  ASSUME NEW items \in Seq(Item)
  PROVE  LoopIs(Received(items), items, Len(items))
<1> DEFINE P == PaddingItem(Bytes(items))
<1>1. P = <<>> \/ \E x \in Item : P = <<x>> /\ ~Fits(x)
  BY BytesTyped, PaddingIs
<1> HIDE DEF P
<1>2. CASE P = <<>>
  <2>1. items \o P = items
    BY <1>2, ConcatEmptySeq
  <2>2. QED
    BY <2>1, LoopReturns DEF Received, P
<1>3. ASSUME NEW x \in Item, P = <<x>>, ~Fits(x)
      PROVE  LoopIs(Received(items), items, Len(items))
  <2>1. items \o <<x>> \in Seq(Item) /\ Len(items \o <<x>>) = Len(items) + 1
    OBVIOUS
  <2>2. LoopIs(wlan_config(items \o <<x>>), items \o <<x>>, Len(items) + 1)
    BY <2>1, LoopReturns
  <2>3. Received(items) = wlan_config(items \o <<x>>)
    BY <1>3 DEF Received, P
  <2>4. QED
    BY <1>3, <2>2, <2>3, LoopBehind
<1>4. QED
  BY <1>1, <1>2, <1>3

\* What strcpy may read of an array is among the texts the reference allows.
LEMMA TextsAre ==
  ASSUME NEW items \in Seq(Item), NEW t, NEW f, NEW size \in Nat \ {0}, TextIs(f, items, t, Len(items))
  PROVE  Texts(f, size) \subseteq WantedText(items, t, size) \cap (Values \cup {Nil})
<1> DEFINE F == FitTo(items, t, Len(items))
<1>1. F = Fitting(items, t)
  BY DEF FitTo, Fitting
<1>2. LastTo(items, t, Len(items)) = Last(items, t)
  BY DEF FitTo, Fitting, LastTo, Last
<1>3. CASE F = {}
  <2>1. f = NoText
    BY <1>3 DEF TextIs
  <2>2. Texts(f, size) = {Nil}
    BY <2>1 DEF Texts, Full, NoText
  <2>3. QED
    BY <1>1, <1>3, <2>2 DEF WantedText
<1>4. CASE F # {}
  <2> DEFINE l == Last(items, t)
  <2>1. /\ \A i \in F : items[i].size <= f.length
        /\ \E i \in F : items[i].size = f.length
        /\ f.value = IF l.size = f.length THEN l.value ELSE Junk
    BY <1>2, <1>4 DEF TextIs
  <2>2. \A i \in F : items[i] \in Item /\ items[i].size \in Nat
    BY SizesAre DEF FitTo
  <2>3. PICK m \in F : l = items[m] /\ l \in Item
    <3>1. Len(items) \in 0..Len(items)
      OBVIOUS
    <3>2. QED
      BY <1>2, <1>4, <3>1, LastIs
  <2>4. l.size \in Nat /\ l.value \in Values /\ f.length \in Nat
    BY <2>1, <2>2, <2>3, SizesAre
  <2> HIDE DEF l, F
  <2>5. Covers(items, t) <=> l.size = f.length
    BY <1>1, <2>1, <2>2, <2>3, <2>4 DEF Covers, l
  <2>6. Full(f, size) => Fills(items, t, size)
    BY <1>1, <2>1 DEF Full, Fills
  <2>7. f.value \in WantedText(items, t, size)
    BY <1>1, <1>4, <2>1, <2>5 DEF WantedText, l
  <2>8. Full(f, size) => Junk \in WantedText(items, t, size)
    BY <1>1, <1>4, <2>6 DEF WantedText
  <2>9. f.value \in Values /\ Junk \in Values
    BY <2>1, <2>4, ProvisionAssumption
  <2>10. QED
    BY <2>7, <2>8, <2>9 DEF Texts
<1>5. QED
  BY <1>3, <1>4

LEMMA ReceivedIsWanted ==
  ASSUME NEW items \in Seq(Item)
  PROVE  /\ Received(items).join = Wanted(items).join
         /\ Texts(Received(items).ssid, SsidSize) \subseteq Wanted(items).ssid \cap (Values \cup {Nil})
         /\ Texts(Received(items).password, PasswordSize) \subseteq Wanted(items).password \cap (Values \cup {Nil})
<1> DEFINE c == Received(items)
           n == Len(items)
<1>1. PICK a, b : /\ c = [ssid |-> a, password |-> b, join |-> Joins(items, n)]
                  /\ TextIs(a, items, 1, n) /\ TextIs(b, items, 2, n)
  BY ReceivedIs DEF LoopIs
<1> HIDE DEF c
<1>2. c.join = Wanted(items).join /\ c.ssid = a /\ c.password = b
  BY <1>1 DEF Wanted, Joins
<1>3. /\ Wanted(items).ssid = WantedText(items, 1, SsidSize)
      /\ Wanted(items).password = WantedText(items, 2, PasswordSize)
  BY DEF Wanted
<1>4. /\ Texts(a, SsidSize) \subseteq WantedText(items, 1, SsidSize) \cap (Values \cup {Nil})
      /\ Texts(b, PasswordSize) \subseteq WantedText(items, 2, PasswordSize) \cap (Values \cup {Nil})
  BY <1>1, TextsAre, ProvisionAssumption
<1>5. QED
  BY <1>2, <1>3, <1>4 DEF c

-----------------------------------------------------------------------------
(* The queue and its messages.                                             *)

LEMMA MessageIs ==
  ASSUME NEW m \in Message
  PROVE  m.kind \in Kinds /\ m.key \in Keys \cup {Nil} /\ m.cmd \in Seq(Item) /\ m.from \in 0..MaxConns /\ m # Nil
  BY ProvisionAssumption DEF Message

LEMMA MsgTyped ==
  ASSUME conn \in 0..MaxConns, NEW kind \in Kinds, NEW key \in Keys \cup {Nil}, NEW cmd \in Seq(Item)
  PROVE  /\ Msg(kind, key, cmd) \in Message
         /\ Msg(kind, key, cmd).kind = kind /\ Msg(kind, key, cmd).key = key /\ Msg(kind, key, cmd).cmd = cmd
  BY DEF Msg, Message

\* A message without a command.
LEMMA BareIs ==
  ASSUME conn \in 0..MaxConns, NEW kind \in Kinds, NEW key \in Keys \cup {Nil}
  PROVE  Msg(kind, key, <<>>) \in Message /\ Msg(kind, key, <<>>).kind = kind /\ Msg(kind, key, <<>>).key = key
<1> DEFINE s == <<>>
<1>1. s \in Seq(Item)
  OBVIOUS
<1> HIDE DEF s
<1>2. Msg(kind, key, s) \in Message /\ Msg(kind, key, s).kind = kind /\ Msg(kind, key, s).key = key
  BY SMTT(30), <1>1, MsgTyped
<1>3. QED
  BY <1>2 DEF s

LEMMA Pushed ==
  ASSUME NEW q \in Seq(Message), NEW m \in Message
  PROVE  /\ Append(q, m) \in Seq(Message) /\ Len(Append(q, m)) = Len(q) + 1
         /\ \A i \in 1..Len(q) : Append(q, m)[i] = q[i]
         /\ Append(q, m)[Len(q) + 1] = m
  BY AppendProperties

LEMMA Popped ==
  ASSUME NEW q \in Seq(Message), q # <<>>
  PROVE  /\ Tail(q) \in Seq(Message) /\ Len(Tail(q)) = Len(q) - 1 /\ Len(q) >= 1
         /\ Head(q) = q[1] /\ Head(q) \in Message
         /\ \A i \in 1..Len(Tail(q)) : Tail(q)[i] = q[i + 1]
  BY HeadTailProperties, EmptySeq

-----------------------------------------------------------------------------
(* Types.                                                                  *)

LEMMA Numbers == MaxConns \in Nat /\ MaxKeys \in Nat /\ MaxQueue \in Nat \ {0} /\ MaxRetry \in Nat
  BY ProvisionAssumption

LEMMA NoItems == <<>> \in Seq(Item) /\ <<>> \in Seq(Message) /\ Len(<<>>) = 0
  OBVIOUS

\* What the members of the record sets are.
LEMMA Records ==
  /\ \A t \in Threads : t.at \in {"idle", "kx", "reply", "decrypt", "parse", "save"} /\ t.msg \in Message \cup {Nil}
  /\ \A e \in Tasks : e.at \in {"idle", "count", "encrypt"} /\ e.key \in Keys \cup {Nil}
  /\ \A p \in Phones : p.kx \in {"no", "sent", "have"} /\ p.verdict \in {Nil, "ok", "error", "failed"}
  /\ \A s \in Stations : s.state \in {"idle", "trying", "joined"}
  BY DEF Threads, Tasks, Phones, Stations

LEMMA IdleRecords ==
  /\ IdleThread \in Threads /\ IdleThread.at = "idle" /\ IdleThread.msg = Nil
  /\ IdleEvent \in Tasks /\ IdleEvent.at = "idle" /\ NewPhone \in Phones
  BY DEF Threads, Tasks, Phones, IdleThread, IdleEvent, NewPhone

LEMMA TypeInit == Init => TypeInv
<1>1. SUFFICES ASSUME Init
               PROVE  TypeInv
  OBVIOUS
<1>2. sta \in Stations /\ events \in Seq({"disconnected", "got_ip"}) /\ Len(events) = 0
  BY <1>1 DEF Init, Stations
<1>3. queue \in Seq(Message) /\ Len(queue) = 0
  BY <1>1, NoItems DEF Init
<1>4. /\ link = "down" /\ conn = 0 /\ phone \in Phones /\ sent = {} /\ thr = IdleThread
      /\ ctx = Nil /\ keys = 0 /\ retry = 0 /\ saved = Nil /\ ev = IdleEvent /\ timer = 0 /\ ahead = 0
  BY <1>1, IdleRecords DEF Init
<1>5. before \in BOOLEAN /\ close \in BOOLEAN
  BY <1>1 DEF Init
<1>6. QED
  BY <1>2, <1>3, <1>4, <1>5, Numbers, Records, IdleRecords DEF TypeInv, TypeOK

\* The link.
LEMMA TypeLink ==
  ASSUME TypeInv, bt_connected_cb \/ LinkDown \/ Callback \/ delay_work_handler
  PROVE  TypeInv'
<1> USE Numbers DEF TypeInv, TypeOK, comms, keyed, wifi, join, delay
<1>0. Len(queue) \in Nat /\ Len(events) \in Nat /\ Len(<<>>) = 0 /\ <<>> \in Seq(Message)
  OBVIOUS
<1>1. ASSUME bt_connected_cb PROVE TypeInv'
  BY <1>1, <1>0, Records, IdleRecords DEF bt_connected_cb
<1>2. ASSUME Drain, timer' \in {0, timer} PROVE TypeInv'
  BY <1>2, <1>0 DEF Drain
<1>3. ASSUME FreeContext PROVE TypeInv'
  BY <1>3, <1>0 DEF FreeContext
<1>4. ASSUME RemoveHandlers PROVE TypeInv'
  BY <1>4, <1>0 DEF RemoveHandlers
<1>5. ASSUME delay_work_handler PROVE TypeInv'
  <2>1. CASE link = "up"
    BY <1>2, <1>5, <2>1 DEF delay_work_handler
  <2>2. CASE link # "up"
    BY <1>5, <1>0, <2>2 DEF delay_work_handler
  <2>3. QED
    BY <2>1, <2>2
<1>6. QED
  BY <1>1, <1>2, <1>3, <1>4, <1>5 DEF LinkDown, Callback

\* The phone.
LEMMA TypePhone ==
  ASSUME TypeInv, PhoneExchange \/ \E c \in Cmds : PhoneCommand(c)
  PROVE  TypeInv'
<1> USE Numbers DEF TypeInv, TypeOK, comms, keyed, wifi, join, delay
<1>0. Len(queue) \in Nat /\ Len(events) \in Nat
  OBVIOUS
<1>1. ASSUME PhoneExchange PROVE TypeInv'
  <2>1. KeyExchange \in Message
    BY NoItems, MsgTyped DEF KeyExchange, Kinds
  <2>2. queue' \in Seq(Message) /\ Len(queue') = Len(queue) + 1
    BY <1>1, <2>1, Pushed DEF PhoneExchange, Append1
  <2>3. phone' \in Phones
    BY <1>1 DEF PhoneExchange, Phones
  <2>4. QED
    BY <1>0, <1>1, <2>2, <2>3, Records DEF PhoneExchange
<1>2. ASSUME NEW c \in Cmds, PhoneCommand(c) PROVE TypeInv'
  <2>1. Station(c, phone.key) \in Message
    <3>1. phone.key \in Keys \cup {Nil} /\ c \in Seq(Item)
      BY ProvisionAssumption DEF Phones
    <3>2. QED
      BY <3>1, MsgTyped DEF Station, Kinds
  <2>2. queue' \in Seq(Message) /\ Len(queue') = Len(queue) + 1
    BY <1>2, <2>1, Pushed DEF PhoneCommand, Append1
  <2>3. phone' \in Phones /\ sent' \subseteq Cmds
    BY <1>2 DEF PhoneCommand, Phones
  <2>4. QED
    BY <1>0, <1>2, <2>2, <2>3, Records DEF PhoneCommand
<1>3. QED
  BY <1>1, <1>2

\* wps_send_error_status, and the delayed work behind it.
LEMMA Sent ==
  ASSUME TypeInv, Len(queue) <= MaxQueue, NEW kind \in Kinds, SendError(kind)
  PROVE  /\ queue' \in Seq(Message) /\ Len(queue') = Len(queue) + 1
         /\ timer' \in 0..conn /\ ahead' \in 0..MaxQueue + 1
<1>1. Verdict(kind) \in Message
  BY NoItems, MsgTyped DEF Verdict, TypeInv, TypeOK
<1>2. queue \in Seq(Message) /\ conn \in Nat /\ timer \in 0..conn /\ ahead \in 0..MaxQueue + 1 /\ Len(queue) \in Nat
  BY Numbers DEF TypeInv, TypeOK
<1>3. QED
  BY <1>1, <1>2, Pushed, Numbers DEF SendError, Append1, Schedule, delay

\* The thread.
LEMMA TypeTaken ==
  ASSUME TypeInv, TakeResponse \/ TakeCommand
  PROVE  TypeInv'
<1> USE Numbers DEF TypeInv, TypeOK, comms, keyed, wifi, join, delay
<1> DEFINE m == Head(queue)
<1>1. queue # <<>> /\ queue' = Tail(queue)
  BY DEF TakeResponse, TakeCommand
<1>2. queue' \in Seq(Message) /\ Len(queue') = Len(queue) - 1 /\ m \in Message /\ Len(queue) \in Nat
  BY <1>1, Popped
<1>3. m.kind \in Kinds /\ m.key \in Keys \cup {Nil} /\ m # Nil
  BY <1>2, MessageIs
<1>4. Len(queue') <= MaxQueue
  BY <1>2
<1>5. timer' \in 0..conn /\ ahead' \in 0..MaxQueue + 1
  BY DEF TakeResponse, TakeCommand, Taken
<1> HIDE DEF m
<1>6. ASSUME TakeResponse PROVE TypeInv'
  <2>1. Heard(m) \in Phones
    BY <1>3 DEF Heard, Phones
  <2>2. phone' \in {phone, Heard(m)}
    BY <1>6 DEF TakeResponse, m
  <2>3. QED
    BY <1>2, <1>4, <1>5, <1>6, <2>1, <2>2, Records DEF TakeResponse
<1>7. ASSUME TakeCommand PROVE TypeInv'
  <2>1. thr' = [at |-> IF m.kind = "kx" THEN "kx" ELSE "decrypt", msg |-> m, key |-> ctx]
    BY <1>7 DEF TakeCommand, m
  <2>2. thr' \in Threads /\ thr'.at # "idle" /\ thr'.msg # Nil
    BY <1>2, <1>3, <2>1 DEF Threads
  <2>3. QED
    BY <1>2, <1>3, <1>4, <1>5, <1>7, <2>2, Records DEF TakeCommand
<1>8. QED
  BY <1>6, <1>7

LEMMA TypeExchange ==
  ASSUME TypeInv, ExchangeFails \/ Regenerate \/ RegenerateFails \/ Reply
  PROVE  TypeInv'
<1> USE Numbers DEF TypeInv, TypeOK, comms, keyed, wifi, join, delay
<1>1. thr.at # "idle" /\ Len(queue) <= MaxQueue /\ Len(queue) \in Nat /\ thr.msg \in Message
  BY DEF ExchangeFails, Regenerate, RegenerateFails, Reply
<1>2. ASSUME ExchangeFails \/ RegenerateFails PROVE TypeInv'
  <2>1. SendError("kxerror") /\ thr' = IdleThread
    BY <1>2 DEF ExchangeFails, RegenerateFails
  <2>2. /\ queue' \in Seq(Message) /\ Len(queue') = Len(queue) + 1
        /\ timer' \in 0..conn /\ ahead' \in 0..MaxQueue + 1
    BY <1>1, <2>1, Sent DEF Kinds
  <2>3. QED
    BY <1>1, <1>2, <2>1, <2>2, IdleRecords, Records DEF ExchangeFails, RegenerateFails
<1>3. ASSUME Regenerate PROVE TypeInv'
  <2>1. keys' \in 0..MaxKeys /\ keys' \in Keys
    BY <1>3 DEF Regenerate, Keys
  <2>2. thr' \in Threads /\ thr'.at = "reply" /\ thr'.msg = thr.msg
    BY <1>3, <2>1 DEF Regenerate, Threads
  <2>3. QED
    BY <1>1, <1>3, <2>1, <2>2, Records DEF Regenerate
<1>4. ASSUME Reply PROVE TypeInv'
  <2> DEFINE k == Msg("key", thr.key, <<>>)
             m == [k EXCEPT !.from = thr.msg.from]
  <2>1. k \in Message /\ thr.msg.from \in 0..MaxConns
    <3>1. thr.key \in Keys \cup {Nil}
      BY DEF Threads
    <3>2. QED
      BY <1>1, <3>1, NoItems, MsgTyped, MessageIs DEF Kinds
  <2>2. m \in Message
    BY <2>1 DEF Message
  <2>3. queue' \in Seq(Message) /\ Len(queue') = Len(queue) + 1
    BY <1>4, <2>2, Pushed DEF Reply, Append1
  <2>4. QED
    BY <1>1, <1>4, <2>3, IdleRecords, Records DEF Reply
<1>5. QED
  BY <1>2, <1>3, <1>4

\* The command the thread works on, replaced by what another key makes of it.
Garbled(m) == [m EXCEPT !.cmd = <<[type |-> 1, size |-> 1, value |-> Junk]>>]

LEMMA GarbledIs ==
  ASSUME NEW m \in Message
  PROVE  Garbled(m) \in Message
<1> DEFINE x == [type |-> 1, size |-> 1, value |-> Junk]
           s == <<x>>
<1>1. x \in Item
  BY ProvisionAssumption DEF Item
<1>2. s \in Seq(Item)
  BY <1>1
<1>3. Garbled(m) = [m EXCEPT !.cmd = s]
  BY DEF Garbled
<1> HIDE DEF s
<1>4. QED
  BY <1>2, <1>3 DEF Message

LEMMA DecryptIs ==
  ASSUME TypeInv, Decrypt
  PROVE  \/ thr' = [at |-> "parse", msg |-> thr.msg, key |-> thr.key] /\ thr.key = thr.msg.key /\ UNCHANGED <<queue, delay>>
         \/ thr' = [at |-> "parse", msg |-> Garbled(thr.msg), key |-> thr.key] /\ thr.key # thr.msg.key /\ UNCHANGED <<queue, delay>>
         \/ thr' = IdleThread /\ SendError("error") /\ thr.key # thr.msg.key
<1> DEFINE s == <<[type |-> 1, size |-> 1, value |-> Junk]>>
           g == [thr.msg EXCEPT !.cmd = s]
<1>1. thr = [at |-> thr.at, msg |-> thr.msg, key |-> thr.key]
  BY DEF TypeInv, Threads
<1>2. CASE thr' = [thr EXCEPT !.at = "parse"] /\ thr.key = thr.msg.key /\ UNCHANGED <<queue, delay>>
  BY <1>1, <1>2 DEF Decrypt
<1>3. CASE thr' = [thr EXCEPT !.at = "parse", !.msg.cmd = s]
  <2> HIDE DEF s
  <2>1. thr' = [[thr EXCEPT !.at = "parse"] EXCEPT !.msg = g]
    BY <1>3, <1>1
  <2> HIDE DEF g
  <2>2. thr' = [at |-> "parse", msg |-> g, key |-> thr.key]
    BY <1>1, <2>1
  <2>3. g = Garbled(thr.msg)
    BY DEF g, s, Garbled
  <2>4. QED
    BY <2>2, <2>3 DEF Decrypt
<1>4. QED
  BY <1>2, <1>3 DEF Decrypt, s

LEMMA TypeCommand ==
  ASSUME TypeInv, Decrypt \/ DecryptTorn \/ Refuse \/ Join \/ Save \/ SaveTorn
  PROVE  TypeInv'
<1> USE Numbers DEF TypeInv, TypeOK, comms, keyed, wifi, join, delay
<1>1. thr.at # "idle" /\ Len(queue) <= MaxQueue /\ Len(queue) \in Nat /\ thr.msg \in Message
  BY DEF Decrypt, DecryptTorn, Refuse, Join, Save, SaveTorn
<1>2. ASSUME SendError("error"), thr' = IdleThread,
             UNCHANGED <<link, conn, phone, sent, ctx, keys, wifi, join, ev>>
      PROVE  TypeInv'
  <2>1. /\ queue' \in Seq(Message) /\ Len(queue') = Len(queue) + 1
        /\ timer' \in 0..conn /\ ahead' \in 0..MaxQueue + 1
    BY <1>1, <1>2, Sent DEF Kinds
  <2>2. QED
    BY <1>1, <1>2, <2>1, IdleRecords, Records
<1>3. ASSUME Decrypt PROVE TypeInv'
  <2>1. CASE thr' = IdleThread /\ SendError("error")
    BY <1>2, <1>3, <2>1 DEF Decrypt
  <2>2. ASSUME NEW m \in {thr.msg, Garbled(thr.msg)},
               thr' = [at |-> "parse", msg |-> m, key |-> thr.key], UNCHANGED <<queue, delay>>
        PROVE  TypeInv'
    <3>1. m \in Message /\ m # Nil
      BY <1>1, GarbledIs, MessageIs
    <3>2. UNCHANGED <<link, conn, phone, sent, ctx, keys, wifi, join, ev>>
      BY <1>3 DEF Decrypt
    <3>3. thr' \in Threads /\ thr'.at # "idle" /\ thr'.msg # Nil
      BY <2>2, <3>1 DEF Threads
    <3>4. QED
      BY <1>1, <2>2, <3>1, <3>2, <3>3, Records
  <2>3. QED
    BY <1>3, <2>1, <2>2, DecryptIs
<1>4. ASSUME DecryptTorn PROVE TypeInv'
  BY <1>4 DEF DecryptTorn
<1>5. ASSUME Refuse PROVE TypeInv'
  BY <1>2, <1>5 DEF Refuse
<1>6. ASSUME Join PROVE TypeInv'
  <2>1. thr' \in Threads /\ thr'.at = "save" /\ thr'.msg = thr.msg
    BY <1>6 DEF Join, Threads
  <2>2. QED
    BY <1>1, <1>6, <2>1, Numbers, Records DEF Join
<1>7. ASSUME Save PROVE TypeInv'
  <2>1. saved' \in Configs \cup {Nil} /\ close' \in BOOLEAN
    <3>1. thr.msg.cmd \in Seq(Item)
      BY <1>1, MessageIs
    <3>2. \A v \in Texts(Parsed.ssid, SsidSize), w \in Texts(Parsed.password, PasswordSize) :
            [ssid |-> v, password |-> w] \in Configs
      BY <3>1, ReceivedIsWanted DEF Parsed, Configs
    <3>3. QED
      BY <1>7, <3>2 DEF Save
  <2>2. QED
    BY <1>1, <1>7, <2>1, IdleRecords, Records DEF Save
<1>8. ASSUME SaveTorn PROVE TypeInv'
  BY <1>8 DEF SaveTorn
<1>9. QED
  BY <1>3, <1>4, <1>5, <1>6, <1>7, <1>8

\* Wi-Fi.
LEMMA TypeStation ==
  ASSUME TypeInv, WorkClose \/ Attempt \/ Lose
  PROVE  TypeInv'
<1> USE Numbers DEF TypeInv, TypeOK, comms, keyed, wifi, join, delay
<1>1. events \in Seq({"disconnected", "got_ip"}) /\ Len(events) < MaxQueue /\ Len(events) \in Nat
  BY DEF WorkClose, Attempt, Lose
<1>2. ASSUME NEW e \in {"disconnected", "got_ip"}
      PROVE  /\ Append(events, e) \in Seq({"disconnected", "got_ip"})
             /\ Len(Append(events, e)) = Len(events) + 1
  BY <1>1
<1>3. events' \in Seq({"disconnected", "got_ip"}) /\ Len(events') <= MaxQueue
  <2>1. events' = events \/ \E e \in {"disconnected", "got_ip"} : events' = Append(events, e)
    BY DEF WorkClose, Attempt, Lose
  <2>2. CASE events' = events
    BY <1>1, <2>2
  <2>3. ASSUME NEW e \in {"disconnected", "got_ip"}, events' = Append(events, e)
        PROVE  events' \in Seq({"disconnected", "got_ip"}) /\ Len(events') <= MaxQueue
    <3>1. Len(events') = Len(events) + 1 /\ events' \in Seq({"disconnected", "got_ip"})
      BY <1>2, <2>3
    <3>2. QED
      BY <1>1, <3>1
  <2>4. QED
    BY <2>1, <2>2, <2>3
<1>4. sta' \in Stations
  BY DEF WorkClose, Attempt, Lose, Stations
<1>5. close' \in BOOLEAN /\ UNCHANGED <<comms, keyed, saved, join, ev, delay>>
  BY DEF WorkClose, Attempt, Lose
<1>6. QED
  BY <1>3, <1>4, <1>5, Records

LEMMA TypeHandlers ==
  ASSUME TypeInv, Handlers
  PROVE  TypeInv'
<1> USE Numbers DEF TypeInv, TypeOK, comms, keyed, wifi, join, delay
<1> DEFINE E == {"disconnected", "got_ip"}
<1>1. Len(queue) \in Nat /\ Len(events) \in Nat
  OBVIOUS
<1>2. ASSUME NEW kind, Deliver(kind)
      PROVE  events' \in Seq(E) /\ Len(events') <= MaxQueue
  <2>1. events # <<>> /\ events \in Seq(E) /\ events' = Tail(events)
    BY <1>2 DEF Deliver
  <2>2. QED
    BY <2>1
<1>3. Reconnected \in Stations
  BY DEF Reconnected, Stations
<1>4. ASSUME DisconnectedUnheard \/ DisconnectedSkip PROVE TypeInv'
  BY ZenonT(40), <1>1, <1>2, <1>3, <1>4, Records DEF DisconnectedUnheard, DisconnectedSkip
<1>5. ASSUME DisconnectedRetry PROVE TypeInv'
  <2>1. ev' \in Tasks /\ retry < MaxRetry
    BY <1>5 DEF DisconnectedRetry, Tasks
  <2>2. QED
    BY <1>1, <1>2, <1>3, <1>5, <2>1, Records DEF DisconnectedRetry
<1>6. ASSUME Count PROVE TypeInv'
  BY <1>1, <1>6, IdleRecords DEF Count
<1>7. ASSUME DisconnectedReport PROVE TypeInv'
  <2>1. Len(queue) < MaxQueue /\ SendError("failed") /\ Deliver("disconnected")
    BY <1>7 DEF DisconnectedReport
  <2>2. /\ queue' \in Seq(Message) /\ Len(queue') = Len(queue) + 1
        /\ timer' \in 0..conn /\ ahead' \in 0..MaxQueue + 1
    BY <1>1, <2>1, Sent DEF Kinds
  <2>3. QED
    BY <1>1, <1>2, <1>3, <1>7, <2>1, <2>2, Records DEF DisconnectedReport
<1>8. ASSUME GotIpUnheard \/ GotIp PROVE TypeInv'
  <2>1. ev' \in Tasks /\ (ev'.at = "count" => ev' = ev)
    BY <1>8 DEF GotIpUnheard, GotIp, Tasks
  <2>2. QED
    BY <1>1, <1>2, <1>8, <2>1, Records DEF GotIpUnheard, GotIp
<1>9. ASSUME SendIp PROVE TypeInv'
  <2>1. Len(queue) < MaxQueue /\ SendError("ok")
    BY <1>9 DEF SendIp, SendError
  <2>2. /\ queue' \in Seq(Message) /\ Len(queue') = Len(queue) + 1
        /\ timer' \in 0..conn /\ ahead' \in 0..MaxQueue + 1
    BY <1>1, <2>1, Sent DEF Kinds
  <2>3. QED
    BY <1>1, <1>9, <2>1, <2>2, IdleRecords DEF SendIp
<1>10. ASSUME SendIpTorn PROVE TypeInv'
  BY <1>10 DEF SendIpTorn
<1>11. QED
  BY <1>4, <1>5, <1>6, <1>7, <1>8, <1>9, <1>10 DEF Handlers

LEMMA TypeStep == TypeInv /\ [Next]_vars => TypeInv'
<1>1. SUFFICES ASSUME TypeInv, [Next]_vars
               PROVE  TypeInv'
  OBVIOUS
<1>2. CASE UNCHANGED vars
  BY <1>1, <1>2 DEF vars, comms, keyed, wifi, join, delay, TypeInv, TypeOK
<1>3. CASE Next
  BY <1>1, <1>3, TypeLink, TypePhone, TypeTaken, TypeExchange, TypeCommand, TypeStation, TypeHandlers
     DEF Next, Thread
<1>4. QED
  BY <1>1, <1>2, <1>3

\* The types hold: no queue grows beyond its bound, no retry is counted beyond
\* WIFI_JOIN_MAXIMUM_RETRY, and what is saved is a configuration.
\* (s_retry_num in wps_handler_sta_disconnected; wlan_config_process.)
THEOREM ProvisionTypeCorrect == Spec => []TypeOK
<1>1. Spec => []TypeInv
  BY TypeInit, TypeStep, PTL DEF Spec
<1>2. TypeInv => TypeOK
  BY DEF TypeInv
<1>3. QED
  BY <1>1, <1>2, PTL

-----------------------------------------------------------------------------
(* What is saved.                                                          *)

LEMMA VerdictIs ==
  ASSUME TypeInv, NEW kind \in {"kxerror", "error", "failed", "ok"}
  PROVE  Verdict(kind) \in Message /\ Verdict(kind).kind = kind
<1>1. conn \in 0..MaxConns
  BY DEF TypeInv, TypeOK
<1>2. kind \in Kinds /\ Nil \in Keys \cup {Nil}
  BY DEF Kinds
<1>3. QED
  BY <1>1, <1>2, BareIs DEF Verdict

LEMMA QueueTyped == TypeInv => queue \in Seq(Message) /\ Len(queue) \in Nat /\ conn \in 0..MaxConns
  BY DEF TypeInv, TypeOK

\* What a step leaves alone that none of the parts is about.
LEMMA KeyFrame ==
  ASSUME KeyInv, UNCHANGED <<link, queue, thr, ctx, phone, sent, saved>>
  PROVE  KeyInv'
  BY DEF KeyInv, LinkInv, CommandInv, SavedIsSent, Messages, Parsed

\* A verdict changes nothing: it is no part of an exchange.
LEMMA KeyVerdict ==
  ASSUME TypeInv, KeyInv, NEW kind \in {"error", "failed", "ok"}, queue' = Append(queue, Verdict(kind)),
         thr' = thr \/ thr' = IdleThread, UNCHANGED <<link, ctx, phone, sent, saved>>
  PROVE  KeyInv'
<1>1. Verdict(kind) \in Message /\ Verdict(kind).kind = kind /\ queue \in Seq(Message) /\ Len(queue) \in Nat
  BY VerdictIs, QueueTyped
<1>2. /\ Len(queue') = Len(queue) + 1 /\ queue'[Len(queue) + 1].kind = kind
      /\ \A i \in 1..Len(queue) : queue'[i] = queue[i]
  BY <1>1, Pushed
<1>3. \A i \in 1..Len(queue') : i \in 1..Len(queue) \/ i = Len(queue) + 1
  BY <1>1, <1>2
<1>4. \A i \in 1..Len(queue') : queue'[i].kind \in {"kx", "sta", "key", "kxerror"} => i \in 1..Len(queue)
  BY <1>2, <1>3
<1>5. thr'.at \in {thr.at, "idle"} /\ (thr'.at # "idle" => thr' = thr)
  BY DEF IdleThread
<1>6. CommandInv' /\ SavedIsSent'
  BY <1>5 DEF KeyInv, CommandInv, SavedIsSent, Parsed
<1>7. ASSUME link = "up" PROVE LinkInv'
  <2>1. LinkInv
    BY <1>7 DEF KeyInv
  <2>2. QED
    BY <1>2, <1>4, <1>5, <2>1 DEF LinkInv, Messages, Exchanging
<1>8. ASSUME link # "up" PROVE \A i \in 1..Len(queue') : queue'[i].kind \notin {"kx", "sta"}
  BY <1>2, <1>4, <1>8 DEF KeyInv, Messages
<1>9. QED
  BY <1>6, <1>7, <1>8 DEF KeyInv, Messages

\* The link: a connection begins with nothing, and leaves nothing for a command.
LEMMA KeyLink ==
  ASSUME TypeInv, KeyInv, bt_connected_cb \/ LinkDown \/ Callback \/ delay_work_handler
  PROVE  KeyInv'
<1> USE DEF comms, keyed, wifi
<1>1. ASSUME bt_connected_cb PROVE KeyInv'
  <2>1. /\ link' = "up" /\ phone'.kx = "no" /\ phone'.cmd = Nil /\ thr.at = "idle" /\ Len(queue') = 0
        /\ UNCHANGED <<thr, ctx, sent, saved>>
    BY <1>1, NoItems DEF bt_connected_cb, NewPhone
  <2>2. Messages' = {}
    BY <2>1 DEF Messages
  <2>3. LinkInv'
    BY <2>1, <2>2 DEF LinkInv
  <2>4. QED
    BY <2>1, <2>3 DEF KeyInv, CommandInv, SavedIsSent, Parsed
<1>2. ASSUME Drain PROVE KeyInv'
  <2>1. link' = "drained" /\ Len(queue') = 0 /\ UNCHANGED <<thr, ctx, sent, saved>>
    BY <1>2, NoItems DEF Drain
  <2>2. Messages' = {}
    BY <2>1 DEF Messages
  <2>3. QED
    BY <2>1, <2>2 DEF KeyInv, CommandInv, SavedIsSent, Parsed
<1>3. ASSUME FreeContext \/ RemoveHandlers PROVE KeyInv'
  <2>1. link # "up" /\ link' # "up" /\ ctx' \in {ctx, Nil} /\ UNCHANGED <<queue, thr, sent, saved>>
    BY <1>3 DEF FreeContext, RemoveHandlers
  <2>2. QED
    BY <2>1 DEF KeyInv, CommandInv, SavedIsSent, Parsed, Messages
<1>4. ASSUME delay_work_handler PROVE KeyInv'
  BY <1>2, <1>4, KeyFrame DEF delay_work_handler
<1>5. QED
  BY <1>1, <1>2, <1>3, <1>4 DEF LinkDown, Callback

LEMMA KeyPhoneExchange ==
  ASSUME TypeInv, KeyInv, PhoneExchange
  PROVE  KeyInv'
<1> USE DEF comms, keyed, wifi
<1>1. /\ LinkInv /\ link = "up" /\ phone.kx # "sent" /\ phone.cmd = Nil
      /\ UNCHANGED <<link, thr, ctx, sent, saved>>
  BY DEF PhoneExchange, KeyInv
<1>2. phone'.kx = "sent" /\ phone'.cmd = Nil
  BY <1>1 DEF PhoneExchange, TypeInv, Phones
<1>3. KeyExchange \in Message /\ KeyExchange.kind = "kx" /\ queue \in Seq(Message) /\ Len(queue) \in Nat
  <2>1. "kx" \in Kinds /\ Nil \in Keys \cup {Nil}
    BY DEF Kinds
  <2>2. queue \in Seq(Message) /\ Len(queue) \in Nat /\ conn \in 0..MaxConns
    BY QueueTyped
  <2>3. QED
    BY <2>1, <2>2, BareIs DEF KeyExchange
<1>4. /\ Len(queue') = Len(queue) + 1 /\ queue'[Len(queue) + 1].kind = "kx"
      /\ \A i \in 1..Len(queue) : queue'[i] = queue[i]
  BY <1>3, Pushed DEF PhoneExchange, Append1
<1>5. \A i \in 1..Len(queue') : i \in 1..Len(queue) \/ i = Len(queue) + 1
  BY <1>3, <1>4
<1>6. /\ \A i \in 1..Len(queue) : queue[i].kind \notin {"kx", "key", "kxerror", "sta"}
      /\ thr.at \notin {"kx", "reply", "decrypt"}
  BY <1>1 DEF LinkInv, Messages, Exchanging
<1>7. \A i \in 1..Len(queue') : queue'[i].kind \in {"kx", "key", "kxerror", "sta"} => i = Len(queue) + 1
  BY <1>4, <1>5, <1>6
<1>8. LinkInv'
  BY <1>1, <1>2, <1>4, <1>6, <1>7 DEF LinkInv, Messages, Exchanging
<1>9. QED
  BY <1>1, <1>8 DEF KeyInv, CommandInv, SavedIsSent, Parsed

LEMMA KeyPhoneCommand ==
  ASSUME TypeInv, KeyInv, NEW c \in Cmds, PhoneCommand(c)
  PROVE  KeyInv'
<1> USE DEF comms, keyed, wifi
<1> DEFINE m == Station(c, phone.key)
<1>1. /\ LinkInv /\ link = "up" /\ phone.kx = "have" /\ phone.cmd = Nil /\ sent' = sent \cup {c}
      /\ UNCHANGED <<link, thr, ctx, saved>> /\ queue' = Append(queue, m)
  BY DEF PhoneCommand, KeyInv, Append1
<1>2. phone'.kx = "have" /\ phone'.cmd = c /\ phone'.key = phone.key /\ c # Nil
  BY <1>1, ProvisionAssumption DEF PhoneCommand, TypeInv, Phones
<1>3. m \in Message /\ m.kind = "sta" /\ m.cmd = c /\ m.key = phone.key
  <2>1. phone.key \in Keys \cup {Nil} /\ c \in Seq(Item) /\ conn \in 0..MaxConns
    BY ProvisionAssumption DEF TypeInv, TypeOK, Phones
  <2>2. "sta" \in Kinds
    BY DEF Kinds
  <2>3. QED
    BY SMTT(30), <2>1, <2>2, MsgTyped DEF Station
<1> HIDE DEF m
<1>4. queue \in Seq(Message) /\ Len(queue) \in Nat
  BY QueueTyped
<1>5. /\ Len(queue') = Len(queue) + 1 /\ queue'[Len(queue) + 1] = m
      /\ \A i \in 1..Len(queue) : queue'[i] = queue[i]
  BY <1>1, <1>3, <1>4, Pushed
<1>6. \A i \in 1..Len(queue') : i \in 1..Len(queue) \/ i = Len(queue) + 1
  BY <1>4, <1>5
<1>7. /\ \A i \in 1..Len(queue) : queue[i].kind \notin {"kx", "key", "kxerror", "sta"}
      /\ phone.key = ctx /\ thr.at \notin {"kx", "reply", "decrypt"}
  BY <1>1 DEF LinkInv, Messages, Exchanging
<1>8. LinkInv'
  <2>1. \A i \in 1..Len(queue') : queue'[i].kind \in {"kx", "key", "kxerror", "sta"} => i = Len(queue) + 1
    BY <1>5, <1>6, <1>7
  <2>2. \A i \in 1..Len(queue') : queue'[i].kind \notin {"kx", "key", "kxerror"}
    BY <1>3, <1>5, <2>1
  <2>3. \A i \in 1..Len(queue') : queue'[i].kind = "sta" => queue'[i].cmd \in sent' /\ queue'[i].key = phone'.key
    BY <1>1, <1>2, <1>3, <1>5, <2>1
  <2>4. QED
    BY <1>1, <1>2, <1>7, <2>2, <2>3 DEF LinkInv, Messages, Exchanging
<1>9. CommandInv'
  BY <1>1 DEF KeyInv, CommandInv, Parsed
<1>10. SavedIsSent'
  BY <1>1 DEF KeyInv, SavedIsSent
<1>11. QED
  BY <1>1, <1>8, <1>9, <1>10 DEF KeyInv

\* The phone hears of a key what the context is, and nothing else of a key is
\* on its way then.
LEMMA KeyTakeResponse ==
  ASSUME TypeInv, KeyInv, TakeResponse
  PROVE  KeyInv'
<1> USE DEF comms, keyed, wifi
<1> DEFINE m == Head(queue)
<1>1. /\ thr.at = "idle" /\ queue # <<>> /\ m.kind \notin {"kx", "sta"} /\ queue' = Tail(queue)
      /\ phone' = (IF link = "up" THEN Heard(m) ELSE phone) /\ UNCHANGED <<link, thr, ctx, sent, saved>>
  BY DEF TakeResponse
<1>2. queue \in Seq(Message) /\ Len(queue) \in Nat
  BY QueueTyped
<1>3. /\ Len(queue') = Len(queue) - 1 /\ Len(queue) >= 1 /\ m = queue[1] 
      /\ \A i \in 1..Len(queue') : queue'[i] = queue[i + 1]
  BY <1>1, <1>2, Popped
<1> HIDE DEF m
<1>4. \A i \in 1..Len(queue') : i + 1 \in 1..Len(queue) /\ i + 1 # 1
  BY <1>2, <1>3
<1>5. 1 \in 1..Len(queue)
  BY <1>2, <1>3
<1>6. ASSUME link = "up" PROVE LinkInv'
  <2>1. LinkInv
    BY <1>6 DEF KeyInv
  <2>2. CASE m.kind = "key" /\ m.from = conn
    <3>1. phone'.kx = "have" /\ phone'.key = m.key /\ phone'.cmd = phone.cmd
      BY <1>1, <1>6, <2>2 DEF Heard, TypeInv, Phones
    <3>2. m.key = ctx /\ \A i \in 1..Len(queue) : i # 1 => ~Exchanging(queue[i])
      BY <1>3, <1>5, <2>1, <2>2 DEF LinkInv, Messages, Exchanging
    <3>3. phone.kx = "sent"
      BY <1>3, <1>5, <2>1, <2>2 DEF LinkInv, Messages, Exchanging
    <3>4. phone.cmd = Nil /\ \A i \in 1..Len(queue) : queue[i].kind # "sta"
      BY <2>1, <3>3 DEF LinkInv, Messages
    <3>5. \A i \in 1..Len(queue') : ~Exchanging(queue'[i]) /\ queue'[i].kind # "sta"
      BY <1>3, <1>4, <3>2, <3>4
    <3>6. QED
      BY <1>1, <3>1, <3>2, <3>4, <3>5 DEF LinkInv, Messages, Exchanging
  <2>3. CASE m.kind = "kxerror" /\ phone.kx = "sent"
    <3>1. phone'.kx = "no" /\ phone'.cmd = phone.cmd
      BY <1>1, <1>6, <2>3 DEF Heard, TypeInv, Phones
    <3>2. \A i \in 1..Len(queue) : i # 1 => ~Exchanging(queue[i])
      BY <1>3, <1>5, <2>1, <2>3 DEF LinkInv, Messages, Exchanging
    <3>4. phone.cmd = Nil /\ \A i \in 1..Len(queue) : queue[i].kind # "sta"
      BY <2>1, <2>3 DEF LinkInv, Messages
    <3>5. \A i \in 1..Len(queue') : ~Exchanging(queue'[i]) /\ queue'[i].kind # "sta"
      BY <1>3, <1>4, <3>2, <3>4
    <3>6. QED
      BY <1>1, <3>1, <3>4, <3>5 DEF LinkInv, Messages, Exchanging
  <2>4. CASE ~(m.kind = "key" /\ m.from = conn) /\ ~(m.kind = "kxerror" /\ phone.kx = "sent")
    <3>1. phone'.kx = phone.kx /\ phone'.key = phone.key /\ phone'.cmd = phone.cmd
      BY <1>1, <1>6, <2>4 DEF Heard, TypeInv, Phones
    <3>2. \A i \in 1..Len(queue') : \E k \in 1..Len(queue) : k = i + 1 /\ queue'[i] = queue[k]
      BY <1>3, <1>4
    <3>3. ASSUME NEW i \in 1..Len(queue'), NEW j \in 1..Len(queue'), Exchanging(queue'[i]), Exchanging(queue'[j])
          PROVE  i = j
      BY <1>3, <1>4, <2>1, <3>3 DEF LinkInv, Messages
    <3>4. QED
      BY <1>1, <2>1, <3>1, <3>2, <3>3 DEF LinkInv, Messages
  <2>5. QED
    BY <2>2, <2>3, <2>4
<1>7. ASSUME link # "up" PROVE \A i \in 1..Len(queue') : queue'[i].kind \notin {"kx", "sta"}
  BY <1>3, <1>4, <1>7 DEF KeyInv, Messages
<1>8. CommandInv' /\ SavedIsSent'
  BY <1>1 DEF KeyInv, CommandInv, SavedIsSent, Parsed
<1>9. QED
  BY <1>1, <1>6, <1>7, <1>8 DEF KeyInv, Messages

\* A command is taken with the key it was encrypted with.
LEMMA KeyTakeCommand ==
  ASSUME TypeInv, KeyInv, TakeCommand
  PROVE  KeyInv'
<1> USE DEF comms, keyed, wifi
<1> DEFINE m == Head(queue)
<1>1. /\ queue # <<>> /\ m.kind \in {"kx", "sta"} /\ queue' = Tail(queue)
      /\ thr' = [at |-> IF m.kind = "kx" THEN "kx" ELSE "decrypt", msg |-> m, key |-> ctx]
      /\ UNCHANGED <<link, ctx, phone, sent, saved>>
  BY DEF TakeCommand
<1>2. queue \in Seq(Message) /\ Len(queue) \in Nat
  BY QueueTyped
<1>3. /\ Len(queue') = Len(queue) - 1 /\ Len(queue) >= 1 /\ m = queue[1] 
      /\ \A i \in 1..Len(queue') : queue'[i] = queue[i + 1]
  BY <1>1, <1>2, Popped
<1> HIDE DEF m
<1>4. \A i \in 1..Len(queue') : i + 1 \in 1..Len(queue) /\ i + 1 # 1
  BY <1>2, <1>3
<1>5. 1 \in 1..Len(queue)
  BY <1>2, <1>3
<1>6. link = "up" /\ LinkInv
  BY <1>1, <1>3, <1>5 DEF KeyInv, Messages
<1>7. thr'.at = (IF m.kind = "kx" THEN "kx" ELSE "decrypt") /\ thr'.msg = m
  BY <1>1
<1>8. \A i \in 1..Len(queue') : \E k \in 1..Len(queue) : k = i + 1 /\ queue'[i] = queue[k]
  BY <1>3, <1>4
<1>9. ASSUME NEW i \in 1..Len(queue'), NEW j \in 1..Len(queue'), Exchanging(queue'[i]), Exchanging(queue'[j])
      PROVE  i = j
  BY <1>3, <1>4, <1>6, <1>9 DEF LinkInv, Messages
<1>10. CASE m.kind = "kx"
  <2>1. phone.kx = "sent" /\ \A i \in 1..Len(queue) : i # 1 => ~Exchanging(queue[i])
    BY <1>3, <1>5, <1>6, <1>10 DEF LinkInv, Messages, Exchanging
  <2>2. \A i \in 1..Len(queue') : ~Exchanging(queue'[i])
    BY <1>3, <1>4, <2>1
  <2>3. LinkInv'
    BY <1>1, <1>6, <1>7, <1>8, <1>10, <2>1, <2>2 DEF LinkInv, Messages, Exchanging
  <2>4. QED
    BY <1>1, <1>6, <1>7, <1>10, <2>3 DEF KeyInv, CommandInv, SavedIsSent
<1>11. CASE m.kind = "sta"
  <2>1. phone.cmd # Nil /\ m.cmd \in sent /\ m.key = ctx /\ phone.kx = "have"
    BY <1>3, <1>5, <1>6, <1>11 DEF LinkInv, Messages
  <2>2. LinkInv'
    BY <1>1, <1>6, <1>7, <1>8, <1>9, <1>11, <2>1 DEF LinkInv, Messages
  <2>3. CommandInv'
    BY <1>1, <1>7, <1>11, <2>1 DEF CommandInv
  <2>4. QED
    BY <1>1, <1>6, <2>2, <2>3 DEF KeyInv, SavedIsSent
<1>12. QED
  BY <1>1, <1>10, <1>11

\* An exchange that fails leaves its error, and no key.
LEMMA KeyFails ==
  ASSUME TypeInv, KeyInv, ExchangeFails \/ RegenerateFails
  PROVE  KeyInv'
<1> USE DEF comms, keyed, wifi
<1> DEFINE m == Verdict("kxerror")
<1>1. /\ thr.at = "kx" /\ queue' = Append(queue, m) /\ thr' = IdleThread /\ ctx' \in {ctx, Nil}
      /\ UNCHANGED <<link, phone, sent, saved>>
  BY DEF ExchangeFails, RegenerateFails, SendError, Append1
<1>2. m \in Message /\ m.kind = "kxerror" /\ queue \in Seq(Message) /\ Len(queue) \in Nat
  BY VerdictIs, QueueTyped
<1> HIDE DEF m
<1>3. /\ Len(queue') = Len(queue) + 1 /\ queue'[Len(queue) + 1].kind = "kxerror"
      /\ \A i \in 1..Len(queue) : queue'[i] = queue[i]
  BY <1>1, <1>2, Pushed
<1>4. \A i \in 1..Len(queue') : i \in 1..Len(queue) \/ i = Len(queue) + 1
  BY <1>2, <1>3
<1>5. thr'.at = "idle"
  BY <1>1 DEF IdleThread
<1>6. ASSUME link = "up" PROVE LinkInv'
  <2>1. LinkInv /\ phone.kx = "sent" /\ phone.cmd = Nil
    BY <1>1, <1>6 DEF KeyInv, LinkInv
  <2>2. \A i \in 1..Len(queue) : queue[i].kind \notin {"kx", "key", "kxerror", "sta"}
    BY <1>1, <2>1 DEF LinkInv, Messages, Exchanging
  <2>3. \A i \in 1..Len(queue') : queue'[i].kind \in {"kx", "key", "kxerror", "sta"} => i = Len(queue) + 1
    BY <1>3, <1>4, <2>2
  <2>4. QED
    BY <1>1, <1>3, <1>5, <2>1, <2>3 DEF LinkInv, Messages, Exchanging
<1>7. ASSUME link # "up" PROVE \A i \in 1..Len(queue') : queue'[i].kind \notin {"kx", "sta"}
  BY <1>3, <1>4, <1>7 DEF KeyInv, Messages
<1>8. CommandInv' /\ SavedIsSent'
  BY <1>1, <1>5 DEF KeyInv, CommandInv, SavedIsSent
<1>9. QED
  BY <1>1, <1>6, <1>7, <1>8 DEF KeyInv, Messages

LEMMA KeyRegenerate ==
  ASSUME TypeInv, KeyInv, Regenerate
  PROVE  KeyInv'
<1> USE DEF comms, keyed, wifi
<1>1. thr.at = "kx" /\ UNCHANGED <<link, queue, phone, sent, saved>>
  BY DEF Regenerate
<1>2. thr'.at = "reply" /\ thr'.key = ctx'
  BY DEF Regenerate, TypeInv, Threads
<1>3. ASSUME link = "up" PROVE LinkInv'
  <2>1. LinkInv /\ phone.kx = "sent" /\ phone.cmd = Nil
    BY <1>1, <1>3 DEF KeyInv, LinkInv
  <2>2. \A i \in 1..Len(queue) : queue[i].kind \notin {"kx", "key", "kxerror", "sta"}
    BY <1>1, <2>1 DEF LinkInv, Messages, Exchanging
  <2>3. QED
    BY <1>1, <1>2, <2>1, <2>2 DEF LinkInv, Messages, Exchanging
<1>4. CommandInv' /\ SavedIsSent'
  BY <1>1, <1>2 DEF KeyInv, CommandInv, SavedIsSent
<1>5. QED
  BY <1>1, <1>3, <1>4 DEF KeyInv, Messages

LEMMA KeyReply ==
  ASSUME TypeInv, KeyInv, Reply
  PROVE  KeyInv'
<1> USE DEF comms, keyed, wifi
<1> DEFINE k == Msg("key", thr.key, <<>>)
           m == [k EXCEPT !.from = thr.msg.from]
<1>1. /\ thr.at = "reply" /\ queue' = Append(queue, m) /\ thr' = IdleThread
      /\ UNCHANGED <<link, ctx, phone, sent, saved>>
  BY DEF Reply, Append1
<1>2. m \in Message /\ m.kind = "key" /\ m.key = thr.key
  <2>1. thr.msg \in Message /\ thr.key \in Keys \cup {Nil} /\ conn \in 0..MaxConns
    BY <1>1 DEF TypeInv, TypeOK, Threads
  <2>2. k \in Message /\ k.kind = "key" /\ k.key = thr.key /\ thr.msg.from \in 0..MaxConns
    <3>1. "key" \in Kinds
      BY DEF Kinds
    <3>2. QED
      BY <2>1, <3>1, BareIs, MessageIs
  <2> HIDE DEF k
  <2>3. QED
    BY <2>2 DEF Message
<1>3. queue \in Seq(Message) /\ Len(queue) \in Nat
  BY QueueTyped
<1> HIDE DEF m
<1>4. /\ Len(queue') = Len(queue) + 1 /\ queue'[Len(queue) + 1] = m
      /\ \A i \in 1..Len(queue) : queue'[i] = queue[i]
  BY <1>1, <1>2, <1>3, Pushed
<1>5. \A i \in 1..Len(queue') : i \in 1..Len(queue) \/ i = Len(queue) + 1
  BY <1>3, <1>4
<1>6. thr'.at = "idle"
  BY <1>1 DEF IdleThread
<1>7. ASSUME link = "up" PROVE LinkInv'
  <2>1. LinkInv /\ phone.kx = "sent" /\ phone.cmd = Nil /\ thr.key = ctx
    BY <1>1, <1>7 DEF KeyInv, LinkInv
  <2>2. \A i \in 1..Len(queue) : queue[i].kind \notin {"kx", "key", "kxerror", "sta"}
    BY <1>1, <2>1 DEF LinkInv, Messages, Exchanging
  <2>3. \A i \in 1..Len(queue') : queue'[i].kind \in {"kx", "key", "kxerror", "sta"} => i = Len(queue) + 1
    BY <1>4, <1>5, <2>2
  <2>4. QED
    BY <1>1, <1>2, <1>4, <1>6, <2>1, <2>3 DEF LinkInv, Messages, Exchanging
<1>8. ASSUME link # "up" PROVE \A i \in 1..Len(queue') : queue'[i].kind \notin {"kx", "sta"}
  BY <1>2, <1>4, <1>5, <1>8 DEF KeyInv, Messages
<1>9. CommandInv' /\ SavedIsSent'
  BY <1>1, <1>6 DEF KeyInv, CommandInv, SavedIsSent
<1>10. QED
  BY <1>1, <1>7, <1>8, <1>9 DEF KeyInv, Messages

\* The key a command was encrypted with is the context's, or there is none.
LEMMA KeyCommand ==
  ASSUME TypeInv, KeyInv, Decrypt \/ DecryptTorn \/ Refuse \/ Join \/ Save \/ SaveTorn
  PROVE  KeyInv'
<1> USE DEF comms, keyed, wifi, join, delay
<1>1. ASSUME NEW at \in {"parse", "save"}, thr' = [thr EXCEPT !.at = at], thr.msg.cmd \in sent,
             at = "save" => Parsed.join = 1, thr.at \in {"decrypt", "parse"},
             UNCHANGED <<link, queue, ctx, phone, sent, saved>>
      PROVE  KeyInv'
  <2>1. thr'.at = at /\ thr'.msg = thr.msg
    BY <1>1 DEF TypeInv, Threads
  <2>2. CommandInv'
    BY <1>1, <2>1 DEF CommandInv, Parsed
  <2>3. LinkInv => LinkInv'
    BY <1>1, <2>1 DEF LinkInv, Messages
  <2>4. QED
    BY <1>1, <2>2, <2>3 DEF KeyInv, SavedIsSent, Messages
<1>2. ASSUME Decrypt PROVE KeyInv'
  <2>1. thr.key = thr.msg.key /\ thr.msg.cmd \in sent
    BY <1>2 DEF Decrypt, KeyInv, CommandInv
  <2>2. thr' = [thr EXCEPT !.at = "parse"] /\ thr.at = "decrypt" /\ UNCHANGED <<link, queue, ctx, phone, sent, saved>>
    BY <1>2, <2>1 DEF Decrypt
  <2>3. QED
    BY <1>1, <2>1, <2>2
<1>3. ASSUME DecryptTorn PROVE KeyInv'
  BY <1>3, KeyFrame DEF DecryptTorn
<1>4. ASSUME Refuse PROVE KeyInv'
  BY <1>4, KeyVerdict DEF Refuse, SendError, Append1
<1>5. ASSUME Join PROVE KeyInv'
  BY <1>1, <1>5 DEF Join, KeyInv, CommandInv
<1>6. ASSUME Save PROVE KeyInv'
  <2>1. /\ thr.at = "save" /\ thr' = IdleThread /\ UNCHANGED <<link, queue, ctx, phone, sent>>
        /\ saved' = saved \/ \E v \in Texts(Parsed.ssid, SsidSize), w \in Texts(Parsed.password, PasswordSize) :
                               saved' = [ssid |-> v, password |-> w]
    BY <1>6 DEF Save
  <2>2. thr.msg.cmd \in sent /\ Parsed.join = 1
    BY <2>1 DEF KeyInv, CommandInv
  <2>3. /\ Wanted(thr.msg.cmd).join = 1
        /\ Texts(Parsed.ssid, SsidSize) \subseteq Wanted(thr.msg.cmd).ssid
        /\ Texts(Parsed.password, PasswordSize) \subseteq Wanted(thr.msg.cmd).password
    <3>1. thr.msg.cmd \in Seq(Item)
      BY <2>2, ProvisionAssumption DEF TypeInv, TypeOK
    <3>2. QED
      BY <2>2, <3>1, ReceivedIsWanted DEF Parsed
  <2>4. SavedIsSent'
    <3>1. CASE saved' = saved
      BY <2>1, <3>1 DEF KeyInv, SavedIsSent
    <3>2. ASSUME NEW v \in Texts(Parsed.ssid, SsidSize), NEW w \in Texts(Parsed.password, PasswordSize),
                 saved' = [ssid |-> v, password |-> w]
          PROVE  SavedIsSent'
      <4>1. saved'.ssid = v /\ saved'.password = w
        BY <3>2
      <4>2. QED
        BY <2>1, <2>2, <2>3, <4>1 DEF SavedIsSent
    <3>3. QED
      BY <2>1, <3>1, <3>2
  <2>5. thr'.at = "idle"
    BY <2>1 DEF IdleThread
  <2>6. LinkInv => LinkInv'
    BY <2>1, <2>5 DEF LinkInv, Messages
  <2>7. QED
    BY <2>1, <2>4, <2>5, <2>6 DEF KeyInv, CommandInv, Messages
<1>8. ASSUME SaveTorn PROVE KeyInv'
  BY <1>8, KeyFrame DEF SaveTorn
<1>7. QED
  BY <1>2, <1>3, <1>4, <1>5, <1>6, <1>8

LEMMA KeyHandlers ==
  ASSUME TypeInv, KeyInv, WorkClose \/ Attempt \/ Lose \/ Handlers
  PROVE  KeyInv'
<1> USE DEF comms, keyed, wifi
<1>1. ASSUME DisconnectedReport \/ SendIp PROVE KeyInv'
  BY <1>1, KeyVerdict DEF DisconnectedReport, SendIp, SendError, Append1
<1>2. CASE WorkClose \/ Attempt \/ Lose
  BY <1>2, KeyFrame DEF WorkClose, Attempt, Lose
<1>3. CASE DisconnectedUnheard \/ DisconnectedSkip \/ DisconnectedRetry \/ Count
  BY <1>3, KeyFrame DEF DisconnectedUnheard, DisconnectedSkip, DisconnectedRetry, Count
<1>4. CASE GotIpUnheard \/ GotIp \/ SendIpTorn
  BY <1>4, KeyFrame DEF GotIpUnheard, GotIp, SendIpTorn
<1>5. QED
  BY <1>1, <1>2, <1>3, <1>4 DEF Handlers

LEMMA KeyInit == Init => KeyInv
<1>1. SUFFICES ASSUME Init
               PROVE  KeyInv
  OBVIOUS
<1>2. link = "down" /\ Messages = {} /\ thr.at = "idle" /\ saved = Nil
  BY <1>1, NoItems DEF Init, Messages, IdleThread
<1>3. QED
  BY <1>2 DEF KeyInv, CommandInv, SavedIsSent

LEMMA KeyStep == TypeInv /\ KeyInv /\ [Next]_vars => KeyInv'
<1>1. SUFFICES ASSUME TypeInv, KeyInv, [Next]_vars
               PROVE  KeyInv'
  OBVIOUS
<1>2. CASE UNCHANGED vars
  BY <1>1, <1>2, KeyFrame DEF vars, comms, keyed, wifi
<1>3. CASE Next
  BY <1>1, <1>3, KeyLink, KeyPhoneExchange, KeyPhoneCommand, KeyTakeResponse, KeyTakeCommand, KeyFails,
     KeyRegenerate, KeyReply, KeyCommand, KeyHandlers
     DEF Next, Thread
<1>4. QED
  BY <1>1, <1>2, <1>3

\* Whatever is saved is what some phone sent, of each type the last item that
\* fits: no padding, no key of an earlier exchange and no message of an earlier
\* connection changes it.  Only behind a longer item of its type, or when one
\* fills its array, may the text be another.  (wlan_config_process,
\* wps_proto_rx_process, save_config.)
THEOREM ConfigIsSent == Spec => []SavedIsSent
<1>1. Spec => [](TypeInv /\ KeyInv)
  BY TypeInit, TypeStep, KeyInit, KeyStep, PTL DEF Spec
<1>2. KeyInv => SavedIsSent
  BY DEF KeyInv
<1>3. QED
  BY <1>1, <1>2, PTL

=============================================================================
