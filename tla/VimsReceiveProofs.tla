------------------------- MODULE VimsReceiveProofs --------------------------
(***************************************************************************)
(* Proofs about VimsReceive: what reaches the server in whole messages is  *)
(* executed once and in order, whatever the shared buffer still holds, and *)
(* no connection is closed without a reason.                               *)
(*                                                                         *)
(* The first part is about what the clients send and about the walk        *)
(* through the buffer: induction over numbers, from the well-foundedness   *)
(* of <.  The second part is about the steps of the server.                *)
(***************************************************************************)
EXTENDS VimsReceive, FiniteSetTheorems, NaturalsInduction, WellFoundedInduction, TLAPS

(* A set of numbers has a least element ...                                *)
LEMMA LeastNumber ==
  ASSUME NEW T, T \subseteq Nat, T # {}
  PROVE  \E x \in T : \A y \in T : x <= y
<1> DEFINE R == {ss \in Nat \X Nat : ss[1] < ss[2]}
<1>1. IsWellFoundedOn(R, Nat)
  BY NatLessThanWellFounded DEF OpToRel
<1>2. \A x, y \in Nat : x < y => <<x, y>> \in R
  OBVIOUS
<1> HIDE DEF R
<1>3. PICK x \in T : \A y \in T : <<y, x>> \notin R
  BY <1>1, WFMin
<1>4. \A y \in T : x <= y
  <2> TAKE y \in T
  <2>1. x \in Nat /\ y \in Nat /\ <<y, x>> \notin R
    BY <1>3
  <2>2. ~(y < x)
    BY <1>2, <2>1, SMT
  <2> QED BY <2>1, <2>2
<1> QED BY <1>4

(* ... and a set with 0 and every successor is all of them.                *)
LEMMA AllNumbers ==
  ASSUME NEW T, 0 \in T, \A n \in Nat : n \in T => n + 1 \in T
  PROVE  Nat \subseteq T
<1> SUFFICES ASSUME NEW k \in Nat, k \notin T
             PROVE  FALSE
  OBVIOUS
<1> DEFINE U == {n \in Nat : n \notin T}
<1>1. U \subseteq Nat /\ U # {}
  OBVIOUS
<1>2. PICK n \in U : \A m \in U : n <= m
  <2> HIDE DEF U
  <2> QED BY <1>1, LeastNumber
<1>3. n \in Nat /\ n # 0 /\ n \notin T /\ n - 1 \in Nat /\ n - 1 \in T
  BY <1>2
<1> QED BY <1>3

(* The least of a set of numbers.                                          *)
LEMMA MinFact ==
  ASSUME NEW T, T \subseteq Nat, T # {}
  PROVE  Min(T) \in T /\ \A y \in T : Min(T) <= y
BY LeastNumber DEF Min

(* The function that adds up numbers exists.                               *)
LEMMA SumExists ==
  ASSUME NEW K \in Nat, NEW size \in [1 .. K -> Nat]
  PROVE  \E g \in [0 .. K -> Nat] : g = [k \in 0 .. K |-> IF k = 0 THEN 0 ELSE g[k - 1] + size[k]]
<1> DEFINE Sums(n, g) == g \in [0 .. n -> Nat] /\ g[0] = 0 /\ \A k \in 1 .. n : g[k] = g[k - 1] + size[k]
           T == {n \in Nat : n <= K => \E g : Sums(n, g)}
<1>1. 0 \in T
  <2>1. Sums(0, [k \in 0 .. 0 |-> 0])
    OBVIOUS
  <2> QED BY <2>1
<1>2. ASSUME NEW n \in Nat, n \in T, n + 1 <= K
      PROVE  n + 1 \in T
  <2>1. PICK g : Sums(n, g)
    BY <1>2
  <2> DEFINE h == [k \in 0 .. n + 1 |-> IF k = n + 1 THEN g[n] + size[n + 1] ELSE g[k]]
  <2>2. size[n + 1] \in Nat /\ g[n] \in Nat
    BY <1>2, <2>1
  <2>3. h \in [0 .. n + 1 -> Nat] /\ h[0] = 0
    BY <2>1, <2>2
  <2>4. ASSUME NEW k \in 1 .. n + 1
        PROVE  h[k] = h[k - 1] + size[k]
    <3>1. CASE k = n + 1
      <4>1. h[k] = g[n] + size[n + 1] /\ h[k - 1] = g[n]
        BY <3>1
      <4> QED BY <3>1, <4>1
    <3>2. CASE k # n + 1
      <4>1. k \in 1 .. n /\ h[k] = g[k] /\ h[k - 1] = g[k - 1]
        BY <3>2
      <4> QED BY <2>1, <4>1
    <3> QED BY <3>1, <3>2
  <2>5. Sums(n + 1, h)
    BY <2>3, <2>4
  <2> HIDE DEF Sums, h
  <2> QED BY <2>5
<1>3. Nat \subseteq T
  <2>1. \A n \in Nat : n \in T => n + 1 \in T
    <3> SUFFICES ASSUME NEW n \in Nat, n \in T
                 PROVE  n + 1 \in T
      OBVIOUS
    <3>1. CASE n + 1 <= K
      BY <1>2, <3>1
    <3>2. CASE ~(n + 1 <= K)
      BY <3>2
    <3> QED BY <3>1, <3>2
  <2> HIDE DEF T
  <2> QED BY <1>1, <2>1, AllNumbers
<1>4. K \in T
  <2> HIDE DEF T
  <2> QED BY <1>3
<1>5. PICK g : Sums(K, g)
  <2> HIDE DEF Sums
  <2> QED BY <1>4
<1>6. g = [k \in 0 .. K |-> IF k = 0 THEN 0 ELSE g[k - 1] + size[k]]
  BY <1>5
<1> QED BY <1>5, <1>6

-----------------------------------------------------------------------------
(* The messages of a client.                                               *)
LEMMA ScriptFact ==
  ASSUME NEW c \in Clients
  PROVE  /\ Len(Script[c]) \in Nat /\ Numbers(c) = 1 .. Len(Script[c])
         /\ \A m \in Numbers(c) : /\ Script[c][m] \in [kind : Kinds, len : Nat] /\ Script[c][m].len > 2
                                 /\ Script[c][m].kind \in Kinds /\ Script[c][m].len \in Nat
<1> DEFINE M == [kind : Kinds, len : Nat]
<1>1. Script[c] \in Seq(M)
  BY ScriptAssumption
<1>2. Len(Script[c]) \in Nat /\ Numbers(c) = 1 .. Len(Script[c])
      /\ \A m \in Numbers(c) : Script[c][m] \in M
  <2> HIDE DEF M
  <2> QED BY <1>1 DEF Numbers
<1> QED BY <1>2, ScriptAssumption

(* Where messages end: each after the one before it.                       *)
LEMMA EndsFact ==
  ASSUME NEW c \in Clients
  PROVE  /\ \A k \in 0 .. Len(Script[c]) : EndOf(c, k) \in Nat
         /\ EndOf(c, 0) = 0
         /\ \A k \in Numbers(c) : EndOf(c, k) = EndOf(c, k - 1) + Script[c][k].len
<1> DEFINE K == Len(Script[c])
           size == [k \in 1 .. K |-> Script[c][k].len]
           end == Ends[c]
<1>1. K \in Nat /\ Numbers(c) = 1 .. K /\ size \in [1 .. K -> Nat]
  BY ScriptFact
<1>2. end = CHOOSE e : e = [k \in 0 .. K |-> IF k = 0 THEN 0 ELSE e[k - 1] + Script[c][k].len]
  BY Zenon DEF Ends
<1>3. PICK g \in [0 .. K -> Nat] : g = [k \in 0 .. K |-> IF k = 0 THEN 0 ELSE g[k - 1] + size[k]]
  <2> HIDE DEF K, size
  <2> QED BY <1>1, SumExists
<1>4. g = [k \in 0 .. K |-> IF k = 0 THEN 0 ELSE g[k - 1] + Script[c][k].len]
  <2>1. [k \in 0 .. K |-> IF k = 0 THEN 0 ELSE g[k - 1] + size[k]]
        = [k \in 0 .. K |-> IF k = 0 THEN 0 ELSE g[k - 1] + Script[c][k].len]
    BY <1>1
  <2> QED BY <1>3, <2>1
<1>5. end = [k \in 0 .. K |-> IF k = 0 THEN 0 ELSE end[k - 1] + Script[c][k].len]
  <2> HIDE DEF end, K
  <2> QED BY <1>2, <1>4, Zenon
<1> HIDE DEF end
<1>6. /\ end[0] = 0
      /\ \A k \in 1 .. K : end[k] = end[k - 1] + Script[c][k].len
  <2> HIDE DEF K
  <2> QED BY <1>1, <1>5
<1>7. \A k \in 0 .. K : end[k] \in Nat
  <2> DEFINE T == {n \in Nat : n <= K => end[n] \in Nat}
  <2>1. 0 \in T
    BY <1>6
  <2>2. \A n \in Nat : n \in T => n + 1 \in T
    <3> SUFFICES ASSUME NEW n \in Nat, n \in T, n + 1 <= K
                 PROVE  end[n + 1] \in Nat
      OBVIOUS
    <3>1. end[n] \in Nat /\ size[n + 1] \in Nat /\ size[n + 1] = Script[c][n + 1].len
      BY <1>1
    <3>2. n + 1 \in 1 .. K
      BY <1>1
    <3>3. end[n + 1] = end[n] + Script[c][n + 1].len
      BY <1>6, <3>2
    <3> QED BY <3>1, <3>3
  <2>3. Nat \subseteq T
    <3> HIDE DEF T
    <3> QED BY <2>1, <2>2, AllNumbers
  <2> QED BY <1>1, <2>3
<1> QED BY <1>1, <1>6, <1>7 DEF EndOf, end

LEMMA EndsApart ==
  ASSUME NEW c \in Clients
  PROVE  \A k \in 0 .. Len(Script[c]) : \A j \in 0 .. k - 1 :
           EndOf(c, j) + Script[c][j + 1].len <= EndOf(c, k)
<1> DEFINE K == Len(Script[c])
           T == {n \in Nat : n <= K => \A j \in 0 .. n - 1 : EndOf(c, j) + Script[c][j + 1].len <= EndOf(c, n)}
<1>1. 0 \in T
  OBVIOUS
<1>2. \A n \in Nat : n \in T => n + 1 \in T
  <2> SUFFICES ASSUME NEW n \in Nat, n \in T, n + 1 <= K, NEW j \in 0 .. n
               PROVE  EndOf(c, j) + Script[c][j + 1].len <= EndOf(c, n + 1)
    OBVIOUS
  <2>0. n <= K => \A i \in 0 .. n - 1 : EndOf(c, i) + Script[c][i + 1].len <= EndOf(c, n)
    OBVIOUS
  <2>1. /\ n + 1 \in Numbers(c) /\ n \in 0 .. K /\ j \in 0 .. K /\ j + 1 \in Numbers(c)
        /\ n + 1 - 1 = n
    BY ScriptFact
  <2>2. /\ EndOf(c, n) \in Nat /\ Script[c][n + 1].len \in Nat /\ Script[c][n + 1].len > 2
        /\ EndOf(c, n + 1) = EndOf(c, n) + Script[c][n + 1].len /\ EndOf(c, j) \in Nat
        /\ Script[c][j + 1].len \in Nat
    BY <2>1, ScriptFact, EndsFact
  <2>3. CASE j = n
    BY <2>2, <2>3
  <2>4. CASE j # n
    <3>1. n <= K /\ j \in 0 .. n - 1
      BY <2>1, <2>4
    <3>2. EndOf(c, j) + Script[c][j + 1].len <= EndOf(c, n)
      <4> HIDE DEF T, K
      <4> QED BY <2>0, <3>1
    <3> HIDE DEF T, K
    <3> QED BY <2>2, <3>2
  <2> QED BY <2>3, <2>4
<1>3. Nat \subseteq T
  <2> HIDE DEF T
  <2> QED BY <1>1, <1>2, AllNumbers
<1> QED BY <1>3, ScriptFact

LEMMA EndsGrow ==
  ASSUME NEW c \in Clients, NEW j \in 0 .. Len(Script[c]), NEW k \in 0 .. Len(Script[c])
  PROVE  /\ EndOf(c, j) \in Nat /\ EndOf(c, k) \in Nat
         /\ j < k => EndOf(c, j) + Script[c][j + 1].len <= EndOf(c, k) /\ EndOf(c, j) + 3 <= EndOf(c, k)
         /\ j <= k <=> EndOf(c, j) <= EndOf(c, k)
         /\ j = k <=> EndOf(c, j) = EndOf(c, k)
<1>1. EndOf(c, j) \in Nat /\ EndOf(c, k) \in Nat /\ Len(Script[c]) \in Nat
  BY EndsFact, ScriptFact
<1>2. ASSUME NEW i \in 0 .. Len(Script[c]), NEW l \in 0 .. Len(Script[c]), i < l
      PROVE  EndOf(c, i) + Script[c][i + 1].len <= EndOf(c, l) /\ EndOf(c, i) + 3 <= EndOf(c, l)
  <2>1. i \in 0 .. l - 1 /\ i + 1 \in Numbers(c)
    BY <1>1, <1>2, ScriptFact
  <2>2. EndOf(c, i) + Script[c][i + 1].len <= EndOf(c, l)
    BY <2>1, EndsApart
  <2>3. Script[c][i + 1].len \in Nat /\ Script[c][i + 1].len > 2 /\ EndOf(c, i) \in Nat /\ EndOf(c, l) \in Nat
    BY <2>1, ScriptFact, EndsFact
  <2> QED BY <2>2, <2>3
<1>3. CASE j < k
  BY <1>1, <1>2, <1>3
<1>4. CASE k < j
  BY <1>1, <1>2, <1>4
<1>5. CASE j = k
  BY <1>1, <1>5
<1> QED BY <1>1, <1>3, <1>4, <1>5

(* Every cell on the wire belongs to the message that ends next.           *)
LEMMA WireFact ==
  ASSUME NEW c \in Clients, NEW m \in Numbers(c), NEW q \in 1 .. Script[c][m].len
  PROVE  /\ EndOf(c, m - 1) + q \in 1 .. EndOf(c, Len(Script[c]))
         /\ Wire[c][EndOf(c, m - 1) + q] = <<c, m, q>>
<1> DEFINE p == EndOf(c, m - 1) + q
           K == Len(Script[c])
<1>1. K \in Nat /\ m \in 1 .. K /\ m - 1 \in 0 .. K /\ m \in 0 .. K /\ K \in 0 .. K /\ Numbers(c) = 1 .. K
  BY ScriptFact
<1>2. EndOf(c, m - 1) \in Nat /\ EndOf(c, m) \in Nat /\ EndOf(c, K) \in Nat
      /\ Script[c][m].len \in Nat /\ EndOf(c, m) = EndOf(c, m - 1) + Script[c][m].len /\ EndOf(c, m) <= EndOf(c, K)
  BY <1>1, ScriptFact, EndsFact, EndsGrow
<1>3. p \in 1 .. EndOf(c, K) /\ EndOf(c, m - 1) < p /\ p <= EndOf(c, m)
  BY <1>2
<1>4. ASSUME NEW l \in Numbers(c), EndOf(c, l - 1) < p, p <= EndOf(c, l)
      PROVE  l = m
  <2>1. l \in 0 .. K /\ l - 1 \in 0 .. K /\ l \in Int /\ m \in Int
    BY <1>1
  <2>2. EndOf(c, l - 1) \in Nat /\ EndOf(c, l) \in Nat
    BY <2>1, EndsFact
  <2>3. ~(l <= m - 1)
    <3>1. l <= m - 1 => EndOf(c, l) <= EndOf(c, m - 1)
      BY <1>1, <2>1, EndsGrow
    <3> QED BY <1>2, <1>3, <1>4, <2>2, <3>1
  <2>4. ~(m <= l - 1)
    <3>1. m <= l - 1 => EndOf(c, m) <= EndOf(c, l - 1)
      BY <1>1, <2>1, EndsGrow
    <3> QED BY <1>2, <1>3, <1>4, <2>2, <3>1
  <2> QED BY <2>1, <2>3, <2>4
<1>5. MessageOf(c, p) = m
  <2> HIDE DEF p
  <2> QED BY <1>3, <1>4 DEF MessageOf
<1>6. Wire[c][p] = <<c, m, p - EndOf(c, m - 1)>>
  BY <1>3, <1>5 DEF Wire
<1> QED BY <1>2, <1>3, <1>6

(* ... and is the cell of one message: the least that ends behind it.      *)
LEMMA WirePlace ==
  ASSUME NEW c \in Clients, NEW p \in 1 .. EndOf(c, Len(Script[c]))
  PROVE  \E m \in Numbers(c) :
           /\ p - EndOf(c, m - 1) \in 1 .. Script[c][m].len /\ EndOf(c, m - 1) \in Nat
           /\ Wire[c][p] = <<c, m, p - EndOf(c, m - 1)>>
<1> DEFINE K == Len(Script[c])
           T == {m \in Nat : m <= K /\ p <= EndOf(c, m)}
<1>1. K \in Nat /\ EndOf(c, K) \in Nat /\ Numbers(c) = 1 .. K
  BY ScriptFact, EndsFact
<1>2. K \in T /\ T \subseteq Nat
  BY <1>1
<1>3. PICK m \in T : \A l \in T : m <= l
  <2> HIDE DEF T
  <2> QED BY <1>2, LeastNumber
<1>4. m \in Nat /\ m <= K /\ p <= EndOf(c, m) /\ m # 0 /\ m - 1 \in Nat /\ m - 1 \notin T
  BY <1>3, EndsFact
<1>5. ~(p <= EndOf(c, m - 1)) /\ m \in Numbers(c)
  BY <1>1, <1>4
<1>6. EndOf(c, m - 1) \in Nat /\ EndOf(c, m) = EndOf(c, m - 1) + Script[c][m].len /\ Script[c][m].len \in Nat
  <2>1. m - 1 \in 0 .. K
    BY <1>4, <1>1
  <2> QED BY <1>5, <2>1, EndsFact, ScriptFact
<1> HIDE DEF T
<1>7. p - EndOf(c, m - 1) \in 1 .. Script[c][m].len /\ p = EndOf(c, m - 1) + (p - EndOf(c, m - 1))
  BY <1>4, <1>5, <1>6
<1>8. Wire[c][p] = <<c, m, p - EndOf(c, m - 1)>>
  BY <1>5, <1>7, WireFact
<1> QED BY <1>5, <1>6, <1>7, <1>8

LEMMA WireType ==
  ASSUME NEW c \in Clients
  PROVE  Wire[c] \in Seq(Cell) /\ Len(Wire[c]) = EndOf(c, Len(Script[c]))
<1> DEFINE K == Len(Script[c])
<1>1. K \in Nat /\ EndOf(c, K) \in Nat
  BY ScriptFact, EndsFact
<1>2. Wire[c] = [p \in 1 .. EndOf(c, K) |-> Wire[c][p]]
  BY DEF Wire
<1>3. ASSUME NEW p \in 1 .. EndOf(c, K)
      PROVE  Wire[c][p] \in Cell
  <2>1. PICK m \in Numbers(c) : /\ p - EndOf(c, m - 1) \in 1 .. Script[c][m].len
                               /\ Wire[c][p] = <<c, m, p - EndOf(c, m - 1)>>
    BY WirePlace
  <2>2. Wire[c][p] \in Range(Cells(c, m))
    BY <2>1 DEF Cells, Range
  <2> QED BY <2>2 DEF Cell
<1>4. Wire[c] \in [1 .. EndOf(c, K) -> Cell]
  BY <1>2, <1>3
<1> HIDE DEF K
<1>5. Wire[c] \in Seq(Cell) /\ Len(Wire[c]) = EndOf(c, K)
  BY <1>1, <1>4
<1> QED BY <1>5 DEF K

LEMMA CellFact ==
  ASSUME NEW x \in Cell
  PROVE  /\ x[1] \in Clients /\ x[2] \in Numbers(x[1]) /\ x[3] \in 1 .. Message(x).len
         /\ x = <<x[1], x[2], x[3]>> /\ x # Blank
         /\ Message(x).len \in Nat /\ Message(x).len > 2 /\ Message(x).kind \in Kinds
<1>0. PICK c \in Clients : \E m \in Numbers(c) : x \in Range(Cells(c, m))
  BY DEF Cell
<1>1. PICK m \in Numbers(c) : x \in Range(Cells(c, m))
  BY <1>0
<1>2. PICK q \in 1 .. Script[c][m].len : x = <<c, m, q>>
  BY <1>1 DEF Cells, Range
<1>3. m \in Nat /\ Script[c][m].len \in Nat /\ Script[c][m].len > 2 /\ Script[c][m].kind \in Kinds
  BY ScriptFact
<1>4. x \in Clients \X Nat \X Nat
  BY <1>2, <1>3
<1> QED BY <1>2, <1>3, <1>4, SizeAssumption DEF Message

LEMMA WholeFact ==
  ASSUME NEW c \in Clients, NEW n \in 0 .. Len(Script[c])
  PROVE  Whole(c, EndOf(c, n)) = n
<1>1. Len(Script[c]) \in Nat /\ Numbers(c) = 1 .. Len(Script[c])
  BY ScriptFact
<1>2. \A m \in Numbers(c) : EndOf(c, m) <= EndOf(c, n) <=> m <= n
  <2> TAKE m \in Numbers(c)
  <2>1. m \in 0 .. Len(Script[c])
    BY <1>1
  <2> QED BY <2>1, EndsGrow
<1>3. {m \in Numbers(c) : EndOf(c, m) <= EndOf(c, n)} = 1 .. n
  BY <1>1, <1>2
<1>4. Cardinality(1 .. n) = n
  <2>1. n \in Int /\ 1 \in Int /\ (IF 1 > n THEN 0 ELSE n - 1 + 1) = n
    BY <1>1
  <2> QED BY <2>1, FS_Interval
<1> QED BY <1>3, <1>4 DEF Whole

-----------------------------------------------------------------------------
(* A walk that goes forward ends: the function that describes it exists.   *)
LEMMA WalkExists ==
  ASSUME NEW n \in Nat \ {0}, NEW good \in SUBSET (1 .. n - 1),
         NEW next \in [good -> 1 .. n], \A i \in good : i < next[i]
  PROVE  \E g \in [1 .. n -> Seq(Nat)] :
           g = [i \in 1 .. n |-> IF i = n THEN <<>> ELSE IF i \notin good THEN <<0>> ELSE <<i>> \o g[next[i]]]
<1> DEFINE Step(g, i) == IF i = n THEN <<>> ELSE IF i \notin good THEN <<0>> ELSE <<i>> \o g[next[i]]
           Walk(d, g) == g \in [n - d .. n -> Seq(Nat)] /\ \A i \in n - d .. n : g[i] = Step(g, i)
           T == {d \in Nat : d < n => \E g : Walk(d, g)}
<1>1. 0 \in T
  <2> DEFINE g == [i \in n - 0 .. n |-> <<>>]
  <2>1. <<>> \in Seq(Nat)
    OBVIOUS
  <2>2. g \in [n - 0 .. n -> Seq(Nat)] /\ \A i \in n - 0 .. n : i = n /\ g[i] = <<>>
    BY <2>1
  <2>3. Walk(0, g)
    BY <2>2
  <2> HIDE DEF Walk, g
  <2> QED BY <2>3
<1>2. ASSUME NEW d \in Nat, d \in T, d + 1 < n
      PROVE  d + 1 \in T
  <2>1. PICK g : Walk(d, g)
    <3> HIDE DEF Walk
    <3> QED BY <1>2
  <2> DEFINE a == n - (d + 1)
             new == IF a \notin good THEN <<0>> ELSE <<a>> \o g[next[a]]
             h == [i \in a .. n |-> IF i = a THEN new ELSE g[i]]
  <2>2. a \in 1 .. n - 1 /\ a + 1 = n - d /\ a \in Nat
    BY <1>2
  <2>3. a \in good => next[a] \in n - d .. n
    BY <2>2
  <2>4. new \in Seq(Nat)
    <3>1. CASE a \in good
      <4>1. g[next[a]] \in Seq(Nat)
        BY <2>1, <2>3, <3>1
      <4>2. <<a>> \in Seq(Nat)
        BY <2>2
      <4> QED BY <3>1, <4>1, <4>2
    <3>2. CASE a \notin good
      BY <3>2
    <3> QED BY <3>1, <3>2
  <2>5. \A i \in a .. n : i # a => i \in n - d .. n
    BY <2>2
  <2> HIDE DEF a, new
  <2>6. h \in [a .. n -> Seq(Nat)]
    BY <2>1, <2>4, <2>5
  <2>7. ASSUME NEW i \in a .. n
        PROVE  h[i] = Step(h, i)
    <3>0. \A j \in n - d .. n : j \in a .. n /\ j # a /\ h[j] = g[j]
      BY <2>2 DEF a
    <3>1. CASE i = a
      <4>1. h[i] = new /\ i # n
        BY <2>2, <3>1
      <4>2. a \in good => h[next[a]] = g[next[a]]
        BY <2>3, <3>0
      <4> HIDE DEF h
      <4> QED BY <3>1, <4>1, <4>2 DEF new
    <3>2. CASE i # a
      <4>1. i \in n - d .. n /\ h[i] = g[i] /\ g[i] = Step(g, i)
        BY <2>1, <2>5, <3>0, <3>2
      <4>2. i \in good => next[i] \in n - d .. n
        BY <4>1, <1>2
      <4>3. i \in good => h[next[i]] = g[next[i]]
        BY <3>0, <4>2
      <4> HIDE DEF h
      <4> QED BY <4>1, <4>3
    <3> QED BY <3>1, <3>2
  <2>8. Walk(d + 1, h)
    <3> HIDE DEF Step, h
    <3> QED BY <2>6, <2>7 DEF a
  <2> HIDE DEF Walk, h
  <2> QED BY <2>8
<1>3. Nat \subseteq T
  <2> HIDE DEF Walk
  <2>1. \A d \in Nat : d \in T => d + 1 \in T
    <3> SUFFICES ASSUME NEW d \in Nat, d \in T
                 PROVE  d + 1 \in T
      OBVIOUS
    <3>1. CASE d + 1 < n
      BY <1>2, <3>1
    <3>2. CASE ~(d + 1 < n)
      BY <3>2
    <3> QED BY <3>1, <3>2
  <2> HIDE DEF T
  <2> QED BY <1>1, <2>1, AllNumbers
<1>4. n - 1 \in T /\ n - 1 \in Nat /\ n - 1 < n /\ n - (n - 1) = 1
  <2> HIDE DEF T
  <2> QED BY <1>3
<1>5. PICK g : Walk(n - 1, g)
  <2> HIDE DEF Walk
  <2> QED BY <1>4
<1>6. g \in [1 .. n -> Seq(Nat)] /\ \A i \in 1 .. n : g[i] = Step(g, i)
  <2> HIDE DEF Step
  <2> QED BY <1>4, <1>5
<1>7. g = [i \in 1 .. n |-> Step(g, i)]
  <2> HIDE DEF Step
  <2> QED BY <1>6
<1> QED BY <1>6, <1>7

(* The first byte of what fits starts a message, and LenAt is its length.  *)
LEMMA FitsFact ==
  ASSUME buf \in Seq(Cell), NEW i \in Nat, Fits(i)
  PROVE  LenAt(i) \in Nat /\ LenAt(i) > 2
<1>1. At(i + 1) # Blank
  BY DEF Fits, IsHeader
<1>2. At(i + 1) \in Cell
  BY <1>1 DEF At
<1> QED BY <1>2, CellFact DEF LenAt

(* The function that the definition of Found speaks of exists.             *)
NextStart(i) == Min({i + LenAt(i), received})
IsWalk(g) ==
  /\ g[received] = <<>>
  /\ \A i \in 1 .. received - 1 :
       /\ ~Fits(i) => g[i] = <<0>>
       /\ Fits(i) => g[i] = <<i>> \o g[NextStart(i)]

LEMMA FoundUnfolds ==
  ASSUME buf \in Seq(Cell), received \in 1 .. Len(buf)
  PROVE  \E g : Found = g[1] /\ IsWalk(g)
<1> DEFINE good == {i \in 1 .. received - 1 : Fits(i)}
           next == [i \in good |-> NextStart(i)]
           f == CHOOSE from : from = [i \in 1 .. received |->
                  IF i = received THEN <<>>
                  ELSE IF ~Fits(i) THEN <<0>> ELSE <<i>> \o from[Min({i + LenAt(i), received})]]
<1>1. Found = f[1]
  BY Zenon DEF Found
<1>2. received \in Nat \ {0} /\ good \in SUBSET (1 .. received - 1) /\ \A i \in good : i \in Nat
  OBVIOUS
<1>3. \A i \in good : NextStart(i) \in 1 .. received /\ i < NextStart(i)
  <2> TAKE i \in good
  <2>1. i \in Nat /\ i < received /\ i >= 1 /\ LenAt(i) \in Nat /\ LenAt(i) > 2
    BY <1>2, FitsFact
  <2>2. NextStart(i) \in {i + LenAt(i), received}
    <3>1. {i + LenAt(i), received} \subseteq Nat /\ {i + LenAt(i), received} # {}
      BY <1>2, <2>1
    <3> QED BY <3>1, MinFact DEF NextStart
  <2>3. \A x \in {i + LenAt(i), received} : NextStart(i) <= x
    <3>1. {i + LenAt(i), received} \subseteq Nat /\ {i + LenAt(i), received} # {}
      BY <1>2, <2>1
    <3> QED BY <3>1, MinFact DEF NextStart
  <2> HIDE DEF good
  <2> QED BY <1>2, <2>1, <2>2, <2>3
<1>4. next \in [good -> 1 .. received] /\ \A i \in good : i < next[i]
  BY <1>3
<1>5. PICK g \in [1 .. received -> Seq(Nat)] :
        g = [i \in 1 .. received |-> IF i = received THEN <<>> ELSE IF i \notin good THEN <<0>> ELSE <<i>> \o g[next[i]]]
  <2> HIDE DEF good, next
  <2> QED BY <1>2, <1>4, WalkExists
<1>6. \A i \in 1 .. received : i # received => (i \in good <=> Fits(i))
  BY <1>2
<1>7. \A i \in 1 .. received : i # received /\ Fits(i) => next[i] = Min({i + LenAt(i), received})
  BY <1>6 DEF NextStart
<1>8. g = [i \in 1 .. received |->
                  IF i = received THEN <<>>
                  ELSE IF ~Fits(i) THEN <<0>> ELSE <<i>> \o g[Min({i + LenAt(i), received})]]
  <2> HIDE DEF good, next
  <2> QED BY <1>5, <1>6, <1>7
<1>9. f = [i \in 1 .. received |->
                  IF i = received THEN <<>>
                  ELSE IF ~Fits(i) THEN <<0>> ELSE <<i>> \o f[Min({i + LenAt(i), received})]]
  BY <1>8, Zenon
<1> HIDE DEF f, good, next
<1>10. IsWalk(f)
  <2>1. received \in 1 .. received /\ \A i \in 1 .. received - 1 : i \in 1 .. received /\ i # received
    BY <1>2
  <2>2. f[received] = <<>>
    BY <1>9, <2>1
  <2>3. ASSUME NEW i \in 1 .. received - 1
        PROVE  /\ ~Fits(i) => f[i] = <<0>>
               /\ Fits(i) => f[i] = <<i>> \o f[NextStart(i)]
    BY <1>9, <2>1 DEF NextStart
  <2> QED BY <2>2, <2>3 DEF IsWalk
<1> QED BY <1>1, <1>10

-----------------------------------------------------------------------------
(* The buffer begins with the messages n + 1 .. k of c, and no more.       *)
Holds(c, n, k) ==
  /\ n \in 0 .. Len(Script[c]) /\ k \in n + 1 .. Len(Script[c])
  /\ buf \in Seq(Cell) /\ received = EndOf(c, k) - EndOf(c, n) /\ received <= Len(buf)
  /\ \A i \in 1 .. received : buf[i] = Wire[c][EndOf(c, n) + i]
StartOf(c, n, m) == EndOf(c, m - 1) - EndOf(c, n) + 1

(* Each of them is found for what it is.                                   *)
LEMMA MessageFact ==
  ASSUME NEW c \in Clients, NEW n, NEW k, Holds(c, n, k), NEW m \in n + 1 .. k
  PROVE  /\ StartOf(c, n, m) \in 1 .. received - 1
         /\ StartOf(c, n, m) + Script[c][m].len = EndOf(c, m) - EndOf(c, n) + 1
         /\ Fits(StartOf(c, n, m)) /\ LenAt(StartOf(c, n, m)) = Script[c][m].len
         /\ KindAt(StartOf(c, n, m)) = Script[c][m].kind /\ NumberAt(c, StartOf(c, n, m)) = m
<1> DEFINE i == StartOf(c, n, m)
           K == Len(Script[c])
           L == Script[c][m].len
           a == EndOf(c, n)
           b == EndOf(c, m - 1)
           d == EndOf(c, m)
           e == EndOf(c, k)
<1>1. /\ K \in Nat /\ Numbers(c) = 1 .. K /\ m \in Numbers(c) /\ m \in 0 .. K /\ m - 1 \in 0 .. K
      /\ n \in 0 .. K /\ k \in 0 .. K /\ n <= m - 1 /\ m <= k
  BY ScriptFact DEF Holds
<1>2. L \in Nat /\ L > 2
  BY <1>1, ScriptFact
<1>3. a \in Nat /\ b \in Nat /\ d \in Nat /\ e \in Nat /\ d = b + L
  BY <1>1, EndsFact
<1>4. a <= b /\ d <= e
  BY <1>1, EndsGrow
<1>5. received = e - a /\ received <= Len(buf) /\ buf \in Seq(Cell)
  BY DEF Holds
<1>6. i = b - a + 1
  BY DEF StartOf
<1> HIDE DEF a, b, d, e, i, L, K
<1>7. received \in Nat /\ i \in 1 .. received - 1 /\ i + L = d - a + 1 /\ i + L - 1 <= received /\ i \in Nat
  BY <1>2, <1>3, <1>4, <1>5, <1>6
<1>8. ASSUME NEW q \in 1 .. L
      PROVE  At(i + q - 1) = <<c, m, q>>
  <2>1. i + q - 1 \in 1 .. received /\ a + (i + q - 1) = b + q
    BY <1>2, <1>3, <1>6, <1>7
  <2>2. Wire[c][b + q] = <<c, m, q>>
    BY <1>1, WireFact DEF L, b
  <2>3. buf[i + q - 1] = Wire[c][a + (i + q - 1)]
    BY <2>1 DEF Holds, a
  <2>4. i + q - 1 \in DOMAIN buf
    <3>1. DOMAIN buf = 1 .. Len(buf) /\ Len(buf) \in Nat
      BY <1>5
    <3> QED BY <1>5, <1>7, <2>1, <3>1
  <2> QED BY <2>1, <2>2, <2>3, <2>4 DEF At
<1>9. At(i) = <<c, m, 1>> /\ At(i + 1) = <<c, m, 2>> /\ At(i + L - 1) = <<c, m, L>>
  <2>1. 1 \in 1 .. L /\ 2 \in 1 .. L /\ L \in 1 .. L /\ i + 1 - 1 = i /\ i + 2 - 1 = i + 1
    BY <1>2, <1>7
  <2> QED BY <1>8, <2>1
<1>10. \A q \in Nat : <<c, m, q>> # Blank /\ <<c, m, q>>[1] = c /\ <<c, m, q>>[2] = m /\ <<c, m, q>>[3] = q
  BY <1>1, SizeAssumption
<1>11. Message(At(i)) = Script[c][m] /\ Message(At(i + 1)) = Script[c][m] /\ Message(At(i + L - 1)) = Script[c][m]
  BY <1>9 DEF Message
<1>12. LenAt(i) = L
  BY <1>11 DEF LenAt, L
<1>13. KindAt(i) = Script[c][m].kind
  BY <1>11 DEF KindAt
<1>14. IsFirst(At(i)) /\ IsHeader(At(i + 1))
  BY <1>9, <1>10 DEF IsFirst, IsHeader
<1>15. Fits(i)
  <2>1. CASE Script[c][m].kind = "keys"
    BY <1>11, <1>14, <2>1 DEF Fits, IsKeys
  <2>2. CASE Script[c][m].kind # "keys"
    <3>1. IsEnd(At(i + L - 1))
      BY <1>2, <1>9, <1>10, <1>11, <2>2 DEF IsEnd, L
    <3> QED BY <1>11, <1>12, <1>14, <2>2, <3>1 DEF Fits, IsKeys
  <2> QED BY <2>1, <2>2
<1>16. NumberAt(c, i) = m
  <2>1. At(i)[1] = c /\ At(i)[2] = m
    BY <1>9
  <2>2. [p \in 1 .. L |-> At(i + p - 1)] = [p \in 1 .. L |-> <<c, m, p>>]
    BY <1>8
  <2>3. [p \in 1 .. LenAt(i) |-> At(i + p - 1)] = Cells(c, m)
    BY <1>12, <2>2 DEF Cells, L
  <2> QED BY <2>1, <2>3 DEF NumberAt
<1> QED BY <1>7, <1>12, <1>13, <1>15, <1>16 DEF i, L, a, d

(* And the walk finds them all, one after the other.                       *)
LEMMA FoundFact ==
  ASSUME NEW c \in Clients, NEW n, NEW k, Holds(c, n, k)
  PROVE  /\ n \in Nat /\ k \in Nat /\ n < k
         /\ Found = [j \in 1 .. k - n |-> StartOf(c, n, n + j)]
<1> DEFINE from(d) == IF d = 0 THEN received ELSE StartOf(c, n, k - d + 1)
           tail(d) == [j \in 1 .. d |-> StartOf(c, n, k - d + j)]
<1>1. /\ Len(Script[c]) \in Nat /\ n \in Nat /\ k \in Nat /\ n < k /\ n \in 0 .. Len(Script[c])
      /\ k \in 0 .. Len(Script[c])
  BY ScriptFact DEF Holds
<1>2. received \in 1 .. Len(buf) /\ buf \in Seq(Cell)
  <2>1. EndOf(c, n) \in Nat /\ EndOf(c, k) \in Nat /\ EndOf(c, n) + 3 <= EndOf(c, k)
    BY <1>1, EndsGrow
  <2>2. received = EndOf(c, k) - EndOf(c, n) /\ received <= Len(buf) /\ buf \in Seq(Cell)
    BY DEF Holds
  <2>3. Len(buf) \in Nat
    BY <2>2
  <2> QED BY <2>1, <2>2, <2>3
<1>3. PICK g : Found = g[1] /\ IsWalk(g)
  BY <1>2, FoundUnfolds
<1> DEFINE T == {d \in Nat : d <= k - n => g[from(d)] = tail(d)}
<1>4. 0 \in T
  <2>1. g[received] = <<>>
    BY <1>3 DEF IsWalk
  <2>2. tail(0) = <<>>
    OBVIOUS
  <2> QED BY <2>1, <2>2
<1>5. ASSUME NEW d \in Nat, d \in T, d + 1 <= k - n
      PROVE  g[from(d + 1)] = tail(d + 1)
  <2> DEFINE m == k - d
             i == StartOf(c, n, m)
  <2>1. m \in n + 1 .. k /\ m \in Nat /\ k - (d + 1) + 1 = m /\ d <= k - n /\ d + 1 # 0
    BY <1>1, <1>5
  <2>2. from(d + 1) = i
    BY <2>1
  <2>3. i \in 1 .. received - 1 /\ Fits(i) /\ i + LenAt(i) = EndOf(c, m) - EndOf(c, n) + 1
    BY <2>1, MessageFact
  <2>4. g[i] = <<i>> \o g[NextStart(i)]
    BY <1>3, <2>3 DEF IsWalk
  <2>5. NextStart(i) = from(d)
    <3> DEFINE e == EndOf(c, m) - EndOf(c, n) + 1
    <3>1. m \in 0 .. Len(Script[c])
      BY <1>1, <2>1
    <3>2. EndOf(c, m) \in Nat /\ EndOf(c, n) \in Nat /\ EndOf(c, k) \in Nat /\ EndOf(c, n) <= EndOf(c, m)
      <4>1. n <= m
        BY <1>1, <2>1
      <4> QED BY <1>1, <3>1, <4>1, EndsGrow
    <3>3. NextStart(i) = Min({e, received})
      BY <2>3 DEF NextStart
    <3>4. received = EndOf(c, k) - EndOf(c, n)
      BY DEF Holds
    <3>5. CASE d = 0
      <4>1. m = k /\ e = received + 1 /\ from(d) = received
        BY <1>1, <3>4, <3>5
      <4>2. Min({e, received}) \in {e, received} /\ \A y \in {e, received} : Min({e, received}) <= y
        <5> HIDE DEF e
        <5>1. {e, received} \subseteq Nat /\ {e, received} # {}
          BY <1>2, <4>1
        <5> QED BY <5>1, MinFact
      <4>3. Min({e, received}) = received
        <5> HIDE DEF e, m
        <5> QED BY <1>2, <4>1, <4>2
      <4> QED BY <3>3, <4>1, <4>3
    <3>6. CASE d # 0
      <4>1. m + 1 \in n + 1 .. k /\ k - d + 1 = m + 1 /\ m + 1 - 1 = m
        BY <1>1, <2>1, <3>6
      <4>2. from(d) = StartOf(c, n, m + 1) /\ StartOf(c, n, m + 1) = e
        <5>1. from(d) = StartOf(c, n, m + 1)
          <6> HIDE DEF m
          <6> QED BY <3>6, <4>1
        <5>2. StartOf(c, n, m + 1) = e
          <6> HIDE DEF m
          <6>1. \A x : x - 1 = m => StartOf(c, n, x) = EndOf(c, m) - EndOf(c, n) + 1
            BY DEF StartOf
          <6>2. m + 1 - 1 = m /\ m \in Nat
            BY <2>1
          <6> QED BY <6>2, <6>1
        <5> QED BY <5>1, <5>2
      <4>3. e \in 1 .. received - 1
        BY <4>1, <4>2, MessageFact
      <4>4. Min({e, received}) \in {e, received} /\ \A y \in {e, received} : Min({e, received}) <= y
        <5> HIDE DEF e
        <5>1. {e, received} \subseteq Nat /\ {e, received} # {}
          BY <1>2, <4>3
        <5> QED BY <5>1, MinFact
      <4>5. Min({e, received}) = e
        <5> HIDE DEF e, m
        <5> QED BY <1>2, <4>3, <4>4
      <4> QED BY <3>3, <4>2, <4>5
    <3> QED BY <3>5, <3>6
  <2>6. g[from(d)] = tail(d)
    <3> HIDE DEF from, tail
    <3> QED BY <1>5, <2>1
  <2>7. <<i>> \o tail(d) = tail(d + 1)
    <3> DEFINE s(j) == StartOf(c, n, j)
    <3> HIDE DEF s
    <3>1. tail(d) = [j \in 1 .. d |-> s(k - d + j)] /\ tail(d + 1) = [j \in 1 .. d + 1 |-> s(k - (d + 1) + j)] /\ i = s(k - d)
      BY DEF s
    <3> HIDE DEF tail, i
    <3>2. <<i>> \in Seq({s(j) : j \in Nat}) /\ tail(d) \in Seq({s(j) : j \in Nat})
      <4>1. \A j \in 1 .. d : k - d + j \in Nat
        BY <1>1, <2>1
      <4> QED BY <2>1, <3>1, <4>1
    <3>3. <<i>> \o tail(d) = [j \in 1 .. d + 1 |-> IF j = 1 THEN i ELSE tail(d)[j - 1]]
      BY <3>1, <3>2
    <3>4. \A j \in 1 .. d + 1 : (IF j = 1 THEN i ELSE tail(d)[j - 1]) = s(k - (d + 1) + j)
      <4> TAKE j \in 1 .. d + 1
      <4>1. CASE j = 1
        <5>1. k - (d + 1) + j = k - d
          BY <1>1, <4>1
        <5> QED BY <3>1, <4>1, <5>1
      <4>2. CASE j # 1
        <5>1. j - 1 \in 1 .. d /\ k - d + (j - 1) = k - (d + 1) + j
          BY <1>1, <4>2
        <5> QED BY <3>1, <4>2, <5>1
      <4> QED BY <4>1, <4>2
    <3> QED BY <3>1, <3>3, <3>4
  <2> HIDE DEF from, tail
  <2> QED BY <2>2, <2>4, <2>5, <2>6, <2>7
<1>6. Nat \subseteq T
  <2>1. \A d \in Nat : d \in T => d + 1 \in T
    <3> SUFFICES ASSUME NEW d \in Nat, d \in T, d + 1 <= k - n
                 PROVE  g[from(d + 1)] = tail(d + 1)
      OBVIOUS
    <3> HIDE DEF from, tail, T
    <3> QED BY <1>5
  <2> HIDE DEF T
  <2> QED BY <1>4, <2>1, AllNumbers
<1>7. g[from(k - n)] = tail(k - n)
  <2>1. k - n \in Nat
    BY <1>1
  <2> HIDE DEF from, tail
  <2> QED BY <1>6, <2>1
<1>8. from(k - n) = 1
  <2>1. k - n # 0 /\ k - (k - n) + 1 = n + 1 /\ n + 1 - 1 = n
    BY <1>1
  <2>2. EndOf(c, n) \in Nat
    BY <1>1, EndsFact
  <2>3. StartOf(c, n, n + 1) = 1
    <3> DEFINE a == EndOf(c, n)
    <3>1. \A x : x - 1 = n => StartOf(c, n, x) = a - a + 1
      BY DEF StartOf
    <3>2. StartOf(c, n, n + 1) = a - a + 1
      BY <1>1, <3>1
    <3>3. a \in Nat
      BY <2>2
    <3> HIDE DEF a
    <3> QED BY <3>2, <3>3
  <2> QED BY <2>1, <2>3
<1>9. tail(k - n) = [j \in 1 .. k - n |-> StartOf(c, n, n + j)]
  <2>1. \A j \in 1 .. k - n : k - (k - n) + j = n + j
    BY <1>1
  <2> QED BY <2>1
<1> QED BY <1>1, <1>3, <1>7, <1>8, <1>9

-----------------------------------------------------------------------------
(* The inductive invariant.  Nobody waits twice to be accepted, nor after  *)
(* it was.  Every link of the round is one in use; a read has its first    *)
(* byte.                                                                   *)
QueueInv ==
  /\ \A i, j \in DOMAIN backlog : backlog[i] = backlog[j] => i = j
  /\ Range(backlog) \cap Range(slot) = {}
RoundInv ==
  /\ \A l \in readable : slot[l] # Nobody
  /\ pc \in {"rest", "more", "update"} => received > 0
  /\ pc = "rest" => received = 1

(* A client none of whose reads was cut has executed what was taken before *)
(* the read that goes on, whose cells are where the buffer begins.         *)
ClientServed(c) ==
  LET n == Len(executed[c]) IN
  /\ n <= sent[c] /\ executed[c] = [m \in 1 .. n |-> m]
  /\ conn[c] # "closed" /\ ~Reading(c) => taken[c] = EndOf(c, n)
  /\ Reading(c) => /\ taken[c] = EndOf(c, n) + received
                   /\ \A i \in 1 .. received : buf[i] = Wire[c][EndOf(c, n) + i]
                   /\ pc = "update" => \E k \in 0 .. sent[c] : EndOf(c, k) = taken[c]
ServedInv ==
  /\ DOMAIN executed = Clients /\ executed = [c \in Clients |-> executed[c]]
  /\ \A c \in Clients \ torn : ClientServed(c)

IInv == TypeOK /\ QueueInv /\ RoundInv /\ ServedInv

(* The types and the first two parts, by what they are about.              *)
ConnInv ==
  /\ conn \in [Clients -> {"away", "open", "closed"}] /\ left \subseteq Clients
  /\ backlog \in Seq(Clients) /\ slot \in [Links -> Clients \cup {Nobody}]
  /\ \A k, l \in Links : k # l /\ slot[k] = slot[l] => slot[k] = Nobody
  /\ \A c \in Clients : conn[c] = "open" <=> c \in Range(backlog) \cup Range(slot)
  /\ QueueInv
DataInv ==
  /\ sent \in [Clients -> Nat] /\ taken \in [Clients -> Nat] /\ torn \subseteq Clients
  /\ \A c \in Clients : sent[c] <= Len(Script[c]) /\ taken[c] <= EndOf(c, sent[c])
StepInv ==
  /\ readable \subseteq Links /\ pc \in {"idle", "links", "rest", "more", "update"}
  /\ (pc = "idle" <=> readable = {}) /\ RoundInv
BufInv == buf \in Seq(Cell) /\ received \in 0 .. Len(buf)
Base == ConnInv /\ DataInv /\ StepInv /\ BufInv

LEMMA BaseFact == (TypeOK /\ QueueInv /\ RoundInv) <=> Base
BY DEF TypeOK, Base, ConnInv, DataInv, StepInv, BufInv

LEMMA RangeFact ==
  ASSUME NEW S, NEW T, NEW f \in [S -> T], NEW x
  PROVE  x \in Range(f) <=> \E l \in S : f[l] = x
BY DEF Range

LEMMA RangeAppend ==
  ASSUME NEW S, NEW s \in Seq(S), NEW e \in S
  PROVE  Range(Append(s, e)) = Range(s) \cup {e}
<1>1. DOMAIN s = 1 .. Len(s) /\ Len(s) \in Nat /\ DOMAIN Append(s, e) = 1 .. Len(s) + 1
      /\ (\A i \in 1 .. Len(s) : Append(s, e)[i] = s[i]) /\ Append(s, e)[Len(s) + 1] = e
  OBVIOUS
<1>2. \A i \in 1 .. Len(s) + 1 : i \in 1 .. Len(s) \/ i = Len(s) + 1
  BY <1>1
<1>3. 1 .. Len(s) \subseteq 1 .. Len(s) + 1 /\ Len(s) + 1 \in 1 .. Len(s) + 1
  BY <1>1
<1>4. ASSUME NEW x
      PROVE  x \in Range(Append(s, e)) <=> x \in Range(s) \/ x = e
  <2>1. x \in Range(Append(s, e)) <=> \E i \in 1 .. Len(s) + 1 : x = Append(s, e)[i]
    BY <1>1 DEF Range
  <2>2. x \in Range(s) <=> \E i \in 1 .. Len(s) : x = s[i]
    BY <1>1 DEF Range
  <2> QED BY <1>1, <1>2, <1>3, <2>1, <2>2
<1> QED BY <1>4

LEMMA HeadTail ==
  ASSUME NEW S, NEW s \in Seq(S), s # <<>>
  PROVE  /\ Head(s) \in S /\ Tail(s) \in Seq(S) /\ Range(s) = {Head(s)} \cup Range(Tail(s))
         /\ (\A i, j \in DOMAIN s : s[i] = s[j] => i = j) =>
               /\ \A i, j \in DOMAIN Tail(s) : Tail(s)[i] = Tail(s)[j] => i = j
               /\ Head(s) \notin Range(Tail(s))
<1>1. /\ Len(s) \in Nat /\ Len(s) > 0 /\ DOMAIN s = 1 .. Len(s) /\ Head(s) = s[1] /\ Head(s) \in S
      /\ Tail(s) \in Seq(S) /\ DOMAIN Tail(s) = 1 .. Len(s) - 1
      /\ \A i \in 1 .. Len(s) - 1 : Tail(s)[i] = s[i + 1]
  OBVIOUS
<1>2. \A i \in 1 .. Len(s) : i = 1 \/ (i - 1 \in 1 .. Len(s) - 1 /\ i - 1 + 1 = i)
  BY <1>1
<1>3. \A i \in 1 .. Len(s) - 1 : i + 1 \in 1 .. Len(s) /\ i + 1 # 1
  BY <1>1
<1>4. 1 \in 1 .. Len(s)
  BY <1>1
<1>5. ASSUME NEW x
      PROVE  x \in Range(s) <=> x = Head(s) \/ x \in Range(Tail(s))
  <2>1. x \in Range(Tail(s)) <=> \E i \in 1 .. Len(s) - 1 : x = Tail(s)[i]
    BY <1>1 DEF Range
  <2>2. x \in Range(s) <=> \E i \in 1 .. Len(s) : x = s[i]
    BY <1>1 DEF Range
  <2> QED BY <1>1, <1>2, <1>3, <1>4, <2>1, <2>2
<1>6. ASSUME \A i, j \in DOMAIN s : s[i] = s[j] => i = j
      PROVE  /\ \A i, j \in DOMAIN Tail(s) : Tail(s)[i] = Tail(s)[j] => i = j
             /\ Head(s) \notin Range(Tail(s))
  <2>1. ASSUME NEW i \in 1 .. Len(s) - 1, NEW j \in 1 .. Len(s) - 1, Tail(s)[i] = Tail(s)[j]
        PROVE  i = j
    <3>1. i + 1 = j + 1
      BY <1>1, <1>3, <1>6, <2>1
    <3> QED BY <3>1
  <2>2. \A i \in 1 .. Len(s) - 1 : Tail(s)[i] # Head(s)
    BY <1>1, <1>3, <1>4, <1>6
  <2>3. Head(s) \notin Range(Tail(s))
    BY <1>1, <2>2 DEF Range
  <2> QED BY <1>1, <2>1, <2>3
<1> QED BY <1>1, <1>5, <1>6

(* The link that a round is at belongs to one client, who is connected.    *)
LEMMA LinkFact ==
  ASSUME ConnInv, StepInv, pc # "idle"
  PROVE  /\ Link \in readable /\ Link \in Links /\ Client \in Clients /\ conn[Client] = "open"
         /\ Client \notin Range(backlog) /\ \A l \in Links : slot[l] = Client => l = Link
<1>1. readable # {} /\ readable \subseteq Links /\ Links \subseteq Nat
  BY SizeAssumption DEF StepInv, Links
<1>2. Link \in readable
  BY <1>1, MinFact DEF Link
<1>3. Link \in Links /\ slot[Link] # Nobody /\ slot[Link] = Client
  BY <1>1, <1>2 DEF StepInv, RoundInv, Client
<1>4. Client \in Clients /\ \A l \in Links : slot[l] = Client => l = Link
  BY <1>3 DEF ConnInv
<1>5. Client \in Range(slot)
  BY <1>3, RangeFact DEF ConnInv
<1> QED BY <1>2, <1>3, <1>4, <1>5 DEF ConnInv, QueueInv

LEMMA CloseKeeps ==
  ASSUME ConnInv, StepInv, pc # "idle", Close, UNCHANGED <<left, backlog>>
  PROVE  ConnInv'
<1> DEFINE l == Link
           c == Client
<1>1. /\ l \in Links /\ c \in Clients /\ c \notin Range(backlog) /\ slot[l] = c
      /\ \A k \in Links : slot[k] = c => k = l
  BY LinkFact DEF Client
<1>2. /\ slot \in [Links -> Clients \cup {Nobody}] /\ conn \in [Clients -> {"away", "open", "closed"}]
      /\ slot' = [slot EXCEPT ![l] = Nobody] /\ conn' = [conn EXCEPT ![c] = "closed"]
      /\ left' = left /\ backlog' = backlog /\ Nobody \notin Clients
  BY SizeAssumption DEF ConnInv, Close
<1> HIDE DEF l, c
<1>3. /\ slot' \in [Links -> Clients \cup {Nobody}] /\ conn' \in [Clients -> {"away", "open", "closed"}]
      /\ slot'[l] = Nobody /\ \A k \in Links : k # l => slot'[k] = slot[k]
      /\ conn'[c] = "closed" /\ \A d \in Clients : d # c => conn'[d] = conn[d]
  BY <1>1, <1>2
<1>4. \A d \in Clients : d \in Range(slot') <=> d # c /\ d \in Range(slot)
  <2> TAKE d \in Clients
  <2>1. d \in Range(slot') <=> \E k \in Links : slot'[k] = d
    BY <1>3 DEF Range
  <2>2. d \in Range(slot) <=> \E k \in Links : slot[k] = d
    BY <1>2 DEF Range
  <2> QED BY <1>1, <1>2, <1>3, <2>1, <2>2
<1>5. \A d \in Clients : conn'[d] = "open" <=> d \in Range(backlog') \cup Range(slot')
  BY <1>1, <1>2, <1>3, <1>4 DEF ConnInv
<1>6. \A j, k \in Links : j # k /\ slot'[j] = slot'[k] => slot'[j] = Nobody
  BY <1>3 DEF ConnInv
<1>7. QueueInv'
  <2>1. Range(backlog) \subseteq Clients
    BY DEF ConnInv, Range
  <2> QED BY <1>2, <1>4, <2>1 DEF ConnInv, QueueInv
<1> QED BY <1>2, <1>3, <1>5, <1>6, <1>7 DEF ConnInv

LEMMA NextKeeps ==
  ASSUME ConnInv, StepInv, pc # "idle", NextLink, Close \/ slot' = slot
  PROVE  StepInv' /\ pc' \in {"idle", "links"} /\ received' = 0
<1>1. /\ readable' = readable \ {Link} /\ pc' = (IF readable' = {} THEN "idle" ELSE "links") /\ received' = 0
      /\ readable' \subseteq Links /\ readable' \subseteq readable /\ Link \notin readable'
  BY DEF NextLink, StepInv
<1>2. \A l \in readable' : slot'[l] = slot[l]
  BY <1>1 DEF Close, ConnInv
<1>3. \A l \in readable' : slot'[l] # Nobody
  BY <1>1, <1>2 DEF StepInv, RoundInv
<1> QED BY <1>1, <1>3 DEF StepInv, RoundInv

-----------------------------------------------------------------------------
(* Each step keeps the types and the queue.                                *)
LEMMA ConnectBase ==
  ASSUME Base, NEW c \in Clients, Connect(c)
  PROVE  Base'
<1>1. /\ conn[c] = "away" /\ conn' = [conn EXCEPT ![c] = "open"] /\ backlog' = Append(backlog, c)
      /\ left' = left /\ slot' = slot /\ backlog \in Seq(Clients)
      /\ conn \in [Clients -> {"away", "open", "closed"}]
  BY DEF Connect, Base, ConnInv
<1>2. backlog' \in Seq(Clients) /\ conn' \in [Clients -> {"away", "open", "closed"}]
      /\ conn'[c] = "open" /\ \A d \in Clients : d # c => conn'[d] = conn[d]
  BY <1>1
<1>3. Range(backlog') = Range(backlog) \cup {c}
  BY <1>1, RangeAppend
<1>4. c \notin Range(backlog) \cup Range(slot)
  BY <1>1 DEF Base, ConnInv
<1>5. \A i, j \in DOMAIN backlog' : backlog'[i] = backlog'[j] => i = j
  <2>1. /\ DOMAIN backlog = 1 .. Len(backlog) /\ DOMAIN backlog' = 1 .. Len(backlog) + 1 /\ Len(backlog) \in Nat
        /\ backlog'[Len(backlog) + 1] = c /\ \A i \in 1 .. Len(backlog) : backlog'[i] = backlog[i]
    BY <1>1
  <2>2. \A i \in 1 .. Len(backlog) : backlog[i] # c
    BY <1>4, <2>1 DEF Range
  <2>3. \A i \in DOMAIN backlog' : i \in 1 .. Len(backlog) \/ i = Len(backlog) + 1
    BY <2>1
  <2>4. \A i, j \in 1 .. Len(backlog) : backlog[i] = backlog[j] => i = j
    BY <2>1 DEF Base, ConnInv, QueueInv
  <2> QED BY <2>1, <2>2, <2>3, <2>4
<1>6. QueueInv'
  BY <1>1, <1>3, <1>4, <1>5 DEF QueueInv, Base, ConnInv
<1>7. \A d \in Clients : conn'[d] = "open" <=> d \in Range(backlog') \cup Range(slot')
  BY <1>1, <1>2, <1>3 DEF Base, ConnInv
<1>8. ConnInv'
  BY <1>1, <1>2, <1>6, <1>7 DEF Base, ConnInv
<1>9. DataInv' /\ StepInv' /\ BufInv'
  BY DEF Connect, Base, DataInv, StepInv, RoundInv, BufInv
<1> QED BY <1>8, <1>9 DEF Base

LEMMA SendBase ==
  ASSUME Base, NEW c \in Clients, Send(c)
  PROVE  Base'
<1>1. /\ sent \in [Clients -> Nat] /\ taken \in [Clients -> Nat] /\ sent[c] < Len(Script[c])
      /\ sent' = [sent EXCEPT ![c] = @ + 1] /\ taken' = taken /\ torn' = torn
      /\ taken[c] <= EndOf(c, sent[c])
  BY DEF Send, Base, DataInv
<1>2. sent' \in [Clients -> Nat] /\ sent'[c] = sent[c] + 1 /\ \A d \in Clients : d # c => sent'[d] = sent[d]
  BY <1>1
<1>3. sent'[c] <= Len(Script[c]) /\ taken'[c] <= EndOf(c, sent'[c])
  <2> DEFINE n == sent[c]
  <2>1. n \in Nat /\ Len(Script[c]) \in Nat
    BY <1>1, ScriptFact
  <2>2. n \in 0 .. Len(Script[c]) /\ n + 1 \in 0 .. Len(Script[c]) /\ n <= n + 1
    BY <1>1, <2>1
  <2>3. EndOf(c, n) \in Nat /\ EndOf(c, n + 1) \in Nat /\ EndOf(c, n) <= EndOf(c, n + 1)
    BY <2>2, EndsGrow
  <2>4. sent'[c] = n + 1 /\ taken'[c] = taken[c] /\ taken[c] <= EndOf(c, n) /\ taken[c] \in Nat
    BY <1>1, <1>2
  <2> HIDE DEF n
  <2> QED BY <2>1, <2>2, <2>3, <2>4
<1>4. DataInv'
  BY <1>1, <1>2, <1>3 DEF Base, DataInv
<1>5. ConnInv' /\ StepInv' /\ BufInv'
  BY DEF Send, Base, ConnInv, QueueInv, StepInv, RoundInv, BufInv
<1> QED BY <1>4, <1>5 DEF Base

LEMMA LeaveBase ==
  ASSUME Base, NEW c \in Clients, Leave(c)
  PROVE  Base'
BY DEF Leave, Base, ConnInv, QueueInv, DataInv, StepInv, RoundInv, BufInv

LEMMA PollBase ==
  ASSUME Base, Poll
  PROVE  Base'
<1> DEFINE h == Head(backlog)
           m == Min(Free)
<1>1. /\ pc = "idle" /\ readable = {} /\ left' = left /\ backlog \in Seq(Clients)
      /\ slot \in [Links -> Clients \cup {Nobody}] /\ conn \in [Clients -> {"away", "open", "closed"}]
      /\ Nobody \notin Clients
  BY SizeAssumption DEF Poll, Base, ConnInv, StepInv
<1>2. backlog # <<>> =>
        /\ h \in Clients /\ Tail(backlog) \in Seq(Clients) /\ Range(backlog) = {h} \cup Range(Tail(backlog))
        /\ h \notin Range(Tail(backlog)) /\ h \in Range(backlog) /\ h \notin Range(slot)
        /\ \A i, j \in DOMAIN Tail(backlog) : Tail(backlog)[i] = Tail(backlog)[j] => i = j
  BY <1>1, HeadTail DEF Base, ConnInv, QueueInv
<1>3. Free # {} => m \in Links /\ slot[m] = Nobody
  <2>1. Free \subseteq Nat
    BY SizeAssumption DEF Free, Links
  <2> QED BY <2>1, MinFact DEF Free
<1> HIDE DEF h, m
<1>4. CASE backlog = <<>> /\ UNCHANGED <<conn, backlog, slot>>
  <2>1. ConnInv'
    BY <1>1, <1>4 DEF Base, ConnInv, QueueInv
  <2>2. \A l \in Links : slot[l] # Nobody => slot'[l] = slot[l]
    BY <1>4
  <2>3. StepInv'
    BY <2>2 DEF Poll, Used, Base, StepInv, RoundInv
  <2> QED BY <2>1, <2>3 DEF Poll, Base, DataInv, BufInv
<1>5. CASE /\ backlog # <<>> /\ Free # {} /\ slot' = [slot EXCEPT ![m] = h]
           /\ backlog' = Tail(backlog) /\ UNCHANGED conn
  <2>1. /\ slot' \in [Links -> Clients \cup {Nobody}] /\ slot'[m] = h
        /\ \A l \in Links : l # m => slot'[l] = slot[l]
    BY <1>1, <1>2, <1>3, <1>5
  <2>2. \A d \in Clients : d \in Range(slot') <=> d = h \/ d \in Range(slot)
    <3> TAKE d \in Clients
    <3>1. d \in Range(slot') <=> \E k \in Links : slot'[k] = d
      BY <2>1 DEF Range
    <3>2. d \in Range(slot) <=> \E k \in Links : slot[k] = d
      BY <1>1 DEF Range
    <3> QED BY <1>1, <1>3, <1>5, <2>1, <3>1, <3>2
  <2>3. \A k, l \in Links : k # l /\ slot'[k] = slot'[l] => slot'[k] = Nobody
    <3>1. \A k \in Links : slot[k] # h
      BY <1>1, <1>2, <1>5 DEF Range
    <3> QED BY <2>1, <3>1 DEF Base, ConnInv
  <2>4. QueueInv'
    <3>1. Range(backlog') \subseteq Clients
      BY <1>2, <1>5 DEF Range
    <3>2. \A d \in Range(backlog') : d \notin Range(slot')
      BY <1>2, <1>5, <2>2, <3>1 DEF Base, ConnInv, QueueInv
    <3> QED BY <1>2, <1>5, <3>2 DEF QueueInv
  <2>5. ConnInv'
    BY <1>1, <1>2, <1>5, <2>1, <2>2, <2>3, <2>4 DEF Base, ConnInv
  <2>6. \A l \in Links : slot[l] # Nobody => slot'[l] = slot[l]
    BY <1>3, <1>5, <2>1
  <2>7. StepInv'
    BY <2>6 DEF Poll, Used, Base, StepInv, RoundInv
  <2> QED BY <2>5, <2>7 DEF Poll, Base, DataInv, BufInv
<1>6. CASE /\ backlog # <<>> /\ Free = {} /\ conn' = [conn EXCEPT ![h] = "closed"]
           /\ backlog' = Tail(backlog) /\ UNCHANGED slot
  <2>1. /\ conn' \in [Clients -> {"away", "open", "closed"}] /\ conn'[h] = "closed"
        /\ \A d \in Clients : d # h => conn'[d] = conn[d]
    BY <1>1, <1>2, <1>6
  <2>2. QueueInv'
    BY <1>2, <1>6 DEF Base, ConnInv, QueueInv
  <2>3. ConnInv'
    BY <1>1, <1>2, <1>6, <2>1, <2>2 DEF Base, ConnInv
  <2>4. StepInv'
    BY <1>6 DEF Poll, Used, Base, StepInv, RoundInv
  <2> QED BY <2>3, <2>4 DEF Poll, Base, DataInv, BufInv
<1> QED BY <1>4, <1>5, <1>6 DEF Poll, h, m

(* What is on its way to the link, and what of it a recv takes.            *)
LEMMA TakeFact ==
  ASSUME Base, pc # "idle", NEW n \in Nat, n <= InFlight(Client),
         taken' = [taken EXCEPT ![Client] = taken[Client] + n], UNCHANGED sent
  PROVE  /\ taken' \in [Clients -> Nat] /\ sent' \in [Clients -> Nat]
         /\ \A c \in Clients : sent'[c] <= Len(Script[c]) /\ taken'[c] <= EndOf(c, sent'[c])
         /\ taken'[Client] = taken[Client] + n /\ \A d \in Clients : d # Client => taken'[d] = taken[d]
         /\ Wire[Client] \in Seq(Cell) /\ taken[Client] \in Nat /\ taken[Client] + n <= Len(Wire[Client])
         /\ taken'[Client] <= EndOf(Client, sent[Client]) /\ sent[Client] \in 0 .. Len(Script[Client])
<1> DEFINE c == Client
<1>1. /\ c \in Clients /\ taken \in [Clients -> Nat] /\ sent \in [Clients -> Nat] /\ sent[c] <= Len(Script[c])
      /\ taken' = [taken EXCEPT ![c] = taken[c] + n]
  BY LinkFact DEF Base, DataInv
<1>2. sent[c] \in 0 .. Len(Script[c]) /\ Len(Script[c]) \in 0 .. Len(Script[c]) /\ sent[c] <= Len(Script[c])
  BY <1>1, ScriptFact
<1>3. /\ EndOf(c, sent[c]) \in Nat /\ EndOf(c, Len(Script[c])) \in Nat
      /\ EndOf(c, sent[c]) <= EndOf(c, Len(Script[c]))
  BY <1>1, <1>2, EndsGrow
<1>4. n <= EndOf(c, sent[c]) - taken[c]
  BY DEF InFlight
<1>5. Wire[c] \in Seq(Cell) /\ Len(Wire[c]) = EndOf(c, Len(Script[c]))
  BY <1>1, WireType
<1> HIDE DEF c
<1>6. taken' \in [Clients -> Nat] /\ taken'[c] = taken[c] + n /\ \A d \in Clients : d # c => taken'[d] = taken[d]
  <2>1. taken[c] + n \in Nat
    BY <1>1
  <2> QED BY <1>1, <2>1
<1>7. taken[c] \in Nat /\ taken[c] + n <= EndOf(c, sent[c]) /\ taken[c] + n <= Len(Wire[c])
  BY <1>1, <1>3, <1>4, <1>5
<1>8. \A d \in Clients : sent'[d] <= Len(Script[d]) /\ taken'[d] <= EndOf(d, sent'[d])
  BY <1>6, <1>7 DEF Base, DataInv
<1> QED BY <1>1, <1>2, <1>5, <1>6, <1>7, <1>8 DEF c

LEMMA ConcatFact ==
  ASSUME NEW S, NEW u \in Seq(S), NEW v \in Seq(S)
  PROVE  /\ u \o v \in Seq(S) /\ Len(u) \in Nat /\ Len(v) \in Nat /\ Len(u \o v) = Len(u) + Len(v)
         /\ \A i \in 1 .. Len(u) : (u \o v)[i] = u[i]
         /\ \A i \in 1 .. Len(v) : (u \o v)[Len(u) + i] = v[i]
OBVIOUS

(* Cells are read over the beginning of the buffer ...                     *)
LEMMA FirstPlaced ==
  ASSUME NEW S, NEW b \in Seq(S), NEW x \in S, NEW new, new = <<x>> \o SubSeq(b, 2, Len(b))
  PROVE  new \in Seq(S) /\ Len(new) \in Nat /\ 1 <= Len(new) /\ new[1] = x
<1>1. Len(b) \in Nat
  OBVIOUS
<1>2. SubSeq(b, 2, Len(b)) \in Seq(S)
  OBVIOUS
<1> DEFINE r == SubSeq(b, 2, Len(b))
<1> HIDE DEF r
<1>3. r \in Seq(S) /\ new = <<x>> \o r
  BY <1>2 DEF r
<1> QED BY <1>3

(* ... or after what this update has read already.                         *)
LEMMA JoinFact ==
  ASSUME NEW S, NEW u \in Seq(S), NEW v \in Seq(S), NEW w \in Seq(S)
  PROVE  /\ u \o v \o w \in Seq(S) /\ Len(u) + Len(v) <= Len(u \o v \o w)
         /\ \A i \in 1 .. Len(u) : (u \o v \o w)[i] = u[i]
         /\ \A i \in 1 .. Len(v) : (u \o v \o w)[Len(u) + i] = v[i]
<1>1. PICK x \in Seq(S) : x = u \o v
  BY ConcatFact
<1>2. /\ x \in Seq(S) /\ Len(u) \in Nat /\ Len(v) \in Nat /\ Len(x) = Len(u) + Len(v)
      /\ \A i \in 1 .. Len(u) : x[i] = u[i]
      /\ \A i \in 1 .. Len(v) : x[Len(u) + i] = v[i]
  BY <1>1, ConcatFact
<1>3. PICK y : y = x \o w
  OBVIOUS
<1>4. /\ y \in Seq(S) /\ Len(w) \in Nat /\ Len(y) = Len(x) + Len(w)
      /\ \A i \in 1 .. Len(x) : y[i] = x[i]
  BY <1>3, ConcatFact
<1>5. \A i \in 1 .. Len(u) : i \in 1 .. Len(x)
  BY <1>2
<1>6. \A i \in 1 .. Len(v) : Len(u) + i \in 1 .. Len(x)
  BY <1>2
<1>7. /\ y \in Seq(S) /\ Len(u) + Len(v) <= Len(y)
      /\ \A i \in 1 .. Len(u) : y[i] = u[i]
      /\ \A i \in 1 .. Len(v) : y[Len(u) + i] = v[i]
  BY <1>2, <1>4, <1>5, <1>6
<1> QED BY <1>1, <1>3, <1>7

Placed(b, r, w, i, n) == SubSeq(b, 1, r) \o SubSeq(w, i + 1, i + n) \o SubSeq(b, r + n + 1, Len(b))

LEMMA RestPlaced ==
  ASSUME NEW S, NEW b \in Seq(S), NEW w \in Seq(S), NEW r \in 0 .. Len(b), NEW n \in Nat, NEW t \in Nat,
         t + n <= Len(w)
  PROVE  /\ Placed(b, r, w, t, n) \in Seq(S) /\ r + n <= Len(Placed(b, r, w, t, n))
         /\ \A i \in 1 .. r + n : Placed(b, r, w, t, n)[i] = IF i <= r THEN b[i] ELSE w[t + i - r]
<1>1. SubSeq(b, 1, r) \in Seq(S) /\ Len(SubSeq(b, 1, r)) = r /\ \A i \in 1 .. r : SubSeq(b, 1, r)[i] = b[i]
  OBVIOUS
<1>2. /\ SubSeq(w, t + 1, t + n) \in Seq(S) /\ Len(SubSeq(w, t + 1, t + n)) = n
      /\ \A i \in 1 .. n : SubSeq(w, t + 1, t + n)[i] = w[t + i]
  OBVIOUS
<1>3. SubSeq(b, r + n + 1, Len(b)) \in Seq(S)
  OBVIOUS
<1>4. PICK b1, w1, b2 : b1 = SubSeq(b, 1, r) /\ w1 = SubSeq(w, t + 1, t + n) /\ b2 = SubSeq(b, r + n + 1, Len(b))
  OBVIOUS
<1>5. PICK new : new = Placed(b, r, w, t, n) /\ new = b1 \o w1 \o b2
  BY <1>4 DEF Placed
<1>6. /\ b1 \in Seq(S) /\ w1 \in Seq(S) /\ b2 \in Seq(S) /\ Len(b1) = r /\ Len(w1) = n
      /\ (\A i \in 1 .. r : b1[i] = b[i]) /\ \A i \in 1 .. n : w1[i] = w[t + i]
  BY <1>1, <1>2, <1>3, <1>4
<1>7. /\ new \in Seq(S) /\ Len(b1) + Len(w1) <= Len(new)
      /\ \A i \in 1 .. Len(b1) : new[i] = b1[i]
      /\ \A i \in 1 .. Len(w1) : new[Len(b1) + i] = w1[i]
  <2>1. b1 \in Seq(S) /\ w1 \in Seq(S) /\ b2 \in Seq(S)
    BY <1>6
  <2>2. b1 \o w1 \o b2 \in Seq(S) /\ Len(b1) + Len(w1) <= Len(b1 \o w1 \o b2)
    BY <2>1, JoinFact
  <2>3. \A i \in 1 .. Len(b1) : (b1 \o w1 \o b2)[i] = b1[i]
    BY <2>1, JoinFact
  <2>4. \A i \in 1 .. Len(w1) : (b1 \o w1 \o b2)[Len(b1) + i] = w1[i]
    BY <2>1, JoinFact
  <2> QED BY <1>5, <2>2, <2>3, <2>4
<1>8. /\ new \in Seq(S) /\ r + n <= Len(new)
      /\ \A i \in 1 .. r : new[i] = b[i]
      /\ \A i \in 1 .. n : new[r + i] = w[t + i]
  BY <1>6, <1>7
<1>9. ASSUME NEW i \in 1 .. r + n
      PROVE  new[i] = IF i <= r THEN b[i] ELSE w[t + i - r]
  <2>1. r \in Nat /\ i \in Nat
    OBVIOUS
  <2>2. CASE i <= r
    BY <1>8, <2>1, <2>2
  <2>3. CASE ~(i <= r)
    <3>1. i - r \in 1 .. n /\ r + (i - r) = i /\ t + (i - r) = t + i - r
      BY <2>1, <2>3
    <3> QED BY <1>8, <2>3, <3>1
  <2> QED BY <2>2, <2>3
<1> QED BY <1>5, <1>8, <1>9

LEMMA FirstByteBase ==
  ASSUME Base, FirstByte
  PROVE  Base'
<1>1. pc = "links" /\ pc # "idle" /\ UNCHANGED <<left, sent, backlog, executed, torn>>
  BY DEF FirstByte
<1>2. CASE AtEOF(Client) /\ Close /\ NextLink /\ UNCHANGED <<taken, buf>>
  <2>1. ConnInv'
    BY <1>1, <1>2, CloseKeeps DEF Base
  <2>2. StepInv' /\ received' = 0
    BY <1>1, <1>2, NextKeeps DEF Base
  <2>3. DataInv' /\ BufInv'
    BY <1>1, <1>2, <2>2 DEF Base, DataInv, BufInv
  <2> QED BY <2>1, <2>2, <2>3 DEF Base
<1>3. ASSUME NEW x, x = Wire[Client][taken[Client] + 1], InFlight(Client) > 0,
             taken' = [taken EXCEPT ![Client] = @ + 1], buf' = <<x>> \o SubSeq(buf, 2, Len(buf)),
             \/ IsFirst(x) /\ pc' = "rest" /\ received' = 1 /\ UNCHANGED <<conn, slot, readable>>
             \/ ~IsFirst(x) /\ Close /\ NextLink
      PROVE  Base'
  <2>1. InFlight(Client) \in Int
    BY <1>1, LinkFact, EndsFact, ScriptFact DEF InFlight, Base, DataInv
  <2>2. 1 <= InFlight(Client)
    BY <1>3, <2>1
  <2>3. /\ taken' \in [Clients -> Nat] /\ sent' \in [Clients -> Nat]
        /\ \A c \in Clients : sent'[c] <= Len(Script[c]) /\ taken'[c] <= EndOf(c, sent'[c])
        /\ Wire[Client] \in Seq(Cell) /\ taken[Client] \in Nat /\ taken[Client] + 1 <= Len(Wire[Client])
    BY <1>1, <1>3, <2>2, TakeFact
  <2>0. DataInv'
    BY <1>1, <2>3 DEF Base, DataInv
  <2>4. x \in Cell
    BY <1>3, <2>3
  <2>5. buf' \in Seq(Cell) /\ Len(buf') \in Nat /\ 1 <= Len(buf')
    BY <1>3, <2>4, FirstPlaced DEF Base, BufInv
  <2>6. CASE IsFirst(x) /\ pc' = "rest" /\ received' = 1 /\ UNCHANGED <<conn, slot, readable>>
    <3>1. ConnInv' /\ StepInv'
      BY <1>1, <2>6 DEF Base, ConnInv, QueueInv, StepInv, RoundInv
    <3> QED BY <2>0, <2>5, <2>6, <3>1 DEF Base, BufInv
  <2>7. CASE ~IsFirst(x) /\ Close /\ NextLink
    <3>1. ConnInv'
      BY <1>1, <2>7, CloseKeeps DEF Base
    <3>2. StepInv' /\ received' = 0
      BY <1>1, <2>7, NextKeeps DEF Base
    <3> QED BY <2>0, <2>5, <3>1, <3>2 DEF Base, BufInv
  <2> QED BY <1>3, <2>6, <2>7
<1> QED BY <1>2, <1>3 DEF FirstByte

(* What a recv of n cells changes for the client and in the buffer.        *)
Received(n) ==
  /\ taken' = [taken EXCEPT ![Client] = taken[Client] + n]
  /\ buf' = Placed(buf, received, Wire[Client], taken[Client], n)

LEMMA ReceiveBase ==
  ASSUME Base, Receive
  PROVE  Base'
<1>1. pc \in {"rest", "more"} /\ pc # "idle" /\ UNCHANGED <<left, sent, backlog, executed>>
  BY DEF Receive
<1>2. PICK n \in 0 .. RecvSize :
        /\ n <= InFlight(Client) /\ Received(n)
        /\ \/ /\ pc' = "update" /\ received' = received + n /\ UNCHANGED <<conn, slot, readable>>
              /\ torn' = torn \cup {c \in {Client} : \A k \in 0 .. sent[c] : EndOf(c, k) # taken[Client] + n}
           \/ pc' = "more" /\ received' = received + n /\ UNCHANGED <<conn, slot, readable, torn>>
           \/ Close /\ NextLink /\ UNCHANGED torn
  BY DEF Receive, Received, Placed
<1>3. n \in Nat
  BY SizeAssumption
<1>4. torn' \subseteq Clients
  BY <1>1, <1>2, LinkFact DEF Base, DataInv
<1>5. /\ taken' \in [Clients -> Nat] /\ sent' \in [Clients -> Nat]
      /\ \A c \in Clients : sent'[c] <= Len(Script[c]) /\ taken'[c] <= EndOf(c, sent'[c])
      /\ Wire[Client] \in Seq(Cell) /\ taken[Client] \in Nat /\ taken[Client] + n <= Len(Wire[Client])
  BY <1>1, <1>2, <1>3, TakeFact DEF Received
<1>6. buf' \in Seq(Cell) /\ received + n <= Len(buf') /\ received \in Nat /\ Len(buf') \in Nat
  <2>1. buf \in Seq(Cell) /\ received \in 0 .. Len(buf) /\ received \in Nat
    BY DEF Base, BufInv
  <2>2. buf' \in Seq(Cell) /\ received + n <= Len(buf')
    BY <1>2, <1>3, <1>5, <2>1, RestPlaced DEF Received
  <2> QED BY <2>1, <2>2
<1>7. DataInv'
  BY <1>4, <1>5 DEF DataInv
<1>8. CASE pc' \in {"update", "more"} /\ received' = received + n /\ UNCHANGED <<conn, slot, readable>>
  <2>1. ConnInv'
    BY <1>1, <1>8 DEF Base, ConnInv, QueueInv
  <2>2. received > 0
    BY <1>1 DEF Base, StepInv, RoundInv
  <2>3. StepInv'
    BY <1>1, <1>3, <1>6, <1>8, <2>2 DEF Base, StepInv, RoundInv
  <2> QED BY <1>3, <1>6, <1>7, <1>8, <2>1, <2>3 DEF Base, BufInv
<1>9. CASE Close /\ NextLink
  <2>1. ConnInv'
    BY <1>1, <1>9, CloseKeeps DEF Base
  <2>2. StepInv' /\ received' = 0
    BY <1>1, <1>9, NextKeeps DEF Base
  <2> QED BY <1>6, <1>7, <2>1, <2>2 DEF Base, BufInv
<1> QED BY <1>2, <1>8, <1>9

LEMMA UpdateBase ==
  ASSUME Base, Update
  PROVE  Base'
<1>1. /\ pc = "update" /\ pc # "idle" /\ NextLink /\ UNCHANGED <<left, sent, taken, backlog, buf, torn>>
      /\ Close \/ UNCHANGED <<conn, slot>>
  BY DEF Update
<1>2. StepInv' /\ received' = 0
  BY <1>1, NextKeeps DEF Base
<1>3. ConnInv'
  <2>1. CASE Close
    BY <1>1, <2>1, CloseKeeps DEF Base
  <2>2. CASE UNCHANGED <<conn, slot>>
    BY <1>1, <2>2 DEF Base, ConnInv, QueueInv
  <2> QED BY <1>1, <2>1, <2>2
<1>4. DataInv' /\ BufInv'
  BY <1>1, <1>2 DEF Base, DataInv, BufInv
<1> QED BY <1>2, <1>3, <1>4 DEF Base

-----------------------------------------------------------------------------
(* A client whom a step does not concern stays served, as does one that is *)
(* closed.                                                                 *)
LEMMA OthersServed ==
  ASSUME NEW c \in Clients, ClientServed(c), ~Reading(c), ~Reading(c)',
         executed'[c] = executed[c], taken'[c] = taken[c], sent'[c] = sent[c],
         conn[c] = "closed" => conn'[c] = "closed"
  PROVE  ClientServed(c)'
BY DEF ClientServed

LEMMA ClosedServed ==
  ASSUME NEW c \in Clients, ClientServed(c), ~Reading(c)',
         executed'[c] = executed[c], sent'[c] = sent[c], conn'[c] = "closed"
  PROVE  ClientServed(c)'
BY DEF ClientServed

(* What the clients do does not concern what the server has read.          *)
LEMMA ClientsServed ==
  ASSUME IInv, NEW c \in Clients, Connect(c) \/ Send(c) \/ Leave(c)
  PROVE  ServedInv'
<1>1. UNCHANGED <<taken, slot, readable, pc, buf, received, executed, torn>>
  BY DEF Connect, Send, Leave
<1>2. ASSUME NEW d \in Clients
      PROVE  /\ sent[d] \in Nat /\ sent'[d] \in Nat /\ sent[d] <= sent'[d]
             /\ conn[d] = "closed" => conn'[d] = "closed"
  <2>1. sent \in [Clients -> Nat] /\ conn \in [Clients -> {"away", "open", "closed"}]
    BY DEF IInv, TypeOK
  <2>2. CASE Connect(c)
    BY <2>1, <2>2 DEF Connect
  <2>3. CASE Send(c)
    BY <2>1, <2>3 DEF Send
  <2>4. CASE Leave(c)
    BY <2>1, <2>4 DEF Leave
  <2> QED BY <2>2, <2>3, <2>4
<1>3. ASSUME NEW d \in Clients \ torn
      PROVE  ClientServed(d)'
  <2>1. Reading(d)' <=> Reading(d)
    BY <1>1 DEF Reading, Client, Link
  <2>2. ClientServed(d)
    BY DEF IInv, ServedInv
  <2>3. Len(executed[d]) \in Nat
    BY <2>2 DEF ClientServed
  <2>4. \A k \in 0 .. sent[d] : k \in 0 .. sent'[d]
    BY <1>2
  <2>5. executed'[d] = executed[d] /\ taken'[d] = taken[d]
    BY <1>1
  <2> QED BY <1>1, <1>2, <2>1, <2>2, <2>3, <2>4, <2>5 DEF ClientServed
<1> QED BY <1>1, <1>3 DEF IInv, ServedInv

LEMMA PollServed ==
  ASSUME IInv, Poll
  PROVE  ServedInv'
<1>1. /\ pc = "idle" /\ pc' \in {"idle", "links"} /\ UNCHANGED <<sent, taken, executed, torn>>
      /\ \A c \in Clients : ~Reading(c) /\ ~Reading(c)'
  BY DEF Poll, Reading
<1>2. \A c \in Clients : conn[c] = "closed" => conn'[c] = "closed"
  BY DEF Poll, IInv, TypeOK
<1>3. ASSUME NEW c \in Clients \ torn
      PROVE  ClientServed(c)'
  BY <1>1, <1>2, OthersServed DEF IInv, ServedInv
<1> QED BY <1>1, <1>3 DEF IInv, ServedInv

(* Within a round only the client of the link can be read from.            *)
LEMMA RoundFact ==
  ASSUME IInv, pc # "idle"
  PROVE  /\ Base /\ Client \in Clients /\ conn[Client] = "open"
         /\ \A c \in Clients : c # Client => ~Reading(c)
         /\ NextLink => \A c \in Clients : ~Reading(c)'
         /\ UNCHANGED <<slot, readable>> => Client' = Client /\ \A c \in Clients : c # Client => ~Reading(c)'
         /\ Close => /\ conn' = [conn EXCEPT ![Client] = "closed"] /\ conn'[Client] = "closed"
                     /\ \A c \in Clients : c # Client => conn'[c] = conn[c]
<1>1. Base
  BY BaseFact DEF IInv
<1>2. Client \in Clients /\ conn[Client] = "open"
  BY <1>1, LinkFact DEF Base
<1>3. UNCHANGED <<slot, readable>> => Client' = Client
  BY DEF Client, Link
<1>4. Close => /\ conn' = [conn EXCEPT ![Client] = "closed"] /\ conn'[Client] = "closed"
                     /\ \A c \in Clients : c # Client => conn'[c] = conn[c]
  BY <1>1, <1>2 DEF Close, Base, ConnInv
<1> QED BY <1>1, <1>2, <1>3, <1>4 DEF Reading, NextLink

LEMMA FirstByteServed ==
  ASSUME IInv, FirstByte
  PROVE  ServedInv'
<1>1. pc # "idle" /\ pc = "links" /\ UNCHANGED <<sent, executed, torn>> /\ \A c \in Clients : ~Reading(c)
  BY DEF FirstByte, Reading
<1>2. /\ Base /\ Client \in Clients /\ conn[Client] = "open" /\ taken \in [Clients -> Nat]
      /\ conn \in [Clients -> {"away", "open", "closed"}]
  BY <1>1, RoundFact DEF IInv, TypeOK
<1>3. ASSUME NEW c \in Clients \ torn
      PROVE  ClientServed(c)'
  <2>1. ClientServed(c)
    BY DEF IInv, ServedInv
  <2>2. CASE AtEOF(Client) /\ Close /\ NextLink /\ UNCHANGED <<taken, buf>>
    <3>1. ~Reading(c)' /\ executed'[c] = executed[c] /\ sent'[c] = sent[c] /\ taken'[c] = taken[c]
      BY <1>1, <2>2, RoundFact
    <3>2. conn'[c] = "closed" \/ conn'[c] = conn[c]
      BY <1>1, <2>2, RoundFact
    <3> QED BY <1>1, <2>1, <3>1, <3>2, ClosedServed, OthersServed
  <2>3. ASSUME NEW x, x = Wire[Client][taken[Client] + 1],
               taken' = [taken EXCEPT ![Client] = @ + 1], buf' = <<x>> \o SubSeq(buf, 2, Len(buf)),
               \/ IsFirst(x) /\ pc' = "rest" /\ received' = 1 /\ UNCHANGED <<conn, slot, readable>>
               \/ ~IsFirst(x) /\ Close /\ NextLink
        PROVE  ClientServed(c)'
    <3>1. CASE c # Client
      <4>1. ~Reading(c)' /\ conn'[c] = conn[c]
        BY <1>1, <2>3, <3>1, RoundFact
      <4>2. taken'[c] = taken[c] /\ executed'[c] = executed[c] /\ sent'[c] = sent[c]
        BY <1>1, <1>2, <2>3, <3>1
      <4> QED BY <1>1, <2>1, <4>1, <4>2, OthersServed
    <3>2. CASE c = Client /\ ~IsFirst(x) /\ Close /\ NextLink
      <4>1. ~Reading(c)' /\ conn'[c] = "closed"
        BY <1>1, <3>2, RoundFact
      <4> QED BY <1>1, <2>1, <4>1, ClosedServed
    <3>3. CASE c = Client /\ pc' = "rest" /\ received' = 1 /\ UNCHANGED <<conn, slot, readable>>
      <4> DEFINE n == Len(executed[c])
      <4>1. Reading(c)'
        BY <1>1, <3>3, RoundFact DEF Reading
      <4>2. taken[c] = EndOf(c, n) /\ n <= sent[c] /\ executed[c] = [m \in 1 .. n |-> m]
        BY <1>1, <1>2, <2>1, <3>3 DEF ClientServed
      <4>3. taken'[c] = taken[c] + 1
        BY <1>2, <2>3, <3>3
      <4>4. buf'[1] = Wire[c][EndOf(c, n) + 1]
        <5>1. buf'[1] = x
          BY <2>3
        <5> QED BY <2>3, <3>3, <4>2, <5>1
      <4>5. \A i \in 1 .. received' : i = 1
        BY <3>3
      <4>6. executed'[c] = executed[c] /\ sent'[c] = sent[c]
        BY <1>1
      <4> QED BY <3>3, <4>1, <4>2, <4>3, <4>4, <4>5, <4>6 DEF ClientServed
    <3> QED BY <2>3, <3>1, <3>2, <3>3
  <2> QED BY <2>2, <2>3 DEF FirstByte
<1> QED BY <1>1, <1>3 DEF IInv, ServedInv

LEMMA ReceiveServed ==
  ASSUME IInv, Receive
  PROVE  ServedInv'
<1>1. pc \in {"rest", "more"} /\ pc # "idle" /\ UNCHANGED <<left, sent, backlog, executed>>
  BY DEF Receive
<1>2. PICK n \in 0 .. RecvSize :
        /\ n <= InFlight(Client) /\ Received(n)
        /\ \/ /\ pc' = "update" /\ received' = received + n /\ UNCHANGED <<conn, slot, readable>>
              /\ torn' = torn \cup {c \in {Client} : \A k \in 0 .. sent[c] : EndOf(c, k) # taken[Client] + n}
           \/ pc' = "more" /\ received' = received + n /\ UNCHANGED <<conn, slot, readable, torn>>
           \/ Close /\ NextLink /\ UNCHANGED torn
  BY DEF Receive, Received, Placed
<1>3. /\ Base /\ Client \in Clients /\ conn[Client] = "open" /\ taken \in [Clients -> Nat] /\ n \in Nat
      /\ conn \in [Clients -> {"away", "open", "closed"}] /\ torn \subseteq torn'
  BY <1>1, <1>2, RoundFact, SizeAssumption DEF IInv, TypeOK
<1>4. /\ taken'[Client] = taken[Client] + n /\ \A c \in Clients : c # Client => taken'[c] = taken[c]
      /\ Wire[Client] \in Seq(Cell) /\ taken[Client] \in Nat /\ taken[Client] + n <= Len(Wire[Client])
  BY <1>1, <1>2, <1>3, TakeFact DEF Received
<1>5. ASSUME NEW c \in Clients \ torn'
      PROVE  ClientServed(c)'
  <2>1. ClientServed(c) /\ c \notin torn
    BY <1>3 DEF IInv, ServedInv
  <2>2. executed'[c] = executed[c] /\ sent'[c] = sent[c]
    BY <1>1
  <2>3. CASE c # Client
    <3>1. ~Reading(c) /\ ~Reading(c)' /\ conn'[c] = conn[c]
      BY <1>1, <1>2, <2>3, RoundFact
    <3> QED BY <1>4, <2>1, <2>2, <2>3, <3>1, OthersServed
  <2>4. CASE c = Client /\ Close /\ NextLink
    <3>1. ~Reading(c)' /\ conn'[c] = "closed"
      BY <1>1, <2>4, RoundFact
    <3> QED BY <2>1, <2>2, <3>1, ClosedServed
  <2>5. CASE c = Client /\ pc' \in {"update", "more"} /\ received' = received + n /\ UNCHANGED <<conn, slot, readable>>
    <3> DEFINE p == Len(executed[c])
    <3>1. Reading(c) /\ Reading(c)'
      BY <1>1, <2>5, RoundFact DEF Reading
    <3>2. /\ p <= sent[c] /\ executed[c] = [m \in 1 .. p |-> m] /\ taken[c] = EndOf(c, p) + received
          /\ \A i \in 1 .. received : buf[i] = Wire[c][EndOf(c, p) + i]
      BY <2>1, <3>1 DEF ClientServed
    <3>3. p \in Nat /\ EndOf(c, p) \in Nat /\ received \in 0 .. Len(buf) /\ buf \in Seq(Cell) /\ received \in Nat
      <4>1. p \in 0 .. Len(Script[c]) /\ p \in Nat
        <5>1. executed[c] = [m \in 1 .. p |-> m] /\ p <= sent[c] /\ sent[c] <= Len(Script[c]) /\ sent[c] \in Nat
          BY <1>3, <3>2 DEF Base, DataInv
        <5>2. p \in Nat
          BY <2>1 DEF ClientServed
        <5> QED BY <5>1, <5>2, ScriptFact
      <4> QED BY <1>3, <4>1, EndsFact DEF Base, BufInv
    <3> HIDE DEF p
    <3>4. taken'[c] = EndOf(c, p) + received'
      BY <1>3, <1>4, <2>5, <3>2, <3>3
    <3>5. ASSUME NEW i \in 1 .. received'
          PROVE  buf'[i] = Wire[c][EndOf(c, p) + i]
      <4>1. /\ buf' = Placed(buf, received, Wire[c], taken[c], n)
            /\ buf \in Seq(Cell) /\ Wire[c] \in Seq(Cell) /\ received \in 0 .. Len(buf) /\ n \in Nat
            /\ taken[c] \in Nat /\ taken[c] + n <= Len(Wire[c])
        BY <1>2, <1>3, <1>4, <2>5, <3>3 DEF Received
      <4>2. i \in 1 .. received + n
        BY <2>5
      <4>3. buf'[i] = IF i <= received THEN buf[i] ELSE Wire[c][taken[c] + i - received]
        <5>1. PICK w \in Seq(Cell), t \in Nat : w = Wire[c] /\ t = taken[c]
          BY <4>1
        <5>2. buf \in Seq(Cell) /\ received \in 0 .. Len(buf) /\ n \in Nat /\ t + n <= Len(w)
          BY <4>1, <5>1
        <5>3. \A j \in 1 .. received + n :
                Placed(buf, received, w, t, n)[j] = IF j <= received THEN buf[j] ELSE w[t + j - received]
          BY <5>2, RestPlaced
        <5>4. buf' = Placed(buf, received, w, t, n)
          BY <4>1, <5>1
        <5> QED BY <4>2, <5>1, <5>3, <5>4
      <4>4. CASE i <= received
        BY <3>2, <3>3, <4>3, <4>4
      <4>5. CASE ~(i <= received)
        <5>1. taken[c] + i - received = EndOf(c, p) + i
          BY <3>2, <3>3, <4>1
        <5> QED BY <4>3, <4>5, <5>1
      <4> QED BY <4>4, <4>5
    <3>6. pc' = "update" => \E k \in 0 .. sent'[c] : EndOf(c, k) = taken'[c]
      <4> SUFFICES ASSUME pc' = "update"
                   PROVE  \E k \in 0 .. sent'[c] : EndOf(c, k) = taken'[c]
        OBVIOUS
      <4>1. ~NextLink
        BY DEF NextLink
      <4>2. torn' = torn \cup {d \in {Client} : \A k \in 0 .. sent[d] : EndOf(d, k) # taken[Client] + n}
        BY <1>2, <4>1
      <4>3. ~(\A k \in 0 .. sent[c] : EndOf(c, k) # taken[c] + n)
        BY <1>5, <2>5, <4>2
      <4> QED BY <1>4, <2>2, <2>5, <4>3
    <3> QED BY <2>2, <3>1, <3>2, <3>4, <3>5, <3>6 DEF ClientServed, p
  <2> QED BY <1>2, <2>3, <2>4, <2>5
<1> QED BY <1>1, <1>5 DEF IInv, ServedInv

(* What was read of a client who was not cut: the messages from the first  *)
(* that was not executed to the last that was taken.                       *)
LEMMA ReadFact ==
  ASSUME IInv, pc = "update", Client \notin torn
  PROVE  \E k \in 0 .. sent[Client] : /\ EndOf(Client, k) = taken[Client]
                                       /\ Holds(Client, Len(executed[Client]), k)
<1> DEFINE c == Client
           n == Len(executed[c])
<1>1. pc # "idle"
  OBVIOUS
<1>2. Base /\ c \in Clients
  BY <1>1, RoundFact
<1>3. ClientServed(c) /\ Reading(c)
  BY <1>2 DEF IInv, ServedInv, Reading
<1>4. /\ n <= sent[c] /\ executed[c] = [m \in 1 .. n |-> m] /\ taken[c] = EndOf(c, n) + received
      /\ \A i \in 1 .. received : buf[i] = Wire[c][EndOf(c, n) + i]
      /\ n \in Nat
  BY <1>3 DEF ClientServed
<1>5. PICK k \in 0 .. sent[c] : EndOf(c, k) = taken[c]
  BY <1>3 DEF ClientServed
<1>6. sent[c] \in Nat /\ sent[c] <= Len(Script[c]) /\ Len(Script[c]) \in Nat
  BY <1>2, ScriptFact DEF Base, DataInv
<1>7. buf \in Seq(Cell) /\ received \in 0 .. Len(buf) /\ received > 0 /\ received \in Nat
  BY <1>2 DEF Base, BufInv, StepInv, RoundInv
<1> HIDE DEF n, c
<1>8. n \in 0 .. Len(Script[c]) /\ k \in 0 .. Len(Script[c])
  BY <1>4, <1>6
<1>9. EndOf(c, n) \in Nat /\ EndOf(c, k) \in Nat /\ (k <= n <=> EndOf(c, k) <= EndOf(c, n))
  BY <1>2, <1>8, EndsGrow
<1>10. received = EndOf(c, k) - EndOf(c, n) /\ k \in n + 1 .. Len(Script[c])
  BY <1>4, <1>5, <1>7, <1>8, <1>9
<1>11. Holds(c, n, k)
  BY <1>4, <1>7, <1>8, <1>10 DEF Holds
<1> QED BY <1>5, <1>11 DEF n, c

(* They are found, with their kinds and numbers.                           *)
LEMMA FoundRow ==
  ASSUME NEW c \in Clients, NEW n, NEW k, Holds(c, n, k)
  PROVE  /\ Found \in Seq(Nat) /\ Len(Found) = k - n /\ Len(Found) > 0 /\ n \in Nat /\ k \in Nat /\ n < k
         /\ \A j \in 1 .. k - n : /\ Found[j] # 0 /\ KindAt(Found[j]) = Script[c][n + j].kind
                                   /\ NumberAt(c, Found[j]) = n + j
<1>1. n \in Nat /\ k \in Nat /\ n < k /\ Found = [j \in 1 .. k - n |-> StartOf(c, n, n + j)]
  BY FoundFact
<1>2. received \in Nat
  <2>1. n \in 0 .. Len(Script[c]) /\ k \in 0 .. Len(Script[c]) /\ received = EndOf(c, k) - EndOf(c, n) /\ n <= k
    BY <1>1, ScriptFact DEF Holds
  <2>2. EndOf(c, n) \in Nat /\ EndOf(c, k) \in Nat /\ EndOf(c, n) <= EndOf(c, k)
    BY <2>1, EndsGrow
  <2> QED BY <2>1, <2>2
<1>3. ASSUME NEW j \in 1 .. k - n
      PROVE  /\ Found[j] \in Nat /\ Found[j] # 0 /\ KindAt(Found[j]) = Script[c][n + j].kind
             /\ NumberAt(c, Found[j]) = n + j
  <2>1. n + j \in n + 1 .. k /\ Found[j] = StartOf(c, n, n + j)
    BY <1>1
  <2>2. /\ StartOf(c, n, n + j) \in 1 .. received - 1
        /\ KindAt(StartOf(c, n, n + j)) = Script[c][n + j].kind /\ NumberAt(c, StartOf(c, n, n + j)) = n + j
    BY <2>1, MessageFact
  <2> QED BY <1>2, <2>1, <2>2
<1>4. k - n \in Nat /\ k - n > 0
  BY <1>1
<1>5. PICK f : f = Found /\ f = [j \in 1 .. k - n |-> StartOf(c, n, n + j)]
  BY <1>1
<1>6. f \in Seq(Nat) /\ Len(f) = k - n
  <2>1. f = [j \in 1 .. k - n |-> f[j]] /\ \A j \in 1 .. k - n : f[j] \in Nat
    BY <1>3, <1>5
  <2>2. f \in [1 .. k - n -> Nat]
    BY <2>1
  <2> QED BY <1>4, <2>2
<1> QED BY <1>1, <1>3, <1>4, <1>5, <1>6

(* What is retrieved ends with the first VIMS_CLOSE.                       *)
LEMMA RetrievedFact ==
  ASSUME NEW f \in Seq(Nat), Len(f) > 0
  PROVE  \E d \in 1 .. Len(f) :
           /\ Retrieved(f) = [j \in 1 .. d |-> f[j]]
           /\ Closing(Retrieved(f)) = {} => d = Len(f)
           /\ Closing(Retrieved(f)) # {} => \E j \in 1 .. Len(f) : KindAt(f[j]) = "close"
<1> DEFINE T == Closing(f) \cup {Len(f)}
           d == Min(T)
<1>1. DOMAIN f = 1 .. Len(f) /\ Len(f) \in Nat
  OBVIOUS
<1>2. T \subseteq 1 .. Len(f) /\ T \subseteq Nat /\ T # {}
  BY <1>1 DEF Closing
<1>3. d \in T
  <2> HIDE DEF T
  <2> QED BY <1>2, MinFact
<1>4. d \in 1 .. Len(f)
  <2> HIDE DEF d, T
  <2> QED BY <1>2, <1>3
<1>5. Retrieved(f) = SubSeq(f, 1, d)
  BY DEF Retrieved
<1>6. d \in Closing(f) \/ d = Len(f)
  BY <1>3
<1> HIDE DEF d, T
<1>7. SubSeq(f, 1, d) = [j \in 1 .. d |-> f[j]]
  BY <1>1, <1>4
<1>8. PICK done : done = Retrieved(f)
  OBVIOUS
<1>9. done = [j \in 1 .. d |-> f[j]]
  BY <1>5, <1>7, <1>8
<1>10. Closing(done) = {} => d = Len(f)
  <2>1. ASSUME d \in Closing(f)
        PROVE  d \in Closing(done)
    <3>1. d \in 1 .. d /\ DOMAIN done = 1 .. d /\ done[d] = f[d]
      BY <1>4, <1>9
    <3> QED BY <2>1, <3>1 DEF Closing
  <2> QED BY <1>6, <2>1
<1>11. Closing(done) # {} => \E j \in 1 .. Len(f) : KindAt(f[j]) = "close"
  BY <1>1, <1>4, <1>9 DEF Closing
<1> QED BY <1>4, <1>8, <1>9, <1>10, <1>11

LEMMA Counted ==
  ASSUME NEW n \in Nat, NEW d \in Nat
  PROVE  [m \in 1 .. n |-> m] \o [j \in 1 .. d |-> n + j] = [m \in 1 .. n + d |-> m]
<1> DEFINE u == [m \in 1 .. n |-> m]
           v == [j \in 1 .. d |-> n + j]
<1>1. u \in Seq(Nat) /\ v \in Seq(Nat) /\ Len(u) = n /\ Len(v) = d
  OBVIOUS
<1>2. /\ \A m \in 1 .. n : u[m] = m
      /\ \A j \in 1 .. d : v[j] = n + j
  OBVIOUS
<1> HIDE DEF u, v
<1>3. u \o v \in Seq(Nat) /\ Len(u \o v) = n + d
  BY <1>1
<1>4. ASSUME NEW m \in 1 .. n + d
      PROVE  (u \o v)[m] = m
  <2>1. CASE m <= n
    BY <1>1, <1>2, <2>1
  <2>2. CASE ~(m <= n)
    <3>1. m - n \in 1 .. d /\ n + (m - n) = m
      BY <2>2
    <3> QED BY <1>1, <1>2, <2>2, <3>1
  <2> QED BY <2>1, <2>2
<1>5. PICK w : w = u \o v
  OBVIOUS
<1>6. w \in Seq(Nat) /\ Len(w) = n + d /\ \A m \in 1 .. n + d : w[m] = m
  BY <1>3, <1>4, <1>5
<1>7. w = [m \in 1 .. n + d |-> m]
  BY <1>6
<1> QED BY <1>5, <1>7 DEF u, v

LEMMA UpdateServed ==
  ASSUME IInv, Update
  PROVE  ServedInv'
<1>1. /\ pc = "update" /\ pc # "idle" /\ NextLink /\ UNCHANGED <<sent, taken, buf, torn>>
      /\ Close \/ UNCHANGED <<conn, slot>>
  BY DEF Update
<1>2. /\ Client \in Clients /\ conn[Client] = "open" /\ conn \in [Clients -> {"away", "open", "closed"}]
      /\ DOMAIN executed = Clients
  BY <1>1, RoundFact DEF IInv, TypeOK, ServedInv
<1>3. \A c \in Clients : c # Client => executed'[c] = executed[c]
  BY <1>2 DEF Update
<1>4. DOMAIN executed' = Clients /\ executed' = [c \in Clients |-> executed'[c]]
  BY <1>2 DEF Update, IInv, ServedInv
<1>5. ASSUME NEW c \in Clients \ torn'
      PROVE  ClientServed(c)'
  <2>1. ClientServed(c) /\ c \notin torn /\ ~Reading(c)' /\ taken'[c] = taken[c] /\ sent'[c] = sent[c]
    BY <1>1, RoundFact DEF IInv, ServedInv
  <2>2. CASE c # Client
    <3>1. ~Reading(c) /\ conn'[c] = conn[c]
      BY <1>1, <2>2, RoundFact
    <3> QED BY <1>3, <2>1, <2>2, <3>1, OthersServed
  <2>3. CASE c = Client /\ ~Accepted(Found)
    <3>1. Close /\ UNCHANGED executed
      BY <2>3 DEF Update
    <3>2. conn'[c] = "closed"
      BY <1>1, <2>3, <3>1, RoundFact
    <3> QED BY <2>1, <3>1, <3>2, ClosedServed
  <2>4. CASE c = Client /\ Accepted(Found)
    <3>0. Len(executed[c]) \in Nat /\ executed[c] = [m \in 1 .. Len(executed[c]) |-> m]
      BY <2>1 DEF ClientServed
    <3>1. PICK n : n = Len(executed[c]) /\ n \in Nat /\ executed[c] = [m \in 1 .. n |-> m]
      BY <3>0
    <3>2. PICK k \in 0 .. sent[c] : EndOf(c, k) = taken[c] /\ Holds(c, n, k)
      BY <1>1, <2>1, <2>4, <3>1, ReadFact
    <3>3. PICK found : found = Found
      OBVIOUS
    <3>4. /\ found \in Seq(Nat) /\ Len(found) = k - n /\ Len(found) > 0 /\ k \in Nat
          /\ \A j \in 1 .. k - n : NumberAt(c, found[j]) = n + j
      BY <3>2, <3>3, FoundRow
    <3>5. PICK d \in 1 .. Len(found) : /\ Retrieved(found) = [j \in 1 .. d |-> found[j]]
                                       /\ Closing(Retrieved(found)) = {} => d = Len(found)
      BY <3>4, RetrievedFact
    <3>6. /\ executed' = [executed EXCEPT ![c] = @ \o [j \in DOMAIN Retrieved(found) |-> NumberAt(c, Retrieved(found)[j])]]
          /\ IF Closing(Retrieved(found)) # {} THEN Close ELSE UNCHANGED <<conn, slot>>
      BY <2>4, <3>3 DEF Update
    <3>7. [j \in DOMAIN Retrieved(found) |-> NumberAt(c, Retrieved(found)[j])] = [j \in 1 .. d |-> n + j]
      BY <3>4, <3>5
    <3>8. executed'[c] = [m \in 1 .. n |-> m] \o [j \in 1 .. d |-> n + j]
      BY <1>2, <3>1, <3>6, <3>7
    <3>9. d \in Nat /\ n + d <= k /\ n + d \in Nat
      BY <3>1, <3>4
    <3>10. executed'[c] = [m \in 1 .. n + d |-> m] /\ Len(executed'[c]) = n + d
      <4>1. executed'[c] = [m \in 1 .. n + d |-> m]
        BY <3>1, <3>8, <3>9, Counted
      <4>2. PICK e : e = executed'[c]
        OBVIOUS
      <4>3. e = [m \in 1 .. n + d |-> m]
        BY <4>1, <4>2
      <4>4. e \in Seq(Nat) /\ Len(e) = n + d
        BY <3>9, <4>3
      <4> QED BY <4>1, <4>2, <4>4
    <3>11. n + d <= sent'[c]
      <4>1. sent[c] \in Nat
        BY DEF IInv, TypeOK
      <4> QED BY <2>1, <3>4, <3>9, <4>1
    <3>12. conn'[c] # "closed" => taken'[c] = EndOf(c, n + d)
      <4>1. conn'[c] # "closed" => Closing(Retrieved(found)) = {}
        BY <1>1, <2>4, <3>6, RoundFact
      <4>2. d = Len(found) => n + d = k
        BY <3>1, <3>4
      <4> QED BY <2>1, <3>2, <3>5, <4>1, <4>2
    <3> QED BY <2>1, <3>10, <3>11, <3>12 DEF ClientServed
  <2> QED BY <2>2, <2>3, <2>4
<1> QED BY <1>1, <1>4, <1>5 DEF ServedInv

-----------------------------------------------------------------------------
LEMMA InitInv == Init => IInv
<1> SUFFICES ASSUME Init
             PROVE  IInv
  OBVIOUS
<1>1. ConnInv
  <2>1. /\ conn = [c \in Clients |-> "away"] /\ left = {} /\ backlog = <<>> /\ slot = [l \in Links |-> Nobody]
        /\ Nobody \notin Clients
    BY SizeAssumption DEF Init
  <2>2. backlog \in Seq(Clients) /\ DOMAIN backlog = {} /\ Range(backlog) = {}
    BY <2>1 DEF Range
  <2>3. \A c \in Clients : c \notin Range(slot)
    BY <2>1 DEF Range
  <2> QED BY <2>1, <2>2, <2>3 DEF ConnInv, QueueInv
<1>2. DataInv
  <2>1. sent = [c \in Clients |-> 0] /\ taken = [c \in Clients |-> 0] /\ torn = {}
    BY DEF Init
  <2>2. \A c \in Clients : EndOf(c, 0) = 0 /\ Len(Script[c]) \in Nat
    BY EndsFact, ScriptFact
  <2> QED BY <2>1, <2>2 DEF DataInv
<1>3. StepInv /\ BufInv
  BY DEF Init, StepInv, RoundInv, BufInv
<1>4. ServedInv
  <2>1. executed = [c \in Clients |-> <<>>]
    BY DEF Init
  <2>2. ASSUME NEW c \in Clients
        PROVE  ClientServed(c)
    <3>1. executed[c] = <<>> /\ Len(executed[c]) = 0 /\ <<>> = [m \in 1 .. 0 |-> m]
      BY <2>1
    <3>2. sent[c] = 0 /\ taken[c] = 0 /\ pc = "idle" /\ EndOf(c, 0) = 0
      BY EndsFact DEF Init
    <3>3. ~Reading(c)
      BY <3>2 DEF Reading
    <3> QED BY <3>1, <3>2, <3>3 DEF ClientServed
  <2> QED BY <2>1, <2>2 DEF ServedInv
<1> QED BY <1>1, <1>2, <1>3, <1>4, BaseFact DEF IInv, Base

LEMMA StepKeeps == IInv /\ [Next]_vars => IInv'
<1> SUFFICES ASSUME IInv, [Next]_vars
             PROVE  IInv'
  OBVIOUS
<1>1. Base
  BY BaseFact DEF IInv
<1>2. Base' /\ ServedInv' => IInv'
  BY DEF IInv, TypeOK, Base, ConnInv, DataInv, StepInv, BufInv
<1>3. ASSUME NEW c \in Clients, Connect(c) \/ Send(c) \/ Leave(c)
      PROVE  Base' /\ ServedInv'
  BY <1>1, <1>3, ConnectBase, SendBase, LeaveBase, ClientsServed
<1>4. CASE Poll
  BY <1>1, <1>2, <1>4, PollBase, PollServed
<1>5. CASE FirstByte
  BY <1>1, <1>2, <1>5, FirstByteBase, FirstByteServed
<1>6. CASE Receive
  BY <1>1, <1>2, <1>6, ReceiveBase, ReceiveServed
<1>7. CASE Update
  BY <1>1, <1>2, <1>7, UpdateBase, UpdateServed
<1>8. CASE UNCHANGED vars
  <2>1. Base'
    BY <1>1, <1>8 DEF vars, Base, ConnInv, QueueInv, DataInv, StepInv, RoundInv, BufInv
  <2>2. \A c \in Clients : ClientServed(c)' <=> ClientServed(c)
    BY <1>8 DEF vars, ClientServed, Reading, Client, Link
  <2>3. executed' = executed /\ torn' = torn
    BY <1>8 DEF vars
  <2>4. ServedInv'
    BY <2>2, <2>3 DEF IInv, ServedInv
  <2> QED BY <1>2, <2>1, <2>4
<1> QED BY <1>2, <1>3, <1>4, <1>5, <1>6, <1>7, <1>8 DEF Next, Server

LEMMA ServedFact ==
  ASSUME IInv
  PROVE  WholeReadsServed
<1> SUFFICES ASSUME NEW c \in Clients \ torn
             PROVE  /\ executed[c] = [m \in 1 .. Len(executed[c]) |-> m]
                    /\ conn[c] = "open" /\ ~Reading(c) => Len(executed[c]) = Whole(c, taken[c])
  BY DEF WholeReadsServed
<1>1. ClientServed(c)
  BY DEF IInv, ServedInv
<1>2. Len(executed[c]) \in Nat /\ Len(executed[c]) <= sent[c]
  BY <1>1 DEF ClientServed
<1>3. Len(executed[c]) \in 0 .. Len(Script[c])
  BY <1>2, ScriptFact DEF IInv, TypeOK
<1>4. Whole(c, EndOf(c, Len(executed[c]))) = Len(executed[c])
  BY <1>3, WholeFact
<1> QED BY <1>1, <1>4 DEF ClientServed

(* Why a connection may be closed, for each step that closes one.          *)
Reason(c) ==
  \/ AtEOF(c) \/ c \in torn
  \/ \E m \in 1 .. sent[c] : Script[c][m].kind \in {"close", "zero"} /\ EndOf(c, m) <= taken[c]
  \/ (pc = "update" /\ Len(Found) >= MaxPending)
  \/ pc = "more" /\ received + RecvSize > BufSize
  \/ backlog # <<>> /\ Head(backlog) = c /\ \A l \in Links : slot[l] # Nobody

(* A client that was not cut is at the end of a message when its next byte *)
(* is read: that byte is the first of a message.                           *)
LEMMA FirstByteReason ==
  ASSUME IInv, FirstByte, NEW c \in Clients, conn[c] = "open", conn'[c] = "closed"
  PROVE  Reason(c)
<1>1. pc # "idle" /\ pc = "links" /\ ~Reading(c)
  BY DEF FirstByte, Reading
<1>2. c = Client
  <2>1. Close \/ conn' = conn
    BY DEF FirstByte
  <2> QED BY <1>1, <2>1, RoundFact
<1>3. CASE AtEOF(Client)
  BY <1>2, <1>3 DEF Reason
<1>4. CASE ~AtEOF(Client) /\ c \notin torn
  <2> DEFINE n == Len(executed[c])
             x == Wire[c][taken[c] + 1]
  <2>1. InFlight(c) > 0 /\ (IsFirst(x) => conn' = conn)
    BY <1>2, <1>4 DEF FirstByte
  <2>2. n <= sent[c] /\ taken[c] = EndOf(c, n) /\ n \in Nat
    BY <1>1, <1>4 DEF IInv, ServedInv, ClientServed
  <2>3. sent[c] \in Nat /\ sent[c] <= Len(Script[c]) /\ Len(Script[c]) \in Nat /\ Numbers(c) = 1 .. Len(Script[c])
    BY ScriptFact DEF IInv, TypeOK
  <2> HIDE DEF n
  <2>4. n \in 0 .. Len(Script[c]) /\ n # sent[c]
    <3>1. n \in 0 .. Len(Script[c])
      BY <2>2, <2>3
    <3>2. EndOf(c, n) \in Nat
      BY <3>1, EndsFact
    <3>3. n = sent[c] => InFlight(c) = 0
      BY <2>2, <3>2 DEF InFlight
    <3> QED BY <2>1, <3>1, <3>3
  <2>5. n + 1 \in Numbers(c) /\ n + 1 - 1 = n
    BY <2>2, <2>3, <2>4
  <2>6. 1 \in 1 .. Script[c][n + 1].len
    BY <2>5, ScriptFact
  <2>7. x = <<c, n + 1, 1>>
    BY <2>2, <2>5, <2>6, WireFact
  <2>8. IsFirst(x)
    <3>1. x \in Clients \X Nat \X Nat
      BY <2>2, <2>7
    <3> QED BY <2>7, <3>1, SizeAssumption DEF IsFirst
  <2> QED BY <2>1, <2>8
<1> QED BY <1>3, <1>4 DEF Reason

LEMMA ReceiveReason ==
  ASSUME IInv, Receive, NEW c \in Clients, conn[c] = "open", conn'[c] = "closed"
  PROVE  Reason(c)
<1>1. pc \in {"rest", "more"} /\ pc # "idle"
  BY DEF Receive
<1>2. received + RecvSize - 1 > BufSize
  BY DEF Receive
<1>3. received \in Nat /\ (pc = "rest" => received = 1)
  <2>1. Base
    BY <1>1, RoundFact
  <2> QED BY <2>1 DEF Base, BufInv, StepInv, RoundInv
<1>4. pc = "more" /\ received + RecvSize > BufSize
  BY <1>1, <1>2, <1>3, SizeAssumption
<1> QED BY <1>4 DEF Reason

LEMMA UpdateReason ==
  ASSUME IInv, Update, NEW c \in Clients, conn[c] = "open", conn'[c] = "closed"
  PROVE  Reason(c)
<1>1. pc = "update" /\ pc # "idle"
  BY DEF Update
<1>2. c = Client
  <2>1. Close \/ conn' = conn
    BY DEF Update
  <2> QED BY <1>1, <2>1, RoundFact
<1>3. CASE c \notin torn
  <2>1. PICK n : n = Len(executed[c])
    OBVIOUS
  <2>2. PICK k \in 0 .. sent[c] : EndOf(c, k) = taken[c] /\ Holds(c, n, k)
    BY <1>1, <1>2, <1>3, <2>1, ReadFact
  <2>3. PICK found : found = Found
    OBVIOUS
  <2>4. /\ found \in Seq(Nat) /\ Len(found) = k - n /\ Len(found) > 0 /\ n \in Nat /\ k \in Nat /\ n < k
        /\ \A j \in 1 .. k - n : found[j] # 0 /\ KindAt(found[j]) = Script[c][n + j].kind
    BY <2>2, <2>3, FoundRow
  <2>5. DOMAIN found = 1 .. k - n /\ 0 \notin Range(found) /\ received > 1
    <3>1. DOMAIN found = 1 .. k - n
      BY <2>4
    <3>2. n \in 0 .. Len(Script[c]) /\ k \in 0 .. Len(Script[c]) /\ received = EndOf(c, k) - EndOf(c, n)
      BY <2>2, <2>4, ScriptFact DEF Holds
    <3>3. EndOf(c, n) \in Nat /\ EndOf(c, k) \in Nat /\ EndOf(c, n) + 3 <= EndOf(c, k)
      BY <2>4, <3>2, EndsGrow
    <3>4. received > 1
      BY <3>2, <3>3
    <3> QED BY <2>4, <3>1, <3>4 DEF Range
  <2>6. ASSUME NEW j \in 1 .. k - n, KindAt(found[j]) \in {"close", "zero"}
        PROVE  Reason(c)
    <3>1. sent[c] \in Nat /\ sent[c] <= Len(Script[c]) /\ Len(Script[c]) \in Nat
      BY ScriptFact DEF IInv, TypeOK
    <3>2. n + j \in 1 .. sent[c] /\ n + j <= k /\ n + j \in 0 .. Len(Script[c]) /\ k \in 0 .. Len(Script[c])
      BY <2>4, <3>1
    <3>3. EndOf(c, n + j) <= taken[c]
      BY <2>2, <3>2, EndsGrow
    <3>4. Script[c][n + j].kind \in {"close", "zero"}
      BY <2>4, <2>6
    <3> QED BY <3>2, <3>3, <3>4 DEF Reason
  <2>7. CASE Accepted(found)
    <3>1. Closing(Retrieved(found)) # {}
      BY <2>3, <2>7 DEF Update
    <3>2. \E j \in 1 .. Len(found) : KindAt(found[j]) = "close"
      BY <2>4, <3>1, RetrievedFact
    <3> QED BY <2>4, <2>6, <3>2
  <2>8. CASE ~Accepted(found)
    <3>1. CASE ~Verified(found)
      <4>1. ~(Len(found) < MaxPending)
        BY <2>5, <3>1 DEF Verified
      <4>2. Len(found) >= MaxPending
        BY <2>4, <4>1, SizeAssumption
      <4> QED BY <1>1, <2>3, <4>2 DEF Reason
    <3>2. CASE Verified(found)
      <4>1. PICK j \in DOMAIN found : KindAt(found[j]) = "zero"
        BY <2>8, <3>2 DEF Accepted
      <4> QED BY <2>5, <2>6, <4>1
    <3> QED BY <3>1, <3>2
  <2> QED BY <2>7, <2>8
<1> QED BY <1>3 DEF Reason

LEMMA StepReason ==
  ASSUME IInv, [Next]_vars, NEW c \in Clients, conn[c] = "open", conn'[c] = "closed"
  PROVE  Reason(c)
<1>1. conn \in [Clients -> {"away", "open", "closed"}]
  BY DEF IInv, TypeOK
<1>2. CASE \E d \in Clients : Connect(d) \/ Send(d) \/ Leave(d)
  <2>1. PICK d \in Clients : Connect(d) \/ Send(d) \/ Leave(d)
    BY <1>2
  <2> QED BY <1>1, <2>1 DEF Connect, Send, Leave
<1>3. CASE Poll
  <2>1. backlog # <<>> /\ Free = {} /\ conn' = [conn EXCEPT ![Head(backlog)] = "closed"]
    BY <1>3 DEF Poll
  <2>2. Head(backlog) = c
    BY <1>1, <2>1
  <2>3. \A l \in Links : slot[l] # Nobody
    BY <2>1 DEF Free
  <2> QED BY <2>1, <2>2, <2>3 DEF Reason
<1>4. CASE UNCHANGED vars
  BY <1>4 DEF vars
<1> QED BY <1>2, <1>3, <1>4, FirstByteReason, ReceiveReason, UpdateReason DEF Next, Server

-----------------------------------------------------------------------------
(* What a poll or a first byte found stays there until it is read.         *)
Ready(c) == InFlight(c) > 0 \/ AtEOF(c)
TurnsReady == \A l \in readable : pc = "links" \/ l # Link => Ready(slot[l])

LEMMA FlightFact ==
  ASSUME Base, NEW c \in Clients
  PROVE  /\ InFlight(c) \in Nat /\ InFlight(c) = EndOf(c, sent[c]) - taken[c]
         /\ taken[c] \in Nat /\ EndOf(c, sent[c]) \in Nat /\ sent[c] \in 0 .. Len(Script[c])
<1>1. sent[c] \in Nat /\ taken[c] \in Nat /\ sent[c] <= Len(Script[c]) /\ taken[c] <= EndOf(c, sent[c])
  BY DEF Base, DataInv
<1>2. sent[c] \in 0 .. Len(Script[c])
  BY <1>1, ScriptFact
<1>3. EndOf(c, sent[c]) \in Nat
  BY <1>2, EndsFact
<1> QED BY <1>1, <1>2, <1>3 DEF InFlight

(* Clients only add to it, or end what was theirs.                         *)
LEMMA ClientsKeep ==
  ASSUME Base, NEW d \in Clients, Connect(d) \/ Send(d) \/ Leave(d), NEW c \in Clients
  PROVE  /\ InFlight(c) > 0 => InFlight(c)' > 0
         /\ Ready(c) => Ready(c)'
<1>1. CASE Connect(d) \/ Leave(d)
  <2>1. sent' = sent /\ taken' = taken /\ left \subseteq left'
    BY <1>1 DEF Connect, Leave
  <2> QED BY <2>1 DEF InFlight, AtEOF, Ready
<1>2. CASE Send(d) /\ c # d
  <2>1. sent'[c] = sent[c] /\ taken' = taken /\ left' = left
    BY <1>2 DEF Send, Base, DataInv
  <2> QED BY <2>1 DEF InFlight, AtEOF, Ready
<1>3. CASE Send(d) /\ c = d
  <2>1. sent'[c] = sent[c] + 1 /\ taken' = taken /\ c \notin left /\ sent[c] < Len(Script[c])
    BY <1>3 DEF Send, Base, DataInv
  <2>2. /\ InFlight(c) = EndOf(c, sent[c]) - taken[c] /\ taken[c] \in Nat /\ EndOf(c, sent[c]) \in Nat
        /\ sent[c] \in 0 .. Len(Script[c]) /\ InFlight(c) \in Nat
    BY FlightFact
  <2>3. sent'[c] \in 0 .. Len(Script[c]) /\ sent[c] <= sent'[c]
    BY <2>1, <2>2, ScriptFact
  <2>4. EndOf(c, sent[c]) <= EndOf(c, sent'[c]) /\ EndOf(c, sent'[c]) \in Nat
    BY <2>2, <2>3, EndsGrow
  <2>5. InFlight(c)' = EndOf(c, sent'[c]) - taken[c]
    BY <2>1 DEF InFlight, EndOf
  <2>6. InFlight(c) > 0 => InFlight(c)' > 0
    BY <2>2, <2>4, <2>5
  <2> QED BY <2>1, <2>6 DEF Ready, AtEOF
<1> QED BY <1>1, <1>2, <1>3

LEMMA ClientsFind ==
  ASSUME Base, RecvFindsData, NEW d \in Clients, Connect(d) \/ Send(d) \/ Leave(d)
  PROVE  RecvFindsData'
<1>1. slot' = slot /\ readable' = readable /\ pc' = pc
  BY DEF Connect, Send, Leave
<1>2. Link' = Link /\ Client' = Client
  BY <1>1 DEF Link, Client
<1>3. \A l \in readable : slot[l] \in Clients
  BY DEF Base, StepInv, RoundInv, ConnInv
<1>4. \A l \in readable : Ready(slot[l]) => Ready(slot[l])'
  <2> TAKE l \in readable
  <2>1. PICK c \in Clients : c = slot[l]
    BY <1>3
  <2>2. Ready(c) => Ready(c)'
    BY ClientsKeep
  <2> QED BY <1>1, <2>1, <2>2 DEF Ready, InFlight, AtEOF
<1>5. pc = "rest" => InFlight(Client)' > 0 \/ EndOfCutKeys(Client)'
  <2> SUFFICES ASSUME pc = "rest"
               PROVE  InFlight(Client)' > 0 \/ EndOfCutKeys(Client)'
    OBVIOUS
  <2>1. PICK c \in Clients : c = Client
    BY LinkFact DEF Base
  <2>2. CASE InFlight(c) > 0
    <3>1. InFlight(c)' > 0
      BY <2>2, ClientsKeep
    <3> QED BY <1>2, <2>1, <3>1 DEF InFlight
  <2>3. CASE EndOfCutKeys(c)
    <3>1. taken' = taken /\ torn' = torn
      BY DEF Connect, Send, Leave
    <3> QED BY <1>2, <2>1, <2>3, <3>1 DEF EndOfCutKeys
  <2> QED BY <2>1, <2>2, <2>3 DEF RecvFindsData
<1> QED BY <1>1, <1>2, <1>4, <1>5 DEF RecvFindsData, Ready

LEMMA PollFinds ==
  ASSUME Base, Poll
  PROVE  RecvFindsData'
<1>1. /\ readable' = {l \in Used : InFlight(slot[l]) > 0 \/ AtEOF(slot[l])} /\ pc' \in {"idle", "links"}
      /\ sent' = sent /\ taken' = taken /\ left' = left
  BY DEF Poll
<1>2. \A l \in Used : slot'[l] = slot[l]
  <2>1. CASE UNCHANGED slot
    BY <2>1
  <2>2. CASE Free # {} /\ slot' = [slot EXCEPT ![Min(Free)] = Head(backlog)]
    <3>1. Free \subseteq Nat
      BY SizeAssumption DEF Free, Links
    <3>2. Min(Free) \in Free
      BY <2>2, <3>1, MinFact
    <3>3. \A l \in Used : l # Min(Free) /\ l \in Links
      BY <3>2 DEF Used, Free
    <3> QED BY <2>2, <3>3 DEF Base, ConnInv
  <2> QED BY <2>1, <2>2 DEF Poll
<1>3. \A l \in readable' : Ready(slot[l])'
  <2> TAKE l \in readable'
  <2>1. l \in Used /\ Ready(slot[l]) /\ slot'[l] = slot[l]
    BY <1>1, <1>2 DEF Ready
  <2> QED BY <1>1, <2>1 DEF Ready, InFlight, AtEOF
<1> QED BY <1>1, <1>3 DEF RecvFindsData, Ready

(* A step at one link takes nothing from the clients of the others.        *)
LEMMA TurnsKept ==
  ASSUME Base, TurnsReady, pc # "idle", UNCHANGED <<left, sent>>,
         \A d \in Clients : d # Client => taken'[d] = taken[d],
         \/ NextLink /\ (Close \/ slot' = slot)
         \/ UNCHANGED <<slot, readable>> /\ pc' # "links"
  PROVE  TurnsReady'
<1>1. /\ Link \in readable /\ readable \subseteq Links
      /\ \A l \in readable : l # Link => slot[l] \in Clients /\ slot[l] # Client
  BY LinkFact DEF Base, StepInv, RoundInv, ConnInv
<1>2. /\ readable' \subseteq readable
      /\ \A l \in readable' : pc' = "links" \/ l # Link' => l # Link
  <2>1. CASE NextLink
    BY <2>1 DEF NextLink
  <2>2. CASE UNCHANGED <<slot, readable>> /\ pc' # "links"
    <3>1. Link' = Link
      BY <2>2 DEF Link
    <3> QED BY <2>2, <3>1
  <2> QED BY <2>1, <2>2
<1>3. \A l \in readable : l # Link => slot'[l] = slot[l]
  <2>1. CASE Close
    BY <1>1, <2>1 DEF Close, Base, ConnInv
  <2> QED BY <2>1
<1>4. ASSUME NEW l \in readable', pc' = "links" \/ l # Link'
      PROVE  Ready(slot[l])'
  <2>1. l \in readable /\ l # Link
    BY <1>2, <1>4
  <2>2. Ready(slot[l]) /\ slot[l] \in Clients /\ slot[l] # Client /\ slot'[l] = slot[l]
    BY <1>1, <1>3, <2>1 DEF TurnsReady
  <2>3. taken'[slot[l]] = taken[slot[l]] /\ sent' = sent /\ left' = left
    BY <2>2
  <2> QED BY <2>2, <2>3 DEF Ready, InFlight, AtEOF
<1> QED BY <1>4 DEF TurnsReady

(* Behind a byte that is let in there is at least one more, because whole  *)
(* messages are sent and none is a single byte: the byte is no last one of *)
(* its message, unless it ends a packet of key frames that was cut.        *)
LEMMA MoreFollows ==
  ASSUME Base, ServedInv, NEW c \in Clients, conn[c] # "closed", ~Reading(c),
         InFlight(c) > 0, IsFirst(Wire[c][taken[c] + 1])
  PROVE  InFlight(c) > 1 \/ (c \in torn /\ IsKeys(Wire[c][taken[c] + 1]))
<1>1. /\ InFlight(c) = EndOf(c, sent[c]) - taken[c] /\ taken[c] \in Nat /\ EndOf(c, sent[c]) \in Nat
      /\ sent[c] \in 0 .. Len(Script[c])
  BY FlightFact
<1>2. Len(Script[c]) \in Nat /\ Len(Script[c]) \in 0 .. Len(Script[c]) /\ sent[c] <= Len(Script[c])
  BY <1>1, ScriptFact
<1>3. EndOf(c, sent[c]) <= EndOf(c, Len(Script[c])) /\ EndOf(c, Len(Script[c])) \in Nat
  BY <1>1, <1>2, EndsGrow
<1>4. taken[c] + 1 \in 1 .. EndOf(c, Len(Script[c])) /\ taken[c] < EndOf(c, sent[c])
  BY <1>1, <1>3
<1>5. PICK p \in 1 .. EndOf(c, Len(Script[c])) : p = taken[c] + 1
  BY <1>4
<1>6. PICK m \in Numbers(c) : /\ p - EndOf(c, m - 1) \in 1 .. Script[c][m].len /\ EndOf(c, m - 1) \in Nat
                             /\ Wire[c][p] = <<c, m, p - EndOf(c, m - 1)>>
  BY WirePlace
<1>7. PICK q \in 1 .. Script[c][m].len : q = p - EndOf(c, m - 1)
  BY <1>6
<1>8. /\ m \in 1 .. Len(Script[c]) /\ m - 1 \in 0 .. Len(Script[c]) /\ m \in 0 .. Len(Script[c])
      /\ m - 1 \in Int /\ Script[c][m].len \in Nat /\ Script[c][m].len > 2
      /\ q \in Nat /\ q >= 1 /\ q <= Script[c][m].len
  <2>1. m \in 1 .. Len(Script[c]) /\ Script[c][m].len \in Nat /\ Script[c][m].len > 2
    BY ScriptFact
  <2> QED BY <1>2, <1>7, <2>1
<1>9. /\ EndOf(c, m) = EndOf(c, m - 1) + Script[c][m].len /\ EndOf(c, m) \in Nat
      /\ taken[c] = EndOf(c, m - 1) + q - 1
  <2>1. EndOf(c, m) = EndOf(c, m - 1) + Script[c][m].len /\ EndOf(c, m) \in Nat
    BY <1>8, EndsFact
  <2>2. p = taken[c] + 1 /\ q = p - EndOf(c, m - 1) /\ EndOf(c, m - 1) \in Nat
    BY <1>5, <1>6, <1>7
  <2>3. taken[c] = EndOf(c, m - 1) + q - 1
    <3> DEFINE e == EndOf(c, m - 1)
               t == taken[c]
    <3>1. p = t + 1 /\ q = p - e /\ e \in Nat /\ t \in Nat
      BY <1>1, <2>2
    <3> HIDE DEF e, t
    <3>2. t = e + q - 1
      BY <3>1
    <3> QED BY <3>2 DEF e, t
  <2> QED BY <2>1, <2>3
<1>10. m <= sent[c]
  <2>1. ~(sent[c] <= m - 1)
    <3>1. sent[c] <= m - 1 <=> EndOf(c, sent[c]) <= EndOf(c, m - 1)
      BY <1>1, <1>8, EndsGrow
    <3> QED BY <1>1, <1>4, <1>6, <1>7, <1>9, <3>1
  <2> QED BY <1>1, <1>8, <2>1
<1>11. EndOf(c, m) <= EndOf(c, sent[c])
  BY <1>1, <1>8, <1>10, EndsGrow
<1>12. CASE q < Script[c][m].len
  <2> DEFINE e == EndOf(c, m - 1)
             len == Script[c][m].len
             f == EndOf(c, sent[c])
  <2>1. e \in Nat /\ len \in Nat /\ f \in Nat /\ q \in Nat /\ q < len /\ e + len <= f
    BY <1>1, <1>6, <1>8, <1>9, <1>11, <1>12
  <2>2. InFlight(c) = f - (e + q - 1)
    BY <1>1, <1>9
  <2> HIDE DEF e, len, f
  <2> QED BY <2>1, <2>2
<1>13. CASE q = Script[c][m].len
  <2>1. Wire[c][taken[c] + 1] = <<c, m, q>> /\ q # 1
    BY <1>5, <1>6, <1>7, <1>8, <1>13
  <2>2. <<c, m, q>> \in Letters
    BY <2>1 DEF IsFirst
  <2>3. Script[c][m].kind = "keys"
    <3>1. LET message == Script[<<c, m, q>>[1]][<<c, m, q>>[2]] IN
          \/ <<c, m, q>>[3] < message.len
          \/ (<<c, m, q>>[3] = message.len /\ message.kind = "keys")
      BY <2>2, LettersAssumption
    <3>2. q < Script[c][m].len \/ Script[c][m].kind = "keys"
      BY <3>1
    <3> QED BY <1>8, <1>13, <3>2
  <2>4. IsKeys(Wire[c][taken[c] + 1])
    BY <2>1, <2>3 DEF IsKeys, Message
  <2>5. ASSUME c \notin torn
        PROVE  FALSE
    <3> DEFINE n == Len(executed[c])
    <3>1. ClientServed(c)
      BY <2>5 DEF ServedInv
    <3>2. n <= sent[c] /\ taken[c] = EndOf(c, n) /\ executed[c] = [k \in 1 .. n |-> k]
      BY <3>1 DEF ClientServed
    <3>3. n \in Nat
      BY <3>1 DEF ClientServed
    <3> HIDE DEF n
    <3>4. n \in 0 .. Len(Script[c]) /\ n # Len(Script[c])
      BY <1>1, <1>2, <1>3, <1>4, <3>2, <3>3
    <3>5. n + 1 \in Numbers(c) /\ n + 1 - 1 = n
      BY <1>2, <3>3, <3>4, ScriptFact
    <3>6. 1 \in 1 .. Script[c][n + 1].len
      BY <3>5, ScriptFact
    <3>7. PICK k \in Numbers(c) : k = n + 1
      BY <3>5
    <3>8. Wire[c][EndOf(c, k - 1) + 1] = <<c, k, 1>>
      BY <3>6, <3>7, WireFact
    <3>9. k - 1 = n
      BY <3>3, <3>7
    <3>10. Wire[c][taken[c] + 1] = <<c, k, 1>>
      BY <3>2, <3>8, <3>9
    <3>11. <<c, m, q>> = <<c, k, 1>>
      BY <2>1, <3>10
    <3> QED BY <2>1, <3>11
  <2> QED BY <2>4, <2>5
<1> QED BY <1>7, <1>8, <1>12, <1>13

LEMMA FirstByteFinds ==
  ASSUME Base, ServedInv, RecvFindsData, FirstByte
  PROVE  RecvFindsData'
<1>1. /\ pc = "links" /\ pc # "idle" /\ UNCHANGED <<left, sent, torn>> /\ TurnsReady
      /\ RecvFindsData' <=> TurnsReady' /\ (pc' = "rest" => InFlight(Client)' > 0 \/ EndOfCutKeys(Client)')
  BY DEF FirstByte, RecvFindsData, TurnsReady, Ready
<1>2. CASE Close /\ NextLink /\ UNCHANGED taken
  <2>1. TurnsReady'
    BY <1>1, <1>2, TurnsKept
  <2> QED BY <1>1, <1>2, <2>1 DEF NextLink
<1>3. ASSUME InFlight(Client) > 0, taken' = [taken EXCEPT ![Client] = taken[Client] + 1],
             \/ /\ IsFirst(Wire[Client][taken[Client] + 1]) /\ pc' = "rest"
                /\ UNCHANGED <<slot, readable>>
             \/ Close /\ NextLink
      PROVE  RecvFindsData'
  <2>1. PICK c \in Clients : c = Client /\ conn[c] = "open"
    BY <1>1, LinkFact DEF Base
  <2>2. /\ InFlight(c) \in Nat /\ InFlight(c) = EndOf(c, sent[c]) - taken[c]
        /\ taken[c] \in Nat /\ EndOf(c, sent[c]) \in Nat /\ taken \in [Clients -> Nat]
    BY FlightFact DEF Base, DataInv
  <2>3. taken'[c] = taken[c] + 1 /\ \A d \in Clients : d # Client => taken'[d] = taken[d]
    BY <1>3, <2>1, <2>2
  <2>4. TurnsReady'
    BY <1>1, <1>3, <2>3, TurnsKept
  <2>5. CASE IsFirst(Wire[Client][taken[Client] + 1]) /\ UNCHANGED <<slot, readable>>
    <3>1. InFlight(c) > 1 \/ (c \in torn /\ IsKeys(Wire[c][taken[c] + 1]))
      <4>1. ~Reading(c)
        BY <1>1 DEF Reading
      <4> QED BY <1>3, <2>1, <2>5, <4>1, MoreFollows
    <3>2. Client' = c
      BY <2>1, <2>5 DEF Client, Link
    <3>3. InFlight(Client)' = EndOf(c, sent[c]) - (taken[c] + 1)
      BY <1>1, <2>3, <3>2 DEF InFlight, EndOf
    <3>4. InFlight(c) > 1 => InFlight(Client)' > 0
      BY <2>2, <3>3
    <3>5. c \in torn /\ IsKeys(Wire[c][taken[c] + 1]) => EndOfCutKeys(Client)'
      BY <1>1, <2>3, <3>2 DEF EndOfCutKeys, IsKeys, Message
    <3> QED BY <1>1, <2>4, <3>1, <3>4, <3>5
  <2>6. CASE Close /\ NextLink
    BY <1>1, <2>4, <2>6 DEF NextLink
  <2> QED BY <1>3, <2>5, <2>6
<1> QED BY <1>2, <1>3 DEF FirstByte

LEMMA ReceiveFinds ==
  ASSUME Base, RecvFindsData, Receive
  PROVE  RecvFindsData'
<1>1. /\ pc # "idle" /\ UNCHANGED <<left, sent>> /\ TurnsReady /\ pc' # "rest"
      /\ RecvFindsData' <=> TurnsReady' /\ (pc' = "rest" => InFlight(Client)' > 0 \/ EndOfCutKeys(Client)')
  BY DEF Receive, NextLink, RecvFindsData, TurnsReady, Ready
<1>2. PICK n \in 0 .. RecvSize :
        /\ taken' = [taken EXCEPT ![Client] = taken[Client] + n]
        /\ \/ pc' \in {"update", "more"} /\ UNCHANGED <<slot, readable>>
           \/ Close /\ NextLink
  BY DEF Receive
<1>3. \A d \in Clients : d # Client => taken'[d] = taken[d]
  BY <1>2 DEF Base, DataInv
<1>4. TurnsReady'
  BY <1>1, <1>2, <1>3, TurnsKept
<1> QED BY <1>1, <1>4

LEMMA UpdateFinds ==
  ASSUME Base, RecvFindsData, Update
  PROVE  RecvFindsData'
<1>1. /\ pc = "update" /\ pc # "idle" /\ UNCHANGED <<left, sent, taken>> /\ NextLink
      /\ TurnsReady /\ pc' # "rest" /\ (Close \/ slot' = slot)
      /\ RecvFindsData' <=> TurnsReady' /\ (pc' = "rest" => InFlight(Client)' > 0 \/ EndOfCutKeys(Client)')
  BY DEF Update, NextLink, RecvFindsData, TurnsReady, Ready
<1>2. TurnsReady'
  BY <1>1, TurnsKept
<1> QED BY <1>1, <1>2

LEMMA StepFinds == IInv /\ RecvFindsData /\ [Next]_vars => RecvFindsData'
<1> SUFFICES ASSUME IInv, RecvFindsData, [Next]_vars
             PROVE  RecvFindsData'
  OBVIOUS
<1>1. Base /\ ServedInv
  BY BaseFact DEF IInv
<1>2. CASE \E d \in Clients : Connect(d) \/ Send(d) \/ Leave(d)
  BY <1>1, <1>2, ClientsFind
<1>3. CASE UNCHANGED vars
  BY <1>3 DEF vars, RecvFindsData, InFlight, AtEOF, Client, Link, EndOfCutKeys, IsKeys, Message
<1> QED BY <1>1, <1>2, <1>3, PollFinds, FirstByteFinds, ReceiveFinds, UpdateFinds DEF Next, Server

-----------------------------------------------------------------------------
(* The server keeps IInv: what it has read of a client who was not cut is  *)
(* what the shared buffer begins with, and no link is another's.           *)
THEOREM Invariant == Spec => []IInv
BY InitInv, StepKeeps, PTL DEF Spec

(* Links, connections, the backlog and the counters of the sockets agree:  *)
(* the type invariant of the server, for every number of links, every size *)
(* of the buffer and all messages that clients may send.                   *)
THEOREM TypeCorrect == Spec => []TypeOK
<1>1. IInv => TypeOK
  BY DEF IInv
<1> QED BY <1>1, Invariant, PTL

(* WholeReadsServed: a client none of whose reads was cut has its messages *)
(* executed once each, in order, none left over after a round, although    *)
(* the buffer it is read into is shared and never cleared.                 *)
THEOREM WholeReadsAlwaysServed == Spec => []WholeReadsServed
<1>1. IInv => WholeReadsServed
  BY ServedFact
<1> QED BY <1>1, Invariant, PTL

(* ClosedForReason: the server closes no connection but for what its       *)
(* client did or for want of a link; in particular no first byte of a      *)
(* client that was not cut is refused.                                     *)
THEOREM AlwaysClosedForReason == Spec => ClosedForReason
<1>1. IInv /\ [Next]_vars => [\A c \in Clients : conn[c] = "open" /\ conn'[c] = "closed" => Reason(c)]_vars
  BY StepReason
<1> QED BY <1>1, Invariant, PTL DEF Spec, ClosedForReason, Reason

(* RecvFindsData: what a poll found is there when the turn of its link     *)
(* comes, and a recv behind a byte that was let in by its value has        *)
(* something to take, unless that byte ends a cut packet of key frames.    *)
THEOREM RecvAlwaysFindsData == Spec => []RecvFindsData
<1>1. Init => RecvFindsData
  BY DEF Init, RecvFindsData
<1> QED BY <1>1, StepFinds, Invariant, PTL DEF Spec
=============================================================================
