--------------------------- MODULE ConfigLoaderProofs ---------------------------
(***************************************************************************)
(* Proofs about ConfigLoader, for any lines and any number of them.  They  *)
(* show first that Trim and SplitString, which cut a string piece by piece,*)
(* find in a line what its format by positions says, and then that parse   *)
(* takes, refuses and remembers accordingly.  Induction over a string or a *)
(* file is done with the least counterexample.                             *)
(***************************************************************************)
EXTENDS ConfigLoader, SequenceTheorems, WellFoundedInduction, TLAPS

-----------------------------------------------------------------------------
(* Least and greatest elements.                                            *)

LEMMA Least ==
  ASSUME NEW T, T \subseteq Nat, T # {}
  PROVE  \E m \in T : \A n \in T : m <= n
<1> DEFINE R == OpToRel(<, Nat)
<1>1. IsWellFoundedOn(R, Nat)
  BY NatLessThanWellFounded DEF OpToRel
<1> HIDE DEF R
<1>2. PICK m \in T : \A n \in T : <<n, m>> \notin R
  BY <1>1, WFMin
<1>3. \A n \in T : ~(n < m)
  BY <1>2 DEF R, OpToRel
<1> QED
  BY <1>2, <1>3

LEMMA MinIsLeast ==
  ASSUME NEW T, T \subseteq Nat, T # {}
  PROVE  Min(T) \in T /\ \A n \in T : Min(T) <= n
  BY Least DEF Min

LEMMA MaxIsGreatest ==
  ASSUME NEW n \in Nat, NEW T, T \subseteq 0..n, T # {}
  PROVE  Max(T) \in T /\ \A i \in T : i <= Max(T)
<1> DEFINE U == {k \in Nat : n - k \in T}
<1>1. PICK t \in T : t \in 0..n
  OBVIOUS
<1>2. n - t \in U
  BY <1>1
<1>3. PICK k \in U : \A j \in U : k <= j
  BY <1>2, Least
<1>4. n - k \in T /\ k \in Nat
  BY <1>3
<1>5. ASSUME NEW i \in T PROVE n - k >= i
  <2>1. i \in 0..n
    OBVIOUS
  <2>2. n - i \in U
    BY <2>1
  <2>3. k <= n - i
    BY <1>3, <2>2
  <2> QED
    BY <1>4, <2>1, <2>3
<1>6. \E x \in T : \A y \in T : x >= y
  BY <1>4, <1>5
<1>7. Max(T) \in T /\ \A y \in T : Max(T) >= y
  BY <1>6 DEF Max
<1> QED
  BY <1>7

\* They are determined by what they are.
LEMMA MinIs ==
  ASSUME NEW T, T \subseteq Nat, NEW m \in T, \A i \in T : m <= i
  PROVE  Min(T) = m
<1>1. Min(T) \in T /\ Min(T) <= m
  BY MinIsLeast
<1>2. Min(T) \in Nat /\ m \in Nat /\ m <= Min(T)
  BY <1>1
<1> QED
  BY <1>1, <1>2

LEMMA MaxIs ==
  ASSUME NEW n \in Nat, NEW T, T \subseteq 0..n, NEW m \in T, \A i \in T : i <= m
  PROVE  Max(T) = m
<1>1. Max(T) \in T /\ m <= Max(T)
  BY MaxIsGreatest
<1>2. Max(T) \in 0..n /\ m \in 0..n /\ Max(T) <= m
  BY <1>1
<1> QED
  BY <1>1, <1>2

-----------------------------------------------------------------------------
(* Parts of a line, and Trim.                                              *)

Strings == Seq(STRING)

LEMMA Positions ==
  ASSUME NEW L \in Strings
  PROVE  /\ Len(L) \in Nat /\ DOMAIN L = 1..Len(L)
         /\ Inked(L) \subseteq 1..Len(L) /\ Signs(L) \subseteq Inked(L)
<1>1. Len(L) \in Nat /\ DOMAIN L = 1..Len(L)
  BY DEF Strings
<1>2. "=" \notin Spaces
  BY DEF Spaces
<1> QED
  BY <1>1, <1>2 DEF Inked, Signs

\* Minimum and maximum of positions.
LEMMA Ends ==
  ASSUME NEW n \in Nat, NEW T, T \subseteq 1..n, T # {}
  PROVE  /\ Min(T) \in T /\ \A i \in T : Min(T) <= i
         /\ Max(T) \in T /\ \A i \in T : i <= Max(T)
<1>1. T \subseteq Nat /\ T \subseteq 0..n
  OBVIOUS
<1>2. Min(T) \in T /\ \A i \in T : Min(T) <= i
  BY <1>1, MinIsLeast
<1>3. Max(T) \in T /\ \A i \in T : i <= Max(T)
  BY <1>1, MaxIsGreatest
<1> QED
  BY <1>2, <1>3

LEMMA Part ==
  ASSUME NEW L \in Strings, NEW a \in 1..(Len(L) + 1), NEW b \in Nat, b <= Len(L)
  PROVE  /\ SubSeq(L, a, b) \in Strings
         /\ Len(SubSeq(L, a, b)) = IF a <= b THEN b - a + 1 ELSE 0
         /\ \A i \in 1..(b - a + 1) : SubSeq(L, a, b)[i] = L[a + i - 1]
<1>1. Len(L) \in Nat /\ a \in Int /\ b \in Int
  BY Positions
<1>2. \A i \in a..b : L[i] \in STRING
  BY <1>1 DEF Strings
<1> QED
  BY <1>1, <1>2, SubSeqProperties DEF Strings

LEMMA PartOfPart ==
  ASSUME NEW L \in Strings, NEW a \in 1..(Len(L) + 1), NEW b \in Nat, b <= Len(L), a <= b + 1,
         NEW c \in 1..(b - a + 2), NEW d \in Nat, d <= b - a + 1
  PROVE  SubSeq(SubSeq(L, a, b), c, d) = SubSeq(L, a + c - 1, a + d - 1)
<1> DEFINE T == SubSeq(L, a, b)
           U == SubSeq(T, c, d)
           V == SubSeq(L, a + c - 1, a + d - 1)
<1>1. Len(L) \in Nat
  BY Positions
<1>2. /\ T \in Strings /\ Len(T) = b - a + 1
      /\ \A i \in 1..(b - a + 1) : T[i] = L[a + i - 1]
  BY <1>1, Part
<1>3. c \in 1..(Len(T) + 1) /\ d <= Len(T)
  BY <1>1, <1>2
<1>4. /\ U \in Strings /\ Len(U) = IF c <= d THEN d - c + 1 ELSE 0
      /\ \A i \in 1..(d - c + 1) : U[i] = T[c + i - 1]
  BY <1>2, <1>3, Part
<1>5. /\ a + c - 1 \in 1..(Len(L) + 1) /\ a + d - 1 \in Nat /\ a + d - 1 <= Len(L)
      /\ a + c - 1 <= a + d - 1 <=> c <= d
      /\ (a + d - 1) - (a + c - 1) + 1 = d - c + 1
  BY <1>1
<1>6. /\ V \in Strings /\ Len(V) = IF c <= d THEN d - c + 1 ELSE 0
      /\ \A i \in 1..(d - c + 1) : V[i] = L[(a + c - 1) + i - 1]
  <2> DEFINE x == a + c - 1
             y == a + d - 1
  <2>1. /\ x \in 1..(Len(L) + 1) /\ y \in Nat /\ y <= Len(L)
        /\ x <= y <=> c <= d
        /\ y - x + 1 = d - c + 1
    BY <1>5
  <2> HIDE DEF x, y
  <2>2. /\ SubSeq(L, x, y) \in Strings
        /\ Len(SubSeq(L, x, y)) = IF x <= y THEN y - x + 1 ELSE 0
        /\ \A i \in 1..(y - x + 1) : SubSeq(L, x, y)[i] = L[x + i - 1]
    BY <2>1, Part
  <2> QED
    BY <2>1, <2>2 DEF x, y
<1>7. ASSUME NEW i \in 1..Len(U) PROVE U[i] = V[i]
  <2>1. i \in 1..(d - c + 1) /\ c + i - 1 \in 1..(b - a + 1)
    BY <1>1, <1>4
  <2>2. U[i] = L[a + (c + i - 1) - 1]
    BY <1>2, <1>4, <2>1
  <2>3. a + (c + i - 1) - 1 = (a + c - 1) + i - 1
    BY <2>1
  <2> QED
    BY <1>6, <2>1, <2>2, <2>3
<1> HIDE DEF T, U, V
<1>8. U = V
  BY <1>4, <1>6, <1>7 DEF Strings
<1> QED
  BY <1>8 DEF T, U, V

LEMMA TrimIsBare ==
  ASSUME NEW L \in Strings
  PROVE  Trim(L, Spaces) = Bare(L)
<1> DEFINE I == {i \in 1..Len(L) : L[i] \notin Spaces}
<1>1. I = Inked(L)
  BY Positions DEF Inked
<1>2. CASE I = {}
  BY <1>1, <1>2 DEF Trim, Bare, SelectInSeq, SelectLastInSeq, npos
<1>3. CASE I # {}
  <2>1. Min(I) # npos
    BY <1>1, <1>3, Positions, Ends DEF npos
  <2> QED
    BY <1>1, <1>3, <2>1 DEF Trim, Bare, SelectInSeq, SelectLastInSeq
<1> QED
  BY <1>2, <1>3

LEMMA BareType ==
  ASSUME NEW L \in Strings, Inked(L) # {}
  PROVE  /\ Min(Inked(L)) \in Inked(L) /\ Max(Inked(L)) \in Inked(L)
         /\ \A i \in Inked(L) : Min(Inked(L)) <= i /\ i <= Max(Inked(L))
         /\ Bare(L) = SubSeq(L, Min(Inked(L)), Max(Inked(L)))
         /\ Bare(L) \in Strings
         /\ Len(Bare(L)) = Max(Inked(L)) - Min(Inked(L)) + 1
<1>1. /\ Min(Inked(L)) \in Inked(L) /\ Max(Inked(L)) \in Inked(L)
      /\ \A i \in Inked(L) : Min(Inked(L)) <= i /\ i <= Max(Inked(L))
  BY Positions, Ends
<1>2. Min(Inked(L)) \in 1..(Len(L) + 1) /\ Max(Inked(L)) \in Nat /\ Max(Inked(L)) <= Len(L)
  BY <1>1, Positions
<1>3. Min(Inked(L)) <= Max(Inked(L))
  BY <1>1
<1>4. Bare(L) = SubSeq(L, Min(Inked(L)), Max(Inked(L)))
  BY DEF Bare
<1> QED
  BY <1>1, <1>2, <1>3, <1>4, Part

\* What parse skips by is the format's comment or empty line.
LEMMA SkippedByPosition ==
  ASSUME NEW L \in Strings
  PROVE  (Bare(L) # <<>> => Head(Bare(L)) = "#") <=> Ignorable(L)
<1>1. CASE Inked(L) = {}
  BY <1>1 DEF Bare, Ignorable
<1>2. CASE Inked(L) # {}
  <2> DEFINE a == Min(Inked(L))
             b == Max(Inked(L))
  <2>1. /\ a \in Inked(L) /\ b \in Inked(L) /\ a <= b
        /\ Bare(L) = SubSeq(L, a, b) /\ Bare(L) \in Strings /\ Len(Bare(L)) = b - a + 1
    BY <1>2, BareType
  <2>2. a \in 1..Len(L) /\ b \in 1..Len(L) /\ Len(L) \in Nat
    BY <2>1, Positions
  <2>3. Bare(L) # <<>>
    BY <2>1, <2>2 DEF Strings
  <2>4. Head(Bare(L)) = L[a]
    BY <2>1, <2>2, HeadTailOfSubSeq DEF Strings
  <2> QED
    BY <1>2, <2>3, <2>4 DEF Ignorable
<1> QED
  BY <1>1, <1>2

\* The part of L between two positions, without the spaces around it.
Between(L, a, b) ==
  LET J == Inked(L) \cap a..b IN IF J = {} THEN <<>> ELSE SubSeq(L, Min(J), Max(J))

LEMMA BareOfPart ==
  ASSUME NEW L \in Strings, NEW a \in 1..(Len(L) + 1), NEW b \in Nat, b <= Len(L), a <= b + 1
  PROVE  Bare(SubSeq(L, a, b)) = Between(L, a, b)
<1> DEFINE T == SubSeq(L, a, b)
           J == Inked(L) \cap a..b
<1>1. Len(L) \in Nat
  BY Positions
<1>2. /\ T \in Strings /\ Len(T) = b - a + 1
      /\ \A i \in 1..(b - a + 1) : T[i] = L[a + i - 1]
  BY <1>1, Part
<1>3. \A k \in 1..(b - a + 1) : k \in Inked(T) <=> a + k - 1 \in J
  <2>1. TAKE k \in 1..(b - a + 1)
  <2>2. k \in Inked(T) <=> T[k] \notin Spaces
    BY <1>2, Positions DEF Inked
  <2>3. a + k - 1 \in 1..Len(L) /\ a + k - 1 \in a..b
    BY <1>1
  <2>4. a + k - 1 \in J <=> L[a + k - 1] \notin Spaces
    BY <2>3, Positions DEF Inked
  <2> QED
    BY <1>2, <2>2, <2>4
<1>4. Inked(T) \subseteq 1..(b - a + 1) /\ J \subseteq 1..Len(L)
  BY <1>2, Positions
<1> HIDE DEF T
<1>5. CASE J = {}
  <2>1. Inked(T) = {}
    BY <1>3, <1>4, <1>5
  <2> QED
    BY <1>5, <2>1 DEF Bare, Between, T
<1>6. CASE J # {}
  <2> DEFINE c == Min(J)
             d == Max(J)
  <2>1. c \in J /\ d \in J /\ \A i \in J : c <= i /\ i <= d
    <3> HIDE DEF J
    <3> QED
      BY <1>1, <1>4, <1>6, Ends
  <2> HIDE DEF c, d
  <2>2. c \in 1..Len(L) /\ c \in a..b /\ d \in 1..Len(L) /\ d \in a..b
    BY <1>4, <2>1
  <2> HIDE DEF J
  <2>3. c - a + 1 \in Inked(T) /\ d - a + 1 \in Inked(T)
    <3>1. c - a + 1 \in 1..(b - a + 1) /\ d - a + 1 \in 1..(b - a + 1)
      BY <2>2
    <3>2. a + (c - a + 1) - 1 = c /\ a + (d - a + 1) - 1 = d
      BY <2>2
    <3> QED
      BY <1>3, <2>1, <3>1, <3>2
  <2>4. \A k \in Inked(T) : c - a + 1 <= k /\ k <= d - a + 1
    <3>1. TAKE k \in Inked(T)
    <3>2. k \in 1..(b - a + 1) /\ a + k - 1 \in J
      BY <1>3, <1>4
    <3>3. c <= a + k - 1 /\ a + k - 1 <= d
      BY <2>1, <3>2
    <3> QED
      BY <2>2, <3>2, <3>3
  <2>5. b - a + 1 \in Nat /\ Inked(T) \subseteq Nat /\ Inked(T) \subseteq 0..(b - a + 1)
    BY <1>4
  <2>6. Min(Inked(T)) = c - a + 1
    BY <2>3, <2>4, <2>5, MinIs
  <2>7. Max(Inked(T)) = d - a + 1
    BY <2>3, <2>4, <2>5, MaxIs
  <2>8. Bare(T) = SubSeq(T, c - a + 1, d - a + 1)
    BY <2>3, <2>6, <2>7 DEF Bare
  <2>9. SubSeq(T, c - a + 1, d - a + 1) = SubSeq(L, c, d)
    <3>1. c - a + 1 \in 1..(b - a + 2) /\ d - a + 1 \in Nat /\ d - a + 1 <= b - a + 1
      BY <2>2
    <3>2. a + (c - a + 1) - 1 = c /\ a + (d - a + 1) - 1 = d
      BY <2>2
    <3> DEFINE x == c - a + 1
               y == d - a + 1
    <3>3. x \in 1..(b - a + 2) /\ y \in Nat /\ y <= b - a + 1
      BY <3>1
    <3>4. a + x - 1 = c /\ a + y - 1 = d
      BY <3>2
    <3> HIDE DEF x, y
    <3>5. SubSeq(SubSeq(L, a, b), x, y) = SubSeq(L, a + x - 1, a + y - 1)
      BY <3>3, PartOfPart
    <3> QED
      BY <3>4, <3>5 DEF T, x, y
  <2> QED
    BY <1>6, <2>8, <2>9 DEF Between, T, c, d, J
<1> QED
  BY <1>5, <1>6

-----------------------------------------------------------------------------
(* SplitString, which calls itself on the rest of the string.              *)

LEMMA FirstSign ==
  ASSUME NEW T \in Strings, NEW p \in 1..(Len(T) + 1), NEW q, q = FindFirstOf(T, {"="}, p)
  PROVE  \/ q = npos /\ \A s \in Signs(T) : s < p
         \/ q \in Signs(T) /\ p <= q /\ q <= Len(T) /\ \A s \in Signs(T) : s < p \/ q <= s
<1> DEFINE I == {i \in p..Len(T) : T[i] = "="}
<1>1. Len(T) \in Nat /\ Signs(T) \subseteq 1..Len(T) /\ DOMAIN T = 1..Len(T)
  BY Positions
<1>2. q = IF I # {} THEN Min(I) ELSE 0
  BY DEF FindFirstOf, SelectInSubSeq
<1>3. \A s \in Signs(T) : s < p \/ s \in I
  BY <1>1 DEF Signs
<1>4. I \subseteq Signs(T) /\ \A i \in I : p <= i
  BY <1>1 DEF Signs
<1> HIDE DEF I
<1>5. CASE I = {}
  BY <1>2, <1>3, <1>5 DEF npos
<1>6. CASE I # {}
  <2>1. Min(I) \in I /\ \A i \in I : Min(I) <= i
    BY <1>1, <1>4, <1>6, Ends
  <2> QED
    BY <1>1, <1>2, <1>3, <1>4, <1>6, <2>1
<1> QED
  BY <1>5, <1>6

\* The pieces from position p on, g being the pieces from later positions.
Cut(T, g, p) ==
  LET q == FindFirstOf(T, {"="}, p)
  IN  IF q = npos THEN LastPiece(T, p) ELSE <<SubSeq(T, p, q - 1)>> \o g[q + 1]

LEMMA CutReadsOn ==
  ASSUME NEW T \in Strings, NEW p \in 1..(Len(T) + 1), NEW g, NEW h,
         \A r \in (p + 1)..(Len(T) + 1) : g[r] = h[r]
  PROVE  Cut(T, g, p) = Cut(T, h, p)
<1> DEFINE q == FindFirstOf(T, {"="}, p)
<1> HIDE DEF q
<1>1. q = npos \/ (q \in Signs(T) /\ p <= q /\ q <= Len(T))
  BY FirstSign DEF q
<1>2. CASE q = npos
  BY <1>2 DEF Cut, q
<1>3. CASE q # npos
  <2>1. Len(T) \in Nat /\ q \in Nat
    BY <1>1, <1>3, Positions
  <2>2. q + 1 \in (p + 1)..(Len(T) + 1)
    BY <1>1, <1>3, <2>1
  <2>3. g[q + 1] = h[q + 1]
    BY <2>2
  <2> QED
    BY <1>3, <2>3 DEF Cut, q
<1> QED
  BY <1>2, <1>3

LEMMA CutsAreDefined ==
  ASSUME NEW T \in Strings
  PROVE  \E g : g = [p \in 1..(Len(T) + 1) |-> Cut(T, g, p)]
<1> DEFINE N == Len(T) + 1
           Undefined == {k \in 1..(N + 1) : ~ \E g : g = [p \in k..N |-> Cut(T, g, p)]}
<1>1. N \in Nat /\ N >= 1
  BY Positions
<1>2. SUFFICES ASSUME Undefined # {} PROVE FALSE
  BY <1>1
<1>3. PICK m \in Undefined : \A k \in Undefined : k <= m
  <2>1. N + 1 \in Nat /\ Undefined \subseteq 0..(N + 1)
    BY <1>1
  <2> QED
    BY <1>2, <2>1, MaxIsGreatest
<1>4. m # N + 1
  <2> DEFINE g == [p \in {} |-> <<>>]
  <2>1. (N + 1)..N = {}
    BY <1>1
  <2>2. g = [p \in (N + 1)..N |-> Cut(T, g, p)]
    BY <2>1
  <2> QED
    BY <2>2
<1>5. m \in 1..N /\ m + 1 \in 1..(N + 1) /\ m + 1 \notin Undefined
  BY <1>1, <1>3, <1>4
<1>6. PICK g : g = [p \in (m + 1)..N |-> Cut(T, g, p)]
  BY <1>5
<1> DEFINE h == [p \in m..N |-> IF p = m THEN Cut(T, g, m) ELSE g[p]]
<1>7. \A r \in (m + 1)..N : g[r] = h[r] /\ g[r] = Cut(T, g, r)
  BY <1>5, <1>6
<1>8. ASSUME NEW p \in m..N PROVE h[p] = Cut(T, h, p)
  <2>1. p \in 1..N
    BY <1>1, <1>5
  <2>2. \A r \in (p + 1)..N : g[r] = h[r]
    BY <1>1, <1>5, <1>7
  <2>3. Cut(T, g, p) = Cut(T, h, p)
    <3> HIDE DEF h
    <3> QED
      BY <2>1, <2>2, CutReadsOn
  <2>4. CASE p = m
    BY <2>3, <2>4
  <2>5. CASE p # m
    <3>1. p \in (m + 1)..N
      BY <1>1, <1>5, <2>5
    <3> QED
      BY <1>7, <2>3, <3>1
  <2> QED
    BY <2>4, <2>5
<1>9. h = [p \in m..N |-> Cut(T, h, p)]
  BY <1>8
<1> QED
  BY <1>3, <1>9

LEMMA PiecesFrom ==
  ASSUME NEW T \in Strings
  PROVE  \E g : /\ SplitString(T, {"="}) = g[1]
                /\ \A p \in 1..(Len(T) + 1) :
                     g[p] = Cut(T, g, p) /\ g[p] \in Seq(Strings) /\ Len(g[p]) >= 1
<1> DEFINE N == Len(T) + 1
           g == CHOOSE f : f = [p \in 1..N |-> Cut(T, f, p)]
<1>1. N \in Nat /\ N >= 1
  BY Positions
<1>2. g = [p \in 1..N |-> Cut(T, g, p)]
  BY CutsAreDefined
<1>3. SplitString(T, {"="}) = g[1]
  BY DEF SplitString, Cut
<1> HIDE DEF g
<1>4. \A p \in 1..N : g[p] = Cut(T, g, p)
  BY <1>2
<1> DEFINE Good(p) == g[p] \in Seq(Strings) /\ Len(g[p]) >= 1
           Bad == {p \in 1..N : ~Good(p)}
<1>5. Bad = {}
  <2>1. SUFFICES ASSUME Bad # {} PROVE FALSE
    OBVIOUS
  <2>2. PICK m \in Bad : \A p \in Bad : p <= m
    <3>1. Bad \subseteq 0..N
      BY <1>1
    <3> QED
      BY <1>1, <2>1, <3>1, MaxIsGreatest
  <2>3. m \in 1..N /\ \A p \in 1..N : p > m => Good(p)
    BY <1>1, <2>2
  <2> DEFINE q == FindFirstOf(T, {"="}, m)
  <2> HIDE DEF q, Bad
  <2>4. q = npos \/ (q \in Signs(T) /\ m <= q /\ q <= Len(T))
    BY <2>3, FirstSign DEF q
  <2>5. Len(T) \in Nat /\ Signs(T) \subseteq 1..Len(T)
    BY Positions
  <2>6. CASE q = npos
    <3>1. SubSeq(T, m, Len(T)) \in Strings
      BY <2>3, <2>5, Part
    <3>2. g[m] = <<SubSeq(T, m, Len(T))>>
      BY <1>4, <2>3, <2>6 DEF Cut, q, LastPiece
    <3> HIDE DEF N
    <3>3. Good(m)
      BY <3>1, <3>2
    <3> QED
      BY <2>2, <3>3 DEF Bad
  <2>7. CASE q # npos
    <3>1. q - 1 \in Nat /\ q - 1 <= Len(T) /\ q + 1 \in 1..N /\ q + 1 > m
      BY <2>3, <2>4, <2>5, <2>7
    <3>2. SubSeq(T, m, q - 1) \in Strings
      BY <2>3, <3>1, Part
    <3>3. Good(q + 1)
      BY <2>3, <3>1
    <3>4. g[m] = <<SubSeq(T, m, q - 1)>> \o g[q + 1]
      BY <1>4, <2>3, <2>7 DEF Cut, q
    <3> DEFINE x == SubSeq(T, m, q - 1)
               y == g[q + 1]
    <3>5. x \in Strings /\ y \in Seq(Strings) /\ g[m] = <<x>> \o y
      BY <3>2, <3>3, <3>4
    <3> HIDE DEF x, y
    <3>6. Good(m)
      BY <3>5
    <3> QED
      BY <2>2, <3>6 DEF Bad
  <2> QED
    BY <2>6, <2>7
<1> QED
  BY <1>3, <1>4, <1>5

LEMMA TwoPieces ==
  ASSUME NEW S, NEW x \in S, NEW y \in S
  PROVE  <<x>> \o <<y>> = <<x, y>>
<1>1. <<x>> \in Seq(S) /\ <<y>> \in Seq(S) /\ <<x, y>> \in Seq(S)
  OBVIOUS
<1> DEFINE u == <<x>> \o <<y>>
           v == <<x, y>>
<1>2. u \in Seq(S) /\ Len(u) = 2 /\ u[1] = x /\ u[2] = y
  BY <1>1
<1>3. v \in Seq(S) /\ Len(v) = 2 /\ v[1] = x /\ v[2] = y
  BY <1>1
<1>4. \A i \in 1..2 : u[i] = v[i]
  BY <1>2, <1>3
<1> HIDE DEF u, v
<1>5. u = v
  BY <1>2, <1>3, <1>4
<1> QED
  BY <1>5 DEF u, v

\* The first piece and what is left of the string.
LEMMA SplitOf ==
  ASSUME NEW T \in Strings
  PROVE  /\ SplitString(T, {"="}) \in Seq(Strings)
         /\ Signs(T) = {} => Len(SplitString(T, {"="})) = 1
         /\ \A s \in Signs(T) : Signs(T) = {s} =>
              SplitString(T, {"="}) = <<SubSeq(T, 1, s - 1), SubSeq(T, s + 1, Len(T))>>
         /\ \A s, t \in Signs(T) : s < t => Len(SplitString(T, {"="})) > 2
<1> DEFINE N == Len(T) + 1
           V == SplitString(T, {"="})
           q == FindFirstOf(T, {"="}, 1)
           r == FindFirstOf(T, {"="}, q + 1)
<1>1. N \in Nat /\ N >= 1 /\ Len(T) \in Nat /\ Signs(T) \subseteq 1..Len(T)
  BY Positions
<1>2. PICK g : /\ V = g[1]
               /\ \A p \in 1..N : g[p] = Cut(T, g, p) /\ g[p] \in Seq(Strings) /\ Len(g[p]) >= 1
  BY PiecesFrom
<1>3. V \in Seq(Strings) /\ V = Cut(T, g, 1)
  BY <1>1, <1>2
<1>4. \/ q = npos /\ \A s \in Signs(T) : s < 1
      \/ q \in Signs(T) /\ 1 <= q /\ q <= Len(T) /\ \A s \in Signs(T) : s < 1 \/ q <= s
  BY <1>1, FirstSign
<1> HIDE DEF V
<1>5. CASE q = npos
  <2>1. Signs(T) = {}
    BY <1>1, <1>4, <1>5 DEF npos
  <2>2. V = <<SubSeq(T, 1, Len(T))>>
    BY <1>3, <1>5 DEF Cut, LastPiece
  <2>3. Len(V) = 1
    BY <2>2
  <2> QED
    BY <1>3, <2>1, <2>3 DEF V
<1>6. CASE q # npos
  <2>1. q \in Signs(T) /\ q \in 1..Len(T) /\ \A s \in Signs(T) : q <= s
    BY <1>1, <1>4, <1>6
  <2>2. q + 1 \in 1..N
    BY <1>1, <2>1
  <2>3. V = <<SubSeq(T, 1, q - 1)>> \o g[q + 1]
    BY <1>3, <1>6 DEF Cut
  <2>4. g[q + 1] = Cut(T, g, q + 1) /\ g[q + 1] \in Seq(Strings) /\ Len(g[q + 1]) >= 1
    BY <1>2, <2>2
  <2>5. SubSeq(T, 1, q - 1) \in Strings
    <3>1. 1 \in 1..(Len(T) + 1) /\ q - 1 \in Nat /\ q - 1 <= Len(T)
      BY <1>1, <2>1
    <3> QED
      BY <3>1, Part
  <2>6. \/ r = npos /\ \A s \in Signs(T) : s < q + 1
        \/ r \in Signs(T) /\ q + 1 <= r /\ r <= Len(T)
    BY <2>2, FirstSign
  <2> DEFINE x == SubSeq(T, 1, q - 1)
             y == SubSeq(T, q + 1, Len(T))
  <2>7. CASE r = npos
    <3>1. Signs(T) = {q}
      BY <1>1, <2>1, <2>6, <2>7 DEF npos
    <3>2. g[q + 1] = <<y>>
      BY <2>4, <2>7 DEF Cut, LastPiece
    <3>3. V = <<x, y>>
      <4>1. x \in Strings /\ V = <<x>> \o g[q + 1]
        BY <2>3, <2>5
      <4>2. y \in Strings
        BY <1>1, <2>2, Part
      <4> HIDE DEF x, y
      <4>3. <<x>> \o <<y>> = <<x, y>>
        BY <4>1, <4>2, TwoPieces
      <4> QED
        BY <3>2, <4>1, <4>3
    <3>4. \A s \in Signs(T) : s = q
      BY <3>1
    <3>5. \A s, t \in Signs(T) : ~(s < t)
      BY <1>1, <3>4
    <3> QED
      BY <1>3, <3>1, <3>3, <3>4, <3>5 DEF V
  <2>8. CASE r # npos
    <3>1. r \in Signs(T) /\ r # q /\ r + 1 \in 1..N
      BY <1>1, <2>1, <2>6, <2>8
    <3>2. g[r + 1] \in Seq(Strings) /\ Len(g[r + 1]) >= 1
      BY <1>2, <3>1
    <3> DEFINE z == SubSeq(T, q + 1, r - 1)
    <3>3. g[q + 1] = <<z>> \o g[r + 1]
      BY <2>4, <2>8 DEF Cut
    <3>4. z \in Strings
      <4>1. q + 1 \in 1..(Len(T) + 1) /\ r - 1 \in Nat /\ r - 1 <= Len(T)
        BY <1>1, <2>1, <3>1
      <4> QED
        BY <4>1, Part
    <3>5. Len(V) > 2
      <4> DEFINE u == g[r + 1]
                 w == g[q + 1]
      <4>1. u \in Seq(Strings) /\ Len(u) >= 1 /\ w = <<z>> \o u /\ V = <<x>> \o w
        BY <2>3, <3>2, <3>3
      <4> HIDE DEF u, w, x, z
      <4>2. w \in Seq(Strings) /\ Len(w) >= 2
        BY <3>4, <4>1
      <4>3. x \in Strings
        BY <2>5 DEF x
      <4> QED
        BY <4>1, <4>2, <4>3
    <3>6. Signs(T) # {} /\ \A s : Signs(T) # {s}
      BY <2>1, <3>1
    <3> QED
      BY <1>3, <3>5, <3>6 DEF V
  <2> QED
    BY <2>7, <2>8
<1> QED
  BY <1>5, <1>6

\* The signs of a line are those of the line without its surrounding spaces.
LEMMA SignsOfBare ==
  ASSUME NEW L \in Strings, Inked(L) # {}, NEW k \in 1..Len(Bare(L))
  PROVE  k \in Signs(Bare(L)) <=> Min(Inked(L)) + k - 1 \in Signs(L)
<1> DEFINE a == Min(Inked(L))
           b == Max(Inked(L))
           T == Bare(L)
<1>1. /\ a \in Inked(L) /\ b \in Inked(L) /\ a <= b
      /\ T = SubSeq(L, a, b) /\ T \in Strings /\ Len(T) = b - a + 1
  BY BareType
<1>2. a \in 1..Len(L) /\ b \in 1..Len(L) /\ Len(L) \in Nat
  BY <1>1, Positions
<1> HIDE DEF a, b
<1>3. a \in 1..(Len(L) + 1) /\ b \in Nat /\ b <= Len(L) /\ k \in 1..(b - a + 1)
  BY <1>1, <1>2
<1>4. T[k] = L[a + k - 1]
  BY <1>1, <1>3, Part
<1>5. a + k - 1 \in 1..Len(L)
  BY <1>2, <1>3
<1> HIDE DEF T
<1>6. (k \in Signs(T) <=> T[k] = "=") /\ (a + k - 1 \in Signs(L) <=> L[a + k - 1] = "=")
  BY <1>1, <1>3, <1>5, Positions DEF Signs
<1> QED
  BY <1>4, <1>6 DEF T, a

\* A line that is no comment, cut at its signs.
LEMMA OneSign ==
  ASSUME NEW L \in Strings, Inked(L) # {}, NEW s \in Signs(L), Signs(L) = {s}
  PROVE  /\ Len(SplitString(Bare(L), {"="})) = 2
         /\ Trim(SplitString(Bare(L), {"="})[1], Spaces) = KeyOf(L)
         /\ Trim(SplitString(Bare(L), {"="})[2], Spaces) = ValueOf(L)
         /\ ValueOf(L) \in Strings
         /\ ValueOf(L) = <<>> <=> ~(s < Max(Inked(L)))
<1> DEFINE a == Min(Inked(L))
           b == Max(Inked(L))
           T == Bare(L)
           n == Len(L)
           k == s - a + 1
<1>1. /\ a \in Inked(L) /\ b \in Inked(L) /\ \A i \in Inked(L) : a <= i /\ i <= b
      /\ T = SubSeq(L, a, b) /\ T \in Strings /\ Len(T) = b - a + 1
  BY BareType
<1>2. n \in Nat /\ Inked(L) \subseteq 1..n /\ s \in Inked(L)
  BY Positions
<1>3. s \in a..b /\ a \in 1..n /\ b \in 1..n
  BY <1>1, <1>2
<1> HIDE DEF a, b, n, k
<1>4. k \in 1..Len(T) /\ a + k - 1 = s
  BY <1>1, <1>3 DEF k
<1>5. Signs(T) = {k}
  <2>1. \A i \in 1..Len(T) : i \in Signs(T) <=> a + i - 1 \in Signs(L)
    BY SignsOfBare DEF a
  <2>2. Signs(T) \subseteq 1..Len(T)
    BY <1>1, Positions
  <2>3. \A i \in 1..Len(T) : a + i - 1 = s <=> i = k
    BY <1>1, <1>3 DEF k
  <2> HIDE DEF T
  <2> QED
    BY <1>4, <2>1, <2>2, <2>3
<1> DEFINE V == SplitString(T, {"="})
           x == SubSeq(T, 1, k - 1)
           y == SubSeq(T, k + 1, Len(T))
<1>6. V = <<x, y>>
  BY <1>1, <1>5, SplitOf
<1>7. x = SubSeq(L, a, s - 1) /\ y = SubSeq(L, s + 1, b)
  <2> DEFINE m == Len(T)
  <2>0. Len(T) = b - a + 1 /\ T = SubSeq(L, a, b)
    BY <1>1
  <2>1. /\ a \in 1..(Len(L) + 1) /\ b \in Nat /\ b <= Len(L) /\ a <= b + 1
        /\ 1 \in 1..(b - a + 2) /\ k - 1 \in Nat /\ k - 1 <= b - a + 1
        /\ k + 1 \in 1..(b - a + 2) /\ b - a + 1 \in Nat /\ b - a + 1 <= b - a + 1
    BY <1>2, <1>3 DEF k, n
  <2>2. SubSeq(SubSeq(L, a, b), 1, k - 1) = SubSeq(L, a + 1 - 1, a + (k - 1) - 1)
    BY <2>1, PartOfPart
  <2>3. SubSeq(SubSeq(L, a, b), k + 1, b - a + 1)
          = SubSeq(L, a + (k + 1) - 1, a + (b - a + 1) - 1)
    BY <2>1, PartOfPart
  <2>4. /\ a + 1 - 1 = a /\ a + (k - 1) - 1 = s - 1
        /\ a + (k + 1) - 1 = s + 1 /\ a + (b - a + 1) - 1 = b
    BY <1>3 DEF k
  <2> HIDE DEF T
  <2> QED
    BY <2>0, <2>2, <2>3, <2>4
<1>8. Trim(x, Spaces) = Between(L, a, s - 1) /\ Trim(y, Spaces) = Between(L, s + 1, b)
  <2>1. /\ a \in 1..(Len(L) + 1) /\ s - 1 \in Nat /\ s - 1 <= Len(L) /\ a <= (s - 1) + 1
        /\ s + 1 \in 1..(Len(L) + 1) /\ b \in Nat /\ b <= Len(L) /\ s + 1 <= b + 1
    BY <1>2, <1>3 DEF n
  <2>2. Bare(SubSeq(L, a, s - 1)) = Between(L, a, s - 1)
    BY <2>1, BareOfPart
  <2>3. Bare(SubSeq(L, s + 1, b)) = Between(L, s + 1, b)
    BY <2>1, BareOfPart
  <2>4. SubSeq(L, a, s - 1) \in Strings /\ SubSeq(L, s + 1, b) \in Strings
    BY <2>1, Part
  <2> HIDE DEF x, y
  <2> QED
    BY <1>7, <2>2, <2>3, <2>4, TrimIsBare
<1>9. Min(Signs(L)) = s
  <2>1. {s} \subseteq Nat
    BY <1>2
  <2> QED
    BY <2>1, MinIsLeast
<1>10. KeyOf(L) = Between(L, 1, s - 1) /\ ValueOf(L) = Between(L, s + 1, n)
  <2>1. /\ 1 \in 1..(Len(L) + 1) /\ s - 1 \in Nat /\ s - 1 <= Len(L) /\ 1 <= (s - 1) + 1
        /\ s + 1 \in 1..(Len(L) + 1) /\ n \in Nat /\ n <= Len(L) /\ s + 1 <= n + 1
    BY <1>2, <1>3 DEF n
  <2> QED
    BY <1>9, <2>1, BareOfPart DEF KeyOf, ValueOf, n
<1>11. Inked(L) \cap 1..(s - 1) = Inked(L) \cap a..(s - 1)
  BY <1>1, <1>2, <1>3
<1>12. Inked(L) \cap (s + 1)..n = Inked(L) \cap (s + 1)..b
  BY <1>1, <1>2, <1>3
<1>13. KeyOf(L) = Trim(x, Spaces) /\ ValueOf(L) = Trim(y, Spaces)
  <2>1. Between(L, 1, s - 1) = Between(L, a, s - 1)
    BY ONLY <1>11 DEF Between
  <2>2. Between(L, s + 1, n) = Between(L, s + 1, b)
    BY ONLY <1>12 DEF Between
  <2> HIDE DEF x, y
  <2> QED
    BY <1>8, <1>10, <2>1, <2>2
<1> DEFINE J == Inked(L) \cap (s + 1)..b
<1>14. J # {} <=> s < b
  BY <1>1, <1>2, <1>3
<1>15. ValueOf(L) \in Strings /\ (ValueOf(L) = <<>> <=> J = {})
  <2>1. ValueOf(L) = IF J = {} THEN <<>> ELSE SubSeq(L, Min(J), Max(J))
    BY <1>10, <1>12 DEF Between
  <2>2. J \subseteq 1..n
    BY <1>2
  <2> HIDE DEF J
  <2>3. CASE J = {}
    BY <2>1, <2>3 DEF Strings
  <2>4. CASE J # {}
    <3>1. Min(J) \in 1..n /\ Max(J) \in 1..n /\ Min(J) <= Max(J)
      BY <1>2, <2>2, <2>4, Ends
    <3> DEFINE c == Min(J)
               d == Max(J)
    <3>2. c \in 1..(Len(L) + 1) /\ d \in Nat /\ d <= Len(L) /\ c <= d
      BY <1>2, <3>1 DEF n
    <3> HIDE DEF c, d
    <3>3. SubSeq(L, c, d) \in Strings /\ Len(SubSeq(L, c, d)) = d - c + 1
      BY <3>2, Part
    <3>4. SubSeq(L, c, d) # <<>>
      BY <3>2, <3>3
    <3> QED
      BY <2>1, <2>4, <3>3, <3>4 DEF c, d
  <2> QED
    BY <2>3, <2>4
<1>16. Len(V) = 2 /\ V[1] = x /\ V[2] = y
  BY <1>6
<1> QED
  BY <1>13, <1>14, <1>15, <1>16 DEF b

LEMMA KeyType ==
  ASSUME NEW L \in Strings
  PROVE  Bare(L) \in Strings
<1>1. CASE Inked(L) = {}
  BY <1>1 DEF Bare, Strings
<1>2. CASE Inked(L) # {}
  BY <1>2, BareType
<1> QED
  BY <1>1, <1>2

\* For every line: trimming it, splitting it at "=" and trimming the pieces, as
\* parse does (ConfigLoader.cpp:57-72), skips, takes and refuses what the
\* format by positions says, and finds its key and value.
THEOREM LinesAreRead ==
  ASSUME NEW L \in Strings, NEW T, T = Trim(L, Spaces),
         NEW V, V = SplitString(T, {"="})
  PROVE  /\ (T # <<>> => Head(T) = "#") <=> Ignorable(L)
         /\ ~Ignorable(L) /\ Len(V) = 2 =>
              /\ Trim(V[1], Spaces) = KeyOf(L) /\ Trim(V[2], Spaces) = ValueOf(L)
              /\ Trim(V[1], Spaces) \in Strings /\ Trim(V[2], Spaces) \in Strings
         /\ Entry(L) <=> ~Ignorable(L) /\ Len(V) = 2 /\ Trim(V[2], Spaces) # <<>>
<1>1. T = Bare(L)
  BY TrimIsBare
<1>2. (T # <<>> => Head(T) = "#") <=> Ignorable(L)
  BY <1>1, SkippedByPosition
<1>3. CASE Ignorable(L)
  BY <1>2, <1>3 DEF Entry
<1>4. CASE ~Ignorable(L)
  <2> DEFINE a == Min(Inked(L))
  <2>1. Inked(L) # {}
    BY <1>4 DEF Ignorable
  <2>2. T \in Strings /\ Len(T) = Max(Inked(L)) - a + 1 /\ Len(T) \in Nat
        /\ Signs(T) \subseteq 1..Len(T)
    BY <1>1, <2>1, BareType, Positions
  <2>3. \A k \in 1..Len(T) : k \in Signs(T) <=> a + k - 1 \in Signs(L)
    BY <1>1, <2>1, SignsOfBare
  <2>4. \A s \in Signs(L) : s - a + 1 \in 1..Len(T) /\ a + (s - a + 1) - 1 = s
    <3>1. TAKE s \in Signs(L)
    <3>2. /\ s \in Inked(L) /\ a \in Inked(L) /\ Max(Inked(L)) \in Inked(L)
          /\ Inked(L) \subseteq 1..Len(L) /\ a <= s /\ s <= Max(Inked(L))
      BY <2>1, BareType, Positions
    <3> HIDE DEF a
    <3> QED
      BY <2>2, <3>2
  <2>5. CASE Signs(L) = {}
    <3>1. Signs(T) = {}
      BY <2>2, <2>3, <2>5
    <3>2. Len(V) = 1
      BY <2>2, <3>1, SplitOf
    <3> QED
      BY <1>2, <1>4, <2>5, <3>2 DEF Entry
  <2>6. ASSUME NEW s \in Signs(L), Signs(L) = {s}
        PROVE  /\ Len(V) = 2
               /\ Trim(V[1], Spaces) = KeyOf(L) /\ Trim(V[2], Spaces) = ValueOf(L)
               /\ ValueOf(L) \in Strings
               /\ Entry(L) <=> ValueOf(L) # <<>>
    <3>1. /\ Len(V) = 2
          /\ Trim(V[1], Spaces) = KeyOf(L) /\ Trim(V[2], Spaces) = ValueOf(L)
          /\ ValueOf(L) \in Strings
          /\ ValueOf(L) = <<>> <=> ~(s < Max(Inked(L)))
      BY <1>1, <2>1, <2>6, OneSign
    <3>2. Entry(L) <=> s < Max(Inked(L))
      BY <1>4, <2>6, Positions DEF Entry
    <3> QED
      BY <3>1, <3>2
  <2>7. ASSUME NEW s \in Signs(L), Signs(L) = {s}
        PROVE  KeyOf(L) \in Strings
    <3>1. Min(Signs(L)) = s /\ s \in 1..Len(L) /\ Len(L) \in Nat
      <4>1. s \in 1..Len(L) /\ Len(L) \in Nat
        BY Positions
      <4>2. {s} \subseteq Nat
        BY <4>1
      <4> QED
        BY <2>7, <4>1, <4>2, MinIsLeast
    <3>2. 1 \in 1..(Len(L) + 1) /\ s - 1 \in Nat /\ s - 1 <= Len(L)
      BY <3>1
    <3>3. SubSeq(L, 1, s - 1) \in Strings
      BY <3>2, Part
    <3> QED
      BY <3>1, <3>3, KeyType DEF KeyOf
  <2>8. ASSUME NEW s \in Signs(L), NEW t \in Signs(L), s < t
        PROVE  Len(V) > 2 /\ ~Entry(L)
    <3> DEFINE k == s - a + 1
               l == t - a + 1
    <3>1. k \in Signs(T) /\ l \in Signs(T)
      BY <2>3, <2>4
    <3>2. k < l
      <4>1. s \in Nat /\ t \in Nat /\ a \in Nat
        BY <2>1, BareType, Positions
      <4> HIDE DEF a
      <4> QED
        BY <2>8, <4>1
    <3>3. Len(V) > 2
      <4> HIDE DEF k, l
      <4> QED
        BY <2>2, <3>1, <3>2, SplitOf
    <3>4. s # t
      BY <2>8, Positions
    <3> QED
      BY <3>3, <3>4 DEF Entry
  <2>9. V \in Seq(Strings)
    BY <2>2, SplitOf
  <2>10. \/ Signs(L) = {}
         \/ \E s \in Signs(L) : Signs(L) = {s}
         \/ \E s, t \in Signs(L) : s < t
    <3>1. ASSUME NEW s \in Signs(L), NEW t \in Signs(L), s # t PROVE s < t \/ t < s
      <4>1. s \in Nat /\ t \in Nat
        BY Positions
      <4> QED
        BY <3>1, <4>1
    <3> QED
      BY <3>1
  <2>11. CASE \E s \in Signs(L) : Signs(L) = {s}
    BY <1>2, <1>4, <2>6, <2>7, <2>11
  <2>12. CASE \E s, t \in Signs(L) : s < t
    <3>1. Len(V) > 2 /\ ~Entry(L)
      BY <2>8, <2>12
    <3>2. Len(V) # 2
      <4>1. Len(V) \in Nat
        BY <2>9
      <4>2. \A n \in Nat : n > 2 => n # 2
        OBVIOUS
      <4> QED
        BY <3>1, <4>1, <4>2
    <3> QED
      BY <1>2, <1>4, <3>1, <3>2
  <2> QED
    BY <2>5, <2>10, <2>11, <2>12
<1> QED
  BY <1>3, <1>4

-----------------------------------------------------------------------------
(* Types.                                                                  *)

Maps == UNION {[K -> Strings \ {<<>>}] : K \in SUBSET Strings}
Configs == [valid : {TRUE}, server_url : {DefaultUrl} \cup Strings, extra : Maps]

TypeInv ==
  /\ errorLine \in {NoLine} \cup 0..MaxLines
  /\ errorFound <=> errorMessage # ""
  /\ phase \in {"idle", "reading"} /\ result \in {"none", "true", "false"}
  /\ file \in Files /\ lineNumber \in 0..Len(file) /\ parses \in Nat
  /\ phase = "reading" => file # Unopenable
  /\ config \in Configs /\ before \in Configs

LEMMA FileType ==
  ASSUME NEW f \in Files
  PROVE  /\ Len(f) \in Nat /\ DOMAIN f = 1..Len(f)
         /\ f # Unopenable => f \in Seq(Strings) /\ Len(f) <= MaxLines
<1>1. CASE f = Unopenable
  BY <1>1 DEF Unopenable
<1>2. CASE f # Unopenable
  <2>1. PICK m \in 0..MaxLines : f \in [1..m -> Lines]
    BY <1>2 DEF Files, BoundedSeq, SeqOf
  <2>2. m \in Nat /\ Lines \subseteq Strings
    BY FilesAssumption DEF Strings
  <2>3. f \in [1..m -> Strings]
    BY <2>1, <2>2
  <2> HIDE DEF Strings
  <2>4. f \in Seq(Strings) /\ Len(f) = m
    BY <2>2, <2>3
  <2> QED
    BY <1>2, <2>1, <2>4, FilesAssumption
<1> QED
  BY <1>1, <1>2

LEMMA MapType ==
  ASSUME NEW m \in Maps
  PROVE  /\ DOMAIN m \in SUBSET Strings /\ m = [k \in DOMAIN m |-> m[k]]
         /\ \A k \in DOMAIN m : m[k] \in Strings /\ m[k] # <<>>
<1>1. PICK K \in SUBSET Strings : m \in [K -> Strings \ {<<>>}]
  BY DEF Maps
<1> QED
  BY <1>1

LEMMA WithKeyType ==
  ASSUME NEW m \in Maps, NEW k \in Strings, NEW v \in Strings, v # <<>>
  PROVE  WithKey(m, k, v) \in Maps
<1>1. DOMAIN m \in SUBSET Strings /\ \A j \in DOMAIN m : m[j] \in Strings \ {<<>>}
  BY MapType
<1> DEFINE K == DOMAIN m \cup {k}
<1>2. K \in SUBSET Strings
  BY <1>1
<1>3. WithKey(m, k, v) \in [K -> Strings \ {<<>>}]
  BY <1>1 DEF WithKey
<1> QED
  BY <1>2, <1>3 DEF Maps

\* The line at hand, in a state that is reading.
LEMMA LineAtHand ==
  ASSUME TypeInv, phase = "reading", lineNumber < Len(file), NEW i, i = lineNumber + 1
  PROVE  /\ lineNumber \in Nat /\ i \in DOMAIN file /\ DOMAIN file = 1..Len(file)
         /\ file[i] \in Strings
         /\ Skipped <=> Ignorable(file[i])
         /\ ~Skipped /\ Len(Values) = 2 =>
              /\ Key = KeyOf(file[i]) /\ Value = ValueOf(file[i])
              /\ Key \in Strings /\ Value \in Strings
         /\ Entry(file[i]) <=> ~Skipped /\ Len(Values) = 2 /\ Value # <<>>
<1>1. /\ file \in Seq(Strings) /\ Len(file) \in Nat /\ DOMAIN file = 1..Len(file)
      /\ lineNumber \in 0..Len(file)
  BY FileType DEF TypeInv
<1>2. lineNumber \in Nat /\ i \in DOMAIN file /\ file[i] \in Strings
  BY <1>1
<1>3. Trimmed = Trim(file[i], Spaces)
  BY DEF Trimmed
<1>4. Values = SplitString(Trimmed, {"="})
  BY DEF Values
<1>5. /\ (Trimmed # <<>> => Head(Trimmed) = "#") <=> Ignorable(file[i])
      /\ ~Ignorable(file[i]) /\ Len(Values) = 2 =>
           /\ Trim(Values[1], Spaces) = KeyOf(file[i])
           /\ Trim(Values[2], Spaces) = ValueOf(file[i])
           /\ Trim(Values[1], Spaces) \in Strings /\ Trim(Values[2], Spaces) \in Strings
      /\ Entry(file[i]) <=>
           ~Ignorable(file[i]) /\ Len(Values) = 2 /\ Trim(Values[2], Spaces) # <<>>
  BY <1>2, <1>3, <1>4, LinesAreRead
<1> QED
  BY <1>1, <1>2, <1>5 DEF Skipped, Key, Value

LEMMA TypeInit == Init => TypeInv
<1> SUFFICES ASSUME Init PROVE TypeInv
  OBVIOUS
<1>1. EmptyMap \in Maps
  <2>1. {} \in SUBSET Strings /\ EmptyMap \in [{} -> Strings \ {<<>>}]
    BY DEF EmptyMap
  <2> QED
    BY <2>1 DEF Maps
<1>2. DefaultConfig \in Configs
  BY <1>1 DEF DefaultConfig, Configs
<1>3. <<>> \in Files
  <2>1. <<>> \in [1..0 -> Lines] /\ 0 \in 0..MaxLines
    BY FilesAssumption
  <2> QED
    BY <2>1 DEF Files, BoundedSeq, SeqOf
<1>4. lineNumber \in 0..Len(file)
  <2>1. Len(<<>>) = 0 /\ file = <<>> /\ lineNumber = 0
    BY DEF Init
  <2> QED
    BY <2>1
<1> QED
  BY <1>2, <1>3, <1>4 DEF Init, TypeInv, errorFound

LEMMA TypeStep == TypeInv /\ [Next]_vars => TypeInv'
<1> SUFFICES ASSUME TypeInv, [Next]_vars PROVE TypeInv'
  OBVIOUS
<1> USE DEF errorFound
<1>1. DefaultConfig \in Configs
  <2>1. {} \in SUBSET Strings /\ EmptyMap \in [{} -> Strings \ {<<>>}]
    BY DEF EmptyMap
  <2>2. EmptyMap \in Maps
    BY <2>1 DEF Maps
  <2> QED
    BY <2>2 DEF DefaultConfig, Configs
<1>2. NoLine \notin Nat /\ MaxLines \in Nat
  BY FilesAssumption DEF NoLine
<1>3. Len(file) \in Nat
  BY FileType DEF TypeInv
<1>4. \A f : Call(f) /\ f \in Files =>
        /\ file' \in Files /\ lineNumber' \in 0..Len(file') /\ parses' \in Nat
        /\ config' \in Configs /\ before' \in Configs
  <2>1. SUFFICES ASSUME NEW f \in Files, Call(f)
        PROVE  /\ file' \in Files /\ lineNumber' \in 0..Len(file') /\ parses' \in Nat
               /\ config' \in Configs /\ before' \in Configs
    OBVIOUS
  <2>2. config' \in Configs /\ before' = config'
    BY <1>1, <2>1 DEF Call, TypeInv
  <2>3. file' = f /\ lineNumber' = 0 /\ parses' = parses + 1
    BY <2>1 DEF Call
  <2>4. Len(f) \in Nat /\ parses \in Nat
    BY FileType DEF TypeInv
  <2>5. lineNumber' \in 0..Len(file')
    BY <2>3, <2>4
  <2> QED
    BY <2>1, <2>2, <2>3, <2>4, <2>5
<1>A. ASSUME NEW line \in 0..MaxLines, NEW text, text # "", Fail(line, text)
       PROVE  /\ errorLine' \in {NoLine} \cup 0..MaxLines
              /\ errorFound' <=> errorMessage' # ""
              /\ phase' = "idle" /\ result' = "false"
  <2>1. errorLine' = line /\ errorMessage' = text /\ phase' = "idle" /\ result' = "false"
    BY <1>A DEF Fail
  <2>2. line # NoLine
    BY <1>2
  <2> QED
    BY <1>A, <2>1, <2>2
<1>B. /\ "Unable to open the configuration file" # ""
       /\ "Invalid configuration entry" # "" /\ "Invalid entry" # ""
  OBVIOUS
<1>5. CASE ParseUnopenable
  <2>1. Unopenable \in Files
    BY DEF Files
  <2>2. /\ file' \in Files /\ lineNumber' \in 0..Len(file') /\ parses' \in Nat
        /\ config' \in Configs /\ before' \in Configs
    BY <1>4, <1>5, <2>1 DEF ParseUnopenable
  <2>3. Fail(0, "Unable to open the configuration file")
    BY <1>5, Zenon DEF ParseUnopenable
  <2>4. 0 \in 0..MaxLines
    BY <1>2
  <2> QED
    BY <1>A, <1>B, <2>2, <2>3, <2>4 DEF TypeInv
<1>6. CASE Parse
  <2>1. PICK f \in Files \ {Unopenable} : Call(f)
    BY <1>6 DEF Parse
  <2>2. /\ file' \in Files /\ lineNumber' \in 0..Len(file') /\ parses' \in Nat
        /\ config' \in Configs /\ before' \in Configs
    BY <1>4, <2>1
  <2>3. file' = f
    BY <2>1 DEF Call
  <2> QED
    BY <1>6, <2>1, <2>2, <2>3 DEF Parse, loader, TypeInv
<1>7. ASSUME Read
      PROVE  /\ file' \in Files /\ lineNumber' \in 0..Len(file') /\ parses' \in Nat
             /\ before' \in Configs /\ file' # Unopenable
             /\ lineNumber' \in 0..MaxLines
  <2>1. file # Unopenable /\ Len(file) <= MaxLines
    BY <1>7, FileType DEF Read, TypeInv
  <2>2. lineNumber \in 0..Len(file) /\ lineNumber < Len(file) /\ lineNumber' = lineNumber + 1
    BY <1>7 DEF Read, TypeInv
  <2>3. lineNumber' \in 0..Len(file) /\ lineNumber' \in 0..MaxLines
    BY <1>2, <1>3, <2>1, <2>2
  <2> QED
    BY <1>7, <2>1, <2>3 DEF Read, TypeInv
<1>8. CASE SkipLine
  BY <1>7, <1>8 DEF SkipLine, loader, TypeInv
<1>9. CASE RefuseEntry
  BY <1>7, <1>9, <1>A, <1>B DEF RefuseEntry, TypeInv
<1>10. CASE RefuseValue
  BY <1>7, <1>10, <1>A, <1>B DEF RefuseValue, TypeInv
<1>11. CASE TakeEntry
  <2>1. phase = "reading" /\ lineNumber < Len(file)
    BY <1>11 DEF TakeEntry, Read
  <2>2. Key \in Strings /\ Value \in Strings /\ Value # <<>>
    BY <1>11, <2>1, LineAtHand DEF TakeEntry
  <2>3. config' \in Configs
    <3>1. config \in Configs /\ config.extra \in Maps
      BY DEF TypeInv, Configs
    <3>2. WithKey(config.extra, Key, Value) \in Maps
      BY <2>2, <3>1, WithKeyType
    <3> QED
      BY <1>11, <2>2, <3>1, <3>2 DEF TakeEntry, Stored, Configs
  <2> QED
    BY <1>7, <1>11, <2>3 DEF TakeEntry, loader, TypeInv
<1>12. CASE EndOfFile
  <2>1. config' \in Configs
    BY <1>12 DEF EndOfFile, TypeInv, Configs
  <2> QED
    BY <1>12, <2>1 DEF EndOfFile, loader, history, TypeInv
<1>13. CASE UNCHANGED vars
  BY <1>13 DEF vars, loader, history, TypeInv
<1> QED
  BY <1>5, <1>6, <1>8, <1>9, <1>10, <1>11, <1>12, <1>13 DEF Next

\* The types of the loader's members and of the PluginConfig, for any lines and
\* any number of calls of parse. No entry of a
\* PluginConfig is ever empty, because parse refuses empty values.
THEOREM TypeCorrect == Spec => []TypeOK
<1>1. TypeInv => TypeOK
  <2> SUFFICES ASSUME TypeInv PROVE TypeOK
    OBVIOUS
  <2>1. \A c \in Configs : c.valid /\ <<>> \notin Range(c.extra)
    <3>1. TAKE c \in Configs
    <3>2. c.valid /\ c.extra \in Maps
      BY DEF Configs
    <3> QED
      BY <3>2, MapType DEF Range
  <2> QED
    BY <2>1 DEF TypeInv, TypeOK
<1> QED
  BY <1>1, TypeInit, TypeStep, PTL DEF Spec

-----------------------------------------------------------------------------
(* The error.                                                              *)

\* A file that is being read has had no bad line so far.
ErrorInv ==
  /\ phase = "reading" => parses > 0 /\ \A i \in 1..lineNumber : i \notin BadLines(file)
  /\ ErrorIsExact

\* The line at which a file of these lines is refused, 0 for no file.
Blame(f) ==
  CASE f = <<>> -> NoLine
    [] f = Unopenable -> 0
    [] OTHER -> Min(BadLines(f))

LEMMA Refused ==
  ASSUME TypeInv, ErrorInv, Read, ~Skipped, NEW text, Fail(lineNumber', text),
         ~(Len(Values) = 2 /\ Value # <<>>)
  PROVE  ErrorInv'
<1> DEFINE i == lineNumber + 1
<1>1. /\ lineNumber \in Nat /\ i \in DOMAIN file /\ DOMAIN file = 1..Len(file)
      /\ ~Ignorable(file[i]) /\ ~Entry(file[i])
  BY LineAtHand DEF Read
<1>2. i \in BadLines(file)
  BY <1>1 DEF BadLines
<1>3. BadLines(file) \subseteq Nat
  BY <1>1 DEF BadLines
<1>4. \A j \in BadLines(file) : i <= j
  <2>1. TAKE j \in BadLines(file)
  <2>2. j \in Nat /\ j >= 1
    BY <1>1 DEF BadLines
  <2>3. ~(j <= lineNumber)
    BY <1>1, <2>2 DEF ErrorInv, Read
  <2> QED
    BY <1>1, <2>2, <2>3
<1>5. Min(BadLines(file)) = i
  <2> HIDE DEF i
  <2> QED
    BY <1>2, <1>3, <1>4, MinIs
<1>6. file # <<>> /\ file # Unopenable
  <2>1. DOMAIN <<>> = {}
    OBVIOUS
  <2> QED
    BY <1>1, <2>1 DEF Read, TypeInv
<1>7. Blame(file) = i
  BY <1>5, <1>6 DEF Blame
<1>8. /\ errorLine' = i /\ blamed' = file /\ file' = file
      /\ phase' = "idle" /\ result' = "false"
  BY DEF Read, Fail
<1>9. BadLines(file) # {}
  BY <1>2
<1>10. ErrorIsExact'
  <2>1. errorLine' = Blame(blamed')
    BY <1>7, <1>8
  <2>2. result' # "true"
    BY <1>8
  <2> QED
    BY <1>8, <1>9, <2>1, <2>2 DEF ErrorIsExact, Blame
<1> QED
  BY <1>8, <1>10 DEF ErrorInv

LEMMA ErrorStep == TypeInv /\ ErrorInv /\ [Next]_vars => ErrorInv'
<1> SUFFICES ASSUME TypeInv, ErrorInv, [Next]_vars PROVE ErrorInv'
  OBVIOUS
<1>1. errorLine = Blame(blamed)
  BY DEF ErrorInv, ErrorIsExact, Blame
<1>2. CASE ParseUnopenable
  <2>1. /\ errorLine' = 0 /\ blamed' = file' /\ file' = Unopenable
        /\ phase' = "idle" /\ result' = "false"
    BY <1>2 DEF ParseUnopenable, Call, Fail
  <2>2. Blame(Unopenable) = 0
    <3>1. Unopenable # <<>>
      BY DEF Unopenable
    <3> QED
      BY <3>1 DEF Blame
  <2> QED
    BY <2>1, <2>2 DEF ErrorInv, ErrorIsExact, Blame
<1>3. CASE Parse
  <2>1. /\ lineNumber' = 0 /\ phase' = "reading" /\ parses' > 0
        /\ UNCHANGED <<errorLine, blamed>>
    <3>1. parses \in Nat /\ parses' = parses + 1
      BY <1>3 DEF Parse, Call, TypeInv
    <3>2. parses' > 0
      BY <3>1
    <3> QED
      BY <1>3, <3>2 DEF Parse, Call, loader
  <2>2. 1..0 = {}
    OBVIOUS
  <2> QED
    BY <1>1, <2>1, <2>2 DEF ErrorInv, ErrorIsExact, Blame
<1>4. CASE SkipLine
  <2>1. /\ lineNumber \in Nat /\ Ignorable(file[lineNumber + 1])
        /\ phase = "reading" /\ phase' = "reading"
        /\ lineNumber' = lineNumber + 1 /\ UNCHANGED <<file, parses, errorLine, blamed>>
    BY <1>4, LineAtHand DEF SkipLine, Read, loader
  <2>2. lineNumber + 1 \notin BadLines(file)
    BY <2>1 DEF BadLines
  <2>3. \A j \in 1..(lineNumber + 1) : j \notin BadLines(file)
    <3>1. \A j \in 1..(lineNumber + 1) : j \in 1..lineNumber \/ j = lineNumber + 1
      BY <2>1
    <3> QED
      BY <2>1, <2>2, <3>1 DEF ErrorInv
  <2> QED
    BY <1>1, <2>1, <2>3 DEF ErrorInv, ErrorIsExact, Blame
<1>5. CASE RefuseEntry
  BY <1>5, Refused DEF RefuseEntry
<1>6. CASE RefuseValue
  BY <1>6, Refused DEF RefuseValue
<1>7. CASE TakeEntry
  <2>1. /\ lineNumber \in Nat /\ Entry(file[lineNumber + 1])
        /\ phase = "reading" /\ phase' = "reading"
        /\ lineNumber' = lineNumber + 1 /\ UNCHANGED <<file, parses, errorLine, blamed>>
    BY <1>7, LineAtHand DEF TakeEntry, Read, loader
  <2>2. lineNumber + 1 \notin BadLines(file)
    BY <2>1 DEF BadLines
  <2>3. \A j \in 1..(lineNumber + 1) : j \notin BadLines(file)
    <3>1. \A j \in 1..(lineNumber + 1) : j \in 1..lineNumber \/ j = lineNumber + 1
      BY <2>1
    <3> QED
      BY <2>1, <2>2, <3>1 DEF ErrorInv
  <2> QED
    BY <1>1, <2>1, <2>3 DEF ErrorInv, ErrorIsExact, Blame
<1>8. CASE EndOfFile
  <2>1. /\ phase = "reading" /\ phase' = "idle" /\ result' = "true"
        /\ lineNumber = Len(file) /\ UNCHANGED <<file, errorLine, blamed, parses>>
    BY <1>8 DEF EndOfFile, loader, history
  <2>2. BadLines(file) = {}
    <3>1. DOMAIN file = 1..lineNumber
      BY <2>1, FileType DEF TypeInv
    <3> QED
      BY <2>1, <3>1 DEF ErrorInv, BadLines
  <2>3. file # Unopenable
    BY <2>1 DEF TypeInv
  <2>4. parses > 0
    BY <2>1 DEF ErrorInv
  <2> QED
    BY <1>1, <2>1, <2>2, <2>3, <2>4 DEF ErrorInv, ErrorIsExact, Blame
<1>9. CASE UNCHANGED vars
  BY <1>9 DEF vars, loader, history, ErrorInv, ErrorIsExact, BadLines
<1> QED
  BY <1>2, <1>3, <1>4, <1>5, <1>6, <1>7, <1>8, <1>9 DEF Next

\* For files of any lines: parse succeeds exactly on those without a bad line,
\* and the loader names the first bad line of the last file it refused,
\* whatever it has parsed since.
THEOREM ErrorsAreExact == Spec => []ErrorIsExact
<1>1. Init => ErrorInv
  <2> SUFFICES ASSUME Init PROVE ErrorInv
    OBVIOUS
  <2>1. phase = "idle" /\ result = "none" /\ parses = 0 /\ blamed = <<>> /\ errorLine = NoLine
    BY DEF Init
  <2>2. Blame(blamed) = NoLine
    <3>1. Unopenable # <<>>
      BY DEF Unopenable
    <3> QED
      BY <2>1, <3>1 DEF Blame
  <2>3. ~(parses > 0) /\ phase # "reading" /\ result # "true"
    BY <2>1
  <2> QED
    BY <2>1, <2>2, <2>3 DEF ErrorInv, ErrorIsExact, Blame
<1>2. ErrorInv => ErrorIsExact
  BY DEF ErrorInv
<1> QED
  BY <1>1, <1>2, TypeInit, TypeStep, ErrorStep, PTL DEF Spec

-----------------------------------------------------------------------------
(* The PluginConfig.                                                       *)

\* LastValue and LastEntryWins, of any lines E of a file f.
LastOf(f, E, key, old) ==
  LET own == {i \in E : KeyOf(f[i]) = key}
  IN  IF own = {} THEN old ELSE ValueOf(f[Max(own)])

OldValue(b, key) == IF key \in DOMAIN b.extra THEN b.extra[key] ELSE <<>>
KeysOf(f, E) == {KeyOf(f[i]) : i \in E} \ {ServerUrlKey}

Overlaid(c, b, f, E) ==
  /\ c.server_url = LastOf(f, E, ServerUrlKey, b.server_url)
  /\ c.extra = [key \in DOMAIN b.extra \cup KeysOf(f, E) |-> LastOf(f, E, key, OldValue(b, key))]

LEMMA LastEntryWinsIs ==
  /\ LastEntryWins <=> Overlaid(config, before, file, EntriesRead)
  /\ LastEntryWins' <=> Overlaid(config', before', file', EntriesRead')
BY DEF LastEntryWins, LastValue, Overlaid, LastOf, OldValue, KeysOf

LEMMA LastOfNone ==
  ASSUME NEW c \in Configs, NEW f
  PROVE  Overlaid(c, c, f, {})
<1>1. c.extra = [k \in DOMAIN c.extra |-> c.extra[k]]
  BY MapType DEF Configs
<1>2. KeysOf(f, {}) = {} /\ \A key, old : LastOf(f, {}, key, old) = old
  BY DEF KeysOf, LastOf
<1>3. DOMAIN c.extra \cup KeysOf(f, {}) = DOMAIN c.extra
  BY <1>2
<1>4. \A k \in DOMAIN c.extra : OldValue(c, k) = c.extra[k]
  BY DEF OldValue
<1>5. c.extra = [k \in DOMAIN c.extra |-> LastOf(f, {}, k, OldValue(c, k))]
  BY <1>1, <1>2, <1>4
<1> QED
  BY <1>2, <1>3, <1>5 DEF Overlaid

LEMMA LastOfMore ==
  ASSUME NEW f, NEW n \in Nat, NEW E, E \subseteq 1..n, NEW F, F = E \cup {n + 1},
         NEW key, NEW old
  PROVE  LastOf(f, F, key, old)
           = IF KeyOf(f[n + 1]) = key THEN ValueOf(f[n + 1]) ELSE LastOf(f, E, key, old)
<1> DEFINE own == {i \in E : KeyOf(f[i]) = key}
           more == {i \in F : KeyOf(f[i]) = key}
<1>1. CASE KeyOf(f[n + 1]) = key
  <2>1. n + 1 \in more
    BY <1>1
  <2>2. more \subseteq 0..(n + 1) /\ \A i \in more : i <= n + 1
    <3>1. \A i \in E : i \in 1..n
      OBVIOUS
    <3>2. \A i \in E \cup {n + 1} : i \in 0..(n + 1) /\ i <= n + 1
      BY <3>1
    <3>3. more \subseteq E \cup {n + 1}
      OBVIOUS
    <3> HIDE DEF more
    <3> QED
      BY <3>2, <3>3
  <2> HIDE DEF more
  <2>3. n + 1 \in Nat
    OBVIOUS
  <2> DEFINE m == n + 1
  <2>4. m \in Nat /\ m \in more /\ more \subseteq 0..m /\ \A i \in more : i <= m
    BY <2>1, <2>2, <2>3
  <2> HIDE DEF m
  <2>5. Max(more) = m
    BY <2>4, MaxIs
  <2>6. more # {}
    BY <2>1
  <2> QED
    BY <1>1, <2>5, <2>6 DEF LastOf, more, m
<1>2. CASE KeyOf(f[n + 1]) # key
  <2>1. more = own
    BY <1>2
  <2> HIDE DEF more, own
  <2> QED
    BY <1>2, <2>1 DEF LastOf, more, own
<1> QED
  BY <1>1, <1>2

LEMMA OverlaidMore ==
  ASSUME NEW c \in Configs, NEW b \in Configs, NEW f, NEW n \in Nat, NEW E, E \subseteq 1..n,
         ServerUrlKey \notin DOMAIN b.extra, Overlaid(c, b, f, E),
         NEW key, key = KeyOf(f[n + 1]), NEW value, value = ValueOf(f[n + 1]), NEW d,
         d = IF key = ServerUrlKey THEN [c EXCEPT !.server_url = value]
             ELSE [c EXCEPT !.extra = WithKey(c.extra, key, value)]
  PROVE  Overlaid(d, b, f, E \cup {n + 1})
<1> DEFINE F == E \cup {n + 1}
           D == DOMAIN b.extra \cup KeysOf(f, E)
<1>1. \A k, old : LastOf(f, F, k, old) = IF key = k THEN value ELSE LastOf(f, E, k, old)
  <2>1. F = E \cup {n + 1}
    OBVIOUS
  <2> HIDE DEF F, D
  <2>2. \A k, old :
          LastOf(f, F, k, old)
            = IF KeyOf(f[n + 1]) = k THEN ValueOf(f[n + 1]) ELSE LastOf(f, E, k, old)
    BY <2>1, LastOfMore
  <2> QED
    BY <2>2
<1>2. KeysOf(f, F) = KeysOf(f, E) \cup ({key} \ {ServerUrlKey})
  BY DEF KeysOf
<1>3. /\ c.server_url = LastOf(f, E, ServerUrlKey, b.server_url)
      /\ c.extra = [k \in D |-> LastOf(f, E, k, OldValue(b, k))]
  BY DEF Overlaid
<1>4. ServerUrlKey \notin D
  BY DEF KeysOf
<1> HIDE DEF F
<1>5. CASE key = ServerUrlKey
  <2>1. d.server_url = value /\ d.extra = c.extra
    BY <1>5 DEF Configs
  <2>2. DOMAIN b.extra \cup KeysOf(f, F) = D
    BY <1>2, <1>5
  <2>3. \A k \in D : LastOf(f, F, k, OldValue(b, k)) = LastOf(f, E, k, OldValue(b, k))
    BY <1>1, <1>4, <1>5
  <2> HIDE DEF D
  <2>4. d.extra = [k \in D |-> LastOf(f, F, k, OldValue(b, k))]
    BY <1>3, <2>1, <2>3
  <2>5. d.server_url = LastOf(f, F, ServerUrlKey, b.server_url)
    BY <1>1, <1>5, <2>1
  <2> QED
    BY <2>2, <2>4, <2>5 DEF Overlaid, F
<1>6. CASE key # ServerUrlKey
  <2>1. d.server_url = c.server_url /\ d.extra = WithKey(c.extra, key, value)
    BY <1>6 DEF Configs
  <2>2. DOMAIN b.extra \cup KeysOf(f, F) = D \cup {key}
    BY <1>2, <1>6
  <2> HIDE DEF D
  <2>3. d.extra = [k \in D \cup {key} |->
                     IF k = key THEN value ELSE LastOf(f, E, k, OldValue(b, k))]
    BY <1>3, <2>1 DEF WithKey
  <2>4. d.extra = [k \in D \cup {key} |-> LastOf(f, F, k, OldValue(b, k))]
    BY <1>1, <2>3
  <2>5. d.server_url = LastOf(f, F, ServerUrlKey, b.server_url)
    BY <1>1, <1>3, <1>6, <2>1
  <2> QED
    BY <2>2, <2>4, <2>5 DEF Overlaid, F
<1> QED
  BY <1>5, <1>6

\* LastEntryWins is not inductive without this: the url's key, which parse never
\* stores as an entry, is none that the caller's PluginConfig has.
EntryInv ==
  /\ ServerUrlKey \notin DOMAIN config.extra /\ ServerUrlKey \notin DOMAIN before.extra
  /\ LastEntryWins

LEMMA EntriesStep ==
  ASSUME TypeInv, Read
  PROVE  /\ lineNumber \in Nat /\ EntriesRead \subseteq 1..lineNumber
         /\ Entry(file[lineNumber + 1]) => EntriesRead' = EntriesRead \cup {lineNumber + 1}
         /\ ~Entry(file[lineNumber + 1]) => EntriesRead' = EntriesRead
<1>1. /\ file # Unopenable /\ file' = file /\ lineNumber' = lineNumber + 1
      /\ lineNumber \in Nat
  <2>1. file \in Files /\ lineNumber \in 0..Len(file)
    BY DEF TypeInv
  <2>2. Len(file) \in Nat
    BY <2>1, FileType
  <2>3. lineNumber \in Nat
    BY <2>1, <2>2
  <2> QED
    BY <2>3 DEF TypeInv, Read
<1>2. EntriesRead = {i \in 1..lineNumber : Entry(file[i])}
  BY <1>1 DEF EntriesRead
<1>3. EntriesRead' = {i \in 1..(lineNumber + 1) : Entry(file[i])}
  BY <1>1 DEF EntriesRead
<1>4. 1..(lineNumber + 1) = 1..lineNumber \cup {lineNumber + 1}
  BY <1>1
<1> QED
  BY <1>1, <1>2, <1>3, <1>4

LEMMA EntryStep == TypeInv /\ EntryInv /\ [Next]_vars => EntryInv'
<1> SUFFICES ASSUME TypeInv, EntryInv, [Next]_vars PROVE EntryInv'
  OBVIOUS
<1>1. Overlaid(config, before, file, EntriesRead)
  BY LastEntryWinsIs DEF EntryInv
<1>2. ASSUME NEW f \in Files, Call(f) PROVE EntryInv'
  <2>1. DefaultConfig \in Configs /\ ServerUrlKey \notin DOMAIN DefaultConfig.extra
    <3>1. EmptyMap \in Maps /\ DOMAIN EmptyMap = {}
      <4>1. {} \in SUBSET Strings /\ EmptyMap \in [{} -> Strings \ {<<>>}]
        BY DEF EmptyMap
      <4> QED
        BY <4>1 DEF Maps
    <3> QED
      BY <3>1 DEF DefaultConfig, Configs
  <2>2. config' \in Configs /\ before' = config' /\ ServerUrlKey \notin DOMAIN config'.extra
    BY <1>2, <2>1 DEF Call, TypeInv, EntryInv
  <2>3. EntriesRead' = {}
    <3>1. lineNumber' = 0 /\ 1..0 = {}
      BY <1>2 DEF Call
    <3> QED
      BY <3>1 DEF EntriesRead
  <2>4. Overlaid(config', before', file', EntriesRead')
    BY <2>2, <2>3, LastOfNone
  <2> QED
    BY <2>2, <2>4, LastEntryWinsIs DEF EntryInv
<1>3. CASE ParseUnopenable
  <2>1. Unopenable \in Files
    BY DEF Files
  <2> QED
    BY <1>2, <1>3, <2>1 DEF ParseUnopenable
<1>4. CASE Parse
  BY <1>2, <1>4 DEF Parse
\* A line that is no entry.
<1>5. ASSUME Read, UNCHANGED config, ~Entry(file[lineNumber + 1]) PROVE EntryInv'
  <2>1. EntriesRead' = EntriesRead /\ UNCHANGED <<file, before>>
    BY <1>5, EntriesStep DEF Read
  <2>2. Overlaid(config', before', file', EntriesRead')
    BY <1>1, <1>5, <2>1
  <2> QED
    BY <1>5, <2>1, <2>2, LastEntryWinsIs DEF EntryInv
<1>6. CASE SkipLine
  <2>1. ~Entry(file[lineNumber + 1])
    BY <1>6, LineAtHand DEF SkipLine, Read
  <2> QED
    BY <1>5, <1>6, <2>1 DEF SkipLine
<1>7. CASE RefuseEntry
  <2>1. ~Entry(file[lineNumber + 1])
    BY <1>7, LineAtHand DEF RefuseEntry, Read
  <2> QED
    BY <1>5, <1>7, <2>1 DEF RefuseEntry
<1>8. CASE RefuseValue
  <2>1. ~Entry(file[lineNumber + 1])
    BY <1>8, LineAtHand DEF RefuseValue, Read
  <2> QED
    BY <1>5, <1>8, <2>1 DEF RefuseValue
<1>9. CASE TakeEntry
  <2> DEFINE n == lineNumber
  <2>1. Read /\ UNCHANGED <<file, before>>
    BY <1>9 DEF TakeEntry, Read
  <2>2. /\ Entry(file[n + 1]) /\ Key = KeyOf(file[n + 1]) /\ Value = ValueOf(file[n + 1])
        /\ Key \in Strings /\ Value \in Strings /\ Value # <<>>
    BY <1>9, LineAtHand DEF TakeEntry, Read
  <2>3. /\ n \in Nat /\ EntriesRead \subseteq 1..n
        /\ EntriesRead' = EntriesRead \cup {n + 1}
    BY <2>1, <2>2, EntriesStep
  <2>4. config \in Configs /\ before \in Configs
    BY DEF TypeInv
  <2>5. config' = IF Key = ServerUrlKey THEN [config EXCEPT !.server_url = Value]
                  ELSE [config EXCEPT !.extra = WithKey(config.extra, Key, Value)]
    BY <1>9 DEF TakeEntry, Stored
  <2>6. Overlaid(config', before, file, EntriesRead \cup {n + 1})
    <3>1. ServerUrlKey \notin DOMAIN before.extra
      BY DEF EntryInv
    <3> HIDE DEF n
    <3> QED
      BY <1>1, <2>2, <2>3, <2>4, <2>5, <3>1, OverlaidMore
  <2>7. ServerUrlKey \notin DOMAIN config'.extra
    BY <2>4, <2>5 DEF EntryInv, Configs, WithKey
  <2> QED
    BY <2>1, <2>3, <2>6, <2>7, LastEntryWinsIs DEF EntryInv
<1>10. CASE EndOfFile
  <2>1. config' = config
    <3>1. config \in Configs /\ config' = [config EXCEPT !.valid = TRUE]
      BY <1>10 DEF EndOfFile, TypeInv
    <3> QED
      BY <3>1 DEF Configs
  <2>2. UNCHANGED <<before, file, lineNumber>>
    BY <1>10 DEF EndOfFile, history
  <2>3. EntriesRead' = EntriesRead
    BY <2>2 DEF EntriesRead
  <2> QED
    BY <1>1, <2>1, <2>2, <2>3, LastEntryWinsIs DEF EntryInv
<1>11. CASE UNCHANGED vars
  <2>1. UNCHANGED <<config, before, file, lineNumber>>
    BY <1>11 DEF vars, history
  <2>2. EntriesRead' = EntriesRead
    BY <2>1 DEF EntriesRead
  <2> QED
    BY <1>1, <2>1, <2>2, LastEntryWinsIs DEF EntryInv
<1> QED
  BY <1>3, <1>4, <1>6, <1>7, <1>8, <1>9, <1>10, <1>11 DEF Next

LEMMA EntryInit == Init => EntryInv
<1> SUFFICES ASSUME Init PROVE EntryInv
  OBVIOUS
<1>1. config \in Configs
  BY TypeInit DEF TypeInv
<1>2. DOMAIN config.extra = {} /\ before = config
  BY DEF Init, DefaultConfig, EmptyMap
<1>3. EntriesRead = {}
  <2>1. lineNumber = 0
    BY DEF Init
  <2>2. 1..0 = {}
    OBVIOUS
  <2> QED
    BY <2>1, <2>2 DEF EntriesRead
<1>4. Overlaid(config, before, file, EntriesRead)
  BY <1>1, <1>2, <1>3, LastOfNone
<1> QED
  BY <1>2, <1>4, LastEntryWinsIs DEF EntryInv

\* The PluginConfig is always the caller's with the entries read so far over
\* it, the last of a key winning.
THEOREM LastEntriesWin == Spec => []LastEntryWins
<1>1. EntryInv => LastEntryWins
  BY DEF EntryInv
<1> QED
  BY <1>1, TypeInit, TypeStep, EntryInit, EntryStep, PTL DEF Spec

=============================================================================
