---------------------------- MODULE ToolCallProofs ----------------------------
(***************************************************************************)
(* What a completed call says is true, and its output within the limits,   *)
(* for any limits, any output and any number of children.                  *)
(***************************************************************************)
EXTENDS ToolCall, FiniteSetTheorems, SequenceTheorems, TLAPS

(***************************************************************************)
(* Elements of a finite set of positions.                                  *)
(***************************************************************************)
Upto(S, i)  == {j \in S : j <= i}
Below(S, i) == {j \in S : j < i}

\* A set of positions has a first element ...
LEMMA FirstOf ==
    ASSUME NEW S \in SUBSET Nat, S # {}
    PROVE  \E u \in S : \A v \in S : u <= v
<1> DEFINE Less == {p \in Nat \X Nat : p[1] < p[2]}
<1>1. IsWellFoundedOn(Less, Nat)
  BY NatLessThanWellFounded DEF OpToRel
<1>2. PICK u \in S : \A v \in S : <<v, u>> \notin Less
  BY <1>1, WFMin
<1>3. ASSUME NEW v \in S PROVE u <= v
  <2>1. u \in Nat /\ v \in Nat /\ <<v, u>> \notin Less
    BY <1>2
  <2> QED BY <2>1
<1> QED BY <1>3

\* ... and a last one.
LEMMA LastOf ==
    ASSUME NEW m \in Nat, NEW S \in SUBSET (1..m), S # {}
    PROVE  \E u \in S : \A v \in S : v <= u
<1> DEFINE T == {m - v : v \in S}
<1>1. T \in SUBSET Nat /\ T # {}
  <2>1. ASSUME NEW v \in S PROVE m - v \in Nat
    OBVIOUS
  <2>2. T # {}
    OBVIOUS
  <2> QED BY <2>1, <2>2
<1>2. PICK w \in T : \A x \in T : w <= x
  BY <1>1, FirstOf
<1>3. PICK u \in S : w = m - u
  BY <1>2
<1>4. ASSUME NEW v \in S PROVE v <= u
  <2>1. m - u <= m - v
    BY <1>2, <1>3
  <2> QED BY <2>1
<1> QED BY <1>4

\* It is finite, and so are its parts.
LEMMA Positions ==
    ASSUME NEW m \in Nat, NEW S \in SUBSET (1..m)
    PROVE  IsFiniteSet(S) /\ Cardinality(S) \in Nat /\ S \in SUBSET Nat /\ Cardinality(S) <= m
<1>1. IsFiniteSet(1..m) /\ Cardinality(1..m) = m
  BY FS_Interval
<1>2. IsFiniteSet(S) /\ Cardinality(S) <= m
  BY <1>1, FS_Subset
<1> QED BY <1>2, FS_CardinalityType

\* An element counts itself and those below.
LEMMA UptoIsBelow ==
    ASSUME NEW m \in Nat, NEW S \in SUBSET (1..m), NEW i \in S
    PROVE  /\ Cardinality(Upto(S, i)) = Cardinality(Below(S, i)) + 1
           /\ Cardinality(Upto(S, i)) \in Nat /\ Cardinality(Below(S, i)) \in Nat
           /\ Cardinality(Upto(S, i)) <= Cardinality(S)
<1>1. Upto(S, i) = Below(S, i) \cup {i} /\ i \notin Below(S, i)
  <2>1. i \in Nat
    OBVIOUS
  <2>2. ASSUME NEW j \in S PROVE j <= i <=> (j < i \/ j = i)
    <3>1. j \in Nat
      OBVIOUS
    <3> QED BY <2>1, <3>1
  <2>3. ~(i < i)
    BY <2>1
  <2> QED BY <2>2, <2>3 DEF Upto, Below
<1>2. Below(S, i) \in SUBSET (1..m) /\ Upto(S, i) \in SUBSET (1..m) /\ Upto(S, i) \in SUBSET S
  BY DEF Upto, Below
<1>3. Cardinality(Upto(S, i)) = Cardinality(Below(S, i)) + 1
  BY <1>1, <1>2, Positions, FS_AddElement
<1> QED BY <1>2, <1>3, Positions, FS_Subset

\* A later element counts more.
LEMMA UptoGrows ==
    ASSUME NEW m \in Nat, NEW S \in SUBSET (1..m), NEW i \in S, NEW j \in S, i < j
    PROVE  Cardinality(Upto(S, i)) < Cardinality(Upto(S, j))
<1>1. Upto(S, i) \in SUBSET Below(S, j) /\ Below(S, j) \in SUBSET (1..m)
  <2>1. ASSUME NEW k \in S, k <= i PROVE k < j
    <3>1. k \in Nat /\ i \in Nat /\ j \in Nat
      OBVIOUS
    <3> QED BY <2>1, <3>1
  <2> QED BY <2>1 DEF Upto, Below
<1>2. Cardinality(Upto(S, i)) <= Cardinality(Below(S, j))
  BY <1>1, Positions, FS_Subset
<1>3. /\ Cardinality(Upto(S, j)) = Cardinality(Below(S, j)) + 1
      /\ Cardinality(Below(S, j)) \in Nat /\ Cardinality(Upto(S, i)) \in Nat
  BY UptoIsBelow
<1> QED BY <1>2, <1>3

\* There is an n-th element.
LEMMA NthExists ==
    ASSUME NEW m \in Nat, NEW S \in SUBSET (1..m), NEW n \in 1..Cardinality(S)
    PROVE  \E i \in S : Cardinality(Upto(S, i)) = n
<1> DEFINE T == {i \in S : Cardinality(Upto(S, i)) >= n}
<1>1. Cardinality(S) \in Nat /\ IsFiniteSet(S)
  BY Positions
<1>2. T # {}
  <2>1. S # {}
    BY <1>1, FS_EmptySet
  <2>2. PICK g \in S : \A v \in S : v <= g
    BY <2>1, LastOf
  <2>3. Upto(S, g) = S
    BY <2>2 DEF Upto
  <2> QED BY <1>1, <2>3
<1>3. PICK u \in T : \A v \in T : u <= v
  <2>1. T \in SUBSET Nat
    BY Positions
  <2> HIDE DEF T
  <2> QED BY <1>2, <2>1, FirstOf
<1>4. Cardinality(Below(S, u)) < n
  <2>1. CASE Below(S, u) = {}
    BY <2>1, FS_EmptySet
  <2>2. CASE Below(S, u) # {}
    <3>1. Below(S, u) \in SUBSET (1..m)
      BY DEF Below
    <3>2. PICK g \in Below(S, u) : \A v \in Below(S, u) : v <= g
      BY <2>2, <3>1, LastOf
    <3>3. g \in S /\ g < u
      BY <3>2 DEF Below
    <3>4. Upto(S, g) = Below(S, u)
      <4>1. ASSUME NEW j \in S PROVE j <= g <=> j < u
        <5>1. j \in Nat /\ g \in Nat /\ u \in Nat
          BY <3>3, Positions
        <5>2. j < u => j <= g
          BY <3>2 DEF Below
        <5> QED BY <3>3, <5>1, <5>2
      <4> QED BY <4>1 DEF Upto, Below
    <3>5. g \notin T
      BY <1>3, <3>3
    <3>6. ~(Cardinality(Upto(S, g)) >= n) /\ Cardinality(Upto(S, g)) \in Nat
      BY <3>3, <3>5, UptoIsBelow
    <3> QED BY <3>4, <3>6
  <2> QED BY <2>1, <2>2
<1>5. Cardinality(Upto(S, u)) >= n /\ u \in S
  BY <1>3
<1>6. Cardinality(Upto(S, u)) = n
  <2>1. /\ Cardinality(Upto(S, u)) = Cardinality(Below(S, u)) + 1
        /\ Cardinality(Below(S, u)) \in Nat
    BY <1>5, UptoIsBelow
  <2>2. n \in Nat
    BY <1>1
  <2> QED BY <1>4, <1>5, <2>1, <2>2
<1> QED BY <1>5, <1>6

(***************************************************************************)
(* Texts and their lines.                                                  *)
(***************************************************************************)

\* The newlines of a text are finitely many positions in it.
LEMMA NewlinesAre ==
    ASSUME NEW text \in Seq(Symbols)
    PROVE  /\ Len(text) \in Nat /\ Newlines(text) \in SUBSET (1..Len(text))
           /\ IsFiniteSet(Newlines(text)) /\ Cardinality(Newlines(text)) \in Nat
           /\ LinesOf(text) \in Nat /\ LinesOf(text) <= Cardinality(Newlines(text)) + 1
<1>1. Len(text) \in Nat /\ Newlines(text) \in SUBSET (1..Len(text))
  BY DEF Newlines
<1>2. IsFiniteSet(Newlines(text)) /\ Cardinality(Newlines(text)) \in Nat
  BY <1>1, Positions
<1> QED BY <1>1, <1>2 DEF LinesOf

\* A part from the beginning has no more lines.
LEMMA Prefix ==
    ASSUME NEW text \in Seq(Symbols), NEW m \in 0..Len(text)
    PROVE  LET cut == SubSeq(text, 1, m)
           IN  /\ cut \in Seq(Symbols) /\ Len(cut) = m
               /\ Newlines(cut) = {i \in Newlines(text) : i <= m}
               /\ LinesOf(cut) <= LinesOf(text)
<1> DEFINE cut == SubSeq(text, 1, m)
<1>1. cut \in Seq(Symbols) /\ Len(cut) = m /\ \A i \in 1..m : cut[i] = text[i]
  OBVIOUS
<1> HIDE DEF cut
<1>2. Newlines(cut) = {i \in Newlines(text) : i <= m}
  <2>1. DOMAIN cut = 1..m /\ DOMAIN text = 1..Len(text) /\ Len(text) \in Nat /\ m \in Nat
    BY <1>1
  <2>2. \A i : i \in DOMAIN cut <=> i \in DOMAIN text /\ i <= m
    BY <2>1
  <2> QED BY <1>1, <2>1, <2>2 DEF Newlines
<1>3. LinesOf(cut) <= LinesOf(text)
  <2>1. /\ IsFiniteSet(Newlines(text)) /\ Cardinality(Newlines(text)) \in Nat
        /\ Cardinality(Newlines(cut)) \in Nat
    BY <1>1, NewlinesAre
  <2>2. Newlines(cut) \in SUBSET Newlines(text)
    BY <1>2
  <2>3. Cardinality(Newlines(cut)) <= Cardinality(Newlines(text))
    BY <2>1, <2>2, FS_Subset
  <2>4. CASE m = 0
    BY <1>1, <2>1, <2>3, <2>4 DEF LinesOf
  <2>5. CASE m > 0 /\ text[Len(text)] = "byte"
    <3>1. text # <<>>
      BY <2>5
    <3> QED BY <2>1, <2>3, <2>5, <3>1 DEF LinesOf
  <2>6. CASE m > 0 /\ text[Len(text)] # "byte"
    <3>1. Len(text) \in DOMAIN text /\ Len(text) \in Nat /\ m \in Nat
      BY <2>6
    <3>2. text[Len(text)] = "newline"
      BY <2>6, <3>1 DEF Symbols
    <3>3. Len(text) \in Newlines(text)
      BY <3>1, <3>2 DEF Newlines
    <3>4. CASE m = Len(text)
      <4>1. cut[Len(cut)] # "byte"
        BY <1>1, <2>6, <3>4
      <4> QED BY <2>1, <2>3, <4>1 DEF LinesOf
    <3>5. CASE m # Len(text)
      <4>1. m < Len(text)
        BY <3>1, <3>5
      <4>2. Newlines(cut) \in SUBSET (Newlines(text) \ {Len(text)})
        BY <1>2, <3>1, <4>1
      <4>3. /\ IsFiniteSet(Newlines(text) \ {Len(text)})
            /\ Cardinality(Newlines(text) \ {Len(text)}) = Cardinality(Newlines(text)) - 1
        BY <2>1, <3>3, FS_RemoveElement
      <4>4. Cardinality(Newlines(cut)) <= Cardinality(Newlines(text)) - 1
        BY <4>2, <4>3, FS_Subset
      <4> QED BY <2>1, <4>4 DEF LinesOf
    <3> QED BY <3>4, <3>5
  <2> QED BY <2>4, <2>5, <2>6
<1> QED BY <1>1, <1>2, <1>3 DEF cut

\* The line limit is kept.
LEMMA FirstLinesFit ==
    ASSUME NEW text \in Seq(Symbols), NEW n \in Nat \ {0}
    PROVE  FirstLines(text, n) \in Seq(Symbols) /\ LinesOf(FirstLines(text, n)) <= n
<1> DEFINE N == Newlines(text)
<1>1. Len(text) \in Nat /\ N \in SUBSET (1..Len(text)) /\ Cardinality(N) \in Nat
  BY NewlinesAre
<1>2. CASE Cardinality(N) < n
  <2>1. FirstLines(text, n) = text
    BY <1>2 DEF FirstLines
  <2>2. LinesOf(text) <= Cardinality(N) + 1 /\ LinesOf(text) \in Nat
    BY NewlinesAre
  <2> HIDE DEF N
  <2> QED BY <1>1, <1>2, <2>1, <2>2
<1>3. CASE ~(Cardinality(N) < n)
  <2> DEFINE c == CHOOSE i \in N : Cardinality({j \in N : j <= i}) = n
  <2>1. n \in 1..Cardinality(N)
    BY <1>1, <1>3
  <2>2. \E i \in N : Cardinality({j \in N : j <= i}) = n
    <3> HIDE DEF N
    <3>1. \E i \in N : Cardinality(Upto(N, i)) = n
      BY <1>1, <2>1, NthExists
    <3> QED BY <3>1 DEF Upto
  <2>3. c \in N /\ Cardinality(Upto(N, c)) = n
    BY <2>2 DEF Upto
  <2>4. FirstLines(text, n) = SubSeq(text, 1, c - 1)
    BY <1>3 DEF FirstLines
  <2> HIDE DEF c
  <2>5. c - 1 \in 0..Len(text) /\ c \in Nat
    <3> HIDE DEF N
    <3> QED BY <1>1, <2>3
  <2>6. /\ FirstLines(text, n) \in Seq(Symbols)
        /\ Newlines(FirstLines(text, n)) = {i \in N : i <= c - 1}
    BY <2>4, <2>5, Prefix
  <2>7. {i \in N : i <= c - 1} = Below(N, c)
    <3> HIDE DEF N
    <3>1. ASSUME NEW i \in N PROVE i <= c - 1 <=> i < c
      <4>1. i \in Nat
        BY <1>1
      <4> QED BY <2>5, <4>1
    <3> QED BY <3>1 DEF Below
  <2>8. n = Cardinality(Below(N, c)) + 1 /\ Cardinality(Below(N, c)) \in Nat
    <3> HIDE DEF N
    <3> QED BY <1>1, <2>3, UptoIsBelow
  <2>9. LinesOf(FirstLines(text, n)) <= Cardinality(Below(N, c)) + 1
    BY <2>6, <2>7, NewlinesAre
  <2> HIDE DEF N
  <2> QED BY <2>6, <2>8, <2>9
<1> QED BY <1>2, <1>3

\* The byte limit is kept, and no line added.
LEMMA FirstBytesFit ==
    ASSUME NEW text \in Seq(Symbols), NEW n \in Nat
    PROVE  /\ FirstBytes(text, n) \in Seq(Symbols) /\ Len(FirstBytes(text, n)) <= n
           /\ LinesOf(FirstBytes(text, n)) <= LinesOf(text)
<1>1. CASE Len(text) > n
  <2>1. n \in 0..Len(text) /\ FirstBytes(text, n) = SubSeq(text, 1, n)
    BY <1>1 DEF FirstBytes
  <2> QED BY <2>1, Prefix
<1>2. CASE ~(Len(text) > n)
  <2>1. FirstBytes(text, n) = text /\ Len(text) <= n
    BY <1>2 DEF FirstBytes
  <2>2. LinesOf(text) \in Nat
    BY NewlinesAre
  <2> QED BY <2>1, <2>2
<1> QED BY <1>1, <1>2

(***************************************************************************)
(* The row limit.  The parts of limitLines have names here.                *)
(***************************************************************************)
BytesOf(text) == DOMAIN text \ Newlines(text)
EndsOf(text)  == {i \in Newlines(text) : i - 1 \in BytesOf(text)}
KeptOf(text, max) ==
    {i \in BytesOf(text) \cup EndsOf(text) : Cardinality(Below(EndsOf(text), i)) < max}
KeptEnds(text, max) == KeptOf(text, max) \cap Newlines(text)

\* Where the k-th symbol of the rows comes from.
FromOf(text, max) ==
    [k \in 1..Cardinality(KeptOf(text, max)) |->
        CHOOSE i \in KeptOf(text, max) : Cardinality(Upto(KeptOf(text, max), i)) = k]
RowsOf(text, max) ==
    [k \in 1..Cardinality(KeptOf(text, max)) |-> text[FromOf(text, max)[k]]]

\* With these names limitLines reads:
LEMMA LimitLinesIs ==
    ASSUME NEW text, NEW max
    PROVE  limitLines(text, max) =
             IF max = 0 \/ BytesOf(text) = {} THEN text
             ELSE IF RowsOf(text, max)[Len(RowsOf(text, max))] = "newline"
               THEN RowsOf(text, max)
             ELSE Append(RowsOf(text, max), "newline")
<1> DEFINE kept == KeptOf(text, max)
           lines == [k \in 1..Cardinality(kept) |->
                        text[CHOOSE i \in kept : Cardinality({j \in kept : j <= i}) = k]]
<1>1. RowsOf(text, max) = lines
  <2>1. ASSUME NEW k \in 1..Cardinality(kept) PROVE RowsOf(text, max)[k] = lines[k]
    BY DEF RowsOf, FromOf, Upto
  <2> HIDE DEF kept
  <2>2. RowsOf(text, max) = [k \in 1..Cardinality(kept) |-> RowsOf(text, max)[k]]
    BY DEF RowsOf, kept
  <2> HIDE DEF RowsOf
  <2> QED BY <2>1, <2>2, Zenon
<1>2. limitLines(text, max) =
             IF max = 0 \/ BytesOf(text) = {} THEN text
             ELSE IF lines[Len(lines)] = "newline" THEN lines
             ELSE Append(lines, "newline")
  BY Zenon DEF limitLines, BytesOf, EndsOf, KeptOf, Below
<1> QED BY <1>1, <1>2, Zenon

\* What is kept are positions, the newlines among them ends of lines.
LEMMA KeptIs ==
    ASSUME NEW text \in Seq(Symbols), NEW max \in Nat
    PROVE  /\ KeptOf(text, max) \in SUBSET (1..Len(text))
           /\ EndsOf(text) \in SUBSET (1..Len(text))
           /\ KeptEnds(text, max) \in SUBSET EndsOf(text)
           /\ KeptEnds(text, max) \in SUBSET Newlines(text)
           /\ KeptEnds(text, max) \in SUBSET KeptOf(text, max)
           /\ KeptEnds(text, max) \in SUBSET (1..Len(text))
  BY DEF KeptOf, EndsOf, BytesOf, KeptEnds, Newlines

\* The first byte is kept.
LEMMA SomeKept ==
    ASSUME NEW text \in Seq(Symbols), NEW max \in Nat \ {0}, BytesOf(text) # {}
    PROVE  KeptOf(text, max) # {}
<1>1. BytesOf(text) \in SUBSET Nat /\ \A i \in BytesOf(text) : i \in Nat
  BY DEF BytesOf
<1>2. PICK b \in BytesOf(text) : \A i \in BytesOf(text) : b <= i
  BY <1>1, FirstOf
<1>3. ASSUME NEW e \in EndsOf(text) PROVE ~(e < b)
  <2>1. e \in Nat /\ e - 1 \in BytesOf(text)
    BY KeptIs DEF EndsOf
  <2>2. b <= e - 1 /\ b \in Nat
    BY <1>1, <1>2, <2>1
  <2> QED BY <2>1, <2>2
<1>4. Below(EndsOf(text), b) = {}
  BY <1>3 DEF Below
<1>5. Cardinality(Below(EndsOf(text), b)) < max
  BY <1>4, FS_EmptySet
<1> QED BY <1>2, <1>5 DEF KeptOf

\* Each row symbol comes from a place of its own, the last from the last one.
LEMMA FromIs ==
    ASSUME NEW text \in Seq(Symbols), NEW max \in Nat
    PROVE  LET K == KeptOf(text, max)
               f == FromOf(text, max)
           IN  /\ \A k \in 1..Cardinality(K) : f[k] \in K /\ Cardinality(Upto(K, f[k])) = k
               /\ K # {} => /\ Cardinality(K) \in 1..Len(text)
                            /\ \A i \in K : i <= f[Cardinality(K)]
<1> DEFINE K == KeptOf(text, max)
           f == FromOf(text, max)
           m == Cardinality(K)
<1>1. K \in SUBSET (1..Len(text)) /\ Len(text) \in Nat
  BY KeptIs
<1>2. f = [k \in 1..m |-> CHOOSE i \in K : Cardinality(Upto(K, i)) = k]
  BY DEF FromOf
<1> HIDE DEF K, f
<1>3. ASSUME NEW k \in 1..m PROVE f[k] \in K /\ Cardinality(Upto(K, f[k])) = k
  <2>1. \E i \in K : Cardinality(Upto(K, i)) = k
    BY <1>1, NthExists
  <2> QED BY <1>2, <2>1
<1>4. ASSUME K # {} PROVE m \in 1..Len(text) /\ \A i \in K : i <= f[m]
  <2>1. IsFiniteSet(K) /\ m \in Nat /\ m <= Len(text) /\ m # 0
    BY <1>1, <1>4, Positions, FS_EmptySet
  <2>2. m \in 1..Len(text) /\ m \in 1..m
    BY <1>1, <2>1
  <2>3. Cardinality(Upto(K, f[m])) = m
    BY <1>3, <2>2
  <2>4. Upto(K, f[m]) \in SUBSET K
    BY DEF Upto
  <2>5. Upto(K, f[m]) = K
    BY <2>1, <2>3, <2>4, FS_Subset
  <2> QED BY <2>2, <2>5 DEF Upto
<1> QED BY <1>3, <1>4 DEF K, f

\* The ends kept are at most as many as rows are allowed, fewer when a byte follows.
LEMMA KeptEndsFit ==
    ASSUME NEW text \in Seq(Symbols), NEW max \in Nat \ {0}
    PROVE  /\ Cardinality(KeptEnds(text, max)) \in Nat
           /\ Cardinality(KeptEnds(text, max)) <= max
           /\ Cardinality(KeptEnds(text, max)) <= LinesOf(text)
           /\ \A i \in KeptOf(text, max) :
                 text[i] = "byte" /\ (\A j \in KeptEnds(text, max) : j <= i) =>
                    /\ Cardinality(KeptEnds(text, max)) < max
                    /\ Cardinality(KeptEnds(text, max)) < LinesOf(text)
<1> DEFINE K == KeptOf(text, max)
           C == KeptEnds(text, max)
           E == EndsOf(text)
           N == Newlines(text)
<1>1. /\ K \in SUBSET (1..Len(text)) /\ C \in SUBSET E /\ C \in SUBSET N /\ C \in SUBSET K
      /\ C \in SUBSET (1..Len(text)) /\ E \in SUBSET (1..Len(text)) /\ Len(text) \in Nat
  BY KeptIs
<1>2. \A i \in K : Cardinality(Below(E, i)) < max
  BY DEF KeptOf
<1>3. \A i \in N : text[i] = "newline"
  BY DEF Newlines
<1>4. /\ IsFiniteSet(N) /\ Cardinality(N) \in Nat
      /\ LinesOf(text) = Cardinality(N) + (IF text # <<>> /\ text[Len(text)] = "byte" THEN 1 ELSE 0)
  BY NewlinesAre DEF LinesOf
<1>5. Len(text) > 0 /\ text[Len(text)] # "byte" => Len(text) \in N
  BY DEF Newlines, Symbols
<1>6. Len(text) > 0 => text # <<>>
  OBVIOUS
<1> HIDE DEF K, C, E, N
<1>7. IsFiniteSet(C) /\ Cardinality(C) \in Nat /\ Cardinality(C) <= Cardinality(N)
  BY <1>1, <1>4, Positions, FS_Subset
<1>8. Cardinality(C) <= max
  <2>1. CASE C = {}
    BY <2>1, FS_EmptySet
  <2>2. CASE C # {}
    <3>1. PICK e \in C : \A j \in C : j <= e
      BY <1>1, <2>2, LastOf
    <3>2. C \in SUBSET Upto(E, e) /\ Upto(E, e) \in SUBSET (1..Len(text)) /\ e \in E /\ e \in K
      BY <1>1, <3>1 DEF Upto
    <3>3. Cardinality(C) <= Cardinality(Upto(E, e))
      BY <1>1, <3>2, Positions, FS_Subset
    <3>4. /\ Cardinality(Upto(E, e)) = Cardinality(Below(E, e)) + 1
          /\ Cardinality(Below(E, e)) \in Nat
      BY <1>1, <3>2, UptoIsBelow
    <3>5. Cardinality(Below(E, e)) < max
      BY <1>2, <3>2
    <3> QED BY <1>7, <3>3, <3>4, <3>5
  <2> QED BY <2>1, <2>2
<1>9. ASSUME NEW i \in K, text[i] = "byte", \A j \in C : j <= i
      PROVE  Cardinality(C) < max /\ Cardinality(C) < LinesOf(text)
  <2>1. i \in 1..Len(text) /\ i \in Nat /\ Len(text) > 0
    BY <1>1
  <2>2. i \notin C
    BY <1>1, <1>3, <1>9
  <2>3. C \in SUBSET Below(E, i) /\ Below(E, i) \in SUBSET (1..Len(text))
    <3>1. ASSUME NEW j \in C PROVE j < i
      <4>1. j \in Nat /\ j # i /\ j <= i
        BY <1>1, <1>9, <2>2
      <4> QED BY <2>1, <4>1
    <3> QED BY <1>1, <3>1 DEF Below
  <2>4. Cardinality(C) <= Cardinality(Below(E, i)) /\ Cardinality(Below(E, i)) \in Nat
    BY <1>1, <2>3, Positions, FS_Subset
  <2>5. Cardinality(C) < max
    BY <1>2, <1>7, <2>4
  <2>6. Cardinality(C) < LinesOf(text)
    <3>1. CASE text[Len(text)] = "byte"
      BY <1>4, <1>6, <1>7, <2>1, <3>1
    <3>2. CASE text[Len(text)] # "byte"
      <4>1. Len(text) \in N
        BY <1>5, <2>1, <3>2
      <4>2. Len(text) \notin C
        <5>1. Len(text) # i
          BY <1>9, <3>2
        <5> QED BY <1>1, <1>9, <2>1, <5>1
      <4>3. C \in SUBSET (N \ {Len(text)})
        BY <1>1, <4>2
      <4>4. /\ IsFiniteSet(N \ {Len(text)})
            /\ Cardinality(N \ {Len(text)}) = Cardinality(N) - 1
        BY <1>4, <4>1, FS_RemoveElement
      <4>5. Cardinality(C) <= Cardinality(N) - 1
        BY <4>3, <4>4, FS_Subset
      <4> QED BY <1>4, <1>7, <3>2, <4>5
    <3> QED BY <3>1, <3>2
  <2> QED BY <2>5, <2>6
<1>10. Cardinality(C) <= LinesOf(text)
  BY <1>4, <1>7
<1> QED BY <1>7, <1>8, <1>9, <1>10 DEF K, C

\* The rows are a text, and its newlines are no more than the ends kept.
LEMMA RowsAre ==
    ASSUME NEW text \in Seq(Symbols), NEW max \in Nat \ {0}, BytesOf(text) # {}
    PROVE  LET rows == RowsOf(text, max)
               m == Cardinality(KeptOf(text, max))
           IN  /\ rows \in Seq(Symbols) /\ Len(rows) = m /\ m \in 1..Len(text)
               /\ Cardinality(Newlines(rows)) <= Cardinality(KeptEnds(text, max))
               /\ rows[m] = "byte" =>
                     /\ Cardinality(KeptEnds(text, max)) < max
                     /\ Cardinality(KeptEnds(text, max)) < LinesOf(text)
<1> DEFINE rows == RowsOf(text, max)
           K == KeptOf(text, max)
           m == Cardinality(K)
           f == FromOf(text, max)
           C == KeptEnds(text, max)
<1>1. /\ K \in SUBSET (1..Len(text)) /\ C \in SUBSET K /\ C \in SUBSET (1..Len(text))
      /\ Len(text) \in Nat
  BY KeptIs
<1>2. /\ \A k \in 1..m : f[k] \in K /\ Cardinality(Upto(K, f[k])) = k
      /\ m \in 1..Len(text) /\ \A i \in K : i <= f[m]
  BY FromIs, SomeKept
<1>3. rows = [k \in 1..m |-> text[f[k]]]
  BY DEF RowsOf
<1>4. \A i \in K : text[i] \in Symbols /\ (text[i] = "newline" => i \in C)
  BY <1>1 DEF KeptEnds, Newlines
<1>5. \A i \in K : text[i] = "byte" /\ (\A j \in C : j <= i) =>
         Cardinality(C) < max /\ Cardinality(C) < LinesOf(text)
  BY KeptEndsFit
<1> HIDE DEF rows, K, f, C
<1>6. rows \in Seq(Symbols) /\ Len(rows) = m /\ DOMAIN rows = 1..m
  <2>1. m \in Nat
    BY <1>1, <1>2
  <2>2. ASSUME NEW k \in 1..m PROVE text[f[k]] \in Symbols
    BY <1>2, <1>4
  <2> HIDE DEF m
  <2> QED BY <1>3, <2>1, <2>2
<1>7. Cardinality(Newlines(rows)) <= Cardinality(C)
  <2> DEFINE g == [k \in Newlines(rows) |-> f[k]]
  <2>1. ASSUME NEW k \in Newlines(rows) PROVE k \in 1..m /\ f[k] \in C
    BY <1>2, <1>3, <1>4, <1>6, <2>1 DEF Newlines
  <2>2. \A j, k \in Newlines(rows) : f[j] = f[k] => j = k
    BY <1>2, <2>1
  <2>3. g \in Injection(Newlines(rows), C)
    BY <2>1, <2>2 DEF Injection, IsInjective
  <2>4. IsFiniteSet(C)
    BY <1>1, Positions
  <2> QED BY <2>3, <2>4, FS_Injection
<1>8. ASSUME rows[m] = "byte"
      PROVE  Cardinality(C) < max /\ Cardinality(C) < LinesOf(text)
  <2>1. f[m] \in K /\ text[f[m]] = "byte"
    BY <1>2, <1>3, <1>8
  <2>2. \A j \in C : j <= f[m]
    BY <1>1, <1>2
  <2> QED BY <1>5, <2>1, <2>2
<1> QED BY <1>2, <1>6, <1>7, <1>8 DEF rows, K, C

\* The row limit is kept, no line is added, and at most one symbol.
LEMMA LimitLinesFit ==
    ASSUME NEW text \in Seq(Symbols), NEW max \in Nat
    PROVE  LET out == limitLines(text, max)
           IN  /\ out \in Seq(Symbols)
               /\ LinesOf(out) <= LinesOf(text)
               /\ Len(out) <= Len(text) + (IF max > 0 THEN 1 ELSE 0)
               /\ max > 0 /\ Newlines(out) # DOMAIN out => LinesOf(out) <= max
<1> DEFINE out == limitLines(text, max)
<1>1. LinesOf(text) \in Nat /\ Len(text) \in Nat
  BY NewlinesAre
<1>2. CASE max = 0
  BY <1>1, <1>2, LimitLinesIs
<1>3. CASE BytesOf(text) = {}
  <2>1. out = text
    BY <1>3, LimitLinesIs
  <2>2. Newlines(text) = DOMAIN text
    BY <1>3 DEF BytesOf, Newlines
  <2> QED BY <1>1, <2>1, <2>2
<1>4. CASE max # 0 /\ BytesOf(text) # {}
  <2> DEFINE rows == RowsOf(text, max)
             m == Cardinality(KeptOf(text, max))
             c == Cardinality(KeptEnds(text, max))
  <2>1. /\ rows \in Seq(Symbols) /\ Len(rows) = m /\ m \in 1..Len(text)
        /\ Cardinality(Newlines(rows)) <= c
        /\ rows[m] = "byte" => c < max /\ c < LinesOf(text)
    BY <1>4, RowsAre
  <2>2. c \in Nat /\ c <= max /\ c <= LinesOf(text)
    BY <1>4, KeptEndsFit
  <2>3. out = IF rows[m] = "newline" THEN rows ELSE Append(rows, "newline")
    BY <1>4, <2>1, LimitLinesIs
  <2> HIDE DEF rows, m, c, out
  <2>4. IsFiniteSet(Newlines(rows)) /\ Cardinality(Newlines(rows)) \in Nat
    BY <2>1, NewlinesAre
  <2>5. CASE rows[m] = "newline"
    <3>1. out = rows /\ LinesOf(rows) = Cardinality(Newlines(rows))
      BY <2>1, <2>3, <2>4, <2>5 DEF LinesOf
    <3>2. LinesOf(out) <= LinesOf(text) /\ LinesOf(out) <= max
      BY <1>1, <2>1, <2>2, <2>4, <3>1
    <3>3. Len(out) <= Len(text) + 1
      BY <1>1, <2>1, <3>1
    <3> QED BY <1>4, <2>1, <3>1, <3>2, <3>3 DEF out
  <2>6. CASE rows[m] # "newline"
    <3>1. rows[m] = "byte" /\ m \in Nat
      BY <1>1, <2>1, <2>6 DEF Symbols
    <3>2. /\ out = Append(rows, "newline") /\ out \in Seq(Symbols) /\ Len(out) = m + 1
          /\ DOMAIN out = 1..(m + 1) /\ out[m + 1] = "newline"
          /\ \A i \in 1..m : out[i] = rows[i]
      BY <2>1, <2>3, <2>6, <3>1 DEF Symbols
    <3>3. Newlines(out) = Newlines(rows) \cup {m + 1} /\ m + 1 \notin Newlines(rows)
      <4>1. DOMAIN rows = 1..m /\ 1..(m + 1) = (1..m) \cup {m + 1} /\ m + 1 \notin 1..m
        BY <2>1, <3>1
      <4> QED BY <3>2, <4>1 DEF Newlines
    <3>4. Cardinality(Newlines(out)) = Cardinality(Newlines(rows)) + 1
      BY <2>4, <3>3, FS_AddElement
    <3>5. LinesOf(out) = Cardinality(Newlines(rows)) + 1
      BY <2>4, <3>2, <3>4 DEF LinesOf
    <3>6. LinesOf(out) <= LinesOf(text) /\ LinesOf(out) <= max
      BY <1>1, <2>1, <2>2, <2>4, <3>1, <3>5
    <3>7. Len(out) <= Len(text) + 1
      BY <1>1, <2>1, <3>2
    <3> QED BY <1>4, <3>2, <3>6, <3>7 DEF out
  <2> QED BY <2>1, <2>5, <2>6
<1> QED BY <1>2, <1>3, <1>4

(***************************************************************************)
(* The inductive invariant.                                                *)
(***************************************************************************)

\* Nobody runs before the start or after the return of a call.
ProcessInv ==
    /\ pc \in {"start", "wait", "done"}
    /\ holders \in Nat
    /\ written \in [Streams -> Seq(Symbols)]
    /\ pc = "start" => process = "none" /\ holders = 0 /\ ~interrupted /\ ~reaped
    /\ reaped => process # "running"
    /\ pc = "done" => ~SomebodyRuns
    /\ pc # "done" => result.event = "none"

\* Only find and grep have a row limit.
LimitInv == limit > 0 => tool \in {"find", "grep"}

\* What is said about the course of a call.
CourseInv == ProcessInv /\ NothingHidden /\ TimeoutIsNoSuccess

IInv == TypeOK /\ LimitInv /\ CourseInv /\ OutputBounded

\* What OutputBounded says of a result.
Fits(r) ==
    \A s \in Streams :
        /\ LinesOf(r.text[s]) <= MaxLines
        /\ Len(r.text[s]) <= MaxBytes + (IF limit > 0 THEN 1 ELSE 0)
        /\ limit > 0 /\ r.event = "completed" /\ s = "stdout"
           /\ Newlines(r.text[s]) # DOMAIN r.text[s]
              => LinesOf(r.text[s]) <= limit

\* The result of a call.
ResultType == [event : {"none", "completed", "failed"}, class : ErrorClasses \cup {"none"},
               text : [Streams -> Seq(Symbols)],
               truncatedLines : BOOLEAN, truncatedBytes : BOOLEAN]

\* Without a flag nothing has been cut off.
LEMMA UnflaggedIsWhole ==
    ASSUME NEW text, NEW n, NEW m,
           ~ApplyOutputLimits(text, n, m).truncatedLines,
           ~ApplyOutputLimits(text, n, m).truncatedBytes
    PROVE  ApplyOutputLimits(text, n, m).out = text
  BY DEF ApplyOutputLimits

\* The text of an unflagged outcome is what was written.
LEMMA OutcomeIsWhole ==
    ASSUME ProcessInv, Outcome.event = "completed", limit = 0,
           ~Outcome.truncatedLines, ~Outcome.truncatedBytes
    PROVE  Outcome.text = written
<1> DEFINE limited == [s \in Streams |-> ApplyOutputLimits(written[s], MaxLines, MaxBytes)]
           text == [s \in Streams |-> IF s = "stdout" THEN Rows(limited[s].out)
                                      ELSE limited[s].out]
<1>1. RunError = "none"
  <2> SUFFICES ASSUME RunError # "none" PROVE FALSE
    OBVIOUS
  <2>1. PICK c : Outcome = Failed(c, text)
    BY DEF Outcome
  <2> QED BY <2>1 DEF Failed, NoResult
<1>2. Outcome = [event |-> "completed", class |-> "none", text |-> text,
                 truncatedLines |-> \E s \in Streams : limited[s].truncatedLines,
                 truncatedBytes |-> \E s \in Streams : limited[s].truncatedBytes]
  BY <1>1, Zenon DEF Outcome
<1>3. /\ Outcome.text = text
      /\ Outcome.truncatedLines = (\E s \in Streams : limited[s].truncatedLines)
      /\ Outcome.truncatedBytes = (\E s \in Streams : limited[s].truncatedBytes)
  BY <1>2
<1>4. ASSUME NEW s \in Streams PROVE text[s] = written[s]
  <2>1. ~limited[s].truncatedLines /\ ~limited[s].truncatedBytes
    BY <1>3
  <2>2. limited[s].out = written[s]
    BY <2>1, UnflaggedIsWhole
  <2>3. Rows(written[s]) = written[s]
    BY DEF Rows, limitLines
  <2> QED BY <2>2, <2>3
<1>5. written = [s \in Streams |-> written[s]]
  BY DEF ProcessInv
<1> QED BY <1>3, <1>4, <1>5, Zenon

\* A failed call is no completed one.
LEMMA FailedEvent == ASSUME NEW c, NEW t PROVE Failed(c, t).event = "failed"
  BY DEF Failed, NoResult

\* It keeps its class and its text.
LEMMA FailedIs ==
    ASSUME NEW c \in ErrorClasses, NEW t \in [Streams -> Seq(Symbols)]
    PROVE  Failed(c, t) \in ResultType /\ Failed(c, t).text = t
  BY DEF Failed, NoResult, ResultType

\* No text is a text within the limits.
LEMMA NoTextFits ==
    /\ NoText \in [Streams -> Seq(Symbols)]
    /\ \A s \in Streams : NoText[s] = <<>>
    /\ LinesOf(<<>>) = 0
<1>1. NoText \in [Streams -> Seq(Symbols)] /\ \A s \in Streams : NoText[s] = <<>>
  BY DEF NoText
<1>2. Newlines(<<>>) = {}
  BY DEF Newlines
<1> QED BY <1>1, <1>2, FS_EmptySet DEF LinesOf

\* A stream of a returned call is a text within the limits.
LEMMA StreamFits ==
    ASSUME TypeOK, LimitInv, NEW s \in Streams
    PROVE  LET cut == ApplyOutputLimits(written[s], MaxLines, MaxBytes).out
               text == IF s = "stdout" THEN Rows(cut) ELSE cut
           IN  /\ text \in Seq(Symbols)
               /\ LinesOf(text) <= MaxLines
               /\ Len(text) <= MaxBytes + (IF limit > 0 THEN 1 ELSE 0)
               /\ limit > 0 /\ RunError = "none" /\ s = "stdout" /\ Newlines(text) # DOMAIN text
                     => LinesOf(text) <= limit
<1> DEFINE cut == ApplyOutputLimits(written[s], MaxLines, MaxBytes).out
<1>1. MaxLines \in Nat \ {0} /\ MaxBytes \in Nat /\ limit \in Nat
  BY ToolAssumption DEF TypeOK
<1>2. written[s] \in Seq(Symbols)
  BY DEF TypeOK
<1>3. cut = FirstBytes(FirstLines(written[s], MaxLines), MaxBytes)
  BY DEF ApplyOutputLimits
<1>4. FirstLines(written[s], MaxLines) \in Seq(Symbols)
      /\ LinesOf(FirstLines(written[s], MaxLines)) <= MaxLines
      /\ LinesOf(FirstLines(written[s], MaxLines)) \in Nat
  BY <1>1, <1>2, FirstLinesFit, NewlinesAre
<1> HIDE DEF cut
<1>5. /\ cut \in Seq(Symbols) /\ Len(cut) <= MaxBytes /\ Len(cut) \in Nat
      /\ LinesOf(cut) <= LinesOf(FirstLines(written[s], MaxLines)) /\ LinesOf(cut) \in Nat
  BY <1>1, <1>3, <1>4, FirstBytesFit, NewlinesAre
<1>6. LinesOf(cut) <= MaxLines
  BY <1>1, <1>4, <1>5
<1>7. CASE s = "stdout" /\ Rows(cut) = limitLines(cut, limit)
  <2> DEFINE out == limitLines(cut, limit)
  <2>1. /\ out \in Seq(Symbols) /\ LinesOf(out) <= LinesOf(cut)
        /\ Len(out) <= Len(cut) + (IF limit > 0 THEN 1 ELSE 0)
        /\ limit > 0 /\ Newlines(out) # DOMAIN out => LinesOf(out) <= limit
    BY <1>1, <1>5, LimitLinesFit
  <2> HIDE DEF out
  <2>2. LinesOf(out) \in Nat /\ Len(out) \in Nat
    BY <2>1, NewlinesAre
  <2>3. LinesOf(out) <= MaxLines /\ Len(out) <= MaxBytes + (IF limit > 0 THEN 1 ELSE 0)
    BY <1>1, <1>5, <1>6, <2>1, <2>2
  <2> QED BY <1>7, <2>1, <2>3 DEF cut, out
<1>8. CASE ~(s = "stdout" /\ Rows(cut) = limitLines(cut, limit))
  <2>1. s = "stdout" => Rows(cut) = cut /\ ~(limit > 0 /\ RunError = "none")
    BY <1>8 DEF Rows, LimitInv
  <2>2. Len(cut) <= MaxBytes + (IF limit > 0 THEN 1 ELSE 0)
    BY <1>1, <1>5
  <2> QED BY <1>5, <1>6, <2>1, <2>2 DEF cut
<1> QED BY <1>7, <1>8

\* So is the whole outcome.
LEMMA OutcomeFits ==
    ASSUME TypeOK, LimitInv
    PROVE  Outcome \in ResultType /\ Fits(Outcome)
<1> DEFINE limited == [s \in Streams |-> ApplyOutputLimits(written[s], MaxLines, MaxBytes)]
           text == [s \in Streams |-> IF s = "stdout" THEN Rows(limited[s].out)
                                      ELSE limited[s].out]
<1>1. ASSUME NEW s \in Streams
      PROVE  /\ text[s] \in Seq(Symbols)
             /\ LinesOf(text[s]) <= MaxLines
             /\ Len(text[s]) <= MaxBytes + (IF limit > 0 THEN 1 ELSE 0)
             /\ limit > 0 /\ RunError = "none" /\ s = "stdout"
                /\ Newlines(text[s]) # DOMAIN text[s] => LinesOf(text[s]) <= limit
  BY StreamFits
<1>2. text \in [Streams -> Seq(Symbols)]
  BY <1>1
<1>3. ASSUME RunError # "none" PROVE Outcome \in ResultType /\ Fits(Outcome)
  <2>1. PICK c \in ErrorClasses : Outcome = Failed(c, text)
    BY <1>3, Zenon DEF Outcome, ErrorClasses
  <2> HIDE DEF text
  <2>2. Outcome \in ResultType /\ Outcome.text = text /\ Outcome.event = "failed"
    BY <1>2, <2>1, FailedIs, FailedEvent
  <2> QED BY <1>1, <2>2 DEF Fits
<1>4. ASSUME RunError = "none" PROVE Outcome \in ResultType /\ Fits(Outcome)
  <2>1. Outcome = [event |-> "completed", class |-> "none", text |-> text,
                   truncatedLines |-> \E s \in Streams : limited[s].truncatedLines,
                   truncatedBytes |-> \E s \in Streams : limited[s].truncatedBytes]
    BY <1>4, Zenon DEF Outcome
  <2> HIDE DEF text, limited
  <2>2. Outcome \in ResultType /\ Outcome.text = text
    BY <1>2, <2>1 DEF ResultType
  <2> QED BY <1>1, <1>4, <2>2 DEF Fits
<1> QED BY <1>3, <1>4

\* A call begins with nothing written and no event.
LEMMA InitCourse == Init => CourseInv
<1> SUFFICES ASSUME Init PROVE CourseInv
  OBVIOUS
<1>1. NoText \in [Streams -> Seq(Symbols)]
  BY DEF NoText
<1> QED BY <1>1 DEF Init, CourseInv, ProcessInv, SomebodyRuns, NoResult, NothingHidden,
                    TimeoutIsNoSuccess

\* No step of the worker, the timer or a process makes a completed call lie.
LEMMA NextCourse == CourseInv /\ [Next]_vars => CourseInv'
<1> SUFFICES ASSUME CourseInv, [Next]_vars PROVE CourseInv'
  OBVIOUS
<1> USE DEF CourseInv, ProcessInv, SomebodyRuns
<1>1. CASE Refuse
  <2>1. result'.event = "failed"
    BY <1>1, FailedEvent DEF Refuse
  <2> QED BY <1>1, <2>1 DEF Refuse, NothingHidden, TimeoutIsNoSuccess
<1>2. CASE StartFails
  <2>1. result'.event = "failed"
    BY <1>2, FailedEvent DEF StartFails
  <2> QED BY <1>2, <2>1 DEF StartFails, NothingHidden, TimeoutIsNoSuccess
<1>3. CASE Start
  BY <1>3 DEF Start, NothingHidden, TimeoutIsNoSuccess
<1>4. CASE Reap
  BY <1>4 DEF Reap, NothingHidden, TimeoutIsNoSuccess
<1>5. CASE Return
  <2>1. ProcessInv'
    BY <1>5 DEF Return
  <2>2. NothingHidden'
    <3> SUFFICES ASSUME Outcome.event = "completed", limit = 0,
                        ~Outcome.truncatedLines, ~Outcome.truncatedBytes
                 PROVE  Outcome.text = written
      BY <1>5 DEF Return, NothingHidden, call
    <3> QED BY OutcomeIsWhole
  <2>3. TimeoutIsNoSuccess'
    <3> SUFFICES ASSUME interrupted PROVE Outcome.event # "completed"
      BY <1>5 DEF Return, TimeoutIsNoSuccess
    <3>1. RunError # "none"
      BY DEF RunError
    <3>2. PICK c, t : Outcome = Failed(c, t)
      BY <3>1 DEF Outcome
    <3> QED BY <3>2, FailedEvent
  <2> QED BY <2>1, <2>2, <2>3
<1>6. CASE TimerFires
  BY <1>6 DEF TimerFires, NothingHidden, TimeoutIsNoSuccess
<1>7. CASE ProcessNext
  <2>1. ASSUME NEW s \in Streams, NEW c \in Symbols, Writes(s, c) PROVE CourseInv'
    BY <2>1 DEF Writes, NothingHidden, TimeoutIsNoSuccess
  <2>2. CASE LeavesChild
    BY <2>2 DEF LeavesChild, NothingHidden, TimeoutIsNoSuccess
  <2>3. CASE ChildLetsGo
    BY <2>3 DEF ChildLetsGo, NothingHidden, TimeoutIsNoSuccess
  <2>4. CASE ProcessEnds
    BY <2>4 DEF ProcessEnds, NothingHidden, TimeoutIsNoSuccess
  <2> QED BY <1>7, <2>1, <2>2, <2>3, <2>4 DEF ProcessNext
<1>8. CASE UNCHANGED vars
  BY <1>8 DEF vars, NothingHidden, TimeoutIsNoSuccess
<1> QED BY <1>1, <1>2, <1>3, <1>4, <1>5, <1>6, <1>7, <1>8 DEF Next, WorkerNext

\* It has its types, and no text.
LEMMA InitInv == Init => IInv
<1> SUFFICES ASSUME Init PROVE IInv
  OBVIOUS
<1> USE DEF Init
<1>1. limit \in RowLimits /\ LimitInv
  BY ToolAssumption DEF LimitInv
<1>2. NoResult \in ResultType
  BY NoTextFits DEF NoResult, ResultType
<1>3. holders \in 0..MaxChildren
  BY ToolAssumption
<1>4. TypeOK
  BY <1>1, <1>2, <1>3, NoTextFits DEF TypeOK, ResultType
<1>5. Fits(result)
  <2>1. \A s \in Streams : result.text[s] = <<>> /\ result.event # "completed"
    BY NoTextFits DEF NoResult
  <2>2. MaxLines \in Nat /\ MaxBytes \in Nat
    BY ToolAssumption
  <2> QED BY <2>1, <2>2, NoTextFits DEF Fits
<1>6. OutputBounded
  BY <1>5 DEF OutputBounded, Fits
<1> QED BY <1>1, <1>4, <1>6, InitCourse DEF IInv

\* A result without text is within the limits.
LEMMA FailedFits ==
    ASSUME NEW c \in ErrorClasses
    PROVE  Failed(c, NoText) \in ResultType /\ Fits(Failed(c, NoText))
<1>1. Failed(c, NoText) \in ResultType /\ Failed(c, NoText).text = NoText
      /\ Failed(c, NoText).event = "failed"
  BY NoTextFits, FailedIs, FailedEvent
<1>2. MaxLines \in Nat /\ MaxBytes \in Nat
  BY ToolAssumption
<1> HIDE DEF Fits
<1>3. \A s \in Streams : /\ LinesOf(NoText[s]) <= MaxLines
                         /\ Len(NoText[s]) <= MaxBytes + (IF limit > 0 THEN 1 ELSE 0)
  BY <1>2, NoTextFits
<1> QED BY <1>1, <1>3 DEF Fits

\* A step changes the result at most once, to one of its type and within the limits.
LEMMA ResultStep ==
    ASSUME IInv, Next
    PROVE  \/ UNCHANGED result
           \/ result' \in ResultType /\ Fits(result')
<1>1. CASE Refuse
  <2>1. PICK why \in {"validation", "policy"}, quotes \in BOOLEAN :
           \E c \in ClassesOf(why, quotes) : result' = Failed(c, NoText)
    BY <1>1 DEF Refuse
  <2>2. ClassesOf(why, quotes) \in SUBSET ErrorClasses
    BY DEF ClassesOf, ErrorClasses
  <2> QED BY <2>1, <2>2, FailedFits
<1>2. CASE StartFails
  BY <1>2, FailedFits DEF StartFails
<1>3. CASE Return
  BY <1>3, OutcomeFits DEF Return, IInv
<1>4. CASE ~Refuse /\ ~StartFails /\ ~Return
  BY <1>4 DEF Next, WorkerNext, Start, Reap, TimerFires, ProcessNext, Writes, LeavesChild,
              ChildLetsGo, ProcessEnds
<1> QED BY <1>1, <1>2, <1>3, <1>4

\* The variables keep their types.
LEMMA TypeStep == IInv /\ Next => TypeOK'
<1> SUFFICES ASSUME IInv, Next PROVE TypeOK'
  OBVIOUS
<1>1. UNCHANGED call
  BY DEF Next, WorkerNext, Refuse, StartFails, Start, Reap, Return, TimerFires, ProcessNext,
         Writes, LeavesChild, ChildLetsGo, ProcessEnds
<1>2. result' \in ResultType
  BY ResultStep DEF IInv, TypeOK, ResultType
<1>3. holders' \in 0..MaxChildren
  <2>1. CASE UNCHANGED holders
    BY <2>1 DEF IInv, TypeOK
  <2>2. CASE LeavesChild \/ ChildLetsGo
    BY <2>2, ToolAssumption DEF LeavesChild, ChildLetsGo, IInv, TypeOK
  <2> QED BY <2>1, <2>2 DEF Next, WorkerNext, Refuse, StartFails, Start, Reap, Return,
                TimerFires, ProcessNext, Writes, ProcessEnds
<1>4. /\ pc' \in {"start", "wait", "done"}
      /\ process' \in {"none", "running", "succeeded", "failed", "killed"}
      /\ reaped' \in BOOLEAN /\ interrupted' \in BOOLEAN
  BY Zenon DEF Next, WorkerNext, Refuse, StartFails, Start, Reap, Return, TimerFires,
         ProcessNext, Writes, LeavesChild, ChildLetsGo, ProcessEnds, IInv, TypeOK
<1>5. written' \in [Streams -> Seq(Symbols)]
  <2>1. ASSUME NEW s \in Streams, NEW c \in Symbols, Writes(s, c)
        PROVE  written' \in [Streams -> Seq(Symbols)]
    BY <2>1 DEF Writes, IInv, TypeOK
  <2>2. UNCHANGED written \/ \E s \in Streams, c \in Symbols : Writes(s, c)
    BY DEF Next, WorkerNext, Refuse, StartFails, Start, Reap, Return, TimerFires, ProcessNext,
           LeavesChild, ChildLetsGo, ProcessEnds
  <2> QED BY <2>1, <2>2 DEF IInv, TypeOK
<1> QED BY <1>1, <1>2, <1>3, <1>4, <1>5 DEF IInv, TypeOK, ResultType, call

\* No step breaks the invariant.
LEMMA NextInv == IInv /\ [Next]_vars => IInv'
<1> SUFFICES ASSUME IInv, [Next]_vars PROVE IInv'
  OBVIOUS
<1>1. CourseInv'
  BY NextCourse DEF IInv
<1>2. CASE Next
  <2>1. UNCHANGED call
    BY <1>2 DEF Next, WorkerNext, Refuse, StartFails, Start, Reap, Return, TimerFires,
           ProcessNext, Writes, LeavesChild, ChildLetsGo, ProcessEnds
  <2>2. LimitInv'
    BY <2>1 DEF call, LimitInv, IInv
  <2>3. OutputBounded'
    <3>1. CASE UNCHANGED result
      BY <2>1, <3>1 DEF call, OutputBounded, IInv
    <3>2. CASE Fits(result')
      BY <2>1, <3>2 DEF call, OutputBounded, Fits
    <3> QED BY <1>2, <3>1, <3>2, ResultStep
  <2> QED BY <1>1, <1>2, <2>2, <2>3, TypeStep DEF IInv
<1>3. CASE UNCHANGED vars
  BY <1>1, <1>3 DEF vars, IInv, TypeOK, LimitInv, OutputBounded
<1> QED BY <1>2, <1>3

\* The variables of a call keep their types, its texts stay texts.
THEOREM TypeCorrect == Spec => []TypeOK
<1>1. IInv => TypeOK
  BY DEF IInv
<1> QED BY <1>1, InitInv, NextInv, PTL DEF Spec

\* Whatever a tool writes, for any limits the model sees at most as many lines and bytes.
THEOREM LimitsKept == Spec => []OutputBounded
<1>1. IInv => OutputBounded
  BY DEF IInv
<1> QED BY <1>1, InitInv, NextInv, PTL DEF Spec

\* The model sees all that was written, or a flag says that it does not.
THEOREM WholeOutput == Spec => []NothingHidden
<1>1. IInv => NothingHidden
  BY DEF IInv, CourseInv
<1> QED BY <1>1, InitInv, NextInv, PTL DEF Spec

\* No call that ran into its time-out is reported as completed.
THEOREM TimeoutReported == Spec => []TimeoutIsNoSuccess
<1>1. IInv => TimeoutIsNoSuccess
  BY DEF IInv, CourseInv
<1> QED BY <1>1, InitInv, NextInv, PTL DEF Spec

==============================================================================
