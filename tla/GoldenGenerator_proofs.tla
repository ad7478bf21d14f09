------------------------ MODULE GoldenGenerator_proofs ------------------------
(***************************************************************************)
(* Lemmas about the golden generator, for all vector files and faults:     *)
(* that replacing CR LF by LF changes no meaning, and the invariant behind *)
(* what a run leaves.                                                      *)
(***************************************************************************)
EXTENDS GoldenGenerator, BelowCode_proofs

-----------------------------------------------------------------------------
(* The line ends of a text and of what CrLfToLf makes of it.               *)

Kept(t) == { k \in DOMAIN t : ~ (t[k] = CR /\ k < Len(t) /\ t[k + 1] = LF) }

\* Where the character of CrLfToLf(t) at e, or the end after the last one, was
\* in t.
Origin(t, e) == IF e = Cardinality(Kept(t)) + 1 THEN Len(t) + 1 ELSE Nth(Kept(t), e)

\* A text with fewer carriage returns: what Origin does.
LEMMA OriginIs ==
    ASSUME NEW V, NEW t \in Seq(V)
    PROVE  LET u == CrLfToLf(t)
               c == Cardinality(Kept(t))
           IN  /\ c \in Nat /\ u \in Seq(V) /\ Len(u) = c
               /\ \A e \in 1..(c + 1) : Origin(t, e) \in 1..(Len(t) + 1)
               /\ \A e \in 1..c : Origin(t, e) \in 1..Len(t) /\ u[e] = t[Origin(t, e)]
               /\ \A d, e \in 1..(c + 1) : Origin(t, d) < Origin(t, e) <=> d < e
               /\ \A k \in 1..Len(t) : t[k] # CR => \E e \in 1..c : Origin(t, e) = k
<1> DEFINE K == Kept(t)
           u == CrLfToLf(t)
           c == Cardinality(K)
<1>1. K \subseteq 1..Len(t) /\ K \in SUBSET Nat /\ IsFiniteSet(K) /\ Len(t) \in Nat
  <2>1. K \subseteq 1..Len(t) /\ Len(t) \in Nat
    BY DEF Kept
  <2>2. IsFiniteSet(1..Len(t))
    BY FS_Interval
  <2> QED BY <2>1, <2>2, FS_Subset
<1>2. c \in Nat
  BY <1>1, FS_CardinalityType
<1>3. u = [m \in 1..c |-> t[Nth(K, m)]]
  BY DEF CrLfToLf, Kept
<1> HIDE DEF K, u
<1>4. \A e \in 1..c : Nth(K, e) \in 1..Len(t)
  BY <1>1, NthIs
<1>5. u \in Seq(V) /\ Len(u) = c /\ \A e \in 1..c : u[e] = t[Nth(K, e)]
  BY <1>2, <1>3, <1>4
<1>6. \A e \in 1..(c + 1) : Origin(t, e) = IF e = c + 1 THEN Len(t) + 1 ELSE Nth(K, e)
  BY DEF Origin, K
<1>7. \A e \in 1..c : e # c + 1 /\ e \in 1..(c + 1)
  BY <1>2
<1>8. \A e \in 1..(c + 1) : e \in 1..c \/ e = c + 1
  BY <1>2
<1>9. ASSUME NEW d \in 1..(c + 1), NEW e \in 1..(c + 1)
      PROVE  Origin(t, d) < Origin(t, e) <=> d < e
  <2>1. CASE d \in 1..c /\ e \in 1..c
    <3>1. Nth(K, d) < Nth(K, e) <=> d < e
      BY <1>1, <2>1, NthMono
    <3> QED BY <1>6, <1>7, <2>1, <3>1
  <2>2. CASE d = c + 1
    <3>1. Origin(t, d) = Len(t) + 1 /\ Origin(t, e) \in 1..(Len(t) + 1)
      BY <1>1, <1>4, <1>6, <1>8, <2>2
    <3> QED BY <1>1, <1>2, <2>2, <3>1
  <2>3. CASE d \in 1..c /\ e = c + 1
    <3>1. Origin(t, e) = Len(t) + 1 /\ Origin(t, d) \in 1..Len(t)
      BY <1>4, <1>6, <1>7, <2>3
    <3> QED BY <1>1, <1>2, <2>3, <3>1
  <2> QED BY <1>8, <2>1, <2>2, <2>3
<1>10. ASSUME NEW k \in 1..Len(t), t[k] # CR PROVE \E e \in 1..c : Origin(t, e) = k
  <2>1. k \in K
    BY <1>10 DEF K, Kept
  <2>2. Rank(K, k) \in 1..c /\ Nth(K, Rank(K, k)) = k
    BY <1>1, <2>1, RankType, NthIs
  <2> QED BY <1>6, <1>7, <2>2
<1>11. \A e \in 1..(c + 1) : Origin(t, e) \in 1..(Len(t) + 1)
  BY <1>1, <1>4, <1>6, <1>8
<1>12. \A e \in 1..c : Origin(t, e) \in 1..Len(t) /\ u[e] = t[Origin(t, e)]
  BY <1>4, <1>5, <1>6, <1>7
<1> QED BY <1>2, <1>5, <1>9, <1>10, <1>11, <1>12 DEF K, u

\* The letters before an end, and so the line that ends there, are the same.
LEMMA SameLettersBefore ==
    ASSUME NEW V, NEW t \in Seq(V), NEW e \in 1..(Cardinality(Kept(t)) + 1)
    PROVE  LET u == CrLfToLf(t)
           IN  /\ \A k \in LettersBefore(u, e) :
                    Origin(t, k) \in LettersBefore(t, Origin(t, e))
                      /\ u[k] = t[Origin(t, k)]
               /\ \A j \in LettersBefore(t, Origin(t, e)) :
                    \E k \in LettersBefore(u, e) : Origin(t, k) = j
<1> DEFINE u == CrLfToLf(t)
           c == Cardinality(Kept(t))
           O(k) == Origin(t, k)
<1>1. /\ c \in Nat /\ Len(t) \in Nat
      /\ \A k \in 1..(c + 1) : O(k) \in 1..(Len(t) + 1)
      /\ \A k \in 1..c : O(k) \in 1..Len(t) /\ u[k] = t[O(k)]
      /\ \A j, k \in 1..(c + 1) : O(j) < O(k) <=> j < k
      /\ \A k \in 1..Len(t) : t[k] # CR => \E j \in 1..c : O(j) = k
  <2>1. Len(t) \in Nat
    OBVIOUS
  <2> QED BY <2>1, OriginIs
<1>2. /\ \A k : k \in LettersBefore(u, e) <=>
             k \in 1..(e - 1) /\ IsLetter(u[k]) /\ \A l \in k..(e - 1) : u[l] # LF
      /\ \A k : k \in LettersBefore(t, O(e)) <=>
             k \in 1..(O(e) - 1) /\ IsLetter(t[k]) /\ \A l \in k..(O(e) - 1) : t[l] # LF
  BY DEF LettersBefore
<1>3. \A x : IsLetter(x) \/ x = LF => x # CR
  <2>1. CR \notin Hangul /\ LF # CR
    BY DEF Hangul, LF, CR
  <2> QED BY <2>1 DEF IsLetter
<1>4. /\ e \in Nat /\ e =< c + 1 /\ e \in 1..(c + 1)
      /\ O(e) \in Nat /\ O(e) =< Len(t) + 1
      /\ \A k \in 1..(e - 1) : k \in 1..c /\ k \in 1..(c + 1)
      /\ \A k \in 1..(O(e) - 1) : k \in 1..Len(t)
  BY <1>1
<1> HIDE DEF u, c, O
<1>5. ASSUME NEW k \in LettersBefore(u, e)
      PROVE  O(k) \in LettersBefore(t, O(e)) /\ u[k] = t[O(k)]
  <2>1. /\ k \in 1..(e - 1) /\ k \in 1..c /\ k \in 1..(c + 1)
        /\ IsLetter(u[k]) /\ \A l \in k..(e - 1) : u[l] # LF
    BY <1>2, <1>4
  <2>2. u[k] = t[O(k)] /\ O(k) \in 1..Len(t)
    BY <1>1, <2>1
  <2>3. O(k) < O(e)
    BY <1>1, <1>4, <2>1
  <2>4. ASSUME NEW l \in O(k)..(O(e) - 1), t[l] = LF PROVE FALSE
    <3>1. l \in 1..Len(t) /\ O(k) =< l /\ l < O(e)
      <4>1. O(k) \in Nat /\ 1 =< O(k) /\ O(e) \in Nat /\ O(e) =< Len(t) + 1
        BY <1>1, <1>4, <2>2
      <4> QED BY <1>1, <4>1
    <3>2. PICK j \in 1..c : O(j) = l
      BY <1>1, <1>3, <2>4, <3>1
    <3>3. O(k) =< O(j) /\ O(j) < O(e)
      BY <3>1, <3>2
    <3>4. j \in 1..(c + 1) /\ u[j] = LF
      BY <1>1, <2>4, <3>2
    <3>5. j < e /\ ~ (j < k)
      BY <1>1, <2>1, <2>2, <3>1, <3>2, <3>3, <3>4
    <3>6. j \in k..(e - 1)
      BY <1>4, <2>1, <3>5
    <3> QED BY <2>1, <3>4, <3>6
  <2>5. O(k) \in 1..(O(e) - 1)
    BY <1>4, <2>2, <2>3
  <2> QED BY <1>2, <2>1, <2>2, <2>4, <2>5
<1>6. ASSUME NEW j \in LettersBefore(t, O(e))
      PROVE  \E k \in LettersBefore(u, e) : O(k) = j
  <2>1. /\ j \in 1..(O(e) - 1) /\ j \in 1..Len(t)
        /\ IsLetter(t[j]) /\ \A l \in j..(O(e) - 1) : t[l] # LF
    BY <1>2, <1>4
  <2>2. PICK k \in 1..c : O(k) = j
    BY <1>1, <1>3, <2>1
  <2>3. k \in 1..(c + 1) /\ u[k] = t[j]
    BY <1>1, <2>2
  <2>4. O(k) < O(e)
    BY <1>4, <2>1, <2>2
  <2>5. k \in 1..(e - 1)
    BY <1>1, <1>4, <2>3, <2>4
  <2>6. ASSUME NEW l \in k..(e - 1) PROVE u[l] # LF
    <3>1. l \in 1..c /\ l \in 1..(c + 1) /\ ~ (l < k) /\ l < e
      <4>1. k \in Nat /\ 1 =< k /\ l \in Int /\ k =< l /\ l =< e - 1 /\ e =< c + 1
        BY <1>4, <2>3
      <4> QED BY <1>1, <1>4, <4>1
    <3>2. u[l] = t[O(l)] /\ O(l) \in 1..Len(t)
      BY <1>1, <3>1
    <3>3. O(l) < O(e) /\ ~ (O(l) < O(k))
      BY <1>1, <1>4, <2>3, <3>1
    <3>4. O(l) \in j..(O(e) - 1)
      <4>1. O(l) \in Nat /\ j \in Nat
        BY <2>1, <3>2
      <4> QED BY <1>4, <2>2, <3>3, <4>1
    <3> QED BY <2>1, <3>2, <3>4
  <2>7. k \in LettersBefore(u, e)
    BY <1>2, <2>1, <2>3, <2>5, <2>6
  <2> QED BY <2>2, <2>7
<1> QED BY <1>5, <1>6 DEF u, c, O

\* For every text, a carriage return before a line feed can be dropped without a
\* change of meaning (generate_golden.rs:39).
THEOREM CrLfKeepsMeaning ==
    ASSUME NEW V, NEW t \in Seq(V)
    PROVE  /\ Accepted(CrLfToLf(t)) <=> Accepted(t)
           /\ Compile(CrLfToLf(t)) = Compile(t)
<1> DEFINE u == CrLfToLf(t)
           c == Cardinality(Kept(t))
           S == LineEnds(u)
           T == LineEnds(t)
           f == [e \in S |-> Origin(t, e)]
<1>1. /\ c \in Nat /\ u \in Seq(V) /\ Len(u) = c /\ Len(t) \in Nat
      /\ \A k \in 1..(c + 1) : Origin(t, k) \in 1..(Len(t) + 1)
      /\ \A k \in 1..c : Origin(t, k) \in 1..Len(t) /\ u[k] = t[Origin(t, k)]
      /\ \A j, k \in 1..(c + 1) : Origin(t, j) < Origin(t, k) <=> j < k
      /\ \A k \in 1..Len(t) : t[k] # CR => \E j \in 1..c : Origin(t, j) = k
  <2>1. Len(t) \in Nat
    OBVIOUS
  <2> QED BY <2>1, OriginIs
<1>2. Origin(t, c + 1) = Len(t) + 1
  BY DEF Origin
<1>3. DOMAIN u = 1..c /\ DOMAIN t = 1..Len(t)
  BY <1>1
<1> HIDE DEF u
<1>4. Accepted(u) <=> Accepted(t)
  <2>1. CR \in Skipped
    BY DEF CR, Skipped
  <2> QED BY <1>1, <1>3, <2>1 DEF Accepted
<1>5. S \subseteq 1..(c + 1) /\ T \subseteq 1..(Len(t) + 1)
  BY <1>1 DEF LineEnds
<1>6. ASSUME NEW e \in 1..(c + 1)
      PROVE  /\ LettersBefore(u, e) # {} <=> LettersBefore(t, Origin(t, e)) # {}
             /\ LineAcc(u, e) = LineAcc(t, Origin(t, e))
  <2>1. /\ \A k \in LettersBefore(u, e) :
             Origin(t, k) \in LettersBefore(t, Origin(t, e)) /\ u[k] = t[Origin(t, k)]
        /\ \A j \in LettersBefore(t, Origin(t, e)) :
             \E k \in LettersBefore(u, e) : Origin(t, k) = j
    BY SameLettersBefore DEF u
  <2>2. \A w : (\E k \in LettersBefore(u, e) : HasBit(StateOf(u[k]), w))
                 <=> (\E j \in LettersBefore(t, Origin(t, e)) : HasBit(StateOf(t[j]), w))
    BY <2>1
  <2>3. LineAcc(u, e) = LineAcc(t, Origin(t, e))
    BY <2>2 DEF LineAcc
  <2> QED BY <2>1, <2>3
<1>7. ASSUME NEW e \in 1..(c + 1) PROVE e \in S <=> Origin(t, e) \in T
  <2>1. CASE e = c + 1
    BY <1>1, <1>2, <1>6, <2>1 DEF LineEnds
  <2>2. CASE e # c + 1
    <3>1. e \in 1..c
      BY <1>1, <2>2
    <3>2. Origin(t, e) \in 1..Len(t) /\ u[e] = t[Origin(t, e)]
      BY <1>1, <3>1
    <3>3. e \in S <=> u[e] = LF /\ LettersBefore(u, e) # {}
      BY <1>1, <3>1 DEF LineEnds
    <3>4. Origin(t, e) \in T
            <=> t[Origin(t, e)] = LF /\ LettersBefore(t, Origin(t, e)) # {}
      BY <1>1, <3>2 DEF LineEnds
    <3> QED BY <1>6, <3>2, <3>3, <3>4
  <2> QED BY <2>1, <2>2
<1>8. ASSUME NEW y \in T PROVE \E e \in S : Origin(t, e) = y
  <2>1. CASE y = Len(t) + 1
    <3>1. c + 1 \in 1..(c + 1)
      BY <1>1
    <3> QED BY <1>2, <1>7, <2>1, <3>1
  <2>2. CASE y # Len(t) + 1
    <3>1. y \in 1..Len(t) /\ t[y] # CR
      BY <1>1, <1>5, <2>2 DEF LineEnds, LF, CR
    <3>2. PICK e \in 1..c : Origin(t, e) = y
      BY <1>1, <3>1
    <3>3. e \in 1..(c + 1)
      BY <1>1
    <3> QED BY <1>7, <3>2, <3>3
  <2> QED BY <2>1, <2>2
<1>9. S \in SUBSET Nat /\ T \in SUBSET Nat /\ IsFiniteSet(S)
  <2>1. IsFiniteSet(1..(c + 1))
    BY <1>1, FS_Interval
  <2> QED BY <1>1, <1>5, <2>1, FS_Subset
<1>10. /\ f \in [S -> T] /\ \A y \in T : \E x \in S : f[x] = y
       /\ \A x, y \in S : x < y => f[x] < f[y]
  BY <1>1, <1>5, <1>7, <1>8
<1>11. \A e \in S : f[e] = Origin(t, e) /\ LineAcc(u, e) = LineAcc(t, f[e])
  BY <1>5, <1>6
<1> HIDE DEF f, S, T, c
<1>12. /\ Cardinality(T) = Cardinality(S)
       /\ \A n \in 1..Cardinality(S) : Nth(T, n) = f[Nth(S, n)]
  BY <1>9, <1>10, SameOrder
<1>13. \A n \in 1..Cardinality(S) : Nth(S, n) \in S
  BY <1>9, NthIs
<1>14. \A n \in 1..Cardinality(S) :
         WordOf(LineAcc(u, Nth(S, n))) = WordOf(LineAcc(t, Nth(T, n)))
  BY <1>11, <1>12, <1>13
<1>15. Compile(u) = Compile(t)
  BY <1>12, <1>14 DEF Compile, S, T
<1> QED BY <1>4, <1>15 DEF u

-----------------------------------------------------------------------------
(* The generator.                                                          *)

IsOld(n) == golden[n] \in {NoFile, OldFile}

\* Only the last file that was listed, and only from its encoding on, may be
\* neither as it was nor right.
GoldenInv ==
    /\ GoldenTypeOK
    /\ golden = [n \in Vectors |-> golden[n]]
    /\ \A n \in todo : IsOld(n)
    /\ \A n \in OkVectors \ todo :
         IsGolden(n) \/ (n = cur /\ gpc \in {"write", "truncated", "dead", "failed"})
    /\ gpc \in {"write", "truncated"} =>
         cur \in OkVectors /\ IsProgram(cur) /\ result = Compile(TextOf(content[cur]))
    /\ gpc = "write" => IsOld(cur)
    /\ gpc = "failed" => cur \in OkVectors /\ ~ IsProgram(cur) /\ IsOld(cur)
    /\ gpc = "done" => todo = {}

LEMMA InitGolden ==
    content \in [Vectors -> Seq(Byte)] /\ GoldenInit => GoldenInv
<1> SUFFICES ASSUME content \in [Vectors -> Seq(Byte)], GoldenInit PROVE GoldenInv
  OBVIOUS
<1>1. PICK old \in {NoFile, OldFile} : golden = [n \in Vectors |-> old]
  BY DEF GoldenInit
<1>2. \A n \in Vectors : golden[n] = old
  BY <1>1
<1>3. golden = [n \in Vectors |-> golden[n]]
  BY <1>1
<1>4. GoldenTypeOK
  BY <1>2, VectorsAssumption DEF GoldenInit, GoldenTypeOK, GoldenPlaces
<1> QED BY <1>2, <1>3, <1>4, VectorsAssumption DEF GoldenInit, GoldenInv, IsOld

\* Reading the file and taking the carriage returns out leaves its meaning.
LEMMA EncodedMeans ==
    ASSUME GoldenTypeOK, NEW n \in Vectors
    PROVE  /\ IsUtf8(content[n]) /\ Accepted(Encoded(n)) <=> IsProgram(n)
           /\ Compile(Encoded(n)) = Compile(TextOf(content[n]))
           /\ Compile(Encoded(n)) \in Seq(Words)
<1>1. content[n] \in Seq(Byte)
  BY DEF GoldenTypeOK
<1>2. PICK V : TextOf(content[n]) \in Seq(V)
  BY <1>1, TextOfType
<1>3. /\ Accepted(Encoded(n)) <=> Accepted(TextOf(content[n]))
      /\ Compile(Encoded(n)) = Compile(TextOf(content[n]))
  BY <1>2, CrLfKeepsMeaning DEF Encoded
<1>4. Compile(TextOf(content[n])) \in Seq(Words)
  BY <1>2, CompileType
<1> QED BY <1>3, <1>4 DEF IsProgram

LEMMA StepGolden ==
    GoldenInv /\ (GoldenStep \/ KillGenerator \/ UNCHANGED goldenVars) => GoldenInv'
<1> SUFFICES ASSUME GoldenInv, GoldenStep \/ KillGenerator \/ UNCHANGED goldenVars
             PROVE  GoldenInv'
  OBVIOUS
<1> USE DEF GoldenInv, GoldenTypeOK, GoldenPlaces, Place, IsOld
<1>1. ASSUME UNCHANGED << content, golden >>
      PROVE  \A n : /\ IsGolden(n)' <=> IsGolden(n)
                    /\ IsProgram(n)' <=> IsProgram(n)
                    /\ IsOld(n)' <=> IsOld(n)
  BY <1>1 DEF IsGolden, IsProgram
<1>2. CASE UNCHANGED goldenVars
  BY <1>1, <1>2 DEF goldenVars
<1>3. CASE OpenDirs
  BY <1>1, <1>3 DEF OpenDirs
<1>4. CASE OpenDirsFails
  BY <1>1, <1>4 DEF OpenDirsFails
<1>5. ASSUME NEW n \in todo, SkipEntry(n) PROVE GoldenInv'
  BY <1>1, <1>5 DEF SkipEntry, NextEntry
<1>6. ASSUME NEW n \in todo, ReadFails(n) PROVE GoldenInv'
  BY <1>1, <1>6 DEF ReadFails, NextEntry
<1>7. ASSUME NEW n \in todo, EncodeVector(n) PROVE GoldenInv'
  <2>1. IsProgram(n) /\ Compile(Encoded(n)) = Compile(TextOf(content[n]))
          /\ Compile(Encoded(n)) \in Seq(Words)
    BY <1>7, EncodedMeans DEF EncodeVector
  <2> QED BY <1>1, <1>7, <2>1 DEF EncodeVector, NextEntry
<1>8. ASSUME NEW n \in todo, EncodeFails(n) PROVE GoldenInv'
  <2>1. ~ IsProgram(n)
    BY <1>8, EncodedMeans DEF EncodeFails
  <2> QED BY <1>1, <1>8, <2>1 DEF EncodeFails, NextEntry
<1>9. ASSUME NEW v, golden' = [golden EXCEPT ![cur] = v], gpc \in {"write", "truncated"},
             UNCHANGED << content, todo, cur, result >>, gpc' \in GoldenPlaces
      PROVE  /\ GoldenTypeOK' /\ golden' = [n \in Vectors |-> golden'[n]]
             /\ \A n \in todo : IsOld(n)'
             /\ \A n \in OkVectors \ todo : n # cur => IsGolden(n)'
             /\ cur \in OkVectors /\ IsProgram(cur)' /\ golden'[cur] = v
             /\ result = Compile(TextOf(content[cur]))
  <2>1. cur \in OkVectors /\ cur \in Vectors \ todo /\ IsProgram(cur)
          /\ result = Compile(TextOf(content[cur]))
    BY <1>9, VectorsAssumption
  <2>2. golden' = [n \in Vectors |-> golden'[n]] /\ golden'[cur] = v
          /\ \A n \in Vectors \ {cur} : golden'[n] = golden[n]
    BY <1>9, <2>1
  <2>3. \A n : IsProgram(n)' <=> IsProgram(n)
    BY <1>9 DEF IsProgram
  <2>4. \A n \in Vectors \ {cur} :
          (IsGolden(n)' <=> IsGolden(n)) /\ (IsOld(n)' <=> IsOld(n))
    BY <1>9, <2>2, <2>3 DEF IsGolden
  <2>5. \A n \in todo : n \in Vectors \ {cur}
    BY <2>1
  <2>6. \A n \in OkVectors \ todo : n # cur => IsGolden(n) /\ n \in Vectors \ {cur}
    BY <1>9, VectorsAssumption
  <2>7. GoldenTypeOK'
    BY <1>9, <2>1, <2>2
  <2>8. \A n \in todo : IsOld(n)'
    BY <2>4, <2>5
  <2>9. \A n \in OkVectors \ todo : n # cur => IsGolden(n)'
    BY <2>4, <2>6
  <2>10. IsProgram(cur)'
    BY <1>9, <2>1 DEF IsProgram
  <2> QED BY <2>1, <2>2, <2>7, <2>8, <2>9, <2>10
<1>10. CASE Truncate
  <2>1. gpc = "write" /\ gpc' = "truncated" /\ golden' = [golden EXCEPT ![cur] = <<>>]
          /\ UNCHANGED << content, todo, cur, result >>
    BY <1>10 DEF Truncate
  <2> QED BY <1>9, <2>1
<1>11. CASE WriteGolden
  <2>1. gpc = "truncated" /\ gpc' = "list" /\ golden' = [golden EXCEPT ![cur] = result]
          /\ UNCHANGED << content, todo, cur, result >>
    BY <1>11 DEF WriteGolden
  <2>2. IsGolden(cur)'
    BY <1>9, <2>1 DEF IsGolden
  <2> QED BY <1>9, <2>1, <2>2
<1>12. CASE WriteFails
  <2>1. gpc \in {"write", "truncated"} /\ gpc' = "dead"
          /\ UNCHANGED << content, todo, cur, result >>
    BY <1>12 DEF WriteFails
  <2>2. CASE golden' = golden
    BY <1>1, <2>1, <2>2
  <2>3. CASE golden' = [golden EXCEPT ![cur] = Torn]
    BY <1>9, <2>1, <2>3
  <2> QED BY <1>12, <2>2, <2>3 DEF WriteFails
<1>13. CASE Done
  BY <1>1, <1>13 DEF Done
<1>14. CASE KillGenerator
  BY <1>1, <1>14 DEF KillGenerator
<1> QED BY <1>2, <1>3, <1>4, <1>5, <1>6, <1>7, <1>8, <1>10, <1>11, <1>12, <1>13, <1>14
        DEF GoldenStep

LEMMA GoldenInvImplies == GoldenInv => GoldenTypeOK /\ GoldenWhenDone /\ AtMostOneTorn
<1> SUFFICES ASSUME GoldenInv PROVE GoldenWhenDone /\ AtMostOneTorn
  BY DEF GoldenInv
<1> USE DEF GoldenInv, GoldenTypeOK, IsOld
<1>1. GoldenWhenDone
  BY DEF GoldenWhenDone
<1>2. ASSUME NEW n \in Vectors
      PROVE  \/ golden[n] \in {NoFile, OldFile}
             \/ IsGolden(n)
             \/ n = cur /\ gpc \in {"truncated", "dead"}
  <2>1. CASE n \in todo \/ n \notin OkVectors
    BY <2>1
  <2>2. CASE n \in OkVectors \ todo
    BY <2>2
  <2> QED BY <2>1, <2>2
<1> QED BY <1>1, <1>2 DEF AtMostOneTorn
=============================================================================
