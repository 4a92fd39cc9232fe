------------------------ MODULE BuildrootPatches_proofs ------------------------
(***************************************************************************)
(* Proofs about the texts customizeBuildroot edits: what the operators of  *)
(* PatchText and the patches of BuildrootPatches make of the lines of any  *)
(* text.  They are stated for the lines a text contains; a text is a       *)
(* sequence of lines of any kind.                                          *)
(***************************************************************************)
EXTENDS BuildrootPatches, FiniteSetTheorems, WellFoundedInduction, TLAPS

-----------------------------------------------------------------------------
(* Least elements and induction                                            *)

\* The natural numbers up to n are well ordered.
LEMMA Least ==
    ASSUME NEW n \in Nat, NEW S \in SUBSET (0..n), S # {}
    PROVE  \E x \in S : \A y \in S : x <= y
<1> DEFINE Below(x) == 0..x
           T == {Below(x) : x \in S}
<1>1. IsWellFoundedOn(StrictSubsetOrdering(0..n), SUBSET (0..n))
  <2>1. IsFiniteSet(0..n)
    BY FS_Interval
  <2> QED BY <2>1, FS_StrictSubsetOrderingWellFounded, FS_FiniteSubsetsOfFinite
<1>2. T \subseteq SUBSET (0..n) /\ T # {}
  <2>1. \A x \in S : Below(x) \subseteq 0..n
    OBVIOUS
  <2> HIDE DEF Below
  <2> QED BY <2>1
<1>3. PICK t \in T : \A u \in T : ~(<<u, t>> \in StrictSubsetOrdering(0..n))
  BY <1>1, <1>2, WFMin
<1>4. PICK x \in S : t = Below(x)
  OBVIOUS
<1>5. ASSUME NEW y \in S, y < x PROVE FALSE
  <2>1. Below(y) \in T /\ Below(y) \subseteq t /\ Below(y) # t
    BY <1>4, <1>5
  <2> QED BY <1>2, <1>3, <2>1 DEF StrictSubsetOrdering
<1> QED BY <1>5

\* Induction, over a set instead of a formula.
LEMMA Induction ==
    ASSUME NEW n \in Nat, NEW S, 0 \in S,
           \A k \in 0..n : k # n /\ k \in S => k + 1 \in S
    PROVE  0..n \subseteq S
<1> SUFFICES ASSUME (0..n) \ S # {} PROVE FALSE
  OBVIOUS
<1>1. PICK x \in (0..n) \ S : \A y \in (0..n) \ S : x <= y
  <2>1. (0..n) \ S \in SUBSET (0..n)
    OBVIOUS
  <2> QED BY <2>1, Least
<1>2. x # 0 /\ x - 1 \in 0..n /\ x - 1 # n
  BY <1>1
<1>3. x - 1 \in S
  BY <1>1, <1>2
<1> QED BY <1>1, <1>2, <1>3

\* A recursion over the numbers up to n has a solution.
Solves(g, n, A, a, step) ==
    /\ g \in [0..n -> A] /\ g[0] = a
    /\ \A i \in 1..n : g[i] = step[i][g[i - 1]]

LEMMA Recursion ==
    ASSUME NEW n \in Nat, NEW A, NEW a \in A, NEW step \in [1..n -> [A -> A]]
    PROVE  \E g : Solves(g, n, A, a, step)
<1> DEFINE Upto(k) ==
        \E g \in [0..k -> A] : g[0] = a /\ \A i \in 1..k : g[i] = step[i][g[i - 1]]
    S == {k \in 0..n : Upto(k)}
<1>1. Upto(0)
  <2> DEFINE g == [i \in 0..0 |-> a]
  <2>1. g \in [0..0 -> A] /\ g[0] = a /\ 1..0 = {}
    OBVIOUS
  <2> QED BY <2>1
<1>2. ASSUME NEW k \in 0..n, k # n, Upto(k) PROVE Upto(k + 1)
  <2>1. PICK g \in [0..k -> A] : g[0] = a /\ \A i \in 1..k : g[i] = step[i][g[i - 1]]
    BY <1>2
  <2> DEFINE h == [i \in 0..(k + 1) |-> IF i = k + 1 THEN step[i][g[k]] ELSE g[i]]
  <2>2. h \in [0..(k + 1) -> A]
    <3>1. k + 1 \in 1..n /\ g[k] \in A
      BY <1>2
    <3> QED BY <3>1
  <2>3. h[0] = a /\ \A i \in 1..(k + 1) : h[i] = step[i][h[i - 1]]
    BY <2>1
  <2> QED BY <2>2, <2>3
<1> HIDE DEF Upto
<1>3. 0 \in S /\ \A k \in 0..n : k # n /\ k \in S => k + 1 \in S
  BY <1>1, <1>2
<1> HIDE DEF S
<1>4. 0..n \subseteq S
  BY <1>3, Induction
<1> QED BY <1>4 DEF S, Upto, Solves

\* kept[n] is what drop_br_no_check_hash_for has kept of the first n lines.
Keeps(kept, A, text, line) ==
    /\ kept \in [0..Len(text) -> Seq(A)]
    /\ kept[0] = <<>>
    /\ \A n \in 1..Len(text) :
         kept[n] = IF text[n] = line THEN kept[n - 1] ELSE Append(kept[n - 1], text[n])
    /\ drop_br_no_check_hash_for(text, line) = kept[Len(text)]

LEMMA KeptLines ==
    ASSUME NEW A, NEW text \in Seq(A), NEW line
    PROVE  \E kept : Keeps(kept, A, text, line)
<1> DEFINE N == Len(text)
           Next(i, x) == IF text[i] = line THEN x ELSE Append(x, text[i])
           Eq(f) == f = [n \in 0..N |-> IF n = 0 THEN <<>> ELSE Next(n, f[n - 1])]
           step == [i \in 1..N |-> [x \in Seq(A) |-> Next(i, x)]]
           kept == CHOOSE f : Eq(f)
<1>1. N \in Nat /\ <<>> \in Seq(A) /\ \A i \in 1..N, x \in Seq(A) : Next(i, x) \in Seq(A)
  OBVIOUS
<1>2. drop_br_no_check_hash_for(text, line) = kept[N]
  BY DEF drop_br_no_check_hash_for
<1> HIDE DEF N, Next
<1>a. \A i \in 1..N : step[i] \in [Seq(A) -> Seq(A)]
  BY <1>1
<1>b. step \in [1..N -> [Seq(A) -> Seq(A)]]
  BY <1>a
<1>3. PICK g \in [0..N -> Seq(A)] : g[0] = <<>> /\ \A i \in 1..N : g[i] = step[i][g[i - 1]]
  <2> DEFINE texts == Seq(A)
             empty == <<>>
  <2>1. N \in Nat /\ empty \in texts
    BY <1>1
  <2>2. step \in [1..N -> [texts -> texts]]
    BY <1>b
  <2> HIDE DEF step, texts, empty
  <2>3. \E g : Solves(g, N, texts, empty, step)
    BY <2>1, <2>2, Recursion
  <2> QED BY <2>3 DEF texts, empty, Solves
<1>4. ASSUME NEW n \in 0..N, n # 0 PROVE g[n] = Next(n, g[n - 1])
  <2>1. n \in 1..N /\ n - 1 \in 0..N /\ g[n - 1] \in Seq(A)
    BY <1>1, <1>4
  <2> QED BY <1>3, <2>1
<1> HIDE DEF step
<1>5. Eq(kept)
  <2>1. Eq(g)
    BY <1>1, <1>3, <1>4
  <2> HIDE DEF Eq
  <2> QED BY <2>1
<1> HIDE DEF kept
<1>6. kept[0] = <<>> /\ \A n \in 1..N : kept[n] = Next(n, kept[n - 1])
  BY <1>5, <1>1
<1>7. DOMAIN kept = 0..N /\ kept = [n \in 0..N |-> kept[n]]
  BY <1>5
<1> HIDE DEF Eq
<1>8. \A n \in 0..N : kept[n] \in Seq(A)
  <2> DEFINE S == {n \in 0..N : kept[n] \in Seq(A)}
  <2>1. 0 \in S
    <3>1. kept[0] \in Seq(A)
      BY <1>1, <1>6
    <3> QED BY <1>1, <3>1
  <2>2. ASSUME NEW n \in 0..N, n # N, n \in S PROVE n + 1 \in S
    <3>1. n + 1 \in 1..N /\ (n + 1) - 1 = n /\ kept[n] \in Seq(A)
      BY <1>1, <2>2
    <3>2. kept[n + 1] \in Seq(A)
      BY <1>1, <1>6, <3>1
    <3> QED BY <3>1, <3>2
  <2>3. 0..N \subseteq S
    <3> HIDE DEF S
    <3> QED BY <1>1, <2>1, <2>2, Induction
  <2> QED BY <2>3
<1>9. kept \in [0..N -> Seq(A)]
  BY <1>7, <1>8
<1> QED BY <1>2, <1>6, <1>9 DEF N, Next, Keeps

-----------------------------------------------------------------------------
(* drop_br_no_check_hash_for takes out one line                            *)

\* drop_br_no_check_hash_for takes out the line, and no other.
LEMMA Dropped ==
    ASSUME NEW A, NEW text \in Seq(A), NEW line
    PROVE  LET left == drop_br_no_check_hash_for(text, line) IN
           /\ left \in Seq(A)
           /\ ~Contains(left, line)
           /\ \A l : l # line => (Contains(left, l) <=> Contains(text, l))
           /\ ~Contains(text, line) => left = text
<1>1. PICK kept : Keeps(kept, A, text, line)
  BY KeptLines
<1> DEFINE N == Len(text)
<1> DEFINE Clean(n) ==
             /\ \A i \in 1..Len(kept[n]) : kept[n][i] # line /\ \E j \in 1..n : text[j] = kept[n][i]
             /\ \A j \in 1..n : text[j] # line => \E i \in 1..Len(kept[n]) : kept[n][i] = text[j]
             /\ (\A j \in 1..n : text[j] # line) => kept[n] = SubSeq(text, 1, n)
           S == {n \in 0..N : Clean(n)}
<1>2. N \in Nat
  OBVIOUS
<1>3. Clean(0)
  <2>1. kept[0] = <<>> /\ SubSeq(text, 1, 0) = <<>> /\ 1..0 = {}
    BY <1>1 DEF Keeps
  <2> QED BY <2>1
<1>4. ASSUME NEW n \in 0..N, n # N, Clean(n) PROVE Clean(n + 1)
  <2>1. /\ n + 1 \in 1..N /\ (n + 1) - 1 = n /\ kept[n] \in Seq(A) /\ text[n + 1] \in A
        /\ 1..(n + 1) = (1..n) \cup {n + 1}
    BY <1>1, <1>4 DEF Keeps
  <2>2. kept[n + 1] = IF text[n + 1] = line THEN kept[n] ELSE Append(kept[n], text[n + 1])
    BY <1>1, <2>1 DEF Keeps
  <2>3. CASE text[n + 1] = line
    BY <1>4, <2>1, <2>2, <2>3
  <2>4. CASE text[n + 1] # line
    <3>1. /\ kept[n + 1] = Append(kept[n], text[n + 1])
          /\ Len(kept[n + 1]) = Len(kept[n]) + 1
          /\ kept[n + 1][Len(kept[n]) + 1] = text[n + 1]
          /\ \A i \in 1..Len(kept[n]) : kept[n + 1][i] = kept[n][i]
          /\ Len(kept[n]) \in Nat
      BY <2>1, <2>2, <2>4
    <3>2. \A i \in 1..Len(kept[n + 1]) : i \in 1..Len(kept[n]) \/ i = Len(kept[n]) + 1
      BY <3>1
    <3>3. \A i \in 1..Len(kept[n + 1]) :
             kept[n + 1][i] # line /\ \E j \in 1..(n + 1) : text[j] = kept[n + 1][i]
      BY <1>4, <2>1, <2>4, <3>1, <3>2
    <3>4. ASSUME NEW j \in 1..(n + 1), text[j] # line
          PROVE  \E i \in 1..Len(kept[n + 1]) : kept[n + 1][i] = text[j]
      <4>1. CASE j = n + 1
        BY <3>1, <4>1
      <4>2. CASE j \in 1..n
        <5>1. PICK i \in 1..Len(kept[n]) : kept[n][i] = text[j]
          BY <1>4, <3>4, <4>2
        <5> QED BY <3>1, <5>1
      <4> QED BY <2>1, <4>1, <4>2
    <3>5. ASSUME \A j \in 1..(n + 1) : text[j] # line
          PROVE  kept[n + 1] = SubSeq(text, 1, n + 1)
      <4>1. kept[n] = SubSeq(text, 1, n)
        BY <1>4, <2>1, <3>5
      <4>2. Append(SubSeq(text, 1, n), text[n + 1]) = SubSeq(text, 1, n + 1)
        BY <2>1
      <4> QED BY <3>1, <4>1, <4>2
    <3> QED BY <3>3, <3>4, <3>5
  <2> QED BY <2>3, <2>4
<1> HIDE DEF Clean
<1>5. 0 \in S /\ \A n \in 0..N : n # N /\ n \in S => n + 1 \in S
  BY <1>2, <1>3, <1>4
<1>6. Clean(N)
  <2>1. 0..N \subseteq S
    <3> HIDE DEF S
    <3> QED BY <1>2, <1>5, Induction
  <2> QED BY <1>2, <2>1
<1> HIDE DEF S
<1> DEFINE left == drop_br_no_check_hash_for(text, line)
<1>7. left = kept[N] /\ kept[N] \in Seq(A) /\ SubSeq(text, 1, N) = text
  BY <1>1, <1>2 DEF Keeps
<1>8. \A i \in 1..Len(left) : left[i] # line /\ \E j \in 1..N : text[j] = left[i]
  BY <1>6, <1>7 DEF Clean
<1>9. \A j \in 1..N : text[j] # line => \E i \in 1..Len(left) : left[i] = text[j]
  BY <1>6, <1>7 DEF Clean
<1>10. ~Contains(text, line) => left = text
  BY <1>6, <1>7 DEF Clean, Contains
<1>11. left \in Seq(A) /\ ~Contains(left, line)
  BY <1>7, <1>8 DEF Contains
<1>12. ASSUME NEW l, l # line PROVE Contains(left, l) <=> Contains(text, l)
  <2>1. Contains(left, l) => Contains(text, l)
    BY <1>8 DEF Contains
  <2>2. Contains(text, l) => Contains(left, l)
    BY <1>9, <1>12 DEF Contains
  <2> QED BY <2>1, <2>2
<1> HIDE DEF left
<1>13. \A l : l # line => (Contains(left, l) <=> Contains(text, l))
  BY <1>12
<1> QED BY <1>10, <1>11, <1>13 DEF left

-----------------------------------------------------------------------------
(* Lines put in the place of others                                        *)

LEMMA JoinedLines ==
    ASSUME NEW A, NEW s \in Seq(A), NEW t \in Seq(A)
    PROVE  /\ s \o t \in Seq(A) /\ Len(s \o t) = Len(s) + Len(t)
           /\ \A j \in 1..Len(s) : (s \o t)[j] = s[j]
           /\ \A j \in 1..Len(t) : (s \o t)[Len(s) + j] = t[j]
           /\ Len(s) \in Nat /\ Len(t) \in Nat
OBVIOUS

\* text with the n lines from line i on replaced by new.
Splice(text, i, n, new) == SubSeq(text, 1, i - 1) \o new \o SubSeq(text, i + n, Len(text))

LEMMA SpliceLines ==
    ASSUME NEW A, NEW text \in Seq(A), NEW new \in Seq(A),
           NEW i \in 1..(Len(text) + 1), NEW n \in Nat, i + n <= Len(text) + 1
    PROVE  LET r == Splice(text, i, n, new) IN
           /\ r \in Seq(A)
           /\ Len(r) = Len(text) - n + Len(new)
           /\ \A j \in 1..(i - 1) : r[j] = text[j]
           /\ \A j \in 1..Len(new) : r[i - 1 + j] = new[j]
           /\ \A j \in (i + n)..Len(text) : r[j - n + Len(new)] = text[j]
<1> DEFINE a == SubSeq(text, 1, i - 1)
           b == SubSeq(text, i + n, Len(text))
           c == a \o new
           r == c \o b
<1>1. /\ a \in Seq(A) /\ Len(a) = i - 1 /\ \A j \in 1..(i - 1) : a[j] = text[j]
  OBVIOUS
<1>2. /\ b \in Seq(A) /\ Len(b) = Len(text) - (i + n) + 1
      /\ \A j \in 1..Len(b) : b[j] = text[j + i + n - 1]
  OBVIOUS
<1> HIDE DEF a, b
<1>3. /\ c \in Seq(A) /\ Len(c) = i - 1 + Len(new)
      /\ \A j \in 1..(i - 1) : c[j] = text[j]
      /\ \A j \in 1..Len(new) : c[i - 1 + j] = new[j]
  <2>1. /\ c \in Seq(A) /\ Len(c) = Len(a) + Len(new)
        /\ \A j \in 1..Len(a) : c[j] = a[j]
        /\ \A j \in 1..Len(new) : c[Len(a) + j] = new[j]
    <3>1. a \in Seq(A)
      BY <1>1
    <3> QED BY <3>1, JoinedLines
  <2> HIDE DEF c
  <2> QED BY <1>1, <2>1
<1> HIDE DEF c
<1>4. /\ r \in Seq(A) /\ Len(r) = Len(text) - n + Len(new)
      /\ \A j \in 1..Len(c) : r[j] = c[j]
      /\ \A j \in 1..Len(b) : r[Len(c) + j] = b[j]
  <2>1. /\ r \in Seq(A) /\ Len(r) = Len(c) + Len(b)
        /\ \A j \in 1..Len(c) : r[j] = c[j]
        /\ \A j \in 1..Len(b) : r[Len(c) + j] = b[j]
    <3>1. c \in Seq(A) /\ b \in Seq(A)
      BY <1>2, <1>3
    <3> QED BY <3>1, JoinedLines
  <2> HIDE DEF r
  <2>2. Len(r) = Len(text) - n + Len(new)
    BY <1>2, <1>3, <2>1
  <2> QED BY <2>1, <2>2
<1>5. Splice(text, i, n, new) = r
  BY DEF Splice, a, b, c
<1> HIDE DEF r
<1>6. Len(new) \in Nat
  OBVIOUS
<1>7. ASSUME NEW j \in 1..(i - 1) PROVE r[j] = text[j]
  <2>1. j \in 1..Len(c) /\ c[j] = text[j]
    BY <1>3, <1>6
  <2> QED BY <1>4, <2>1
<1>8. ASSUME NEW j \in 1..Len(new) PROVE r[i - 1 + j] = new[j]
  <2>1. i - 1 + j \in 1..Len(c)
    BY <1>3, <1>6
  <2>2. c[i - 1 + j] = new[j]
    BY <1>3
  <2> QED BY <1>4, <2>1, <2>2
<1>9. ASSUME NEW j \in (i + n)..Len(text) PROVE r[j - n + Len(new)] = text[j]
  <2>0. j - (i + n) + 1 \in 1..Len(b) /\ (j - (i + n) + 1) + i + n - 1 = j
    BY <1>2
  <2>1. j - (i + n) + 1 \in 1..Len(b) /\ b[j - (i + n) + 1] = text[j]
    BY <1>2, <2>0
  <2>2. Len(c) + (j - (i + n) + 1) = j - n + Len(new)
    BY <1>3
  <2> QED BY <1>4, <2>1, <2>2
<1> QED BY <1>4, <1>5, <1>7, <1>8, <1>9

\* The lines there are then.
LEMMA Spliced ==
    ASSUME NEW A, NEW text \in Seq(A), NEW new \in Seq(A),
           NEW i \in 1..(Len(text) + 1), NEW n \in Nat, i + n <= Len(text) + 1
    PROVE  LET r == Splice(text, i, n, new) IN
           /\ r \in Seq(A)
           /\ \A l : Contains(new, l) => Contains(r, l)
           /\ \A l : Contains(r, l) => Contains(text, l) \/ Contains(new, l)
           /\ \A l : Contains(text, l) /\ (\A j \in i..(i + n - 1) : text[j] # l) => Contains(r, l)
<1> DEFINE r == Splice(text, i, n, new)
<1>1. /\ r \in Seq(A)
      /\ Len(r) = Len(text) - n + Len(new)
      /\ \A j \in 1..(i - 1) : r[j] = text[j]
      /\ \A j \in 1..Len(new) : r[i - 1 + j] = new[j]
      /\ \A j \in (i + n)..Len(text) : r[j - n + Len(new)] = text[j]
  BY SpliceLines
<1>2. Len(new) \in Nat /\ Len(text) \in Nat
  OBVIOUS
<1> HIDE DEF r
<1>3. ASSUME NEW l, Contains(new, l) PROVE Contains(r, l)
  <2>1. PICK j \in 1..Len(new) : new[j] = l
    BY <1>3 DEF Contains
  <2>2. i - 1 + j \in 1..Len(r)
    BY <1>1, <1>2
  <2> QED BY <1>1, <2>1, <2>2 DEF Contains
<1>4. ASSUME NEW l, Contains(r, l) PROVE Contains(text, l) \/ Contains(new, l)
  <2>1. PICK k \in 1..Len(r) : r[k] = l
    BY <1>4 DEF Contains
  <2>2. CASE k \in 1..(i - 1)
    BY <1>1, <1>2, <2>1, <2>2 DEF Contains
  <2>3. CASE k \in i..(i - 1 + Len(new))
    <3>1. k - (i - 1) \in 1..Len(new) /\ i - 1 + (k - (i - 1)) = k
      BY <1>2, <2>3
    <3> QED BY <1>1, <2>1, <3>1 DEF Contains
  <2>4. CASE k \in (i + Len(new))..Len(r)
    <3>1. k + n - Len(new) \in (i + n)..Len(text) /\ (k + n - Len(new)) - n + Len(new) = k
      BY <1>1, <1>2, <2>4
    <3>2. k + n - Len(new) \in 1..Len(text)
      BY <3>1
    <3> QED BY <1>1, <2>1, <3>1, <3>2 DEF Contains
  <2> QED BY <1>1, <1>2, <2>2, <2>3, <2>4
<1>5. ASSUME NEW l, Contains(text, l), \A j \in i..(i + n - 1) : text[j] # l
      PROVE  Contains(r, l)
  <2>1. PICK j \in 1..Len(text) : text[j] = l
    BY <1>5 DEF Contains
  <2>2. CASE j \in 1..(i - 1)
    <3>1. j \in 1..Len(r)
      BY <1>1, <1>2, <2>2
    <3> QED BY <1>1, <2>1, <2>2, <3>1 DEF Contains
  <2>3. CASE j \in (i + n)..Len(text)
    <3>1. j - n + Len(new) \in 1..Len(r)
      BY <1>1, <1>2, <2>3
    <3> QED BY <1>1, <2>1, <2>3, <3>1 DEF Contains
  <2> QED BY <1>5, <2>1, <2>2, <2>3
<1> QED BY <1>1, <1>3, <1>4, <1>5 DEF r

\* An end of the text counts as a place, too.
LEMMA Joined ==
    ASSUME NEW A, NEW s \in Seq(A), NEW t \in Seq(A)
    PROVE  /\ s \o t \in Seq(A)
           /\ \A l : Contains(s \o t, l) <=> Contains(s, l) \/ Contains(t, l)
<1> DEFINE r == s \o t
<1>1. /\ r \in Seq(A) /\ Len(r) = Len(s) + Len(t)
      /\ \A j \in 1..Len(s) : r[j] = s[j]
      /\ \A j \in 1..Len(t) : r[Len(s) + j] = t[j]
      /\ Len(s) \in Nat /\ Len(t) \in Nat
  OBVIOUS
<1> HIDE DEF r
<1>2. ASSUME NEW l, Contains(r, l) PROVE Contains(s, l) \/ Contains(t, l)
  <2>1. PICK k \in 1..Len(r) : r[k] = l
    BY <1>2 DEF Contains
  <2>2. k \in 1..Len(s) \/ k - Len(s) \in 1..Len(t)
    BY <1>1
  <2>3. k - Len(s) \in 1..Len(t) => r[k] = t[k - Len(s)]
    BY <1>1
  <2> QED BY <1>1, <2>1, <2>2, <2>3 DEF Contains
<1>3. ASSUME NEW l, Contains(s, l) PROVE Contains(r, l)
  BY <1>1, <1>3 DEF Contains
<1>4. ASSUME NEW l, Contains(t, l) PROVE Contains(r, l)
  <2>1. PICK j \in 1..Len(t) : t[j] = l
    BY <1>4 DEF Contains
  <2>2. Len(s) + j \in 1..Len(r) /\ r[Len(s) + j] = l
    BY <1>1, <2>1
  <2> QED BY <2>2 DEF Contains
<1> QED BY <1>1, <1>2, <1>3, <1>4 DEF r

-----------------------------------------------------------------------------
(* The first block of lines                                                *)

LEMMA Blocks ==
    ASSUME NEW s, NEW t
    PROVE  s \in SubSeqs(t) <=> \E p \in 0..Len(t), q \in 0..Len(t) : s = SubSeq(t, p + 1, q)
BY DEF SubSeqs

\* ReplaceFirstSubSeq puts new in the place of a block of lines that is old.
LEMMA FirstBlock ==
    ASSUME NEW A, NEW text \in Seq(A), NEW old \in Seq(A), Len(old) > 0, Holds(text, old), NEW new
    PROVE  \E i \in 1..Len(text) :
             /\ i + Len(old) <= Len(text) + 1
             /\ \A j \in 1..Len(old) : text[i + j - 1] = old[j]
             /\ ReplaceFirstSubSeq(new, old, text) = Splice(text, i, Len(old), new)
<1> DEFINE Upto(k) == old \in SubSeqs(SubSeq(text, 1, k))
           First(k) == Upto(k) /\ \A j \in 0..k - 1 : ~Upto(j)
           last == CHOOSE k \in 0..Len(text) : First(k)
<1>1. Len(text) \in Nat /\ Len(old) \in Nat
  OBVIOUS
<1>2. IndexFirstSubSeq(old, text) = last - (Len(old) - 1)
  BY DEF IndexFirstSubSeq
<1>3. Upto(Len(text))
  <2>1. SubSeq(text, 1, Len(text)) = text
    OBVIOUS
  <2> QED BY <2>1 DEF Holds
<1> HIDE DEF Upto
<1>4. \E k \in 0..Len(text) : First(k)
  <2> DEFINE S == {k \in 0..Len(text) : Upto(k)}
  <2>1. PICK k \in S : \A j \in S : k <= j
    <3>1. S \in SUBSET (0..Len(text)) /\ S # {}
      BY <1>1, <1>3
    <3> HIDE DEF S
    <3> QED BY <1>1, <3>1, Least
  <2> QED BY <1>1, <2>1
<1> HIDE DEF First
<1>5. last \in 0..Len(text) /\ First(last)
  BY <1>4
<1> HIDE DEF last
<1>6. PICK p \in 0..last, q \in 0..last : old = SubSeq(text, p + 1, q) /\ q = last
  <2> DEFINE t == SubSeq(text, 1, last)
  <2>1. t \in Seq(A) /\ Len(t) = last /\ \A j \in 1..last : t[j] = text[j]
    BY <1>1, <1>5
  <2>2. PICK p \in 0..last, q \in 0..last : old = SubSeq(t, p + 1, q)
    <3>1. old \in SubSeqs(t)
      BY <1>5 DEF First, Upto
    <3> HIDE DEF t
    <3>2. \E p \in 0..Len(t), q \in 0..Len(t) : old = SubSeq(t, p + 1, q)
      BY <3>1, Blocks
    <3> QED BY <2>1, <3>2
  <2>3. SubSeq(t, p + 1, q) = SubSeq(text, p + 1, q)
    BY <1>5, <2>1
  <2>4. q >= last
    <3> SUFFICES ASSUME q < last PROVE FALSE
      BY <1>5
    <3> DEFINE u == SubSeq(text, 1, q)
    <3>1. u \in Seq(A) /\ Len(u) = q /\ \A j \in 1..q : u[j] = text[j]
      BY <1>1, <1>5
    <3>2. p <= q
      BY <1>1, <1>5, <2>1, <2>2
    <3>3. SubSeq(u, p + 1, q) = SubSeq(text, p + 1, q)
      BY <1>5, <3>1, <3>2
    <3>4. Upto(q)
      <4>1. old = SubSeq(u, p + 1, q) /\ p \in 0..Len(u) /\ q \in 0..Len(u)
        <5>1. p \in 0..q
          BY <1>5, <3>2
        <5> HIDE DEF t, u
        <5> QED BY <2>2, <2>3, <3>1, <3>3, <5>1
      <4>2. old \in SubSeqs(u)
        <5> HIDE DEF u
        <5> QED BY <4>1, Blocks
      <4> QED BY <4>2 DEF Upto
    <3> QED BY <1>5, <3>4 DEF First
  <2> QED BY <1>5, <2>2, <2>3, <2>4
<1>7. Len(old) = last - p /\ p < last
  BY <1>1, <1>5, <1>6
<1> DEFINE i == p + 1
<1>8. i = IndexFirstSubSeq(old, text)
  BY <1>1, <1>2, <1>5, <1>7
<1>9. i \in 1..Len(text) /\ i + Len(old) <= Len(text) + 1
  BY <1>1, <1>5, <1>7
<1>10. ASSUME NEW j \in 1..Len(old) PROVE text[i + j - 1] = old[j]
  BY <1>1, <1>5, <1>6, <1>7
<1>11. ReplaceFirstSubSeq(new, old, text) = Splice(text, i, Len(old), new)
  BY <1>8 DEF ReplaceFirstSubSeq, ReplaceSubSeqAt, Holds, Splice
<1> QED BY <1>9, <1>10, <1>11

-----------------------------------------------------------------------------
(* Texts                                                                   *)

\* A text may hold lines of any kind.
IsText(t) == \E A : t \in Seq(A)

LEMMA EmptyText == IsText(<<>>) /\ \A l : ~Contains(<<>>, l)
<1>1. <<>> \in Seq({})
  OBVIOUS
<1> QED BY <1>1 DEF IsText, Contains

LEMMA OneLine ==
    ASSUME NEW a
    PROVE  /\ IsText(<<a>>) /\ Len(<<a>>) > 0
           /\ \A l : Contains(<<a>>, l) <=> l \in {a}
<1>1. <<a>> \in Seq({a})
  OBVIOUS
<1>2. \A l : Contains(<<a>>, l) <=> l \in {a}
  BY DEF Contains
<1>3. Len(<<a>>) > 0
  OBVIOUS
<1> QED BY <1>1, <1>2, <1>3 DEF IsText

LEMMA TwoLine ==
    ASSUME NEW a, NEW b
    PROVE  /\ IsText(<<a, b>>) /\ Len(<<a, b>>) > 0
           /\ \A l : Contains(<<a, b>>, l) <=> l \in {a, b}
<1>1. <<a, b>> \in Seq({a, b})
  OBVIOUS
<1>2. \A l : Contains(<<a, b>>, l) <=> l \in {a, b}
  BY DEF Contains
<1>3. Len(<<a, b>>) > 0
  OBVIOUS
<1> QED BY <1>1, <1>2, <1>3 DEF IsText

LEMMA ThreeLine ==
    ASSUME NEW a, NEW b, NEW c
    PROVE  /\ IsText(<<a, b, c>>) /\ Len(<<a, b, c>>) > 0
           /\ \A l : Contains(<<a, b, c>>, l) <=> l \in {a, b, c}
<1>1. <<a, b, c>> \in Seq({a, b, c})
  OBVIOUS
<1>2. \A l : Contains(<<a, b, c>>, l) <=> l \in {a, b, c}
  BY DEF Contains
<1>3. Len(<<a, b, c>>) > 0
  OBVIOUS
<1> QED BY <1>1, <1>2, <1>3 DEF IsText

LEMMA FourLine ==
    ASSUME NEW a, NEW b, NEW c, NEW d
    PROVE  /\ IsText(<<a, b, c, d>>) /\ Len(<<a, b, c, d>>) > 0
           /\ \A l : Contains(<<a, b, c, d>>, l) <=> l \in {a, b, c, d}
<1>1. <<a, b, c, d>> \in Seq({a, b, c, d})
  OBVIOUS
<1>2. \A l : Contains(<<a, b, c, d>>, l) <=> l \in {a, b, c, d}
  BY DEF Contains
<1>3. Len(<<a, b, c, d>>) > 0
  OBVIOUS
<1> QED BY <1>1, <1>2, <1>3 DEF IsText

LEMMA FiveLine ==
    ASSUME NEW a, NEW b, NEW c, NEW d, NEW e
    PROVE  /\ IsText(<<a, b, c, d, e>>)
           /\ \A l : Contains(<<a, b, c, d, e>>, l) <=> l \in {a, b, c, d, e}
<1>1. <<a, b, c, d, e>> \in Seq({a, b, c, d, e})
  OBVIOUS
<1>2. \A l : Contains(<<a, b, c, d, e>>, l) <=> l \in {a, b, c, d, e}
  BY DEF Contains
<1> QED BY <1>1, <1>2 DEF IsText

LEMMA FourteenLine ==
    ASSUME NEW a, NEW b, NEW c, NEW d, NEW e, NEW f, NEW g,
           NEW h, NEW i, NEW j, NEW k, NEW m, NEW n, NEW o
    PROVE  /\ IsText(<<a, b, c, d, e, f, g, h, i, j, k, m, n, o>>)
           /\ \A l : Contains(<<a, b, c, d, e, f, g, h, i, j, k, m, n, o>>, l) <=>
                       l \in {a, b, c, d, e, f, g, h, i, j, k, m, n, o}
<1>1. <<a, b, c, d, e, f, g, h, i, j, k, m, n, o>> \in
        Seq({a, b, c, d, e, f, g, h, i, j, k, m, n, o})
  OBVIOUS
<1>2. \A l : Contains(<<a, b, c, d, e, f, g, h, i, j, k, m, n, o>>, l) <=>
               l \in {a, b, c, d, e, f, g, h, i, j, k, m, n, o}
  BY DEF Contains
<1> QED BY <1>1, <1>2 DEF IsText

LEMMA SeqGrows ==
    ASSUME NEW A, NEW B, NEW s \in Seq(A)
    PROVE  s \in Seq(A \cup B) /\ s \in Seq(B \cup A)
OBVIOUS

LEMMA Common ==
    ASSUME NEW s, NEW t, IsText(s), IsText(t)
    PROVE  \E A : s \in Seq(A) /\ t \in Seq(A)
<1>1. PICK A : s \in Seq(A)
  BY DEF IsText
<1>2. PICK B : t \in Seq(B)
  BY DEF IsText
<1>3. s \in Seq(A \cup B) /\ t \in Seq(A \cup B)
  BY <1>1, <1>2, SeqGrows
<1> QED BY <1>3

LEMMA JoinedText ==
    ASSUME NEW s, NEW t, IsText(s), IsText(t)
    PROVE  /\ IsText(s \o t) /\ Len(s \o t) = Len(s) + Len(t) /\ Len(s) \in Nat /\ Len(t) \in Nat
           /\ \A l : Contains(s \o t, l) <=> Contains(s, l) \/ Contains(t, l)
<1>1. PICK A : s \in Seq(A) /\ t \in Seq(A)
  BY Common
<1>2. s \o t \in Seq(A) /\ Len(s \o t) = Len(s) + Len(t) /\ Len(s) \in Nat /\ Len(t) \in Nat
  BY <1>1
<1>3. \A l : Contains(s \o t, l) <=> Contains(s, l) \/ Contains(t, l)
  BY <1>1, Joined
<1> QED BY <1>2, <1>3 DEF IsText

LEMMA SplicedText ==
    ASSUME NEW text, NEW new, IsText(text), IsText(new),
           NEW i \in 1..(Len(text) + 1), NEW n \in Nat, i + n <= Len(text) + 1
    PROVE  /\ IsText(Splice(text, i, n, new))
           /\ Len(Splice(text, i, n, new)) = Len(text) - n + Len(new)
           /\ \A l : Contains(new, l) => Contains(Splice(text, i, n, new), l)
           /\ \A l : Contains(Splice(text, i, n, new), l) => Contains(text, l) \/ Contains(new, l)
           /\ \A l : Contains(text, l) /\ (\A j \in i..(i + n - 1) : text[j] # l) =>
                        Contains(Splice(text, i, n, new), l)
<1>1. PICK A : text \in Seq(A) /\ new \in Seq(A)
  BY Common
<1> DEFINE r == Splice(text, i, n, new)
<1>2. /\ r \in Seq(A)
      /\ \A l : Contains(new, l) => Contains(r, l)
      /\ \A l : Contains(r, l) => Contains(text, l) \/ Contains(new, l)
      /\ \A l : Contains(text, l) /\ (\A j \in i..(i + n - 1) : text[j] # l) => Contains(r, l)
  BY <1>1, Spliced
<1>3. Len(r) = Len(text) - n + Len(new)
  BY <1>1, SpliceLines
<1>4. IsText(r)
  BY <1>2 DEF IsText
<1> HIDE DEF r
<1> QED BY <1>2, <1>3, <1>4 DEF r

LEMMA DroppedText ==
    ASSUME NEW text, IsText(text), NEW line
    PROVE  LET left == drop_br_no_check_hash_for(text, line) IN
           /\ IsText(left)
           /\ ~Contains(left, line)
           /\ \A l : l # line => (Contains(left, l) <=> Contains(text, l))
           /\ ~Contains(text, line) => left = text
<1>1. PICK A : text \in Seq(A)
  BY DEF IsText
<1> QED BY <1>1, Dropped DEF IsText

\* The lines of a text in which a block is replaced.
LEMMA ReplacedText ==
    ASSUME NEW text, NEW old, NEW new, IsText(text), IsText(old), IsText(new),
           Len(old) > 0, Holds(text, old)
    PROVE  LET r == ReplaceFirstSubSeq(new, old, text) IN
           /\ IsText(r)
           /\ \A l : Contains(new, l) => Contains(r, l)
           /\ \A l : Contains(r, l) => Contains(text, l) \/ Contains(new, l)
           /\ \A l : Contains(text, l) /\ ~Contains(old, l) => Contains(r, l)
           /\ \A l : Contains(old, l) => Contains(text, l)
<1>1. PICK A : text \in Seq(A) /\ old \in Seq(A)
  BY Common
<1>2. PICK i \in 1..Len(text) :
         /\ i + Len(old) <= Len(text) + 1
         /\ \A j \in 1..Len(old) : text[i + j - 1] = old[j]
         /\ ReplaceFirstSubSeq(new, old, text) = Splice(text, i, Len(old), new)
  BY <1>1, FirstBlock
<1>3. Len(old) \in Nat /\ Len(text) \in Nat
  BY <1>1
<1>4. ASSUME NEW l, ~Contains(old, l), NEW j \in i..(i + Len(old) - 1) PROVE text[j] # l
  <2>1. j - i + 1 \in 1..Len(old) /\ i + (j - i + 1) - 1 = j
    BY <1>3
  <2> QED BY <1>2, <1>4, <2>1 DEF Contains
<1>5. ASSUME NEW l, Contains(old, l) PROVE Contains(text, l)
  <2>1. PICK j \in 1..Len(old) : old[j] = l
    BY <1>5 DEF Contains
  <2>2. i + j - 1 \in 1..Len(text)
    BY <1>2, <1>3
  <2> QED BY <1>2, <2>1, <2>2 DEF Contains
<1> DEFINE n == Len(old)
           r == Splice(text, i, n, new)
<1>6. /\ IsText(r)
      /\ \A l : Contains(new, l) => Contains(r, l)
      /\ \A l : Contains(r, l) => Contains(text, l) \/ Contains(new, l)
      /\ \A l : Contains(text, l) /\ (\A j \in i..(i + n - 1) : text[j] # l) => Contains(r, l)
  <2>1. n \in Nat /\ i \in 1..(Len(text) + 1) /\ i + n <= Len(text) + 1
    BY <1>2, <1>3
  <2> HIDE DEF n
  <2> QED BY <2>1, SplicedText
<1> HIDE DEF r
<1>7. ReplaceFirstSubSeq(new, old, text) = r
  BY <1>2 DEF r
<1> QED BY <1>4, <1>5, <1>6, <1>7

\* And with Unless, which does so at most once.
LEMMA UnlessText ==
    ASSUME NEW text, NEW old, NEW new, NEW marker, IsText(text), IsText(old), IsText(new),
           Len(old) > 0, Contains(new, marker), Unless(marker, text, old, new) # SystemExit
    PROVE  LET r == Unless(marker, text, old, new) IN
           /\ IsText(r) /\ Contains(r, marker)
           /\ \A l : Contains(r, l) => Contains(text, l) \/ Contains(new, l)
           /\ \A l : Contains(text, l) /\ ~Contains(old, l) => Contains(r, l)
           /\ Contains(text, marker) => r = text
<1>1. CASE Contains(text, marker)
  BY <1>1 DEF Unless
<1>2. CASE ~Contains(text, marker)
  <2>1. Holds(text, old) /\ Unless(marker, text, old, new) = ReplaceFirstSubSeq(new, old, text)
    BY <1>2 DEF Unless, Replaced
  <2> QED BY <1>2, <2>1, ReplacedText
<1> QED BY <1>1, <1>2

-----------------------------------------------------------------------------
(* The version overrides of systemd and linux-pam                          *)

\* The two blocks and the line each is known by.
LEMMA IncludeBlocks ==
    \A block \in {CUSTOM_LATE_INCLUDE_BLOCK, FETCH_HASH_INCLUDE_BLOCK} :
        IsText(block) /\ Len(block) = 2 /\ Contains(block, block[2])
<1>1. ASSUME NEW c, NEW m PROVE IsText(<<c, m>>) /\ Contains(<<c, m>>, m)
  BY TwoLine
<1>2. ASSUME NEW c, NEW m PROVE Len(<<c, m>>) = 2 /\ <<c, m>>[2] = m
  OBVIOUS
<1>3. ASSUME NEW c, NEW m
      PROVE  IsText(<<c, m>>) /\ Len(<<c, m>>) = 2 /\ Contains(<<c, m>>, <<c, m>>[2])
  BY <1>1, <1>2
<1>4. /\ CUSTOM_LATE_INCLUDE_BLOCK = <<"# custom-late.mk", CUSTOM_LATE_INCLUDE_MARKER>>
      /\ FETCH_HASH_INCLUDE_BLOCK = <<"# fetch-hash.mk", FETCH_HASH_INCLUDE_MARKER>>
  BY DEF CUSTOM_LATE_INCLUDE_BLOCK, FETCH_HASH_INCLUDE_BLOCK
<1>5. ASSUME NEW block, NEW c, NEW m, block = <<c, m>>
      PROVE  IsText(block) /\ Len(block) = 2 /\ Contains(block, block[2])
  BY <1>3, <1>5
<1> QED BY <1>4, <1>5

LEMMA IncludedText ==
    ASSUME NEW text, IsText(text), NEW block, IsText(block), Contains(block, block[2])
    PROVE  /\ IsText(included(text, block)) /\ Contains(included(text, block), block[2])
           /\ \A l : Contains(text, l) => Contains(included(text, block), l)
BY JoinedText DEF included

\* The blocks the patches of systemd.mk and linux-pam.mk put in and take out.
LEMMA SystemdBlocks ==
    /\ IsText(SYSTEMD_OVERRIDE_MK_TAIL_LEGACY) /\ Len(SYSTEMD_OVERRIDE_MK_TAIL_LEGACY) > 0
    /\ \A l : Contains(SYSTEMD_OVERRIDE_MK_TAIL_LEGACY, l) <=>
               l \in {"# skip packaged hashes", SYSTEMD_NO_HASH,
                      "SYSTEMD_CONF_OPTS := $(filter-out", "endif"}
    /\ IsText(SYSTEMD_OVERRIDE_MK_TAIL)
    /\ \A l : Contains(SYSTEMD_OVERRIDE_MK_TAIL, l) <=>
               l \in {"# dropped options", "SYSTEMD_CONF_OPTS := $(filter-out", "endif"}
    /\ IsText(SYSTEMD_VERSION_OVERRIDE_MK)
    /\ \A l : Contains(SYSTEMD_VERSION_OVERRIDE_MK, l) <=>
               l \in {"SYSTEMD_VERSION_STOCK :=", "ifneq SYSTEMD_VERSION_OVERRIDE"}
    /\ SYSTEMD_VERSION_OVERRIDE_MK[1] = "SYSTEMD_VERSION_STOCK :="
<1>1. /\ IsText(SYSTEMD_OVERRIDE_MK_TAIL_LEGACY) /\ Len(SYSTEMD_OVERRIDE_MK_TAIL_LEGACY) > 0
      /\ \A l : Contains(SYSTEMD_OVERRIDE_MK_TAIL_LEGACY, l) <=>
                 l \in {"# skip packaged hashes", SYSTEMD_NO_HASH,
                        "SYSTEMD_CONF_OPTS := $(filter-out", "endif"}
  BY FourLine DEF SYSTEMD_OVERRIDE_MK_TAIL_LEGACY
<1>2. /\ IsText(SYSTEMD_OVERRIDE_MK_TAIL)
      /\ \A l : Contains(SYSTEMD_OVERRIDE_MK_TAIL, l) <=>
                 l \in {"# dropped options", "SYSTEMD_CONF_OPTS := $(filter-out", "endif"}
  BY ThreeLine DEF SYSTEMD_OVERRIDE_MK_TAIL
<1>3. /\ IsText(SYSTEMD_VERSION_OVERRIDE_MK)
      /\ \A l : Contains(SYSTEMD_VERSION_OVERRIDE_MK, l) <=>
                 l \in {"SYSTEMD_VERSION_STOCK :=", "ifneq SYSTEMD_VERSION_OVERRIDE"}
  BY TwoLine DEF SYSTEMD_VERSION_OVERRIDE_MK
<1>4. SYSTEMD_VERSION_OVERRIDE_MK[1] = "SYSTEMD_VERSION_STOCK :="
  BY DEF SYSTEMD_VERSION_OVERRIDE_MK
<1> QED BY <1>1, <1>2, <1>3, <1>4

LEMMA LinuxPamBlocks ==
    /\ IsText(LINUX_PAM_OVERRIDE_MK_TAIL_LEGACY) /\ Len(LINUX_PAM_OVERRIDE_MK_TAIL_LEGACY) > 0
    /\ \A l : Contains(LINUX_PAM_OVERRIDE_MK_TAIL_LEGACY, l) <=>
               l \in {"ifneq LINUX_PAM_VERSION", LINUX_PAM_NO_HASH, "endif"}
    /\ IsText(LINUX_PAM_VERSION_OVERRIDE_MK)
    /\ \A l : Contains(LINUX_PAM_VERSION_OVERRIDE_MK, l) <=>
               l \in {"LINUX_PAM_VERSION_STOCK :=", "ifneq LINUX_PAM_VERSION_OVERRIDE"}
    /\ LINUX_PAM_VERSION_OVERRIDE_MK[1] = "LINUX_PAM_VERSION_STOCK :="
<1>1. /\ IsText(LINUX_PAM_OVERRIDE_MK_TAIL_LEGACY) /\ Len(LINUX_PAM_OVERRIDE_MK_TAIL_LEGACY) > 0
      /\ \A l : Contains(LINUX_PAM_OVERRIDE_MK_TAIL_LEGACY, l) <=>
                 l \in {"ifneq LINUX_PAM_VERSION", LINUX_PAM_NO_HASH, "endif"}
  BY ThreeLine DEF LINUX_PAM_OVERRIDE_MK_TAIL_LEGACY
<1>2. /\ IsText(LINUX_PAM_VERSION_OVERRIDE_MK)
      /\ \A l : Contains(LINUX_PAM_VERSION_OVERRIDE_MK, l) <=>
                 l \in {"LINUX_PAM_VERSION_STOCK :=", "ifneq LINUX_PAM_VERSION_OVERRIDE"}
  BY TwoLine DEF LINUX_PAM_VERSION_OVERRIDE_MK
<1>3. LINUX_PAM_VERSION_OVERRIDE_MK[1] = "LINUX_PAM_VERSION_STOCK :="
  BY DEF LINUX_PAM_VERSION_OVERRIDE_MK
<1> QED BY <1>1, <1>2, <1>3

\* A block is put between two lines.
LEMMA BetweenText ==
    ASSUME NEW block, IsText(block), NEW a, NEW b
    PROVE  /\ IsText(<<a>> \o block \o <<b>>)
           /\ \A l : Contains(<<a>> \o block \o <<b>>, l) <=> Contains(block, l) \/ l \in {a, b}
<1>1. IsText(<<a>>) /\ IsText(<<b>>)
  BY OneLine
<1>2. IsText(<<a>> \o block) /\ \A l : Contains(<<a>> \o block, l) <=> l = a \/ Contains(block, l)
  BY <1>1, OneLine, JoinedText
<1> DEFINE c == <<a>> \o block
<1> HIDE DEF c
<1>3. /\ IsText(c \o <<b>>)
      /\ \A l : Contains(c \o <<b>>, l) <=> Contains(c, l) \/ l = b
  BY <1>1, <1>2, OneLine, JoinedText DEF c
<1> QED BY <1>2, <1>3 DEF c

LEMMA StrippedText ==
    ASSUME NEW text, IsText(text), NEW block, IsText(block), Len(block) > 0
    PROVE  /\ IsText(ReplaceFirstSubSeq(<<>>, block, text))
           /\ \A l : Contains(text, l) /\ ~Contains(block, l) =>
                        Contains(ReplaceFirstSubSeq(<<>>, block, text), l)
<1>1. CASE Holds(text, block)
  BY <1>1, ReplacedText, EmptyText
<1>2. CASE ~Holds(text, block)
  BY <1>2 DEF Holds, ReplaceFirstSubSeq
<1> QED BY <1>1, <1>2

\* A version block goes between two lines that belong together.
LEMMA VersionText ==
    ASSUME NEW text, IsText(text), NEW a, NEW b, NEW block, IsText(block), NEW marker,
           Contains(block, marker),
           Unless(marker, text, <<a, b>>, <<a>> \o block \o <<b>>) # SystemExit
    PROVE  LET r == Unless(marker, text, <<a, b>>, <<a>> \o block \o <<b>>) IN
           /\ IsText(r) /\ Contains(r, marker)
           /\ \A l : Contains(text, l) => Contains(r, l)
           /\ Contains(text, marker) => r = text
<1> DEFINE old == <<a, b>>
           new == <<a>> \o block \o <<b>>
           r == Unless(marker, text, old, new)
<1>1. IsText(old) /\ Len(old) > 0 /\ \A l : Contains(old, l) <=> l \in {a, b}
  BY TwoLine
<1>2. /\ IsText(new) /\ Contains(new, marker)
      /\ \A l : Contains(new, l) <=> Contains(block, l) \/ l \in {a, b}
  BY BetweenText
<1> HIDE DEF old, new
<1>3. /\ IsText(r) /\ Contains(r, marker) /\ (Contains(text, marker) => r = text)
      /\ \A l : Contains(text, l) /\ ~Contains(old, l) => Contains(r, l)
  BY <1>1, <1>2, UnlessText DEF old, new
<1>4. ASSUME NEW l, l \in {a, b}, Contains(text, l) PROVE Contains(r, l)
  <2>1. CASE Contains(text, marker)
    BY <1>3, <1>4, <2>1
  <2>2. CASE ~Contains(text, marker)
    <3>1. Holds(text, old) /\ r = ReplaceFirstSubSeq(new, old, text)
      BY <2>2 DEF Unless, Replaced, old, new
    <3> QED BY <1>1, <1>2, <1>4, <3>1, ReplacedText
  <2> QED BY <2>1, <2>2
<1> HIDE DEF r
<1>5. \A l : Contains(text, l) => Contains(r, l)
  BY <1>1, <1>3, <1>4
<1> QED BY <1>3, <1>5 DEF r, old, new

LEMMA PatchedSystemd ==
    ASSUME NEW text, IsText(text), patch_systemd_mk(text) # SystemExit
    PROVE  IsText(patch_systemd_mk(text)) /\ ~Contains(patch_systemd_mk(text), SYSTEMD_NO_HASH)
<1> DEFINE marker == SYSTEMD_VERSION_OVERRIDE_MK[1]
           a == "SYSTEMD_VERSION ="
           b == "SYSTEMD_SITE ="
           version == Unless(marker, text, <<a, b>>, <<a>> \o SYSTEMD_VERSION_OVERRIDE_MK \o <<b>>)
           stripped == ReplaceFirstSubSeq(<<>>, SYSTEMD_OVERRIDE_MK_TAIL_LEGACY, version)
           dropped == drop_br_no_check_hash_for(stripped, SYSTEMD_NO_HASH)
           eval == <<MESON_PACKAGE_EVAL>>
           tail == SYSTEMD_OVERRIDE_MK_TAIL \o eval
           already == "SYSTEMD_CONF_OPTS := $(filter-out"
           r == Unless(already, dropped, eval, tail)
<1>1. version # SystemExit /\ patch_systemd_mk(text) = r
  BY DEF patch_systemd_mk, insert_before_meson_eval, Then
<1>2. IsText(version)
  <2>1. Contains(SYSTEMD_VERSION_OVERRIDE_MK, marker)
    BY SystemdBlocks
  <2> HIDE DEF a, b, marker
  <2> QED BY <1>1, <2>1, SystemdBlocks, VersionText
<1> HIDE DEF version
<1>3. IsText(stripped)
  <2>1. IsText(SYSTEMD_OVERRIDE_MK_TAIL_LEGACY) /\ Len(SYSTEMD_OVERRIDE_MK_TAIL_LEGACY) > 0
    BY SystemdBlocks
  <2> QED BY <1>2, <2>1, StrippedText
<1> HIDE DEF stripped
<1>4. IsText(dropped) /\ ~Contains(dropped, SYSTEMD_NO_HASH)
  BY <1>3, DroppedText
<1>5. IsText(eval) /\ Len(eval) > 0 /\ ~Contains(eval, SYSTEMD_NO_HASH)
  <2>1. SYSTEMD_NO_HASH # MESON_PACKAGE_EVAL
    BY DEF MESON_PACKAGE_EVAL, SYSTEMD_NO_HASH
  <2> QED BY <2>1, OneLine
<1> HIDE DEF eval
<1>6. IsText(tail) /\ Contains(tail, already) /\ ~Contains(tail, SYSTEMD_NO_HASH)
  <2>1. /\ Contains(SYSTEMD_OVERRIDE_MK_TAIL, already)
        /\ ~Contains(SYSTEMD_OVERRIDE_MK_TAIL, SYSTEMD_NO_HASH)
    <3>1. SYSTEMD_NO_HASH \notin {"# dropped options", "SYSTEMD_CONF_OPTS := $(filter-out", "endif"}
      BY DEF SYSTEMD_NO_HASH
    <3> QED BY <3>1, SystemdBlocks
  <2> QED BY <1>5, <2>1, JoinedText, SystemdBlocks
<1> HIDE DEF dropped, tail, already
<1>7. IsText(r) /\ \A l : Contains(r, l) => Contains(dropped, l) \/ Contains(tail, l)
  BY <1>1, <1>4, <1>5, <1>6, UnlessText
<1> QED BY <1>1, <1>4, <1>6, <1>7

LEMMA PatchedLinuxPam ==
    ASSUME NEW text, IsText(text), patch_linux_pam_mk(text) # SystemExit
    PROVE  /\ IsText(patch_linux_pam_mk(text))
           /\ ~Contains(patch_linux_pam_mk(text), LINUX_PAM_NO_HASH)
<1> DEFINE marker == LINUX_PAM_VERSION_OVERRIDE_MK[1]
           a == "LINUX_PAM_VERSION ="
           b == "LINUX_PAM_SOURCE ="
           version == Unless(marker, text, <<a, b>>,
                             <<a>> \o LINUX_PAM_VERSION_OVERRIDE_MK \o <<b>>)
           stripped == ReplaceFirstSubSeq(<<>>, LINUX_PAM_OVERRIDE_MK_TAIL_LEGACY, version)
<1>1. /\ version # SystemExit
      /\ patch_linux_pam_mk(text) = drop_br_no_check_hash_for(stripped, LINUX_PAM_NO_HASH)
  BY DEF patch_linux_pam_mk, Then
<1>2. IsText(version)
  <2>1. Contains(LINUX_PAM_VERSION_OVERRIDE_MK, marker)
    BY LinuxPamBlocks
  <2> HIDE DEF a, b, marker
  <2> QED BY <1>1, <2>1, LinuxPamBlocks, VersionText
<1> HIDE DEF version
<1>3. IsText(stripped)
  <2>1. IsText(LINUX_PAM_OVERRIDE_MK_TAIL_LEGACY) /\ Len(LINUX_PAM_OVERRIDE_MK_TAIL_LEGACY) > 0
    BY LinuxPamBlocks
  <2> QED BY <1>2, <2>1, StrippedText
<1> HIDE DEF stripped
<1> QED BY <1>1, <1>3, DroppedText

-----------------------------------------------------------------------------
(* The target-finalize rule of the Makefile                                *)

\* FirstIn finds the first line, and none outside its bounds.
LEMMA FirstInText ==
    ASSUME NEW text, NEW from \in Nat \ {0}, NEW to \in Nat, NEW S
    PROVE  LET i == FirstIn(text, from, to, S) IN
           \/ i = 0 /\ \A j \in from..to : text[j] \notin S
           \/ i \in from..to /\ text[i] \in S /\ \A j \in from..(i - 1) : text[j] \notin S
<1> DEFINE I == {j \in from..to : text[j] \in S}
<1>1. FirstIn(text, from, to, S) = IF I # {} THEN Min(I) ELSE 0
  BY DEF FirstIn, SelectInSubSeq
<1>2. CASE I = {}
  BY <1>1, <1>2
<1>3. CASE I # {}
  <2>1. PICK x \in I : \A y \in I : x <= y
    <3>1. I \in SUBSET (0..to)
      OBVIOUS
    <3> HIDE DEF I
    <3> QED BY <1>3, <3>1, Least
  <2>2. Min(I) \in I /\ \A y \in I : Min(I) <= y
    BY <2>1 DEF Min
  <2> QED BY <1>1, <1>3, <2>2
<1> QED BY <1>2, <1>3

LEMMA SpanInText ==
    ASSUME NEW text, IsText(text)
    PROVE  LET span == find_target_finalize_span(text) IN
           /\ span.start \in 0..Len(text) /\ span.end \in 0..Len(text)
           /\ span.end >= span.start
<1>1. PICK A : text \in Seq(A)
  BY DEF IsText
<1> DEFINE start == FirstIn(text, 1, Len(text), {".PHONY: target-finalize"})
           next == FirstIn(text, start + 1, Len(text), PHONY)
<1>2. Len(text) \in Nat
  BY <1>1
<1>3. start \in 0..Len(text)
  <2> DEFINE S == {".PHONY: target-finalize"}
  <2> HIDE DEF S
  <2>1. LET i == FirstIn(text, 1, Len(text), S) IN i = 0 \/ i \in 1..Len(text)
    BY <1>2, FirstInText
  <2>2. start = 0 \/ start \in 1..Len(text)
    BY <2>1 DEF S
  <2> HIDE DEF start
  <2> QED BY <1>2, <2>2
<1>4. find_target_finalize_span(text) =
        [start |-> start, end |-> IF next = 0 THEN Len(text) ELSE next - 1]
  BY DEF find_target_finalize_span, SpanFrom
<1> HIDE DEF start
<1>5. next = 0 \/ next \in (start + 1)..Len(text)
  <2>1. start + 1 \in Nat \ {0}
    BY <1>3
  <2> QED BY <1>2, <2>1, FirstInText
<1> HIDE DEF next
<1> QED BY <1>2, <1>3, <1>4, <1>5

LEMMA InRuleText ==
    ASSUME NEW text, IsText(text), NEW S
    PROVE  LET span == find_target_finalize_span(text)
               i == InRule(text, span, S)
           IN  i = 0 \/ (i \in 1..span.end /\ text[i] \in S)
<1> DEFINE span == find_target_finalize_span(text)
<1>1. span.start \in 0..Len(text) /\ span.end \in 0..Len(text)
  BY SpanInText
<1>2. Len(text) \in Nat
  BY DEF IsText
<1> HIDE DEF span
<1>3. CASE span.start = 0
  BY <1>3 DEF InRule, span
<1>4. CASE span.start # 0
  <2>1. span.start \in Nat \ {0} /\ span.end \in Nat
    BY <1>1, <1>2, <1>4
  <2>2. LET i == FirstIn(text, span.start, span.end, S) IN
           i = 0 \/ (i \in span.start..span.end /\ text[i] \in S)
    BY <2>1, FirstInText
  <2>3. InRule(text, span, S) = FirstIn(text, span.start, span.end, S)
    BY <1>4 DEF InRule
  <2> QED BY <2>1, <2>2, <2>3 DEF span
<1> QED BY <1>3, <1>4

LEMMA PartsText ==
    ASSUME NEW text, IsText(text), NEW i \in 1..(Len(text) + 1), NEW j \in Nat,
           i <= j + 1, j <= Len(text)
    PROVE  /\ IsText(SubSeq(text, 1, i - 1)) /\ IsText(SubSeq(text, i, j))
           /\ IsText(SubSeq(text, j + 1, Len(text)))
           /\ \A l : Contains(text, l) <=>
                \/ Contains(SubSeq(text, 1, i - 1), l) \/ Contains(SubSeq(text, i, j), l)
                \/ Contains(SubSeq(text, j + 1, Len(text)), l)
<1>1. PICK A : text \in Seq(A)
  BY DEF IsText
<1> DEFINE a == SubSeq(text, 1, i - 1)
           b == SubSeq(text, i, j)
           c == SubSeq(text, j + 1, Len(text))
<1>2. /\ a \in Seq(A) /\ Len(a) = i - 1 /\ \A k \in 1..(i - 1) : a[k] = text[k]
  BY <1>1
<1>3. /\ b \in Seq(A) /\ Len(b) = j - i + 1 /\ \A k \in 1..(j - i + 1) : b[k] = text[i + k - 1]
  BY <1>1
<1>4. /\ c \in Seq(A) /\ Len(c) = Len(text) - j
      /\ \A k \in 1..(Len(text) - j) : c[k] = text[j + k]
  BY <1>1
<1>5. Len(text) \in Nat
  BY <1>1
<1>6. IsText(a) /\ IsText(b) /\ IsText(c)
  BY <1>2, <1>3, <1>4 DEF IsText
<1> HIDE DEF a, b, c
<1>7. ASSUME NEW l, Contains(text, l) PROVE Contains(a, l) \/ Contains(b, l) \/ Contains(c, l)
  <2>1. PICK k \in 1..Len(text) : text[k] = l
    BY <1>7 DEF Contains
  <2>2. CASE k \in 1..(i - 1)
    BY <1>2, <2>1, <2>2 DEF Contains
  <2>3. CASE k \in i..j
    <3>1. k - i + 1 \in 1..(j - i + 1) /\ i + (k - i + 1) - 1 = k
      BY <2>3
    <3> QED BY <1>3, <2>1, <3>1 DEF Contains
  <2>4. CASE k \in (j + 1)..Len(text)
    <3>1. k - j \in 1..(Len(text) - j) /\ j + (k - j) = k
      BY <1>5, <2>4
    <3> QED BY <1>4, <2>1, <3>1 DEF Contains
  <2> QED BY <1>5, <2>2, <2>3, <2>4
<1>8. ASSUME NEW l, Contains(a, l) \/ Contains(b, l) \/ Contains(c, l) PROVE Contains(text, l)
  <2>1. CASE Contains(a, l)
    BY <1>2, <1>5, <2>1 DEF Contains
  <2>2. CASE Contains(b, l)
    <3>1. PICK k \in 1..(j - i + 1) : b[k] = l
      BY <1>3, <2>2 DEF Contains
    <3>2. i + k - 1 \in 1..Len(text)
      BY <1>5
    <3> QED BY <1>3, <3>1, <3>2 DEF Contains
  <2>3. CASE Contains(c, l)
    <3>1. PICK k \in 1..(Len(text) - j) : c[k] = l
      BY <1>4, <2>3 DEF Contains
    <3>2. j + k \in 1..Len(text)
      BY <1>5
    <3> QED BY <1>4, <3>1, <3>2 DEF Contains
  <2> QED BY <1>8, <2>1, <2>2, <2>3
<1> QED BY <1>6, <1>7, <1>8 DEF a, b, c

\* The block that patch_makefile puts in the place of an rm -rf.
LEMMA ReplacedLine ==
    ASSUME NEW text, IsText(text), NEW i \in 1..Len(text), NEW block, IsText(block)
    PROVE  LET r == InsertBlock(RemoveAt(text, i), i, block) IN
           IsText(r) /\ \A l : Contains(text, l) /\ l # text[i] => Contains(r, l)
<1> DEFINE left == RemoveAt(text, i)
           a == SubSeq(text, 1, i - 1)
           b == SubSeq(text, i, i)
           c == SubSeq(text, i + 1, Len(text))
<1>0. Len(text) \in Nat
  BY DEF IsText
<1>1. /\ IsText(a) /\ IsText(b) /\ IsText(c)
      /\ \A l : Contains(text, l) <=> Contains(a, l) \/ Contains(b, l) \/ Contains(c, l)
  BY <1>0, PartsText
<1>2. \A l : Contains(b, l) => l = text[i]
  <2>1. PICK A : text \in Seq(A)
    BY DEF IsText
  <2>2. Len(b) = 1 /\ b[1] = text[i]
    BY <2>1
  <2> HIDE DEF b
  <2> QED BY <2>2 DEF Contains
<1>a. Len(a) = i - 1 /\ Len(c) = Len(text) - i
  BY DEF IsText
<1>3. left = a \o c
  BY DEF RemoveAt
<1> HIDE DEF a, b, c
<1>4. IsText(left) /\ \A l : Contains(left, l) <=> Contains(a, l) \/ Contains(c, l)
  BY <1>1, <1>3, JoinedText
<1>5. Len(left) = Len(text) - 1
  <2>1. Len(left) = Len(a) + Len(c)
    BY <1>1, <1>3, JoinedText
  <2> QED BY <1>0, <1>a, <2>1
<1> HIDE DEF left
<1> DEFINE k == i - 1
           d == SubSeq(left, 1, i - 1)
           e == SubSeq(left, i, k)
           f == SubSeq(left, k + 1, Len(left))
<1>b. i \in 1..(Len(left) + 1) /\ k \in Nat /\ i <= k + 1 /\ k <= Len(left) /\ k + 1 = i /\ k < i
  BY <1>0, <1>5
<1> HIDE DEF k
<1>6. /\ IsText(d) /\ IsText(f)
      /\ \A l : Contains(left, l) <=> Contains(d, l) \/ Contains(e, l) \/ Contains(f, l)
  BY <1>4, <1>b, PartsText
<1>7. \A l : ~Contains(e, l)
  <2>1. PICK A : left \in Seq(A)
    BY <1>4 DEF IsText
  <2>2. Len(e) = 0
    BY <1>b, <2>1
  <2> HIDE DEF e
  <2> QED BY <2>2 DEF Contains
<1>8. InsertBlock(left, i, block) = (d \o block) \o f
  <2>1. f = SubSeq(left, i, Len(left))
    BY <1>b
  <2> HIDE DEF f, d
  <2> QED BY <2>1 DEF InsertBlock, d
<1> HIDE DEF d, e, f
<1>9. IsText(d \o block) /\ \A l : Contains(d \o block, l) <=> Contains(d, l) \/ Contains(block, l)
  BY <1>6, JoinedText
<1> DEFINE g == d \o block
<1> HIDE DEF g
<1>10. IsText(g \o f) /\ \A l : Contains(g \o f, l) <=> Contains(g, l) \/ Contains(f, l)
  BY <1>6, <1>9, JoinedText DEF g
<1>11. ASSUME NEW l, Contains(text, l), l # text[i] PROVE Contains(g \o f, l)
  BY <1>1, <1>2, <1>4, <1>6, <1>7, <1>9, <1>10, <1>11 DEF g
<1> QED BY <1>8, <1>10, <1>11 DEF g, left

LEMMA ReplacedAt ==
    ASSUME NEW text, IsText(text), NEW i \in 1..Len(text), NEW new
    PROVE  /\ IsText(ReplaceAt(text, i, new))
           /\ Len(ReplaceAt(text, i, new)) = Len(text)
           /\ ReplaceAt(text, i, new)[i] = new
           /\ \A j \in 1..Len(text) : j # i => ReplaceAt(text, i, new)[j] = text[j]
           /\ \A l : Contains(text, l) /\ l # text[i] => Contains(ReplaceAt(text, i, new), l)
<1>1. PICK A : text \in Seq(A)
  BY DEF IsText
<1> DEFINE r == ReplaceAt(text, i, new)
<1>2. text \in Seq(A \cup {new})
  BY <1>1, SeqGrows
<1>3. /\ r \in Seq(A \cup {new}) /\ Len(r) = Len(text) /\ Len(text) \in Nat
      /\ r[i] = new /\ \A j \in 1..Len(text) : j # i => r[j] = text[j]
  BY <1>2 DEF ReplaceAt
<1>4. IsText(r)
  BY <1>3 DEF IsText
<1> HIDE DEF r
<1>5. \A l : Contains(text, l) /\ l # text[i] => Contains(r, l)
  BY <1>3 DEF Contains
<1> QED BY <1>3, <1>4, <1>5 DEF r

\* What strip_usr_doc_from_first_rm and wrap_man_purge_block take out.
Rewritten == {"rm -rf usr/include usr/doc", "# rm -rf usr/doc"}

LEMMA StrippedMakefile ==
    ASSUME NEW text, IsText(text), NEW rm \in 0..Len(text),
           StripAt(text, rm, LineAfter(text, rm)) # SystemExit
    PROVE  LET r == StripAt(text, rm, LineAfter(text, rm)) IN
           IsText(r) /\ \A l : Contains(text, l) /\ l \notin Rewritten => Contains(r, l)
<1> DEFINE r == StripAt(text, rm, LineAfter(text, rm))
           two == <<"rm -rf usr/include", USR_DOC_COMMENT>>
           live == text[rm] = "rm -rf usr/include usr/doc"
           done == LineAfter(text, rm) = USR_DOC_COMMENT
           dead == LineAfter(text, rm) = "# rm -rf usr/doc"
           x == InsertBlock(RemoveAt(text, rm), rm, two)
           y == ReplaceAt(text, rm + 1, USR_DOC_COMMENT)
<1>1. r = IF rm = 0 THEN SystemExit ELSE IF live THEN x ELSE IF done THEN text
           ELSE IF dead THEN y ELSE SystemExit
  BY Zenon DEF StripAt
<1>2. live => text[rm] \in Rewritten
  BY DEF Rewritten
<1>3. dead => rm < Len(text) /\ text[rm + 1] \in Rewritten
  <2> DEFINE l == "# rm -rf usr/doc"
  <2>1. l \in Rewritten /\ l # ""
    BY DEF Rewritten
  <2> HIDE DEF l
  <2> SUFFICES ASSUME LineAfter(text, rm) = l PROVE rm < Len(text) /\ text[rm + 1] \in Rewritten
    BY DEF l
  <2>2. rm < Len(text) /\ text[rm + 1] = l
    <3> DEFINE empty == ""
    <3>1. l # empty /\ LineAfter(text, rm) = IF rm < Len(text) THEN text[rm + 1] ELSE empty
      BY <2>1 DEF LineAfter
    <3> HIDE DEF empty
    <3> QED BY <3>1
  <2> QED BY <2>1, <2>2
<1>4. IsText(two)
  BY TwoLine
<1>5. r # SystemExit
  OBVIOUS
<1> HIDE DEF r, two, live, done, dead
<1>6. Len(text) \in Nat
  BY DEF IsText
<1> HIDE DEF x, y
<1>7. /\ rm # 0
      /\ (live /\ r = x) \/ (r = text) \/ (dead /\ r = y)
  BY <1>1, <1>5
<1>8. rm \in 1..Len(text)
  BY <1>6, <1>7
<1>9. CASE live /\ r = x
  BY <1>2, <1>4, <1>8, <1>9, ReplacedLine DEF r, x
<1>10. CASE dead /\ r = y
  <2>1. rm + 1 \in 1..Len(text)
    BY <1>3, <1>6, <1>8, <1>10
  <2> QED BY <1>3, <1>10, <2>1, ReplacedAt DEF r, y
<1> QED BY <1>7, <1>9, <1>10 DEF r

LEMMA WrappedMakefile ==
    ASSUME NEW text, IsText(text), NEW man \in 0..Len(text), NEW rmdir \in 0..Len(text),
           rmdir # 0 => man <= rmdir,
           WrapAt(text, man, rmdir) # SystemExit
    PROVE  LET r == WrapAt(text, man, rmdir) IN
           IsText(r) /\ \A l : Contains(text, l) => Contains(r, l)
<1>1. CASE WrapAt(text, man, rmdir) = text
  BY <1>1
<1>2. CASE WrapAt(text, man, rmdir) # text
  <2> DEFINE a == SubSeq(text, 1, man - 1)
             b == SubSeq(text, man, rmdir)
             c == SubSeq(text, rmdir + 1, Len(text))
             ifneq == <<KEEP_DOCS_IFNEQ>>
             endif == <<"endif">>
  <2>1. man # 0 /\ rmdir # 0 /\ WrapAt(text, man, rmdir) = a \o ifneq \o b \o endif \o c
    BY <1>2 DEF WrapAt
  <2>2. IsText(ifneq) /\ IsText(endif)
    BY OneLine
  <2>3. Len(text) \in Nat
    BY DEF IsText
  <2>4. /\ IsText(a) /\ IsText(b) /\ IsText(c)
        /\ \A l : Contains(text, l) <=> Contains(a, l) \/ Contains(b, l) \/ Contains(c, l)
    <3>1. /\ man \in 1..(Len(text) + 1) /\ rmdir \in Nat /\ man <= rmdir + 1
          /\ rmdir <= Len(text)
      BY <2>1, <2>3
    <3> QED BY <3>1, PartsText
  <2> HIDE DEF a, b, c, ifneq, endif
  <2>5. IsText(a \o ifneq) /\ \A l : Contains(a, l) => Contains(a \o ifneq, l)
    BY <2>2, <2>4, JoinedText
  <2> DEFINE d == a \o ifneq
  <2> HIDE DEF d
  <2>6. IsText(d \o b) /\ \A l : Contains(d \o b, l) <=> Contains(d, l) \/ Contains(b, l)
    BY <2>4, <2>5, JoinedText DEF d
  <2> DEFINE e == d \o b
  <2> HIDE DEF e
  <2>7. IsText(e \o endif) /\ \A l : Contains(e, l) => Contains(e \o endif, l)
    BY <2>2, <2>6, JoinedText DEF e
  <2> DEFINE f == e \o endif
  <2> HIDE DEF f
  <2>8. IsText(f \o c) /\ \A l : Contains(f \o c, l) <=> Contains(f, l) \/ Contains(c, l)
    BY <2>4, <2>7, JoinedText DEF f
  <2>9. WrapAt(text, man, rmdir) = f \o c
    BY <2>1 DEF d, e, f
  <2> QED BY <2>4, <2>5, <2>6, <2>7, <2>8, <2>9 DEF d, e, f
<1> QED BY <1>1, <1>2

LEMMA PatchedMakefile ==
    ASSUME NEW text, IsText(text), patch_makefile(text) # SystemExit
    PROVE  /\ IsText(patch_makefile(text))
           /\ \A l : Contains(text, l) /\ l \notin Rewritten => Contains(patch_makefile(text), l)
<1> DEFINE span == find_target_finalize_span(text)
           rule == InRule(text, span, {"target-finalize:"})
           rm == FirstRm(text, rule, span)
           t == strip_usr_doc_from_first_rm(text, span)
           span2 == find_target_finalize_span(t)
           man == InRule(t, span2, {"rm -rf usr/man"})
           rmdir == IF man = 0 THEN 0 ELSE FirstIn(t, man, span2.end, {"rmdir usr/share"})
<1>1. t # SystemExit /\ patch_makefile(text) = WrapAt(t, man, rmdir)
  BY DEF patch_makefile, Then, wrap_man_purge_block
<1>2. t = StripAt(text, rm, LineAfter(text, rm))
  BY DEF strip_usr_doc_from_first_rm
<1>3. span.end \in 0..Len(text)
  BY SpanInText
<1>4. rule = 0 \/ rule \in 1..span.end
  <2> DEFINE S == {"target-finalize:"}
  <2> HIDE DEF S
  <2>1. LET i == InRule(text, span, S) IN i = 0 \/ i \in 1..span.end
    BY InRuleText
  <2> QED BY <2>1 DEF S
<1>5. Len(text) \in Nat
  BY DEF IsText
<1> HIDE DEF span, rule, t
<1>6. rm \in 0..Len(text)
  <2>1. CASE rule = 0
    BY <1>5, <2>1 DEF FirstRm
  <2>2. CASE rule # 0
    <3>1. rule + 1 \in Nat \ {0} /\ span.end \in Nat
      BY <1>3, <1>4, <1>5, <2>2
    <3>2. rm = FirstIn(text, rule + 1, span.end, RmRf)
      BY <2>2 DEF FirstRm
    <3>3. rm = 0 \/ rm \in (rule + 1)..span.end
      BY <3>1, <3>2, FirstInText
    <3> HIDE DEF rm
    <3> QED BY <1>3, <1>4, <1>5, <2>2, <3>3
  <2> QED BY <2>1, <2>2
<1> HIDE DEF rm
<1>7. IsText(t) /\ \A l : Contains(text, l) /\ l \notin Rewritten => Contains(t, l)
  BY <1>1, <1>2, <1>6, StrippedMakefile
<1>8. span2.end \in 0..Len(t)
  BY <1>7, SpanInText
<1>9. man = 0 \/ man \in 1..span2.end
  <2> DEFINE S == {"rm -rf usr/man"}
  <2> HIDE DEF S
  <2>1. LET i == InRule(t, span2, S) IN i = 0 \/ i \in 1..span2.end
    BY <1>7, InRuleText
  <2> QED BY <2>1 DEF S
<1>10. Len(t) \in Nat
  BY <1>7 DEF IsText
<1> HIDE DEF span2, man
<1>11. rmdir = 0 \/ (man # 0 /\ rmdir \in man..span2.end)
  <2>1. CASE man = 0
    BY <2>1
  <2>2. CASE man # 0
    <3> DEFINE S == {"rmdir usr/share"}
    <3> HIDE DEF S
    <3>1. man \in Nat \ {0} /\ span2.end \in Nat
      BY <1>8, <1>9, <1>10, <2>2
    <3>2. LET i == FirstIn(t, man, span2.end, S) IN i = 0 \/ i \in man..span2.end
      BY <3>1, FirstInText
    <3>3. rmdir = FirstIn(t, man, span2.end, S)
      BY <2>2 DEF S
    <3> QED BY <2>2, <3>2, <3>3
  <2> QED BY <2>1, <2>2
<1> HIDE DEF rmdir
<1>12. /\ man \in 0..Len(t) /\ rmdir \in 0..Len(t) /\ (rmdir # 0 => man <= rmdir)
  BY <1>8, <1>9, <1>10, <1>11
<1>13. LET r == WrapAt(t, man, rmdir) IN IsText(r) /\ \A l : Contains(t, l) => Contains(r, l)
  BY <1>1, <1>7, <1>12, WrappedMakefile
<1> QED BY <1>1, <1>7, <1>13

-----------------------------------------------------------------------------
(* Idempotence: a patch has nothing to do in its own result               *)

\* Unless does nothing the second time.
LEMMA UnlessTwice ==
    ASSUME NEW text, NEW old, NEW new, NEW marker, Contains(text, marker)
    PROVE  Unless(marker, text, old, new) = text
BY DEF Unless

\* One line for another, wherever it stands.
LEMMA ReplacedAll ==
    ASSUME NEW text, IsText(text), NEW a, NEW b
    PROVE  LET r == ReplaceAll(text, a, b) IN
           /\ IsText(r)
           /\ a # b => ~Contains(r, a)
           /\ \A l : l \notin {a, b} => (Contains(r, l) <=> Contains(text, l))
           /\ Contains(text, a) \/ Contains(text, b) <=> Contains(r, b)
           /\ ~Contains(text, a) => r = text
<1>1. PICK A : text \in Seq(A)
  BY DEF IsText
<1> DEFINE r == ReplaceAll(text, a, b)
<1>2. text \in Seq(A \cup {b})
  BY <1>1, SeqGrows
<1>3. /\ r \in Seq(A \cup {b}) /\ Len(r) = Len(text) /\ Len(text) \in Nat
      /\ \A i \in 1..Len(text) : r[i] = IF text[i] = a THEN b ELSE text[i]
  BY <1>2 DEF ReplaceAll
<1>4. IsText(r)
  BY <1>3 DEF IsText
<1>5. ASSUME ~Contains(text, a) PROVE r = text
  BY <1>2, <1>3, <1>5 DEF Contains
<1> HIDE DEF r
<1>6. a # b => ~Contains(r, a)
  BY <1>3 DEF Contains
<1>7. ASSUME NEW l, l \notin {a, b} PROVE Contains(r, l) <=> Contains(text, l)
  BY <1>3, <1>7 DEF Contains
<1>8. Contains(text, a) \/ Contains(text, b) <=> Contains(r, b)
  BY <1>3 DEF Contains
<1> QED BY <1>4, <1>5, <1>6, <1>7, <1>8 DEF r

LEMMA IncludedTwice ==
    ASSUME NEW text, IsText(text), NEW block, IsText(block), Contains(block, block[2])
    PROVE  included(included(text, block), block) = included(text, block)
BY IncludedText DEF included

\* Of a set of numbers up to n, the greatest.
LEMMA Greatest ==
    ASSUME NEW n \in Nat, NEW S \in SUBSET (0..n), S # {}
    PROVE  \E x \in S : \A y \in S : x >= y
<1> DEFINE T == {n - x : x \in S}
<1>1. T \in SUBSET (0..n) /\ T # {}
  <2>1. \A x \in S : x \in 0..n /\ n - x \in 0..n
    OBVIOUS
  <2>2. T \in SUBSET (0..n)
    BY <2>1
  <2>3. PICK x \in S : TRUE
    OBVIOUS
  <2>4. n - x \in T
    BY <2>3
  <2> QED BY <2>2, <2>4
<1> HIDE DEF T
<1>2. PICK t \in T : \A u \in T : t <= u
  BY <1>1, Least
<1>3. PICK x \in S : t = n - x
  BY DEF T
<1>4. ASSUME NEW y \in S PROVE x >= y
  <2>1. n - y \in T
    BY DEF T
  <2>2. n - x <= n - y /\ x \in Nat /\ y \in Nat
    BY <1>2, <1>3, <2>1
  <2> QED BY <2>2
<1> QED BY <1>4

\* The option of Config.in is put in once.
LEMMA InsertedText ==
    ASSUME NEW text, IsText(text), NEW i \in 1..Len(text), NEW block, IsText(block)
    PROVE  /\ IsText(InsertBlock(text, i, block))
           /\ \A l : Contains(block, l) => Contains(InsertBlock(text, i, block), l)
<1> DEFINE a == SubSeq(text, 1, i - 1)
           c == SubSeq(text, i, Len(text))
<1>1. IsText(a) /\ IsText(c)
  <2>1. i <= (i - 1) + 1 /\ i - 1 <= Len(text) /\ i - 1 \in Nat /\ i \in 1..(Len(text) + 1)
    BY DEF IsText
  <2>2. (i - 1) + 1 = i
    OBVIOUS
  <2>3. IsText(SubSeq(text, (i - 1) + 1, Len(text))) /\ IsText(a)
    BY <2>1, PartsText
  <2> QED BY <2>2, <2>3
<1>2. InsertBlock(text, i, block) = (a \o block) \o c
  BY DEF InsertBlock
<1> HIDE DEF a, c
<1>3. IsText(a \o block) /\ \A l : Contains(block, l) => Contains(a \o block, l)
  BY <1>1, JoinedText
<1> DEFINE b == a \o block
<1> HIDE DEF b
<1>4. IsText(b \o c) /\ \A l : Contains(b, l) => Contains(b \o c, l)
  BY <1>1, <1>3, JoinedText DEF b
<1> QED BY <1>2, <1>3, <1>4 DEF b

LEMMA ConfigInTwice ==
    ASSUME NEW text, IsText(text), patch_config_in(text) # SystemExit
    PROVE  patch_config_in(patch_config_in(text)) = patch_config_in(text)
<1> DEFINE symbol == KEEP_MAN_OPTION_BLOCK[1]
           r == patch_config_in(text)
<1>1. CASE Contains(text, symbol)
  BY <1>1 DEF patch_config_in
<1>2. CASE ~Contains(text, symbol)
  <2> DEFINE I == {i \in 1..Len(text) : text[i] = "endmenu"}
             i == find_last_endmenu(text)
  <2>1. i # 0 /\ r = InsertBlock(text, i, KEEP_MAN_OPTION_BLOCK)
    BY <1>2 DEF patch_config_in
  <2>2. i \in 1..Len(text)
    <3>1. i = IF I # {} THEN Max(I) ELSE 0
      BY DEF find_last_endmenu, SelectLastInSeq
    <3>2. I \in SUBSET (0..Len(text)) /\ Len(text) \in Nat /\ I \subseteq 1..Len(text)
      BY DEF IsText
    <3> HIDE DEF I
    <3>3. Max(I) \in I
      <4>1. PICK x \in I : \A y \in I : x >= y
        BY <2>1, <3>1, <3>2, Greatest
      <4> QED BY <4>1 DEF Max
    <3> QED BY <2>1, <3>1, <3>2, <3>3
  <2>3. IsText(KEEP_MAN_OPTION_BLOCK) /\ Contains(KEEP_MAN_OPTION_BLOCK, symbol)
    <3>1. IsText(KEEP_MAN_OPTION_BLOCK)
      BY TwoLine DEF KEEP_MAN_OPTION_BLOCK
    <3>2. symbol = "config BR2_KEEP_MAN_PAGES_DOCS"
      BY DEF KEEP_MAN_OPTION_BLOCK
    <3>3. Contains(KEEP_MAN_OPTION_BLOCK, "config BR2_KEEP_MAN_PAGES_DOCS")
      BY TwoLine DEF KEEP_MAN_OPTION_BLOCK
    <3> HIDE DEF symbol
    <3> QED BY <3>1, <3>2, <3>3
  <2> HIDE DEF i, r
  <2>4. Contains(r, symbol)
    BY <2>1, <2>2, <2>3, InsertedText
  <2> QED BY <2>4 DEF patch_config_in, r
<1> QED BY <1>1, <1>2

\* What has been put in stands there.
LEMMA SpliceHolds ==
    ASSUME NEW A, NEW text \in Seq(A), NEW new \in Seq(A),
           NEW i \in 1..(Len(text) + 1), NEW n \in Nat, i + n <= Len(text) + 1
    PROVE  Holds(Splice(text, i, n, new), new)
<1> DEFINE r == Splice(text, i, n, new)
           m == Len(new)
<1>1. r \in Seq(A) /\ Len(r) = Len(text) - n + m /\ \A j \in 1..m : r[i - 1 + j] = new[j]
  BY SpliceLines
<1>2. m \in Nat /\ Len(text) \in Nat
  OBVIOUS
<1> HIDE DEF r
<1> DEFINE s == SubSeq(r, i, i + m - 1)
<1>3. i + m - 1 <= Len(r) /\ i + m - 1 \in 0..Len(r) /\ i - 1 \in 0..Len(r) /\ (i - 1) + 1 = i
  BY <1>1, <1>2
<1>4. s \in Seq(A) /\ Len(s) = m /\ \A j \in 1..m : s[j] = r[i + j - 1]
  BY <1>1, <1>2, <1>3
<1> HIDE DEF s
<1>5. \A j \in 1..m : i + j - 1 = i - 1 + j
  BY <1>2
<1>6. \A j \in 1..m : s[j] = new[j]
  BY <1>1, <1>4, <1>5
<1>7. new = s
  BY <1>4, <1>6
<1>8. \E p \in 0..Len(r), q \in 0..Len(r) : new = SubSeq(r, p + 1, q)
  BY <1>3, <1>7 DEF s
<1> QED BY <1>8, Blocks DEF r, Holds

\* A block that has been put in stands there.
LEMMA ReplacedHolds ==
    ASSUME NEW text, NEW old, NEW new, IsText(text), IsText(old), IsText(new),
           Len(old) > 0, Holds(text, old)
    PROVE  Holds(ReplaceFirstSubSeq(new, old, text), new)
<1>1. PICK B : text \in Seq(B) /\ old \in Seq(B)
  BY Common
<1>2. PICK C : new \in Seq(C)
  BY DEF IsText
<1> DEFINE A == B \cup C
<1>3. text \in Seq(A) /\ old \in Seq(A) /\ new \in Seq(A)
  BY <1>1, <1>2, SeqGrows
<1> HIDE DEF A
<1>4. PICK i \in 1..Len(text) :
         /\ i + Len(old) <= Len(text) + 1
         /\ ReplaceFirstSubSeq(new, old, text) = Splice(text, i, Len(old), new)
  BY <1>3, FirstBlock
<1>5. Len(old) \in Nat /\ i \in 1..(Len(text) + 1)
  BY <1>3
<1>6. Holds(Splice(text, i, Len(old), new), new)
  BY <1>3, <1>4, <1>5, SpliceHolds
<1> QED BY <1>4, <1>6

\* A marker that has been put in makes the next call leave the text alone.
LEMMA MarkedTwice ==
    ASSUME NEW text, NEW old, NEW new, NEW marker, IsText(text), IsText(old), IsText(new),
           Len(old) > 0, Contains(new, marker), Unless(marker, text, old, new) # SystemExit
    PROVE  Unless(marker, Unless(marker, text, old, new), old, new) = Unless(marker, text, old, new)
BY UnlessText, UnlessTwice

LEMMA KconfigTwice ==
    ASSUME NEW text, IsText(text), NEW if_line, NEW symbol, NEW block, IsText(block),
           Contains(block, symbol),
           insert_kconfig_after_if(text, if_line, symbol, block) # SystemExit
    PROVE  LET r == insert_kconfig_after_if(text, if_line, symbol, block)
           IN  insert_kconfig_after_if(r, if_line, symbol, block) = r
<1> DEFINE old == <<if_line>>
           new == old \o block
<1>1. IsText(old) /\ Len(old) > 0
  BY OneLine
<1> HIDE DEF old
<1>2. IsText(new) /\ Contains(new, symbol)
  BY <1>1, JoinedText
<1> HIDE DEF new
<1>3. \A t : insert_kconfig_after_if(t, if_line, symbol, block) = Unless(symbol, t, old, new)
  BY DEF insert_kconfig_after_if, old, new
<1> QED BY <1>1, <1>2, <1>3, MarkedTwice

LEMMA AppendedTwice ==
    ASSUME NEW text, IsText(text), NEW if_line, NEW symbol, NEW block, IsText(block),
           Contains(block, symbol)
    PROVE  LET r == append_kconfig_if_block(text, if_line, symbol, block)
           IN  append_kconfig_if_block(r, if_line, symbol, block) = r
<1> DEFINE r == append_kconfig_if_block(text, if_line, symbol, block)
           a == text \o <<if_line>>
           b == a \o block
<1>1. CASE Contains(text, symbol)
  BY <1>1 DEF append_kconfig_if_block
<1>2. CASE ~Contains(text, symbol)
  <2>1. IsText(a)
    BY OneLine, JoinedText
  <2> HIDE DEF a
  <2>2. IsText(b) /\ Contains(b, symbol)
    BY <2>1, JoinedText
  <2> HIDE DEF b
  <2>3. Contains(b \o <<"endif">>, symbol)
    <3>1. IsText(<<"endif">>)
      BY OneLine
    <3> QED BY <2>2, <3>1, JoinedText
  <2>4. r = b \o <<"endif">>
    BY <1>2 DEF append_kconfig_if_block, a, b
  <2> HIDE DEF r
  <2>5. Contains(r, symbol)
    BY <2>3, <2>4
  <2> QED BY <2>5 DEF append_kconfig_if_block, r
<1> QED BY <1>1, <1>2

LEMMA SystemdTwice ==
    ASSUME NEW text, IsText(text), patch_systemd_mk(text) # SystemExit
    PROVE  patch_systemd_mk(patch_systemd_mk(text)) = patch_systemd_mk(text)
<1> DEFINE marker == SYSTEMD_VERSION_OVERRIDE_MK[1]
           a == "SYSTEMD_VERSION ="
           b == "SYSTEMD_SITE ="
           old == <<a, b>>
           new == <<a>> \o SYSTEMD_VERSION_OVERRIDE_MK \o <<b>>
           legacy == SYSTEMD_OVERRIDE_MK_TAIL_LEGACY
           eval == <<MESON_PACKAGE_EVAL>>
           tail == SYSTEMD_OVERRIDE_MK_TAIL \o eval
           already == "SYSTEMD_CONF_OPTS := $(filter-out"
           version(t) == Unless(marker, t, old, new)
           stripped(t) == ReplaceFirstSubSeq(<<>>, legacy, t)
           dropped(t) == drop_br_no_check_hash_for(stripped(t), SYSTEMD_NO_HASH)
           tailed(t) == Unless(already, dropped(t), eval, tail)
<1>1. /\ version(text) # SystemExit /\ patch_systemd_mk(text) = tailed(version(text))
  BY DEF patch_systemd_mk, insert_before_meson_eval, Then
<1>2. \A t : version(t) # SystemExit => patch_systemd_mk(t) = tailed(version(t))
  BY DEF patch_systemd_mk, insert_before_meson_eval, Then
<1>3. marker = "SYSTEMD_VERSION_STOCK :=" /\ Contains(SYSTEMD_VERSION_OVERRIDE_MK, marker)
  BY SystemdBlocks
<1>4. IsText(legacy) /\ Len(legacy) > 0 /\ Contains(legacy, SYSTEMD_NO_HASH)
  BY SystemdBlocks
<1>5. ~Contains(legacy, marker) /\ marker # SYSTEMD_NO_HASH /\ marker # MESON_PACKAGE_EVAL
  <2>1. marker \notin {"# skip packaged hashes", SYSTEMD_NO_HASH,
                       "SYSTEMD_CONF_OPTS := $(filter-out", "endif"}
    BY <1>3 DEF SYSTEMD_NO_HASH
  <2>2. marker # MESON_PACKAGE_EVAL
    BY <1>3 DEF MESON_PACKAGE_EVAL
  <2> HIDE DEF marker
  <2> QED BY <2>1, <2>2, SystemdBlocks
<1>6. IsText(eval) /\ Len(eval) > 0 /\ ~Contains(eval, marker)
  <2> HIDE DEF marker
  <2> QED BY <1>5, OneLine
<1>7. IsText(tail) /\ Contains(tail, already)
  <2>1. Contains(SYSTEMD_OVERRIDE_MK_TAIL, already)
    BY SystemdBlocks
  <2> HIDE DEF eval, already
  <2> QED BY <1>6, <2>1, JoinedText, SystemdBlocks
<1> DEFINE v == version(text)
           s == stripped(v)
           d == dropped(v)
           r == patch_systemd_mk(text)
<1>8. IsText(v) /\ Contains(v, marker)
  <2> HIDE DEF a, b, marker
  <2> QED BY <1>1, <1>3, SystemdBlocks, VersionText
<1>9. \A t : Contains(t, marker) => version(t) = t
  BY DEF Unless
<1> HIDE DEF marker, version, legacy, eval, tail, already
<1>10. IsText(s) /\ Contains(s, marker)
  <2> HIDE DEF v
  <2> QED BY <1>4, <1>5, <1>8, StrippedText
<1>11. IsText(d) /\ Contains(d, marker)
  <2> HIDE DEF v
  <2> HIDE DEF s
  <2>1. d = drop_br_no_check_hash_for(s, SYSTEMD_NO_HASH)
    BY DEF s
  <2> QED BY <1>5, <1>10, <2>1, DroppedText
<1>12. r = Unless(already, d, eval, tail)
  BY <1>1
<1>13. r # SystemExit
  OBVIOUS
<1> HIDE DEF d, r
<1>14. Contains(r, marker) /\ Contains(r, already)
  BY <1>6, <1>7, <1>11, <1>12, <1>13, UnlessText
<1>15. IsText(r) /\ ~Contains(r, SYSTEMD_NO_HASH)
  BY PatchedSystemd DEF r
<1>16. stripped(r) = r
  <2>1. ~Holds(r, legacy)
    BY <1>4, <1>15, ReplacedText, EmptyText
  <2> QED BY <2>1 DEF ReplaceFirstSubSeq, Holds
<1>17. dropped(r) = r
  BY <1>15, <1>16, DroppedText
<1>18. tailed(r) = r
  BY <1>14, <1>17 DEF Unless
<1>19. patch_systemd_mk(r) = r
  BY <1>2, <1>9, <1>13, <1>14, <1>18
<1> QED BY <1>19 DEF r

LEMMA LinuxPamTwice ==
    ASSUME NEW text, IsText(text), patch_linux_pam_mk(text) # SystemExit
    PROVE  patch_linux_pam_mk(patch_linux_pam_mk(text)) = patch_linux_pam_mk(text)
<1> DEFINE marker == LINUX_PAM_VERSION_OVERRIDE_MK[1]
           a == "LINUX_PAM_VERSION ="
           b == "LINUX_PAM_SOURCE ="
           old == <<a, b>>
           new == <<a>> \o LINUX_PAM_VERSION_OVERRIDE_MK \o <<b>>
           legacy == LINUX_PAM_OVERRIDE_MK_TAIL_LEGACY
           version(t) == Unless(marker, t, old, new)
           stripped(t) == ReplaceFirstSubSeq(<<>>, legacy, t)
           dropped(t) == drop_br_no_check_hash_for(stripped(t), LINUX_PAM_NO_HASH)
<1>1. version(text) # SystemExit /\ patch_linux_pam_mk(text) = dropped(version(text))
  BY DEF patch_linux_pam_mk, Then
<1>2. \A t : version(t) # SystemExit => patch_linux_pam_mk(t) = dropped(version(t))
  BY DEF patch_linux_pam_mk, Then
<1>3. /\ marker = "LINUX_PAM_VERSION_STOCK :="
      /\ Contains(LINUX_PAM_VERSION_OVERRIDE_MK, marker)
  BY LinuxPamBlocks
<1>4. IsText(legacy) /\ Len(legacy) > 0 /\ Contains(legacy, LINUX_PAM_NO_HASH)
  BY LinuxPamBlocks
<1>5. ~Contains(legacy, marker) /\ marker # LINUX_PAM_NO_HASH
  <2>1. marker \notin {"ifneq LINUX_PAM_VERSION", LINUX_PAM_NO_HASH, "endif"}
    BY <1>3 DEF LINUX_PAM_NO_HASH
  <2> HIDE DEF marker
  <2> QED BY <2>1, LinuxPamBlocks
<1> DEFINE v == version(text)
           s == stripped(v)
           r == patch_linux_pam_mk(text)
<1>6. IsText(v) /\ Contains(v, marker)
  <2> HIDE DEF a, b, marker
  <2> QED BY <1>1, <1>3, LinuxPamBlocks, VersionText
<1>7. \A t : Contains(t, marker) => version(t) = t
  BY DEF Unless
<1> HIDE DEF marker, version, legacy
<1>8. IsText(s) /\ Contains(s, marker)
  <2> HIDE DEF v
  <2> QED BY <1>4, <1>5, <1>6, StrippedText
<1>9. r = drop_br_no_check_hash_for(s, LINUX_PAM_NO_HASH)
  BY <1>1
<1>10. r # SystemExit
  OBVIOUS
<1> HIDE DEF s, r
<1>11. IsText(r) /\ Contains(r, marker) /\ ~Contains(r, LINUX_PAM_NO_HASH)
  BY <1>5, <1>8, <1>9, DroppedText
<1>12. stripped(r) = r
  <2>1. ~Holds(r, legacy)
    BY <1>4, <1>11, ReplacedText, EmptyText
  <2> QED BY <2>1 DEF ReplaceFirstSubSeq, Holds
<1>13. dropped(r) = r
  BY <1>11, <1>12, DroppedText
<1>14. patch_linux_pam_mk(r) = r
  BY <1>2, <1>7, <1>10, <1>11, <1>13
<1> QED BY <1>14 DEF r

LEMMA EspflashTwice ==
    ASSUME NEW text, IsText(text), patch_espflash_mk(text) # SystemExit
    PROVE  patch_espflash_mk(patch_espflash_mk(text)) = patch_espflash_mk(text)
<1> DEFINE old == <<"ESPFLASH_VERSION =", "ESPFLASH_SITE =">>
           new == <<"ESPFLASH_VERSION =">> \o ESPFLASH_VERSION_OVERRIDE_MK
                     \o <<"ESPFLASH_SITE =">>
           marker == ESPFLASH_VERSION_OVERRIDE_MK[1]
<1>1. IsText(old) /\ Len(old) > 0
  BY TwoLine
<1>2. IsText(ESPFLASH_VERSION_OVERRIDE_MK) /\ Contains(ESPFLASH_VERSION_OVERRIDE_MK, marker)
  <2>1. marker = "ifneq ESPFLASH_VERSION_OVERRIDE"
    BY DEF ESPFLASH_VERSION_OVERRIDE_MK
  <2> HIDE DEF marker
  <2> QED BY <2>1, TwoLine DEF ESPFLASH_VERSION_OVERRIDE_MK
<1>3. IsText(new) /\ Contains(new, marker)
  <2> HIDE DEF marker
  <2> QED BY <1>2, BetweenText
<1>4. \A t : patch_espflash_mk(t) = Unless(marker, t, old, new)
  BY DEF patch_espflash_mk
<1> HIDE DEF old, new, marker
<1> QED BY <1>1, <1>3, <1>4, MarkedTwice

\* The two version overrides of Ruby, then the hook.
LEMMA RubyTwice ==
    ASSUME NEW text, IsText(text), patch_ruby_mk(text) # SystemExit
    PROVE  patch_ruby_mk(patch_ruby_mk(text)) = patch_ruby_mk(text)
<1> DEFINE m1 == RUBY_VERSION_OVERRIDE_MK[1]
           old1 == <<"RUBY_SOURCE =">>
           new1 == old1 \o RUBY_VERSION_OVERRIDE_MK
           m2 == RUBY_CONF_OPTS_NEW[2]
           version(t) == Unless(m1, t, old1, new1)
           opts(t) == Unless(m2, t, RUBY_CONF_OPTS_OLD, RUBY_CONF_OPTS_NEW)
           hook(t) == IF Holds(t, RUBY_REMOVE_HOOK_NEW) THEN t
                      ELSE Replaced(t, RUBY_REMOVE_HOOK_OLD, RUBY_REMOVE_HOOK_NEW)
<1>1. \A t : patch_ruby_mk(t) =
               IF version(t) = SystemExit \/ opts(version(t)) = SystemExit THEN SystemExit
               ELSE hook(opts(version(t)))
  BY DEF patch_ruby_mk, Then
<1>2. m1 = "ifneq RUBY_VERSION_OVERRIDE" /\ m2 = "ifeq RUBY_YJIT"
  BY DEF RUBY_VERSION_OVERRIDE_MK, RUBY_CONF_OPTS_NEW
<1> HIDE DEF m1, m2
<1>3. IsText(old1) /\ Len(old1) > 0
  BY OneLine
<1>4. IsText(RUBY_VERSION_OVERRIDE_MK) /\ Contains(RUBY_VERSION_OVERRIDE_MK, m1)
  BY <1>2, TwoLine DEF RUBY_VERSION_OVERRIDE_MK
<1> HIDE DEF old1
<1>5. IsText(new1) /\ Contains(new1, m1)
  BY <1>3, <1>4, JoinedText
<1> HIDE DEF new1
<1>6. /\ IsText(RUBY_CONF_OPTS_OLD) /\ Len(RUBY_CONF_OPTS_OLD) > 0
      /\ ~Contains(RUBY_CONF_OPTS_OLD, m1)
  <2>1. m1 \notin {"RUBY_CONF_OPTS = --disable-yjit"}
    BY <1>2
  <2> QED BY <2>1, OneLine DEF RUBY_CONF_OPTS_OLD
<1>7. IsText(RUBY_CONF_OPTS_NEW) /\ Contains(RUBY_CONF_OPTS_NEW, m2)
  BY <1>2, TwoLine DEF RUBY_CONF_OPTS_NEW
<1>8. /\ IsText(RUBY_REMOVE_HOOK_OLD) /\ Len(RUBY_REMOVE_HOOK_OLD) > 0
      /\ ~Contains(RUBY_REMOVE_HOOK_OLD, m1) /\ ~Contains(RUBY_REMOVE_HOOK_OLD, m2)
  <2>1. /\ m1 \notin {"HOOKS += RUBY_REMOVE_RUBYGEMS"}
        /\ m2 \notin {"HOOKS += RUBY_REMOVE_RUBYGEMS"}
    BY <1>2
  <2> QED BY <2>1, OneLine DEF RUBY_REMOVE_HOOK_OLD
<1>9. IsText(RUBY_REMOVE_HOOK_NEW)
  BY ThreeLine DEF RUBY_REMOVE_HOOK_NEW
<1> DEFINE v == version(text)
           o == opts(v)
           r == patch_ruby_mk(text)
<1>10. v # SystemExit /\ o # SystemExit /\ r = hook(o) /\ r # SystemExit
  BY <1>1
<1>11. IsText(v) /\ Contains(v, m1)
  BY <1>3, <1>5, <1>10, UnlessText
<1> HIDE DEF v
<1>12. IsText(o) /\ Contains(o, m1) /\ Contains(o, m2)
  BY <1>6, <1>7, <1>10, <1>11, UnlessText
<1> HIDE DEF o, r
<1>13. Contains(r, m1) /\ Contains(r, m2) /\ Holds(r, RUBY_REMOVE_HOOK_NEW)
  <2>1. CASE Holds(o, RUBY_REMOVE_HOOK_NEW)
    BY <1>10, <1>12, <2>1
  <2>2. CASE ~Holds(o, RUBY_REMOVE_HOOK_NEW)
    <3>1. /\ Holds(o, RUBY_REMOVE_HOOK_OLD)
          /\ r = ReplaceFirstSubSeq(RUBY_REMOVE_HOOK_NEW, RUBY_REMOVE_HOOK_OLD, o)
      BY <1>10, <2>2 DEF Replaced
    <3>2. Contains(r, m1) /\ Contains(r, m2)
      BY <1>8, <1>9, <1>12, <3>1, ReplacedText
    <3> QED BY <1>8, <1>9, <1>12, <3>1, <3>2, ReplacedHolds
  <2> QED BY <2>1, <2>2
<1>14. version(r) = r /\ opts(r) = r
  BY <1>13 DEF Unless
<1>15. hook(r) = r
  BY <1>13
<1> HIDE DEF version, opts, hook
<1>16. patch_ruby_mk(r) = r
  BY <1>1, <1>10, <1>14, <1>15
<1> QED BY <1>16 DEF r

\* The series of kernel headers of the host.
LEMMA HeadersTwice ==
    ASSUME NEW text, IsText(text), patch_kernel_headers_host(text) # SystemExit
    PROVE  patch_kernel_headers_host(patch_kernel_headers_host(text)) =
               patch_kernel_headers_host(text)
<1> DEFINE was == "default KERNEL_HEADERS_7_1"
           now == "default KERNEL_HEADERS_7_2"
           m1 == "config KERNEL_HEADERS_7_2"
           old1 == <<"config KERNEL_HEADERS_7_1", "select HEADERS_LATEST">>
           new1 == <<"config KERNEL_HEADERS_7_1", m1, "select HEADERS_LATEST">>
           m2 == "config CUSTOM_7_2"
           old2 == <<"config CUSTOM_7_1 or later">>
           new2 == <<m2, "config CUSTOM_7_1">>
           m3 == "default 7.2.9"
           old3 == <<"default 7.1.13">>
           new3 == <<m3, "default 7.1.13">>
           default(t) == ReplaceAll(t, was, now)
           headers(t) == Unless(m1, t, old1, new1)
           custom(t) == Unless(m2, t, old2, new2)
           latest(t) == Unless(m3, t, old3, new3)
<1>1. \A t : patch_kernel_headers_host(t) =
               IF \/ headers(default(t)) = SystemExit
                  \/ custom(headers(default(t))) = SystemExit THEN SystemExit
               ELSE latest(custom(headers(default(t))))
  BY DEF patch_kernel_headers_host, Then
<1>2. was # now
  OBVIOUS
<1>3. /\ IsText(old1) /\ Len(old1) > 0 /\ IsText(new1) /\ Contains(new1, m1)
      /\ ~Contains(new1, was)
  <2>1. was \notin {"config KERNEL_HEADERS_7_1", m1, "select HEADERS_LATEST"}
    OBVIOUS
  <2> HIDE DEF was, m1
  <2>2. IsText(old1) /\ Len(old1) > 0 /\ IsText(new1) /\ Contains(new1, m1)
    BY TwoLine, ThreeLine
  <2>3. ~Contains(new1, was)
    BY <2>1, ThreeLine
  <2> QED BY <2>2, <2>3
<1>4. /\ IsText(old2) /\ Len(old2) > 0 /\ IsText(new2) /\ Contains(new2, m2)
      /\ ~Contains(old2, m1) /\ ~Contains(new2, was)
  <2>1. m1 \notin {"config CUSTOM_7_1 or later"} /\ was \notin {m2, "config CUSTOM_7_1"}
    OBVIOUS
  <2> HIDE DEF was, m1, m2
  <2>2. IsText(old2) /\ Len(old2) > 0 /\ IsText(new2) /\ Contains(new2, m2)
    BY OneLine, TwoLine
  <2>3. ~Contains(old2, m1)
    BY <2>1, OneLine
  <2>4. ~Contains(new2, was)
    BY <2>1, TwoLine
  <2> QED BY <2>2, <2>3, <2>4
<1>5. /\ IsText(old3) /\ Len(old3) > 0 /\ IsText(new3) /\ Contains(new3, m3)
      /\ ~Contains(old3, m1) /\ ~Contains(old3, m2) /\ ~Contains(new3, was)
  <2>1. /\ m1 \notin {"default 7.1.13"} /\ m2 \notin {"default 7.1.13"}
        /\ was \notin {m3, "default 7.1.13"}
    OBVIOUS
  <2> HIDE DEF was, m1, m2, m3
  <2>2. IsText(old3) /\ Len(old3) > 0 /\ IsText(new3) /\ Contains(new3, m3)
    BY OneLine, TwoLine
  <2>3. ~Contains(old3, m1) /\ ~Contains(old3, m2)
    BY <2>1, OneLine
  <2>4. ~Contains(new3, was)
    BY <2>1, TwoLine
  <2> QED BY <2>2, <2>3, <2>4
<1> HIDE DEF was, now, m1, m2, m3, old1, old2, old3, new1, new2, new3
<1> DEFINE d == default(text)
           h == headers(d)
           c == custom(h)
           r == patch_kernel_headers_host(text)
<1>6. h # SystemExit /\ c # SystemExit /\ r = latest(c) /\ r # SystemExit
  BY <1>1
<1>7. IsText(d) /\ ~Contains(d, was)
  BY <1>2, ReplacedAll
<1> HIDE DEF d
<1>8. IsText(h) /\ Contains(h, m1) /\ ~Contains(h, was)
  BY <1>3, <1>6, <1>7, UnlessText
<1> HIDE DEF h
<1>9. IsText(c) /\ Contains(c, m1) /\ Contains(c, m2) /\ ~Contains(c, was)
  BY <1>4, <1>6, <1>8, UnlessText
<1> HIDE DEF c, r
<1>10. /\ IsText(r) /\ Contains(r, m1) /\ Contains(r, m2) /\ Contains(r, m3)
       /\ ~Contains(r, was)
  BY <1>5, <1>6, <1>9, UnlessText
<1>11. default(r) = r
  BY <1>10, ReplacedAll
<1>12. headers(r) = r /\ custom(r) = r /\ latest(r) = r
  BY <1>10 DEF Unless
<1> HIDE DEF default, headers, custom, latest
<1>13. patch_kernel_headers_host(r) = r
  BY <1>1, <1>6, <1>11, <1>12
<1> QED BY <1>13 DEF r

LEMMA ToolchainTwice ==
    ASSUME NEW text, IsText(text), patch_toolchain_headers_at_least(text) # SystemExit
    PROVE  patch_toolchain_headers_at_least(patch_toolchain_headers_at_least(text)) =
               patch_toolchain_headers_at_least(text)
<1> DEFINE m1 == "config AT_LEAST_7_2"
           old1 == <<"config AT_LEAST_7_1", "select AT_LEAST_LATEST">>
           new1 == <<"config AT_LEAST_7_1", m1, "select AT_LEAST_LATEST">>
           m2 == "default 7.2"
           old2 == <<"config AT_LEAST", "default 7.1">>
           new2 == <<"config AT_LEAST", m2, "default 7.1">>
           first(t) == Unless(m1, t, old1, new1)
           string(t) == Unless(m2, t, old2, new2)
<1>1. \A t : patch_toolchain_headers_at_least(t) =
               IF first(t) = SystemExit THEN SystemExit ELSE string(first(t))
  BY DEF patch_toolchain_headers_at_least, Then
<1>2. IsText(old1) /\ Len(old1) > 0 /\ IsText(new1) /\ Contains(new1, m1)
  <2> HIDE DEF m1
  <2> QED BY TwoLine, ThreeLine
<1>3. /\ IsText(old2) /\ Len(old2) > 0 /\ IsText(new2) /\ Contains(new2, m2)
      /\ ~Contains(old2, m1)
  <2>1. m1 \notin {"config AT_LEAST", "default 7.1"}
    OBVIOUS
  <2> HIDE DEF m1, m2
  <2> QED BY <2>1, TwoLine, ThreeLine
<1> HIDE DEF m1, m2, old1, old2, new1, new2
<1> DEFINE f == first(text)
           r == patch_toolchain_headers_at_least(text)
<1>4. f # SystemExit /\ r = string(f) /\ r # SystemExit
  BY <1>1
<1>5. IsText(f) /\ Contains(f, m1)
  BY <1>2, <1>4, UnlessText
<1> HIDE DEF f, r
<1>6. Contains(r, m1) /\ Contains(r, m2)
  BY <1>3, <1>4, <1>5, UnlessText
<1>7. first(r) = r /\ string(r) = r
  BY <1>6 DEF Unless
<1> HIDE DEF first, string
<1>8. patch_toolchain_headers_at_least(r) = r
  BY <1>1, <1>4, <1>7
<1> QED BY <1>8 DEF r

LEMMA LatestTwice ==
    ASSUME NEW text, IsText(text), patch_linux_latest_version(text) # SystemExit
    PROVE  patch_linux_latest_version(patch_linux_latest_version(text)) =
               patch_linux_latest_version(text)
<1> DEFINE a1 == "Latest version (7.1)"
           b1 == "Latest version (7.2)"
           a2 == "select AT_LEAST_7_1"
           b2 == "select AT_LEAST_7_2"
           a3 == "default 7.1.13"
           b3 == "default 7.2.9"
           done(t) == ReplaceAll(ReplaceAll(ReplaceAll(t, a1, b1), a2, b2), a3, b3)
<1>1. \A t : patch_linux_latest_version(t) =
               IF {b1, b2, b3} \subseteq ToSet(done(t)) THEN done(t) ELSE SystemExit
  BY DEF patch_linux_latest_version
<1>2. a1 # b1 /\ a2 # b2 /\ a3 # b3 /\ a1 \notin {a2, b2} /\ a1 \notin {a3, b3} /\ a2 \notin {a3, b3}
  OBVIOUS
<1> HIDE DEF a1, b1, a2, b2, a3, b3
<1> DEFINE x == ReplaceAll(text, a1, b1)
           y == ReplaceAll(x, a2, b2)
           r == ReplaceAll(y, a3, b3)
<1>3. IsText(x) /\ ~Contains(x, a1)
  BY <1>2, ReplacedAll
<1> HIDE DEF x
<1>4. IsText(y) /\ ~Contains(y, a1) /\ ~Contains(y, a2)
  BY <1>2, <1>3, ReplacedAll
<1> HIDE DEF y
<1>5. IsText(r) /\ ~Contains(r, a1) /\ ~Contains(r, a2) /\ ~Contains(r, a3)
  BY <1>2, <1>4, ReplacedAll
<1> HIDE DEF r
<1>6. ReplaceAll(r, a1, b1) = r /\ ReplaceAll(r, a2, b2) = r /\ ReplaceAll(r, a3, b3) = r
  BY <1>5, ReplacedAll
<1>7. done(r) = r
  BY <1>6
<1>8. done(text) = r
  BY DEF r, x, y
<1> HIDE DEF done
<1>9. patch_linux_latest_version(text) = r /\ {b1, b2, b3} \subseteq ToSet(r)
  BY <1>1, <1>8
<1> QED BY <1>1, <1>7, <1>9

\* The recipe of linux-tools: the lines of the install commands.
LEMMA GrepTwice ==
    ASSUME NEW text, IsText(text)
    PROVE  LET r == patch_linux_tools_grep_install(text) IN
           /\ IsText(r) /\ patch_linux_tools_grep_install(r) = r
           /\ \A l : l \notin {"if ! grep install", "if ! test -f"} =>
                        (Contains(r, l) <=> Contains(text, l))
<1> DEFINE a == "if ! grep install"
           b == "if ! test -f"
           r == ReplaceAll(text, a, b)
<1>1. a # b
  OBVIOUS
<1> HIDE DEF a, b
<1>2. IsText(r) /\ ~Contains(r, a) /\ \A l : l \notin {a, b} => (Contains(r, l) <=> Contains(text, l))
  BY <1>1, ReplacedAll
<1> HIDE DEF r
<1>3. ReplaceAll(r, a, b) = r
  BY <1>2, ReplacedAll
<1> QED BY <1>2, <1>3 DEF patch_linux_tools_grep_install, a, b, r

LEMMA PciTwice ==
    ASSUME NEW text, IsText(text)
    PROVE  LET P(t) == patch_linux_tools_grep_install(patch_linux_tool_pci_mk_in(t))
           IN  P(P(text)) = P(text)
<1> DEFINE build == "define PCI_BUILD_CMDS"
           install == "define PCI_INSTALL_TARGET_CMDS"
           news == {PCI_BUILD_CMDS_NEW, PCI_INSTALL_CMDS_NEW}
           p == patch_linux_tool_pci_mk_in(text)
           r == patch_linux_tools_grep_install(p)
           Left(t) == ToSet(t) \cap news # {} \/ ~Contains(t, build)
<1>1. \A t : patch_linux_tool_pci_mk_in(t) =
               IF Left(t) THEN t
               ELSE ReplaceAll(ReplaceAll(t, build, PCI_BUILD_CMDS_NEW),
                               install, PCI_INSTALL_CMDS_NEW)
  BY DEF patch_linux_tool_pci_mk_in
<1>2. \A t : IsText(t) => (Left(t) <=> \/ Contains(t, PCI_BUILD_CMDS_NEW)
                                       \/ Contains(t, PCI_INSTALL_CMDS_NEW)
                                       \/ ~Contains(t, build))
  <2> TAKE t
  <2> HAVE IsText(t)
  <2>1. \A l : l \in ToSet(t) <=> Contains(t, l)
    <3>1. PICK A : t \in Seq(A)
      BY DEF IsText
    <3> QED BY <3>1 DEF ToSet, Contains
  <2> HIDE DEF build
  <2> QED BY <2>1
<1>3. /\ PCI_BUILD_CMDS_NEW \notin {"if ! grep install", "if ! test -f"}
      /\ PCI_INSTALL_CMDS_NEW \notin {"if ! grep install", "if ! test -f"}
      /\ build \notin {"if ! grep install", "if ! test -f"}
  BY DEF PCI_BUILD_CMDS_NEW, PCI_INSTALL_CMDS_NEW
<1>4. PCI_BUILD_CMDS_NEW # install /\ PCI_BUILD_CMDS_NEW # PCI_INSTALL_CMDS_NEW
  BY DEF PCI_BUILD_CMDS_NEW, PCI_INSTALL_CMDS_NEW
<1> HIDE DEF Left, build, install, news
<1>5. IsText(p) /\ Left(p)
  <2>1. CASE Left(text)
    BY <1>1, <2>1
  <2>2. CASE ~Left(text)
    <3> DEFINE x == ReplaceAll(text, build, PCI_BUILD_CMDS_NEW)
               y == ReplaceAll(x, install, PCI_INSTALL_CMDS_NEW)
    <3>1. IsText(x) /\ Contains(x, PCI_BUILD_CMDS_NEW)
      BY <1>2, <2>2, ReplacedAll
    <3> HIDE DEF x
    <3>2. IsText(y) /\ Contains(y, PCI_BUILD_CMDS_NEW)
      BY <1>4, <3>1, ReplacedAll
    <3>3. p = y
      BY <1>1, <2>2 DEF x
    <3> HIDE DEF y, p
    <3> QED BY <1>2, <3>2, <3>3
  <2> QED BY <2>1, <2>2
<1> HIDE DEF p
<1>6. /\ IsText(r) /\ patch_linux_tools_grep_install(r) = r
      /\ \A l : l \notin {"if ! grep install", "if ! test -f"} =>
                   (Contains(r, l) <=> Contains(p, l))
  BY <1>5, GrepTwice
<1> HIDE DEF r
<1>7. Left(r)
  BY <1>2, <1>3, <1>5, <1>6
<1>8. patch_linux_tool_pci_mk_in(r) = r
  BY <1>1, <1>7
<1> QED BY <1>6, <1>8 DEF r, p

LEMMA AssignedTwice ==
    ASSUME NEW text, IsText(text), set_makefile_assignment(text) # SystemExit
    PROVE  set_makefile_assignment(set_makefile_assignment(text)) = set_makefile_assignment(text)
<1> DEFINE First(t) == FirstIn(t, 1, Len(t), Assignments)
           env == "VERSION = env"
           i == First(text)
           r == ReplaceAt(text, i, env)
<1>1. \A t : set_makefile_assignment(t) =
               IF First(t) = 0 THEN SystemExit ELSE ReplaceAt(t, First(t), env)
  BY DEF set_makefile_assignment, FirstIn, SelectInSeq, SelectInSubSeq
<1>2. env \in Assignments
  BY DEF Assignments
<1> HIDE DEF env
<1>3. Len(text) \in Nat
  BY DEF IsText
<1>4. i # 0 /\ set_makefile_assignment(text) = r
  BY <1>1
<1>5. i \in 1..Len(text) /\ \A j \in 1..(i - 1) : text[j] \notin Assignments
  BY <1>3, <1>4, FirstInText
<1> HIDE DEF i
<1>6. /\ IsText(r) /\ Len(r) = Len(text) /\ r[i] = env
      /\ \A j \in 1..Len(text) : j # i => r[j] = text[j]
  BY <1>5, ReplacedAt
<1> HIDE DEF r
<1>7. First(r) = i
  <2> DEFINE k == First(r)
  <2>1. \/ k = 0 /\ \A j \in 1..Len(r) : r[j] \notin Assignments
        \/ k \in 1..Len(r) /\ r[k] \in Assignments /\ \A j \in 1..(k - 1) : r[j] \notin Assignments
    BY <1>3, <1>6, FirstInText
  <2> HIDE DEF k
  <2> QED BY <1>2, <1>3, <1>5, <1>6, <2>1 DEF k
<1> HIDE DEF First
<1>8. ReplaceAt(r, i, env) = r
  <2>1. PICK A : r \in Seq(A)
    BY <1>6 DEF IsText
  <2> QED BY <1>5, <1>6, <2>1 DEF ReplaceAt
<1> QED BY <1>1, <1>4, <1>7, <1>8, <1>5

-----------------------------------------------------------------------------
(* The target-finalize rule, and what the two patches of it do             *)

\* Line i is the first of the lines from..to that is in S, or 0 when none is.
IsFirst(text, from, to, S, i) ==
    \/ i = 0 /\ \A j \in from..to : text[j] \notin S
    \/ i \in from..to /\ text[i] \in S /\ \A j \in from..(i - 1) : text[j] \notin S

LEMMA FirstIs ==
    ASSUME NEW text, NEW from \in Nat \ {0}, NEW to \in Nat, NEW S, NEW i,
           IsFirst(text, from, to, S, i)
    PROVE  FirstIn(text, from, to, S) = i
<1> DEFINE k == FirstIn(text, from, to, S)
<1>1. IsFirst(text, from, to, S, k)
  <2>1. \/ k = 0 /\ \A j \in from..to : text[j] \notin S
        \/ k \in from..to /\ text[k] \in S /\ \A j \in from..(k - 1) : text[j] \notin S
    BY FirstInText, Zenon
  <2> HIDE DEF k
  <2> QED BY <2>1 DEF IsFirst
<1> HIDE DEF k
<1>2. CASE i = 0
  <2>1. \A j \in from..to : text[j] \notin S
    BY <1>2 DEF IsFirst
  <2>2. k = 0
    BY <1>1, <2>1 DEF IsFirst
  <2> QED BY <1>2, <2>2 DEF k
<1>3. CASE i # 0
  <2>1. i \in from..to /\ text[i] \in S /\ \A j \in from..(i - 1) : text[j] \notin S
    BY <1>3 DEF IsFirst
  <2>2. k \in from..to /\ text[k] \in S /\ \A j \in from..(k - 1) : text[j] \notin S
    BY <1>1, <2>1 DEF IsFirst
  <2>3. ~(i < k)
    <3>1. i < k => i \in from..(k - 1)
      BY <2>1, <2>2
    <3> QED BY <2>1, <2>2, <3>1
  <2>4. ~(k < i)
    <3>1. k < i => k \in from..(i - 1)
      BY <2>1, <2>2
    <3> QED BY <2>1, <2>2, <3>1
  <2>5. i = k
    BY <2>1, <2>2, <2>3, <2>4
  <2> QED BY <2>5 DEF k
<1> QED BY <1>2, <1>3 DEF k

\* The lines patch_makefile looks for.
PhonyLine == ".PHONY: target-finalize"
HeaderLine == "target-finalize:"
LiveLine == "rm -rf usr/include usr/doc"
IncludeLine == "rm -rf usr/include"
ManLine == "rm -rf usr/man"
RmdirLine == "rmdir usr/share"
DeadLine == "# rm -rf usr/doc"

Anchors == PHONY \cup Recipe \cup {HeaderLine, USR_DOC_COMMENT, DeadLine}

LEMMA LinesApart ==
    /\ PhonyLine \in PHONY /\ PhonyLine \notin RmRf /\ PhonyLine # HeaderLine
    /\ PhonyLine # ManLine
    /\ \A l \in PHONY : l \notin RmRf /\ l # HeaderLine /\ l # RmdirLine /\ l # ManLine
    /\ HeaderLine \notin RmRf /\ HeaderLine \notin PHONY /\ HeaderLine \notin Recipe
    /\ HeaderLine # ManLine
    /\ ManLine \in RmRf /\ ManLine # LiveLine
    /\ LiveLine \in RmRf /\ IncludeLine \in RmRf
    /\ IncludeLine # LiveLine /\ IncludeLine # ManLine
    /\ RmRf \subseteq Recipe /\ RmdirLine \in Recipe /\ RmdirLine \notin RmRf
    /\ \A l \in {USR_DOC_COMMENT, DeadLine, KEEP_DOCS_IFNEQ, "endif"} :
         l \notin PHONY /\ l \notin Recipe /\ l # HeaderLine
    /\ DeadLine # USR_DOC_COMMENT
<1>1. /\ PhonyLine \in PHONY /\ PhonyLine \notin RmRf /\ PhonyLine # HeaderLine
      /\ PhonyLine # ManLine
  BY DEF PhonyLine, PHONY, RmRf, HeaderLine, ManLine
<1>2. \A l \in PHONY : l \notin RmRf /\ l # HeaderLine /\ l # RmdirLine /\ l # ManLine
  BY DEF PHONY, RmRf, HeaderLine, RmdirLine, ManLine
<1>3. /\ HeaderLine \notin RmRf /\ HeaderLine \notin PHONY /\ HeaderLine \notin Recipe
      /\ HeaderLine # ManLine
  BY DEF HeaderLine, PHONY, RmRf, Recipe, ManLine
<1>4. ManLine \in RmRf /\ ManLine # LiveLine /\ LiveLine \in RmRf /\ IncludeLine \in RmRf
  BY DEF ManLine, RmRf, LiveLine, IncludeLine
<1>5. IncludeLine # LiveLine /\ IncludeLine # ManLine
  BY DEF ManLine, LiveLine, IncludeLine
<1>6. RmRf \subseteq Recipe /\ RmdirLine \in Recipe /\ RmdirLine \notin RmRf
  BY DEF RmRf, Recipe, RmdirLine
<1>7. USR_DOC_COMMENT \notin PHONY /\ USR_DOC_COMMENT \notin Recipe /\ USR_DOC_COMMENT # HeaderLine
  BY DEF PHONY, Recipe, RmRf, HeaderLine, USR_DOC_COMMENT
<1>8. DeadLine \notin PHONY /\ DeadLine \notin Recipe /\ DeadLine # HeaderLine
  BY DEF PHONY, Recipe, RmRf, HeaderLine, DeadLine
<1>9. KEEP_DOCS_IFNEQ \notin PHONY /\ KEEP_DOCS_IFNEQ \notin Recipe /\ KEEP_DOCS_IFNEQ # HeaderLine
  BY DEF PHONY, Recipe, RmRf, HeaderLine, KEEP_DOCS_IFNEQ
<1>10. "endif" \notin PHONY /\ "endif" \notin Recipe /\ "endif" # HeaderLine
  BY DEF PHONY, Recipe, RmRf, HeaderLine
<1>11. DeadLine # USR_DOC_COMMENT
  BY DEF DeadLine, USR_DOC_COMMENT
<1> HIDE DEF PhonyLine
<1> QED BY <1>1, <1>2, <1>3, <1>4, <1>5, <1>6, <1>7, <1>8, <1>9, <1>10, <1>11

\* The rule stands on the lines s..e of the text.
RuleAt(text, s, e) ==
    /\ s \in 1..Len(text) /\ e \in s..Len(text)
    /\ text[s] = PhonyLine /\ \A j \in 1..(s - 1) : text[j] # PhonyLine
    /\ \A j \in (s + 1)..e : text[j] \notin PHONY
    /\ e = Len(text) \/ text[e + 1] \in PHONY

LEMMA SpanIs ==
    ASSUME NEW text, IsText(text), NEW s, NEW e, RuleAt(text, s, e)
    PROVE  find_target_finalize_span(text) = [start |-> s, end |-> e]
<1>1. Len(text) \in Nat
  BY DEF IsText
<1>2. s \in 1..Len(text) /\ e \in s..Len(text)
  BY DEF RuleAt
<1>3. FirstIn(text, 1, Len(text), {PhonyLine}) = s
  <2>1. IsFirst(text, 1, Len(text), {PhonyLine}, s)
    BY <1>1, <1>2 DEF IsFirst, RuleAt
  <2> QED BY <1>1, <2>1, FirstIs
<1> DEFINE next == IF e = Len(text) THEN 0 ELSE e + 1
<1>4. FirstIn(text, s + 1, Len(text), PHONY) = next
  <2>1. IsFirst(text, s + 1, Len(text), PHONY, next)
    <3>1. CASE e = Len(text)
      BY <1>1, <1>2, <3>1 DEF IsFirst, RuleAt
    <3>2. CASE e # Len(text)
      BY <1>1, <1>2, <3>2 DEF IsFirst, RuleAt
    <3> QED BY <3>1, <3>2
  <2>2. s + 1 \in Nat \ {0}
    BY <1>1, <1>2
  <2> HIDE DEF next
  <2> QED BY <1>1, <2>1, <2>2, FirstIs
<1>5. (IF next = 0 THEN Len(text) ELSE next - 1) = e
  BY <1>1, <1>2
<1>6. find_target_finalize_span(text) = SpanFrom(text, s)
  BY <1>3 DEF find_target_finalize_span, PhonyLine
<1>7. SpanFrom(text, s) = [start |-> s, end |-> IF next = 0 THEN Len(text) ELSE next - 1]
  <2> HIDE DEF next
  <2> QED BY <1>4 DEF SpanFrom
<1> HIDE DEF next
<1> QED BY <1>5, <1>6, <1>7

LEMMA SpanAt ==
    ASSUME NEW text, IsText(text), find_target_finalize_span(text).start # 0
    PROVE  RuleAt(text, find_target_finalize_span(text).start, find_target_finalize_span(text).end)
<1> DEFINE s == FirstIn(text, 1, Len(text), {PhonyLine})
           next == FirstIn(text, s + 1, Len(text), PHONY)
           e == IF next = 0 THEN Len(text) ELSE next - 1
<1>1. Len(text) \in Nat
  BY DEF IsText
<1>2. find_target_finalize_span(text) = [start |-> s, end |-> e]
  BY DEF find_target_finalize_span, SpanFrom, PhonyLine
<1>3. s # 0
  BY <1>2
<1>4. /\ s \in 1..Len(text) /\ text[s] = PhonyLine
      /\ \A j \in 1..(s - 1) : text[j] # PhonyLine
  <2>1. s \in 1..Len(text) /\ text[s] \in {PhonyLine} /\ \A j \in 1..(s - 1) : text[j] \notin {PhonyLine}
    BY <1>1, <1>3, FirstInText
  <2> HIDE DEF s
  <2> QED BY <2>1
<1> HIDE DEF s
<1>5. \/ next = 0 /\ \A j \in (s + 1)..Len(text) : text[j] \notin PHONY
      \/ /\ next \in (s + 1)..Len(text) /\ text[next] \in PHONY
         /\ \A j \in (s + 1)..(next - 1) : text[j] \notin PHONY
  <2>1. s + 1 \in Nat \ {0}
    BY <1>1, <1>4
  <2> QED BY <1>1, <2>1, FirstInText
<1> HIDE DEF next
<1>6. RuleAt(text, s, e)
  <2>1. CASE next = 0
    BY <1>1, <1>4, <1>5, <2>1 DEF RuleAt
  <2>2. CASE next # 0
    <3>1. e = next - 1 /\ e \in s..Len(text) /\ e + 1 = next
      BY <1>1, <1>4, <1>5, <2>2
    <3> QED BY <1>4, <1>5, <2>2, <3>1 DEF RuleAt
  <2> QED BY <2>1, <2>2
<1> HIDE DEF e
<1> QED BY <1>2, <1>6

\* Line h is the header of the rule and line k the first rm -rf below it.
RmAt(text, s, e, h, k) ==
    /\ RuleAt(text, s, e)
    /\ h \in s..e /\ text[h] = HeaderLine /\ \A j \in s..(h - 1) : text[j] # HeaderLine
    /\ k \in (h + 1)..e /\ text[k] \in RmRf /\ \A j \in (h + 1)..(k - 1) : text[j] \notin RmRf

Stripped(text) == strip_usr_doc_from_first_rm(text, find_target_finalize_span(text))

LEMMA StripIs ==
    ASSUME NEW text, IsText(text), NEW s, NEW e, NEW h, NEW k, RmAt(text, s, e, h, k)
    PROVE  Stripped(text) = StripAt(text, k, LineAfter(text, k))
<1>1. find_target_finalize_span(text) = [start |-> s, end |-> e]
  BY SpanIs DEF RmAt
<1>2. Len(text) \in Nat
  BY DEF IsText
<1>3. s \in 1..Len(text) /\ e \in s..Len(text) /\ h \in s..e /\ k \in (h + 1)..e
  BY DEF RmAt, RuleAt
<1>4. InRule(text, [start |-> s, end |-> e], {HeaderLine}) = h
  <2>1. IsFirst(text, s, e, {HeaderLine}, h)
    BY <1>2, <1>3 DEF IsFirst, RmAt
  <2>2. FirstIn(text, s, e, {HeaderLine}) = h
    <3>1. s \in Nat \ {0} /\ e \in Nat
      BY <1>2, <1>3
    <3> QED BY <2>1, <3>1, FirstIs
  <2> QED BY <1>2, <1>3, <2>2 DEF InRule
<1>5. FirstRm(text, h, [start |-> s, end |-> e]) = k
  <2>1. IsFirst(text, h + 1, e, RmRf, k)
    BY <1>2, <1>3 DEF IsFirst, RmAt
  <2>2. FirstIn(text, h + 1, e, RmRf) = k
    <3>1. h + 1 \in Nat \ {0} /\ e \in Nat
      BY <1>2, <1>3
    <3> QED BY <2>1, <3>1, FirstIs
  <2>3. h # 0
    BY <1>2, <1>3
  <2> QED BY <2>2, <2>3 DEF FirstRm
<1> QED BY <1>1, <1>4, <1>5 DEF Stripped, strip_usr_doc_from_first_rm, HeaderLine

LEMMA StripHas ==
    ASSUME NEW text, IsText(text), Stripped(text) # SystemExit
    PROVE  \E s, e, h, k : RmAt(text, s, e, h, k)
<1> DEFINE span == find_target_finalize_span(text)
           s == span.start
           e == span.end
           h == InRule(text, span, {HeaderLine})
           k == FirstRm(text, h, span)
<1>1. Stripped(text) = StripAt(text, k, LineAfter(text, k))
  BY DEF Stripped, strip_usr_doc_from_first_rm, HeaderLine
<1>2. Len(text) \in Nat
  BY DEF IsText
<1>3. k # 0
  <2> HIDE DEF k
  <2> SUFFICES ASSUME k = 0 PROVE FALSE
    OBVIOUS
  <2> QED BY <1>1 DEF StripAt
<1>4. h # 0
  BY <1>3 DEF FirstRm
<1>5. s # 0
  BY <1>4 DEF InRule
<1>6. RuleAt(text, s, e)
  BY <1>5, SpanAt
<1>7. s \in 1..Len(text) /\ e \in s..Len(text)
  BY <1>6 DEF RuleAt
<1> HIDE DEF span
<1>8. h \in s..e /\ text[h] = HeaderLine /\ \A j \in s..(h - 1) : text[j] # HeaderLine
  <2>1. h = FirstIn(text, s, e, {HeaderLine})
    BY <1>5 DEF InRule
  <2>2. s \in Nat \ {0} /\ e \in Nat
    BY <1>2, <1>7
  <2> HIDE DEF h, s, e
  <2>3. /\ h \in s..e /\ text[h] \in {HeaderLine}
        /\ \A j \in s..(h - 1) : text[j] \notin {HeaderLine}
    BY <1>4, <2>1, <2>2, FirstInText
  <2> QED BY <2>3
<1>9. k \in (h + 1)..e /\ text[k] \in RmRf /\ \A j \in (h + 1)..(k - 1) : text[j] \notin RmRf
  <2>1. k = FirstIn(text, h + 1, e, RmRf)
    BY <1>4 DEF FirstRm
  <2> HIDE DEF k, h, s, e
  <2>2. h + 1 \in Nat \ {0} /\ e \in Nat
    BY <1>2, <1>7, <1>8
  <2> QED BY <1>3, <2>1, <2>2, FirstInText
<1> HIDE DEF s, e, h, k
<1> QED BY <1>6, <1>8, <1>9 DEF RmAt

\* Line m is the rm -rf of usr/man in the rule.
ManAt(text, s, e, m) ==
    /\ RuleAt(text, s, e)
    /\ m \in s..e /\ text[m] = ManLine /\ \A j \in s..(m - 1) : text[j] # ManLine

Wrapped(text) == wrap_man_purge_block(text, find_target_finalize_span(text))

LEMMA WrapIs ==
    ASSUME NEW text, IsText(text), NEW s, NEW e, NEW m, ManAt(text, s, e, m)
    PROVE  Wrapped(text) = WrapAt(text, m, FirstIn(text, m, e, {RmdirLine}))
<1>1. find_target_finalize_span(text) = [start |-> s, end |-> e]
  BY SpanIs DEF ManAt
<1>2. Len(text) \in Nat
  BY DEF IsText
<1>3. s \in 1..Len(text) /\ e \in s..Len(text) /\ m \in s..e
  BY DEF ManAt, RuleAt
<1>4. InRule(text, [start |-> s, end |-> e], {ManLine}) = m
  <2>1. IsFirst(text, s, e, {ManLine}, m)
    BY <1>2, <1>3 DEF IsFirst, ManAt
  <2>2. FirstIn(text, s, e, {ManLine}) = m
    <3>1. s \in Nat \ {0} /\ e \in Nat
      BY <1>2, <1>3
    <3> QED BY <2>1, <3>1, FirstIs
  <2> QED BY <1>2, <1>3, <2>2 DEF InRule
<1>5. m # 0
  BY <1>2, <1>3
<1> DEFINE span == [start |-> s, end |-> e]
<1>6. span.end = e
  OBVIOUS
<1> HIDE DEF span
<1>7. wrap_man_purge_block(text, span) =
        WrapAt(text, m, FirstIn(text, m, span.end, {RmdirLine}))
  BY <1>4, <1>5 DEF wrap_man_purge_block, ManLine, RmdirLine, span
<1> QED BY <1>1, <1>6, <1>7 DEF Wrapped, span

LEMMA WrapHas ==
    ASSUME NEW text, IsText(text), Wrapped(text) # SystemExit
    PROVE  \E s, e, m : ManAt(text, s, e, m)
<1> DEFINE span == find_target_finalize_span(text)
           s == span.start
           e == span.end
           m == InRule(text, span, {ManLine})
<1>1. Len(text) \in Nat
  BY DEF IsText
<1>2. m # 0
  BY DEF Wrapped, wrap_man_purge_block, WrapAt, ManLine
<1>3. s # 0
  BY <1>2 DEF InRule
<1>4. RuleAt(text, s, e)
  BY <1>3, SpanAt
<1>5. s \in 1..Len(text) /\ e \in s..Len(text)
  BY <1>4 DEF RuleAt
<1> HIDE DEF span
<1>6. m \in s..e /\ text[m] = ManLine /\ \A j \in s..(m - 1) : text[j] # ManLine
  <2>1. m = FirstIn(text, s, e, {ManLine})
    BY <1>3 DEF InRule
  <2>2. s \in Nat \ {0} /\ e \in Nat
    BY <1>1, <1>5
  <2> HIDE DEF m, s, e
  <2>3. /\ m \in s..e /\ text[m] \in {ManLine}
        /\ \A j \in s..(m - 1) : text[j] \notin {ManLine}
    BY <1>2, <2>1, <2>2, FirstInText
  <2> QED BY <2>3
<1> HIDE DEF s, e, m
<1> QED BY <1>4, <1>6 DEF ManAt

-----------------------------------------------------------------------------
LEMMA SameLines ==
    ASSUME NEW A, NEW s \in Seq(A), NEW t \in Seq(A), Len(s) = Len(t),
           \A j \in 1..Len(t) : s[j] = t[j]
    PROVE  s = t
OBVIOUS

\* What a replacement of one line makes.
LEMMA Halves ==
    ASSUME NEW A, NEW u \in Seq(A), NEW v \in Seq(A)
    PROVE  SubSeq(u \o v, 1, Len(u)) = u /\ SubSeq(u \o v, Len(u) + 1, Len(u \o v)) = v
<1> DEFINE w == u \o v
<1>1. /\ w \in Seq(A) /\ Len(w) = Len(u) + Len(v) /\ Len(u) \in Nat /\ Len(v) \in Nat
      /\ \A j \in 1..Len(u) : w[j] = u[j]
      /\ \A j \in 1..Len(v) : w[Len(u) + j] = v[j]
  BY JoinedLines
<1> HIDE DEF w
<1> DEFINE x == SubSeq(w, 1, Len(u))
           y == SubSeq(w, Len(u) + 1, Len(w))
<1>2. x \in Seq(A) /\ Len(x) = Len(u) /\ \A j \in 1..Len(u) : x[j] = w[j]
  BY <1>1
<1>3. y \in Seq(A) /\ Len(y) = Len(v) /\ \A j \in 1..Len(v) : y[j] = w[Len(u) + j]
  BY <1>1
<1> HIDE DEF x, y
<1>4. x = u
  BY <1>1, <1>2, SameLines
<1>5. y = v
  BY <1>1, <1>3, SameLines
<1> QED BY <1>4, <1>5 DEF x, y, w

LEMMA ReplacedIsSplice ==
    ASSUME NEW text, IsText(text), NEW i \in 1..Len(text), NEW block
    PROVE  InsertBlock(RemoveAt(text, i), i, block) = Splice(text, i, 1, block)
<1>1. PICK A : text \in Seq(A)
  BY DEF IsText
<1> DEFINE u == SubSeq(text, 1, i - 1)
           v == SubSeq(text, i + 1, Len(text))
           w == u \o v
<1>2. /\ u \in Seq(A) /\ v \in Seq(A) /\ Len(u) = i - 1 /\ (i - 1) + 1 = i
  BY <1>1
<1>3. RemoveAt(text, i) = w
  BY DEF RemoveAt
<1>4. Splice(text, i, 1, block) = u \o block \o v
  BY DEF Splice
<1> HIDE DEF u, v
<1>5. SubSeq(w, 1, i - 1) = u /\ SubSeq(w, i, Len(w)) = v
  <2>1. SubSeq(w, 1, Len(u)) = u /\ SubSeq(w, Len(u) + 1, Len(w)) = v
    BY <1>2, Halves
  <2> HIDE DEF w
  <2> QED BY <1>2, <2>1
<1> HIDE DEF w
<1> QED BY <1>3, <1>4, <1>5 DEF InsertBlock

\* A rule that strip_usr_doc_from_first_rm has nothing to do in.
Settled(text, s, e, h, k) ==
    /\ RmAt(text, s, e, h, k)
    /\ text[k] # LiveLine /\ k < Len(text) /\ text[k + 1] = USR_DOC_COMMENT

StripDone(text) == \E s, e, h, k : Settled(text, s, e, h, k)

LEMMA StrippedTwice ==
    ASSUME NEW text, IsText(text), StripDone(text)
    PROVE  Stripped(text) = text /\ text # SystemExit
<1>1. PICK s, e, h, k : Settled(text, s, e, h, k)
  BY DEF StripDone
<1>2. Stripped(text) = StripAt(text, k, LineAfter(text, k))
  BY <1>1, StripIs DEF Settled
<1>3. Len(text) \in Nat
  BY DEF IsText
<1>4. s \in 1..Len(text) /\ e \in s..Len(text) /\ h \in s..e /\ k \in (h + 1)..e
  <2>1. RmAt(text, s, e, h, k) /\ RuleAt(text, s, e)
    BY <1>1 DEF Settled, RmAt
  <2> QED BY <2>1 DEF RmAt, RuleAt
<1>5. k # 0 /\ text[k] # LiveLine /\ LineAfter(text, k) = USR_DOC_COMMENT
  BY <1>1, <1>3, <1>4 DEF Settled, LineAfter
<1>6. Len(text) >= 2
  BY <1>3, <1>4
<1>7. text # SystemExit
  <2>1. Len(SystemExit) = 1
    BY DEF SystemExit
  <2> QED BY <1>6, <2>1
<1>8. StripAt(text, k, LineAfter(text, k)) = text
  <2> DEFINE x == InsertBlock(RemoveAt(text, k), k, <<"rm -rf usr/include", USR_DOC_COMMENT>>)
             y == ReplaceAt(text, k + 1, USR_DOC_COMMENT)
             after == LineAfter(text, k)
             live == text[k] = "rm -rf usr/include usr/doc"
  <2>1. StripAt(text, k, after) =
          IF k = 0 THEN SystemExit ELSE IF live THEN x
          ELSE IF after = USR_DOC_COMMENT THEN text
          ELSE IF after = "# rm -rf usr/doc" THEN y ELSE SystemExit
    BY Zenon DEF StripAt
  <2>2. ~live /\ after = USR_DOC_COMMENT
    BY <1>5 DEF LiveLine
  <2> HIDE DEF x, y, after, live
  <2> QED BY <1>5, <2>1, <2>2
<1> QED BY <1>2, <1>7, <1>8

\* The three ways in which strip_usr_doc_from_first_rm succeeds.
LEMMA StripCases ==
    ASSUME NEW text, IsText(text), NEW k \in 1..Len(text),
           StripAt(text, k, LineAfter(text, k)) # SystemExit
    PROVE  LET r == StripAt(text, k, LineAfter(text, k)) IN
           \/ /\ text[k] = LiveLine
              /\ r = Splice(text, k, 1, <<IncludeLine, USR_DOC_COMMENT>>)
           \/ /\ text[k] # LiveLine /\ k < Len(text) /\ text[k + 1] = USR_DOC_COMMENT
              /\ r = text
           \/ /\ text[k] # LiveLine /\ k < Len(text) /\ text[k + 1] = DeadLine
              /\ r = ReplaceAt(text, k + 1, USR_DOC_COMMENT)
<1> DEFINE r == StripAt(text, k, LineAfter(text, k))
           after == LineAfter(text, k)
           x == InsertBlock(RemoveAt(text, k), k, <<IncludeLine, USR_DOC_COMMENT>>)
           y == ReplaceAt(text, k + 1, USR_DOC_COMMENT)
<1>1. r = IF k = 0 THEN SystemExit ELSE IF text[k] = LiveLine THEN x
          ELSE IF after = USR_DOC_COMMENT THEN text
          ELSE IF after = DeadLine THEN y ELSE SystemExit
  BY Zenon DEF StripAt, LiveLine, IncludeLine, DeadLine
<1>2. x = Splice(text, k, 1, <<IncludeLine, USR_DOC_COMMENT>>)
  BY ReplacedIsSplice
<1>3. USR_DOC_COMMENT # "" /\ DeadLine # ""
  BY DEF USR_DOC_COMMENT, DeadLine
<1>4. after \in {USR_DOC_COMMENT, DeadLine} => k < Len(text) /\ text[k + 1] = after
  <2> DEFINE empty == ""
  <2>1. /\ USR_DOC_COMMENT # empty /\ DeadLine # empty
        /\ after = IF k < Len(text) THEN text[k + 1] ELSE empty
    BY <1>3 DEF LineAfter
  <2> HIDE DEF empty, after
  <2> QED BY <2>1
<1>5. k # 0 /\ Len(text) \in Nat
  BY DEF IsText
<1>6. r # SystemExit
  OBVIOUS
<1> HIDE DEF r, after, x, y
<1> QED BY <1>1, <1>2, <1>4, <1>5, <1>6 DEF r, y

\* r is text with the n lines from line i on replaced by new.
IsSplice(r, text, i, n, new) ==
    /\ Len(r) = Len(text) - n + Len(new)
    /\ \A j \in 1..(i - 1) : r[j] = text[j]
    /\ \A j \in 1..Len(new) : r[i - 1 + j] = new[j]
    /\ \A j \in (i + n)..Len(text) : r[j - n + Len(new)] = text[j]

LEMMA TextSplice ==
    ASSUME NEW text, NEW new, IsText(text), IsText(new),
           NEW i \in 1..(Len(text) + 1), NEW n \in Nat, i + n <= Len(text) + 1
    PROVE  IsText(Splice(text, i, n, new)) /\ IsSplice(Splice(text, i, n, new), text, i, n, new)
<1>1. PICK A : text \in Seq(A) /\ new \in Seq(A)
  BY Common
<1> DEFINE q == Splice(text, i, n, new)
<1>2. /\ q \in Seq(A)
      /\ Len(q) = Len(text) - n + Len(new)
      /\ \A j \in 1..(i - 1) : q[j] = text[j]
      /\ \A j \in 1..Len(new) : q[i - 1 + j] = new[j]
      /\ \A j \in (i + n)..Len(text) : q[j - n + Len(new)] = text[j]
  BY <1>1, SpliceLines
<1> HIDE DEF q
<1>3. IsText(q) /\ IsSplice(q, text, i, n, new)
  BY <1>2 DEF IsText, IsSplice
<1> QED BY <1>3 DEF q

\* Two lines stand for line k.
IsPair(r, text, k, a, b) ==
    /\ Len(r) = Len(text) + 1
    /\ \A j \in 1..(k - 1) : r[j] = text[j]
    /\ r[k] = a /\ r[k + 1] = b
    /\ \A j \in (k + 2)..(Len(text) + 1) : r[j] = text[j - 1]

LEMMA PairForOne ==
    ASSUME NEW text, IsText(text), NEW k \in 1..Len(text), NEW two,
           Len(two) = 2, NEW r, IsSplice(r, text, k, 1, two)
    PROVE  IsPair(r, text, k, two[1], two[2])
<1>1. Len(text) \in Nat
  BY DEF IsText
<1>3. /\ Len(r) = Len(text) - 1 + Len(two)
      /\ \A j \in 1..(k - 1) : r[j] = text[j]
      /\ \A j \in 1..Len(two) : r[k - 1 + j] = two[j]
      /\ \A j \in (k + 1)..Len(text) : r[j - 1 + Len(two)] = text[j]
  BY DEF IsSplice
<1>4. Len(r) = Len(text) + 1
  BY <1>1, <1>3
<1>5. r[k] = two[1] /\ r[k + 1] = two[2]
  <2>1. k - 1 + 1 = k /\ k - 1 + 2 = k + 1 /\ 1 \in 1..Len(two) /\ 2 \in 1..Len(two)
    BY <1>1
  <2>2. r[k - 1 + 1] = two[1] /\ r[k - 1 + 2] = two[2]
    BY <1>3, <2>1
  <2> QED BY <2>1, <2>2
<1>6. \A j \in (k + 2)..(Len(text) + 1) : r[j] = text[j - 1]
  <2> TAKE j \in (k + 2)..(Len(text) + 1)
  <2>1. j - 1 \in (k + 1)..Len(text) /\ (j - 1) - 1 + Len(two) = j
    BY <1>1
  <2> QED BY <1>3, <2>1
<1> QED BY <1>3, <1>4, <1>5, <1>6 DEF IsPair

LEMMA TwoForOne ==
    ASSUME NEW text, IsText(text), NEW k \in 1..Len(text), NEW a, NEW b
    PROVE  /\ IsText(Splice(text, k, 1, <<a, b>>))
           /\ IsPair(Splice(text, k, 1, <<a, b>>), text, k, a, b)
<1> DEFINE two == <<a, b>>
           r == Splice(text, k, 1, two)
<1>1. IsText(two)
  BY TwoLine
<1>2. Len(two) = 2
  OBVIOUS
<1>3. two[1] = a /\ two[2] = b
  OBVIOUS
<1> HIDE DEF two
<1>4. IsText(r) /\ IsSplice(r, text, k, 1, two)
  <2>1. k \in 1..(Len(text) + 1) /\ 1 \in Nat /\ k + 1 <= Len(text) + 1
    BY DEF IsText
  <2> QED BY <1>1, <2>1, TextSplice
<1> HIDE DEF r
<1>5. IsPair(r, text, k, two[1], two[2])
  BY <1>2, <1>4, PairForOne
<1>6. IsText(r) /\ IsPair(r, text, k, a, b)
  BY <1>3, <1>4, <1>5
<1> QED BY <1>6 DEF r, two

\* After one call there is nothing left to do for the next.
LEMMA StrippedDone ==
    ASSUME NEW text, IsText(text), Stripped(text) # SystemExit
    PROVE  IsText(Stripped(text)) /\ StripDone(Stripped(text))
<1>1. PICK s, e, h, k : RmAt(text, s, e, h, k)
  BY StripHas
<1>2. Len(text) \in Nat
  BY DEF IsText
<1>3. RuleAt(text, s, e)
  BY <1>1 DEF RmAt
<1>4. s \in 1..Len(text) /\ e \in s..Len(text)
  BY <1>3 DEF RuleAt
<1>5. h \in s..e /\ k \in (h + 1)..e
  BY <1>1 DEF RmAt
<1>6. k \in 1..Len(text) /\ s < k /\ h < k /\ k <= e
  BY <1>2, <1>4, <1>5
<1> DEFINE r == Stripped(text)
<1>7. r = StripAt(text, k, LineAfter(text, k))
  BY <1>1, StripIs
<1>8. CASE text[k] = LiveLine /\ r = Splice(text, k, 1, <<IncludeLine, USR_DOC_COMMENT>>)
  <2>1. IsText(r) /\ IsPair(r, text, k, IncludeLine, USR_DOC_COMMENT)
    <3> HIDE DEF r
    <3> QED BY <1>6, <1>8, TwoForOne
  <2> HIDE DEF r
  <2>5. Len(r) = Len(text) + 1 /\ \A j \in 1..(k - 1) : r[j] = text[j]
    BY <2>1 DEF IsPair
  <2>6. r[k] = IncludeLine /\ r[k + 1] = USR_DOC_COMMENT
    BY <2>1 DEF IsPair
  <2>7. \A j \in (k + 2)..(Len(text) + 1) : r[j] = text[j - 1]
    BY <2>1 DEF IsPair
  <2>8. RuleAt(r, s, e + 1)
    <3>1. s \in 1..Len(r) /\ e + 1 \in s..Len(r)
      BY <1>2, <1>4, <2>5
    <3>2. r[s] = PhonyLine /\ \A j \in 1..(s - 1) : r[j] # PhonyLine
      <4>1. s \in 1..(k - 1) /\ \A j \in 1..(s - 1) : j \in 1..(k - 1)
        BY <1>2, <1>4, <1>6
      <4> QED BY <1>3, <2>5, <4>1 DEF RuleAt
    <3>3. ASSUME NEW j \in (s + 1)..(e + 1) PROVE r[j] \notin PHONY
      <4>1. CASE j < k
        <5>1. j \in 1..(k - 1) /\ j \in (s + 1)..e
          BY <1>2, <1>4, <1>6, <4>1
        <5> QED BY <1>3, <2>5, <5>1 DEF RuleAt
      <4>2. CASE j = k
        BY <2>6, <4>2, LinesApart
      <4>3. CASE j = k + 1
        BY <2>6, <4>3, LinesApart
      <4>4. CASE j > k + 1
        <5>1. j \in (k + 2)..(Len(text) + 1) /\ j - 1 \in (s + 1)..e
          BY <1>2, <1>4, <1>6, <4>4
        <5> QED BY <1>3, <2>7, <5>1 DEF RuleAt
      <4> QED BY <1>2, <1>4, <1>6, <4>1, <4>2, <4>3, <4>4
    <3>4. e + 1 = Len(r) \/ r[(e + 1) + 1] \in PHONY
      <4>1. CASE e = Len(text)
        BY <1>2, <2>5, <4>1
      <4>2. CASE e # Len(text)
        <5>1. (e + 1) + 1 \in (k + 2)..(Len(text) + 1) /\ ((e + 1) + 1) - 1 = e + 1
          BY <1>2, <1>4, <1>6, <4>2
        <5> QED BY <1>3, <2>7, <4>2, <5>1 DEF RuleAt
      <4> QED BY <4>1, <4>2
    <3> QED BY <3>1, <3>2, <3>3, <3>4 DEF RuleAt
  <2>9. RmAt(r, s, e + 1, h, k)
    <3>1. h \in s..(e + 1) /\ k \in (h + 1)..(e + 1)
      BY <1>2, <1>4, <1>5
    <3>2. r[h] = HeaderLine /\ \A j \in s..(h - 1) : r[j] # HeaderLine
      <4>1. h \in 1..(k - 1) /\ \A j \in s..(h - 1) : j \in 1..(k - 1)
        BY <1>2, <1>4, <1>5, <1>6
      <4> QED BY <1>1, <2>5, <4>1 DEF RmAt
    <3>3. r[k] \in RmRf /\ \A j \in (h + 1)..(k - 1) : r[j] \notin RmRf
      <4>1. \A j \in (h + 1)..(k - 1) : j \in 1..(k - 1)
        BY <1>2, <1>4, <1>5, <1>6
      <4> QED BY <1>1, <2>5, <2>6, <4>1, LinesApart DEF RmAt
    <3> QED BY <2>8, <3>1, <3>2, <3>3 DEF RmAt
  <2>10. Settled(r, s, e + 1, h, k)
    <3>1. k < Len(r)
      BY <1>2, <1>6, <2>5
    <3>2. r[k] # LiveLine
      BY <2>6, LinesApart
    <3> QED BY <2>6, <2>9, <3>1, <3>2 DEF Settled
  <2> QED BY <2>1, <2>10 DEF StripDone, r
<1>9. CASE text[k] # LiveLine /\ k < Len(text) /\ text[k + 1] = USR_DOC_COMMENT /\ r = text
  BY <1>1, <1>9 DEF StripDone, Settled
<1>10. CASE /\ text[k] # LiveLine /\ k < Len(text) /\ text[k + 1] = DeadLine
            /\ r = ReplaceAt(text, k + 1, USR_DOC_COMMENT)
  <2>1. k + 1 \in 1..Len(text)
    BY <1>2, <1>6, <1>10
  <2>2. /\ IsText(r) /\ Len(r) = Len(text) /\ r[k + 1] = USR_DOC_COMMENT
        /\ \A j \in 1..Len(text) : j # k + 1 => r[j] = text[j]
    BY <1>10, <2>1, ReplacedAt
  <2> HIDE DEF r
  <2>3. k + 1 <= e
    <3> SUFFICES ASSUME k = e PROVE FALSE
      BY <1>2, <1>4, <1>6
    <3>1. e # Len(text)
      BY <1>2, <1>10
    <3>2. text[e + 1] \in PHONY
      BY <1>3, <3>1 DEF RuleAt
    <3> QED BY <1>10, <3>2, LinesApart
  <2>4. RuleAt(r, s, e)
    <3>1. s \in 1..Len(r) /\ e \in s..Len(r)
      BY <1>4, <2>2
    <3>2. r[s] = PhonyLine /\ \A j \in 1..(s - 1) : r[j] # PhonyLine
      <4>1. \A j \in 1..s : j \in 1..Len(text) /\ j # k + 1
        BY <1>2, <1>4, <1>6
      <4>2. s \in 1..s /\ \A j \in 1..(s - 1) : j \in 1..s
        BY <1>2, <1>4
      <4> QED BY <1>3, <2>2, <4>1, <4>2 DEF RuleAt
    <3>3. ASSUME NEW j \in (s + 1)..e PROVE r[j] \notin PHONY
      <4>1. CASE j = k + 1
        BY <2>2, <4>1, LinesApart
      <4>2. CASE j # k + 1
        <5>1. j \in 1..Len(text)
          BY <1>2, <1>4
        <5> QED BY <1>3, <2>2, <4>2, <5>1 DEF RuleAt
      <4> QED BY <4>1, <4>2
    <3>4. e = Len(r) \/ r[e + 1] \in PHONY
      <4>1. e # Len(text) => e + 1 \in 1..Len(text) /\ e + 1 # k + 1
        BY <1>2, <1>4, <2>3
      <4> QED BY <1>3, <2>2, <4>1 DEF RuleAt
    <3> QED BY <3>1, <3>2, <3>3, <3>4 DEF RuleAt
  <2>5. RmAt(r, s, e, h, k)
    <3>1. \A j \in s..k : j \in 1..Len(text) /\ j # k + 1
      BY <1>2, <1>4, <1>6
    <3>2. /\ h \in s..k /\ k \in s..k /\ \A j \in s..(h - 1) : j \in s..k
          /\ \A j \in (h + 1)..(k - 1) : j \in s..k
      BY <1>2, <1>4, <1>5, <1>6
    <3>3. \A j \in s..k : r[j] = text[j]
      BY <2>2, <3>1
    <3>4. r[h] = HeaderLine /\ \A j \in s..(h - 1) : r[j] # HeaderLine
      BY <1>1, <3>2, <3>3 DEF RmAt
    <3>5. r[k] \in RmRf /\ \A j \in (h + 1)..(k - 1) : r[j] \notin RmRf
      BY <1>1, <3>2, <3>3 DEF RmAt
    <3> QED BY <1>5, <2>4, <3>4, <3>5 DEF RmAt
  <2>6. Settled(r, s, e, h, k)
    <3>1. r[k] = text[k]
      BY <1>6, <2>2
    <3> QED BY <1>10, <2>2, <2>5, <3>1 DEF Settled
  <2> QED BY <2>2, <2>6 DEF StripDone, r
<1> QED
  <2>1. StripAt(text, k, LineAfter(text, k)) # SystemExit
    BY <1>7
  <2> DEFINE q == StripAt(text, k, LineAfter(text, k))
             block == <<IncludeLine, USR_DOC_COMMENT>>
  <2>2. \/ text[k] = LiveLine /\ q = Splice(text, k, 1, block)
        \/ text[k] # LiveLine /\ k < Len(text) /\ text[k + 1] = USR_DOC_COMMENT /\ q = text
        \/ /\ text[k] # LiveLine /\ k < Len(text) /\ text[k + 1] = DeadLine
           /\ q = ReplaceAt(text, k + 1, USR_DOC_COMMENT)
    BY <1>6, <2>1, StripCases
  <2> QED BY <1>7, <1>8, <1>9, <1>10, <2>2

\* r is text with a line x before the lines m..d and a line y after them.
IsWrap(r, text, m, d, x, y) ==
    /\ Len(r) = Len(text) + 2
    /\ \A j \in 1..(m - 1) : r[j] = text[j]
    /\ r[m] = x
    /\ \A j \in (m + 1)..(d + 1) : r[j] = text[j - 1]
    /\ r[d + 2] = y
    /\ \A j \in (d + 3)..(Len(text) + 2) : r[j] = text[j - 2]

LEMMA AppendedLine ==
    ASSUME NEW A, NEW s \in Seq(A), NEW x \in A
    PROVE  /\ s \o <<x>> \in Seq(A) /\ Len(s \o <<x>>) = Len(s) + 1
           /\ \A j \in 1..Len(s) : (s \o <<x>>)[j] = s[j]
           /\ (s \o <<x>>)[Len(s) + 1] = x
OBVIOUS

IsJoin(r, s, t) ==
    /\ Len(r) = Len(s) + Len(t)
    /\ \A j \in 1..Len(s) : r[j] = s[j]
    /\ \A j \in 1..Len(t) : r[Len(s) + j] = t[j]

LEMMA JoinIs ==
    ASSUME NEW A, NEW s \in Seq(A), NEW t \in Seq(A)
    PROVE  s \o t \in Seq(A) /\ IsJoin(s \o t, s, t)
BY JoinedLines DEF IsJoin

LEMMA WrapLines ==
    ASSUME NEW A, NEW text \in Seq(A), NEW x \in A, NEW y \in A,
           NEW m \in 1..Len(text), NEW d \in m..Len(text)
    PROVE  LET r == SubSeq(text, 1, m - 1) \o <<x>> \o SubSeq(text, m, d)
                        \o <<y>> \o SubSeq(text, d + 1, Len(text)) IN
           r \in Seq(A) /\ IsWrap(r, text, m, d, x, y)
<1> DEFINE u == SubSeq(text, 1, m - 1)
           w == SubSeq(text, m, d)
           v == SubSeq(text, d + 1, Len(text))
           c1 == u \o <<x>>
           c2 == c1 \o w
           c3 == c2 \o <<y>>
           r == c3 \o v
<1>1. Len(text) \in Nat
  OBVIOUS
<1>2. u \in Seq(A) /\ Len(u) = m - 1 /\ \A j \in 1..(m - 1) : u[j] = text[j]
  BY <1>1
<1>3. w \in Seq(A) /\ Len(w) = d - m + 1 /\ \A j \in 1..(d - m + 1) : w[j] = text[m - 1 + j]
  BY <1>1
<1>4. /\ v \in Seq(A) /\ Len(v) = Len(text) - d
      /\ \A j \in 1..(Len(text) - d) : v[j] = text[d + j]
  BY <1>1
<1> HIDE DEF u, w, v
<1>5. /\ c1 \in Seq(A) /\ Len(c1) = m /\ \A j \in 1..(m - 1) : c1[j] = text[j]
      /\ c1[m] = x
  <2>1. /\ c1 \in Seq(A) /\ Len(c1) = Len(u) + 1
        /\ \A j \in 1..Len(u) : c1[j] = u[j]
        /\ c1[Len(u) + 1] = x
    BY <1>2, AppendedLine
  <2> HIDE DEF c1
  <2>2. Len(u) + 1 = m
    BY <1>1, <1>2
  <2> QED BY <1>2, <2>1, <2>2
<1> HIDE DEF c1
<1>6. /\ c2 \in Seq(A) /\ Len(c2) = d + 1 /\ \A j \in 1..m : c2[j] = c1[j]
      /\ \A j \in (m + 1)..(d + 1) : c2[j] = text[j - 1]
  <2>0. c2 \in Seq(A) /\ IsJoin(c2, c1, w)
    BY <1>3, <1>5, JoinIs
  <2> HIDE DEF c2
  <2>1. /\ c2 \in Seq(A) /\ Len(c2) = Len(c1) + Len(w)
        /\ \A j \in 1..Len(c1) : c2[j] = c1[j]
        /\ \A j \in 1..Len(w) : c2[Len(c1) + j] = w[j]
    BY <2>0 DEF IsJoin
  <2>2. Len(c2) = d + 1
    BY <1>1, <1>3, <1>5, <2>1
  <2>3. ASSUME NEW j \in (m + 1)..(d + 1) PROVE c2[j] = text[j - 1]
    <3>1. j - m \in 1..Len(w) /\ Len(c1) + (j - m) = j /\ m - 1 + (j - m) = j - 1
      BY <1>1, <1>3, <1>5
    <3>2. c2[Len(c1) + (j - m)] = w[j - m]
      BY <2>1, <3>1
    <3>3. j - m \in 1..(d - m + 1)
      BY <1>3, <3>1
    <3>4. w[j - m] = text[m - 1 + (j - m)]
      BY <1>3, <3>3
    <3> QED BY <3>1, <3>2, <3>4
  <2> QED BY <1>5, <2>1, <2>2, <2>3
<1> HIDE DEF c2
<1>7. /\ c3 \in Seq(A) /\ Len(c3) = d + 2 /\ \A j \in 1..(d + 1) : c3[j] = c2[j]
      /\ c3[d + 2] = y
  <2>1. /\ c3 \in Seq(A) /\ Len(c3) = Len(c2) + 1
        /\ \A j \in 1..Len(c2) : c3[j] = c2[j]
        /\ c3[Len(c2) + 1] = y
    BY <1>6, AppendedLine
  <2> HIDE DEF c3
  <2>2. Len(c2) + 1 = d + 2
    BY <1>1, <1>6
  <2> QED BY <1>6, <2>1, <2>2
<1> HIDE DEF c3
<1>8. /\ r \in Seq(A) /\ Len(r) = Len(text) + 2 /\ \A j \in 1..(d + 2) : r[j] = c3[j]
      /\ \A j \in (d + 3)..(Len(text) + 2) : r[j] = text[j - 2]
  <2>0. r \in Seq(A) /\ IsJoin(r, c3, v)
    BY <1>4, <1>7, JoinIs
  <2> HIDE DEF r
  <2>1. /\ r \in Seq(A) /\ Len(r) = Len(c3) + Len(v)
        /\ \A j \in 1..Len(c3) : r[j] = c3[j]
        /\ \A j \in 1..Len(v) : r[Len(c3) + j] = v[j]
    BY <2>0 DEF IsJoin
  <2>2. Len(r) = Len(text) + 2
    BY <1>1, <1>4, <1>7, <2>1
  <2>3. ASSUME NEW j \in (d + 3)..(Len(text) + 2) PROVE r[j] = text[j - 2]
    <3>1. j - (d + 2) \in 1..Len(v) /\ Len(c3) + (j - (d + 2)) = j /\ d + (j - (d + 2)) = j - 2
      BY <1>1, <1>4, <1>7
    <3>2. r[Len(c3) + (j - (d + 2))] = v[j - (d + 2)]
      BY <2>1, <3>1
    <3>3. j - (d + 2) \in 1..(Len(text) - d)
      BY <1>4, <3>1
    <3>4. v[j - (d + 2)] = text[d + (j - (d + 2))]
      BY <1>4, <3>3
    <3> QED BY <3>1, <3>2, <3>4
  <2> QED BY <1>7, <2>1, <2>2, <2>3
<1> HIDE DEF r
<1>9. IsWrap(r, text, m, d, x, y)
  <2>1. \A j \in 1..(m - 1) : r[j] = text[j]
    <3> TAKE j \in 1..(m - 1)
    <3>1. j \in 1..m /\ j \in 1..(d + 1) /\ j \in 1..(d + 2)
      BY <1>1
    <3> QED BY <1>5, <1>6, <1>7, <1>8, <3>1
  <2>2. r[m] = x
    <3>1. m \in 1..m /\ m \in 1..(d + 1) /\ m \in 1..(d + 2)
      BY <1>1
    <3> QED BY <1>5, <1>6, <1>7, <1>8, <3>1
  <2>3. \A j \in (m + 1)..(d + 1) : r[j] = text[j - 1]
    <3> TAKE j \in (m + 1)..(d + 1)
    <3>1. j \in 1..(d + 1) /\ j \in 1..(d + 2)
      BY <1>1
    <3> QED BY <1>6, <1>7, <1>8, <3>1
  <2>4. r[d + 2] = y
    <3>1. d + 2 \in 1..(d + 2)
      BY <1>1
    <3> QED BY <1>7, <1>8, <3>1
  <2> QED BY <1>8, <2>1, <2>2, <2>3, <2>4 DEF IsWrap
<1> QED BY <1>8, <1>9 DEF r, c3, c2, c1, u, w, v

\* What wrap_man_purge_block makes of the rule.
LEMMA WrapCases ==
    ASSUME NEW text, IsText(text), NEW m \in 1..Len(text), NEW d,
           d = 0 \/ d \in m..Len(text),
           WrapAt(text, m, d) # SystemExit
    PROVE  LET r == WrapAt(text, m, d) IN
           \/ text[m - 1] = KEEP_DOCS_IFNEQ /\ r = text
           \/ /\ d \in m..Len(text) /\ \A j \in m..d : text[j] \in Recipe
              /\ IsText(r) /\ IsWrap(r, text, m, d, KEEP_DOCS_IFNEQ, "endif")
<1> DEFINE r == WrapAt(text, m, d)
           q == SubSeq(text, 1, m - 1) \o <<KEEP_DOCS_IFNEQ>> \o SubSeq(text, m, d)
                    \o <<"endif">> \o SubSeq(text, d + 1, Len(text))
           part == SubSeq(text, m, d)
           bad == d = 0 \/ ~(ToSet(part) \subseteq Recipe) \/ ~Contains(part, "rm -rf gtk-doc")
           done == text[m - 1] = KEEP_DOCS_IFNEQ
<1>1. m # 0 /\ Len(text) \in Nat
  BY DEF IsText
<1>2. r = IF m = 0 THEN SystemExit ELSE IF done THEN text ELSE IF bad THEN SystemExit ELSE q
  BY Zenon DEF WrapAt
<1>3. ASSUME d # 0 PROVE IsText(q) /\ IsWrap(q, text, m, d, KEEP_DOCS_IFNEQ, "endif")
  <2>1. PICK A : text \in Seq(A)
    BY DEF IsText
  <2> DEFINE B == A \cup {KEEP_DOCS_IFNEQ, "endif"}
  <2>2. text \in Seq(B) /\ KEEP_DOCS_IFNEQ \in B /\ "endif" \in B
    BY <2>1, SeqGrows
  <2>3. d \in m..Len(text)
    BY <1>3
  <2> HIDE DEF B
  <2>4. q \in Seq(B) /\ IsWrap(q, text, m, d, KEEP_DOCS_IFNEQ, "endif")
    BY <2>2, <2>3, WrapLines
  <2> HIDE DEF q
  <2> QED BY <2>4 DEF IsText
<1>4. ASSUME ~bad PROVE \A j \in m..d : text[j] \in Recipe
  <2>1. d \in m..Len(text) /\ ToSet(part) \subseteq Recipe
    BY <1>4
  <2>2. PICK A : text \in Seq(A)
    BY DEF IsText
  <2>3. ASSUME NEW j \in m..d PROVE text[j] \in ToSet(part)
    <3>1. Len(part) = d - m + 1 /\ j - m + 1 \in 1..Len(part) /\ part[j - m + 1] = text[j]
      BY <1>1, <2>1, <2>2
    <3>2. part \in Seq(A)
      BY <2>1, <2>2
    <3> HIDE DEF part
    <3> QED BY <3>1, <3>2 DEF ToSet
  <2> QED BY <2>1, <2>3
<1>5. r # SystemExit
  OBVIOUS
<1>6. bad \/ d # 0
  OBVIOUS
<1> HIDE DEF q, bad, done, r
<1> QED
  <2>1. CASE done
    BY <1>1, <1>2, <2>1 DEF done, r
  <2>2. CASE ~done /\ ~bad
    <3>1. r = q /\ d # 0
      BY <1>1, <1>2, <1>6, <2>2
    <3> QED BY <1>3, <1>4, <2>2, <3>1 DEF r
  <2> QED BY <1>1, <1>2, <1>5, <2>1, <2>2

\* A rule that wrap_man_purge_block has nothing to do in.
WrapDone(text) == \E s, e, m : ManAt(text, s, e, m) /\ text[m - 1] = KEEP_DOCS_IFNEQ

LEMMA WrappedTwice ==
    ASSUME NEW text, IsText(text), WrapDone(text)
    PROVE  Wrapped(text) = text
<1>1. PICK s, e, m : ManAt(text, s, e, m) /\ text[m - 1] = KEEP_DOCS_IFNEQ
  BY DEF WrapDone
<1> DEFINE d == FirstIn(text, m, e, {RmdirLine})
<1>2. Wrapped(text) = WrapAt(text, m, d)
  BY <1>1, WrapIs
<1>3. m # 0
  <2>1. s \in 1..Len(text) /\ m \in s..e /\ Len(text) \in Nat
    BY <1>1 DEF ManAt, RuleAt, IsText
  <2> QED BY <2>1
<1> HIDE DEF d
<1>4. WrapAt(text, m, d) = text
  BY <1>1, <1>3 DEF WrapAt
<1> QED BY <1>2, <1>4

\* The rule of a wrapped text.
LEMMA WrapRule ==
    ASSUME NEW text, IsText(text), NEW r, NEW s, NEW e, NEW m, NEW d,
           ManAt(text, s, e, m), s < m, d \in m..e,
           \A j \in m..d : text[j] \in Recipe,
           IsWrap(r, text, m, d, KEEP_DOCS_IFNEQ, "endif")
    PROVE  ManAt(r, s, e + 2, m + 1) /\ r[(m + 1) - 1] = KEEP_DOCS_IFNEQ
<1>1. Len(text) \in Nat
  BY DEF IsText
<1>2. RuleAt(text, s, e)
  BY DEF ManAt
<1>3. s \in 1..Len(text) /\ e \in s..Len(text) /\ m \in (s + 1)..e
  <2>1. s \in 1..Len(text) /\ e \in s..Len(text)
    BY <1>2 DEF RuleAt
  <2>2. m \in s..e
    BY DEF ManAt
  <2> QED BY <1>1, <2>1, <2>2
<1>4. /\ Len(r) = Len(text) + 2 /\ r[m] = KEEP_DOCS_IFNEQ /\ r[d + 2] = "endif"
      /\ \A j \in 1..(m - 1) : r[j] = text[j]
      /\ \A j \in (m + 1)..(d + 1) : r[j] = text[j - 1]
      /\ \A j \in (d + 3)..(Len(text) + 2) : r[j] = text[j - 2]
  BY DEF IsWrap
<1>5. RuleAt(r, s, e + 2)
  <2>1. s \in 1..Len(r) /\ e + 2 \in s..Len(r)
    BY <1>1, <1>3, <1>4
  <2>2. r[s] = PhonyLine /\ \A j \in 1..(s - 1) : r[j] # PhonyLine
    <3>1. s \in 1..(m - 1) /\ \A j \in 1..(s - 1) : j \in 1..(m - 1)
      BY <1>1, <1>3
    <3> QED BY <1>2, <1>4, <3>1 DEF RuleAt
  <2>3. ASSUME NEW j \in (s + 1)..(e + 2) PROVE r[j] \notin PHONY
    <3>1. CASE j < m
      <4>1. j \in 1..(m - 1) /\ j \in (s + 1)..e
        BY <1>1, <1>3, <3>1
      <4> QED BY <1>2, <1>4, <4>1 DEF RuleAt
    <3>2. CASE j = m
      BY <1>4, <3>2, LinesApart
    <3>3. CASE j > m /\ j <= d + 1
      <4>1. j \in (m + 1)..(d + 1) /\ j - 1 \in (s + 1)..e
        BY <1>1, <1>3, <3>3
      <4> QED BY <1>2, <1>4, <4>1 DEF RuleAt
    <3>4. CASE j = d + 2
      BY <1>4, <3>4, LinesApart
    <3>5. CASE j > d + 2
      <4>1. j \in (d + 3)..(Len(text) + 2) /\ j - 2 \in (s + 1)..e
        BY <1>1, <1>3, <3>5
      <4> QED BY <1>2, <1>4, <4>1 DEF RuleAt
    <3> QED BY <1>1, <1>3, <3>1, <3>2, <3>3, <3>4, <3>5
  <2>4. e + 2 = Len(r) \/ r[(e + 2) + 1] \in PHONY
    <3>1. CASE e = Len(text)
      BY <1>4, <3>1
    <3>2. CASE e # Len(text)
      <4>1. (e + 2) + 1 \in (d + 3)..(Len(text) + 2) /\ ((e + 2) + 1) - 2 = e + 1
        BY <1>1, <1>3, <3>2
      <4> QED BY <1>2, <1>4, <3>2, <4>1 DEF RuleAt
    <3> QED BY <3>1, <3>2
  <2> QED BY <2>1, <2>2, <2>3, <2>4 DEF RuleAt
<1>6. m + 1 \in s..(e + 2) /\ r[m + 1] = ManLine
  <2>1. m + 1 \in (m + 1)..(d + 1) /\ (m + 1) - 1 = m /\ m + 1 \in s..(e + 2)
    BY <1>1, <1>3
  <2> QED BY <1>4, <2>1 DEF ManAt
<1>7. ASSUME NEW j \in s..((m + 1) - 1) PROVE r[j] # ManLine
  <2>1. CASE j = m
    <3>1. ManLine \in Recipe /\ KEEP_DOCS_IFNEQ \notin Recipe
      BY LinesApart
    <3> QED BY <1>4, <2>1, <3>1
  <2>2. CASE j # m
    <3>1. j \in s..(m - 1) /\ j \in 1..(m - 1)
      BY <1>1, <1>3, <2>2
    <3> QED BY <1>4, <3>1 DEF ManAt
  <2> QED BY <2>1, <2>2
<1>8. r[(m + 1) - 1] = KEEP_DOCS_IFNEQ
  <2>1. (m + 1) - 1 = m
    BY <1>1, <1>3
  <2> QED BY <1>4, <2>1
<1> QED BY <1>5, <1>6, <1>7, <1>8 DEF ManAt

\* The purge of the manual pages does not stand within what strip looks for.
LEMMA WrapKeepsStrip ==
    ASSUME NEW text, IsText(text), NEW r, NEW s, NEW e, NEW h, NEW k, NEW m, NEW d,
           Settled(text, s, e, h, k), ManAt(text, s, e, m), s < m, d \in m..e,
           text[d] \notin RmRf,
           \A j \in m..d : text[j] \in Recipe,
           IsWrap(r, text, m, d, KEEP_DOCS_IFNEQ, "endif"),
           RuleAt(r, s, e + 2)
    PROVE  StripDone(r)
<1>1. Len(text) \in Nat
  BY DEF IsText
<1>2. RmAt(text, s, e, h, k) /\ RuleAt(text, s, e)
  BY DEF Settled, RmAt
<1>3. s \in 1..Len(text) /\ e \in s..Len(text)
  BY <1>2 DEF RuleAt
<1>4. /\ h \in s..e /\ text[h] = HeaderLine /\ \A j \in s..(h - 1) : text[j] # HeaderLine
      /\ k \in (h + 1)..e /\ text[k] \in RmRf
      /\ \A j \in (h + 1)..(k - 1) : text[j] \notin RmRf
  BY <1>2 DEF RmAt
<1>5. text[k] # LiveLine /\ k < Len(text) /\ text[k + 1] = USR_DOC_COMMENT
  BY DEF Settled
<1>6. m \in (s + 1)..e /\ text[m] = ManLine
  <2>1. m \in s..e /\ text[m] = ManLine
    BY DEF ManAt
  <2> QED BY <1>1, <1>3, <2>1
<1>7. /\ Len(r) = Len(text) + 2 /\ r[m] = KEEP_DOCS_IFNEQ /\ r[d + 2] = "endif"
      /\ \A j \in 1..(m - 1) : r[j] = text[j]
      /\ \A j \in (m + 1)..(d + 1) : r[j] = text[j - 1]
      /\ \A j \in (d + 3)..(Len(text) + 2) : r[j] = text[j - 2]
  BY DEF IsWrap
<1>8. ~(k + 1 \in m..d)
  BY <1>5, LinesApart
<1>9. ~(h \in m..d)
  BY <1>4, LinesApart
<1>10. k < m => k + 1 < m
  BY <1>1, <1>3, <1>4, <1>6, <1>8
<1>11. ASSUME k >= m PROVE k > d /\ h > d
  <2>1. k > d
    <3> SUFFICES ASSUME k \in m..d PROVE FALSE
      BY <1>1, <1>3, <1>4, <1>6, <1>11
    <3>1. k = d
      BY <1>1, <1>3, <1>4, <1>6, <1>8
    <3> QED BY <1>4, <3>1
  <2>2. ~(h < m)
    <3> SUFFICES ASSUME h < m PROVE FALSE
      OBVIOUS
    <3>1. m \in (h + 1)..(k - 1)
      BY <1>1, <1>3, <1>4, <1>6, <2>1
    <3>2. ManLine \in RmRf
      BY LinesApart
    <3> QED BY <1>4, <1>6, <3>1, <3>2
  <2> QED BY <1>1, <1>3, <1>4, <1>6, <1>9, <2>1, <2>2
<1>12. CASE k < m
  <2>1. k + 1 < m /\ \A j \in s..(k + 1) : j \in 1..(m - 1)
    BY <1>1, <1>3, <1>4, <1>6, <1>10, <1>12
  <2>2. \A j \in s..(k + 1) : r[j] = text[j]
    BY <1>7, <2>1
  <2>3. h \in s..(e + 2) /\ k \in (h + 1)..(e + 2) /\ k < Len(r)
    BY <1>1, <1>3, <1>4, <1>7
  <2>4. /\ h \in s..(k + 1) /\ k \in s..(k + 1) /\ k + 1 \in s..(k + 1)
        /\ \A j \in s..(h - 1) : j \in s..(k + 1)
        /\ \A j \in (h + 1)..(k - 1) : j \in s..(k + 1)
    BY <1>1, <1>3, <1>4
  <2>5. r[h] = HeaderLine /\ \A j \in s..(h - 1) : r[j] # HeaderLine
    BY <1>4, <2>2, <2>4
  <2>6. r[k] \in RmRf /\ \A j \in (h + 1)..(k - 1) : r[j] \notin RmRf
    BY <1>4, <2>2, <2>4
  <2>7. r[k] # LiveLine /\ r[k + 1] = USR_DOC_COMMENT
    BY <1>5, <2>2, <2>4
  <2>8. Settled(r, s, e + 2, h, k)
    BY <2>3, <2>5, <2>6, <2>7 DEF Settled, RmAt
  <2> QED BY <2>8 DEF StripDone
<1>13. CASE k >= m
  <2>1. h > d /\ k > d
    BY <1>11, <1>13
  <2>2. \A j \in (d + 3)..(e + 2) : r[j] = text[j - 2]
    <3>1. \A j \in (d + 3)..(e + 2) : j \in (d + 3)..(Len(text) + 2)
      BY <1>1, <1>3, <1>6
    <3> QED BY <1>7, <3>1
  <2>3. /\ h + 2 \in s..(e + 2) /\ k + 2 \in (h + 2 + 1)..(e + 2) /\ k + 2 < Len(r)
        /\ (h + 2) - 2 = h /\ (k + 2) - 2 = k /\ (k + 2 + 1) - 2 = k + 1
    BY <1>1, <1>3, <1>4, <1>5, <1>7
  <2>4. /\ h + 2 \in (d + 3)..(e + 2) /\ k + 2 \in (d + 3)..(e + 2)
        /\ k + 2 + 1 \in (d + 3)..(Len(text) + 2)
    BY <1>1, <1>3, <1>4, <1>5, <1>6, <2>1
  <2>5. r[h + 2] = HeaderLine
    BY <1>4, <2>2, <2>3, <2>4
  <2>6. ASSUME NEW j \in s..((h + 2) - 1) PROVE r[j] # HeaderLine
    <3>1. CASE j < m
      <4>1. j \in 1..(m - 1) /\ j \in s..(h - 1)
        BY <1>1, <1>3, <1>4, <1>6, <2>1, <3>1
      <4> QED BY <1>4, <1>7, <4>1
    <3>2. CASE j = m
      BY <1>7, <3>2, LinesApart
    <3>3. CASE j > m /\ j <= d + 1
      <4>1. j \in (m + 1)..(d + 1) /\ j - 1 \in s..(h - 1)
        BY <1>1, <1>3, <1>4, <1>6, <2>1, <3>3
      <4> QED BY <1>4, <1>7, <4>1
    <3>4. CASE j = d + 2
      BY <1>7, <3>4, LinesApart
    <3>5. CASE j > d + 2
      <4>1. j \in (d + 3)..(Len(text) + 2) /\ j - 2 \in s..(h - 1)
        BY <1>1, <1>3, <1>4, <1>6, <2>1, <3>5
      <4> QED BY <1>4, <1>7, <4>1
    <3> QED BY <1>1, <1>3, <1>6, <3>1, <3>2, <3>3, <3>4, <3>5
  <2>7. r[k + 2] = text[k]
    BY <2>2, <2>3, <2>4
  <2>8. r[k + 2 + 1] = text[k + 1]
    BY <1>7, <2>3, <2>4
  <2>9. ASSUME NEW j \in (h + 2 + 1)..((k + 2) - 1) PROVE r[j] \notin RmRf
    <3>1. j \in (d + 3)..(e + 2) /\ j - 2 \in (h + 1)..(k - 1)
      BY <1>1, <1>3, <1>4, <1>6, <2>1
    <3> QED BY <1>4, <2>2, <3>1
  <2>10. RmAt(r, s, e + 2, h + 2, k + 2)
    BY <1>4, <2>3, <2>5, <2>6, <2>7, <2>9 DEF RmAt
  <2>11. Settled(r, s, e + 2, h + 2, k + 2)
    BY <1>5, <2>3, <2>7, <2>8, <2>10 DEF Settled
  <2> QED BY <2>11 DEF StripDone
<1> QED
  <2>1. k < m \/ k >= m
    BY <1>1, <1>3, <1>4, <1>6
  <2> QED BY <1>12, <1>13, <2>1

\* Nothing is left to do in the result.
LEMMA WrappedDone ==
    ASSUME NEW text, IsText(text), StripDone(text), Wrapped(text) # SystemExit
    PROVE  IsText(Wrapped(text)) /\ WrapDone(Wrapped(text)) /\ StripDone(Wrapped(text))
<1>1. PICK s, e, m : ManAt(text, s, e, m)
  BY WrapHas
<1>2. Len(text) \in Nat
  BY DEF IsText
<1>3. RuleAt(text, s, e) /\ m \in s..e /\ text[m] = ManLine
  BY <1>1 DEF ManAt
<1>4. s \in 1..Len(text) /\ e \in s..Len(text) /\ text[s] = PhonyLine
  BY <1>3 DEF RuleAt
<1>5. s < m
  <2>1. s # m
    BY <1>3, <1>4, LinesApart
  <2> QED BY <1>2, <1>3, <1>4, <2>1
<1> DEFINE d == FirstIn(text, m, e, {RmdirLine})
           r == Wrapped(text)
<1>6. r = WrapAt(text, m, d)
  BY <1>1, WrapIs
<1>7. d = 0 \/ (d \in m..e /\ text[d] \in {RmdirLine})
  <2>1. m \in Nat \ {0} /\ e \in Nat
    BY <1>2, <1>3, <1>4
  <2> QED BY <2>1, FirstInText
<1>8. m \in 1..Len(text) /\ (d = 0 \/ d \in m..Len(text))
  <2> HIDE DEF d
  <2> QED BY <1>2, <1>3, <1>4, <1>7
<1> DEFINE q == WrapAt(text, m, d)
<1>9. \/ text[m - 1] = KEEP_DOCS_IFNEQ /\ q = text
      \/ /\ d \in m..Len(text) /\ \A j \in m..d : text[j] \in Recipe
         /\ IsText(q) /\ IsWrap(q, text, m, d, KEEP_DOCS_IFNEQ, "endif")
  <2>1. q # SystemExit
    BY <1>6
  <2> HIDE DEF d
  <2> QED BY <1>8, <2>1, WrapCases
<1>10. r = q
  BY <1>6
<1> HIDE DEF d, q, r
<1>11. CASE text[m - 1] = KEEP_DOCS_IFNEQ /\ q = text
  BY <1>1, <1>10, <1>11 DEF WrapDone, r
<1>12. CASE /\ d \in m..Len(text) /\ \A j \in m..d : text[j] \in Recipe
            /\ IsText(q) /\ IsWrap(q, text, m, d, KEEP_DOCS_IFNEQ, "endif")
  <2>1. d \in m..e /\ text[d] \notin RmRf
    <3>1. d # 0
      BY <1>2, <1>3, <1>4, <1>12
    <3> QED BY <1>7, <3>1, LinesApart
  <2>2. ManAt(q, s, e + 2, m + 1) /\ q[(m + 1) - 1] = KEEP_DOCS_IFNEQ
    BY <1>1, <1>5, <1>12, <2>1, WrapRule
  <2>3. RuleAt(q, s, e + 2)
    BY <2>2 DEF ManAt
  <2>4. PICK s2, e2, h, k : Settled(text, s2, e2, h, k)
    BY DEF StripDone
  <2>5. s2 = s /\ e2 = e
    <3>1. RuleAt(text, s2, e2)
      BY <2>4 DEF Settled, RmAt
    <3>2. [start |-> s2, end |-> e2] = [start |-> s, end |-> e]
      BY <1>3, <3>1, SpanIs
    <3> QED BY <3>2
  <2>6. Settled(text, s, e, h, k)
    BY <2>4, <2>5
  <2>7. StripDone(q)
    BY <1>1, <1>5, <1>12, <2>1, <2>3, <2>6, WrapKeepsStrip
  <2>8. WrapDone(q)
    BY <2>2 DEF WrapDone
  <2> QED BY <1>10, <1>12, <2>7, <2>8 DEF r
<1> QED BY <1>9, <1>11, <1>12

LEMMA MakefileIs ==
    ASSUME NEW text
    PROVE  patch_makefile(text) =
               IF Stripped(text) = SystemExit THEN SystemExit ELSE Wrapped(Stripped(text))
BY DEF patch_makefile, Then, Stripped, Wrapped

\* patch_makefile has nothing to do in its own result.
LEMMA MakefileTwice ==
    ASSUME NEW text, IsText(text), patch_makefile(text) # SystemExit
    PROVE  patch_makefile(patch_makefile(text)) = patch_makefile(text)
<1> DEFINE a == Stripped(text)
           r == Wrapped(a)
<1>1. a # SystemExit /\ r # SystemExit /\ patch_makefile(text) = r
  BY MakefileIs
<1>2. IsText(a) /\ StripDone(a)
  BY <1>1, StrippedDone
<1> HIDE DEF a
<1>3. IsText(r) /\ WrapDone(r) /\ StripDone(r)
  BY <1>1, <1>2, WrappedDone
<1> HIDE DEF r
<1>4. Stripped(r) = r
  BY <1>3, StrippedTwice
<1>5. Wrapped(r) = r
  BY <1>3, WrappedTwice
<1>6. patch_makefile(r) = r
  BY <1>1, <1>4, <1>5, MakefileIs
<1> QED BY <1>1, <1>6

-----------------------------------------------------------------------------
(* The target-finalize rule with further lines below it                    *)

\* r is t with further lines, none of which patch_makefile looks for.
Longer(r, t) ==
    /\ Len(t) <= Len(r)
    /\ \A j \in 1..Len(t) : r[j] = t[j]
    /\ \A j \in (Len(t) + 1)..Len(r) : r[j] \notin Anchors

LEMMA AnchorLines ==
    /\ PHONY \subseteq Anchors /\ Recipe \subseteq Anchors /\ RmRf \subseteq Anchors
    /\ PhonyLine \in Anchors /\ HeaderLine \in Anchors /\ ManLine \in Anchors
    /\ RmdirLine \in Anchors /\ USR_DOC_COMMENT \in Anchors /\ DeadLine \in Anchors
BY LinesApart DEF Anchors

LEMMA JoinedLonger ==
    ASSUME NEW t, NEW x, IsText(t), IsText(x), \A l \in Anchors : ~Contains(x, l)
    PROVE  IsText(t \o x) /\ Longer(t \o x, t)
<1>1. PICK A : t \in Seq(A) /\ x \in Seq(A)
  BY Common
<1> DEFINE r == t \o x
<1>2. r \in Seq(A) /\ IsJoin(r, t, x)
  BY <1>1, JoinIs
<1> HIDE DEF r
<1>3. IsText(r)
  BY <1>2 DEF IsText
<1>4. Len(t) \in Nat /\ Len(x) \in Nat
  BY <1>1
<1>5. Len(r) = Len(t) + Len(x) /\ \A j \in 1..Len(t) : r[j] = t[j]
  BY <1>2 DEF IsJoin
<1>6. ASSUME NEW j \in (Len(t) + 1)..Len(r) PROVE r[j] \notin Anchors
  <2>1. j - Len(t) \in 1..Len(x) /\ Len(t) + (j - Len(t)) = j
    BY <1>4, <1>5
  <2>2. r[Len(t) + (j - Len(t))] = x[j - Len(t)]
    BY <1>2, <2>1 DEF IsJoin
  <2>3. Contains(x, x[j - Len(t)])
    BY <2>1 DEF Contains
  <2> QED BY <2>1, <2>2, <2>3
<1>7. Longer(r, t)
  BY <1>4, <1>5, <1>6 DEF Longer
<1> QED BY <1>3, <1>7 DEF r

\* The rule in one is that in the other.
LEMMA RuleGrows ==
    ASSUME NEW t, NEW r, IsText(t), IsText(r), Longer(r, t), NEW s, NEW e, RuleAt(t, s, e)
    PROVE  RuleAt(r, s, IF e = Len(t) THEN Len(r) ELSE e)
<1> DEFINE f == IF e = Len(t) THEN Len(r) ELSE e
<1>1. Len(t) \in Nat /\ Len(r) \in Nat /\ Len(t) <= Len(r)
  BY DEF IsText, Longer
<1>2. s \in 1..Len(t) /\ e \in s..Len(t)
  BY DEF RuleAt
<1>3. f \in s..Len(r) /\ s \in 1..Len(r) /\ f >= e
  BY <1>1, <1>2
<1>4. r[s] = PhonyLine /\ \A j \in 1..(s - 1) : r[j] # PhonyLine
  <2>1. s \in 1..Len(t) /\ \A j \in 1..(s - 1) : j \in 1..Len(t)
    BY <1>1, <1>2
  <2> QED BY <2>1 DEF RuleAt, Longer
<1>5. ASSUME NEW j \in (s + 1)..f PROVE r[j] \notin PHONY
  <2>1. CASE j <= Len(t)
    <3>1. j \in 1..Len(t) /\ j \in (s + 1)..e
      BY <1>1, <1>2, <2>1
    <3> QED BY <3>1 DEF RuleAt, Longer
  <2>2. CASE j > Len(t)
    <3>1. j \in (Len(t) + 1)..Len(r)
      BY <1>1, <1>2, <1>3, <2>2
    <3> QED BY <3>1, AnchorLines DEF Longer
  <2> QED BY <1>1, <1>2, <1>3, <2>1, <2>2
<1>6. f = Len(r) \/ r[f + 1] \in PHONY
  <2>1. CASE e = Len(t)
    BY <2>1
  <2>2. CASE e # Len(t)
    <3>1. e + 1 \in 1..Len(t) /\ f = e
      BY <1>1, <1>2, <2>2
    <3> HIDE DEF f
    <3> QED BY <2>2, <3>1 DEF RuleAt, Longer
  <2> QED BY <2>1, <2>2
<1> HIDE DEF f
<1>7. RuleAt(r, s, f)
  BY <1>3, <1>4, <1>5, <1>6 DEF RuleAt
<1> QED BY <1>7 DEF f

LEMMA RuleShrinks ==
    ASSUME NEW t, NEW r, IsText(t), IsText(r), Longer(r, t), NEW s, NEW e, RuleAt(r, s, e)
    PROVE  RuleAt(t, s, IF e = Len(r) THEN Len(t) ELSE e)
<1> DEFINE f == IF e = Len(r) THEN Len(t) ELSE e
<1>1. Len(t) \in Nat /\ Len(r) \in Nat /\ Len(t) <= Len(r)
  BY DEF IsText, Longer
<1>2. s \in 1..Len(r) /\ e \in s..Len(r) /\ r[s] = PhonyLine
  BY DEF RuleAt
<1>3. s \in 1..Len(t)
  <2> SUFFICES ASSUME s > Len(t) PROVE FALSE
    BY <1>1, <1>2
  <2>1. s \in (Len(t) + 1)..Len(r)
    BY <1>1, <1>2
  <2> QED BY <1>2, <2>1, AnchorLines DEF Longer
<1>4. ASSUME e # Len(r) PROVE e + 1 \in 1..Len(t) /\ t[e + 1] \in PHONY
  <2>1. e + 1 \in 1..Len(r) /\ r[e + 1] \in PHONY
    BY <1>1, <1>2, <1>4 DEF RuleAt
  <2>2. e + 1 \in 1..Len(t)
    <3> SUFFICES ASSUME e + 1 > Len(t) PROVE FALSE
      BY <1>1, <2>1
    <3>1. e + 1 \in (Len(t) + 1)..Len(r)
      BY <1>1, <2>1
    <3> QED BY <2>1, <3>1, AnchorLines DEF Longer
  <2> QED BY <2>1, <2>2 DEF Longer
<1>5. f \in s..Len(t) /\ f <= e
  BY <1>1, <1>2, <1>3, <1>4
<1>6. t[s] = PhonyLine /\ \A j \in 1..(s - 1) : t[j] # PhonyLine
  <2>1. s \in 1..Len(t) /\ \A j \in 1..(s - 1) : j \in 1..Len(t)
    BY <1>1, <1>3
  <2> QED BY <2>1 DEF RuleAt, Longer
<1>7. ASSUME NEW j \in (s + 1)..f PROVE t[j] \notin PHONY
  <2>1. j \in 1..Len(t) /\ j \in (s + 1)..e
    BY <1>1, <1>2, <1>3, <1>5
  <2> QED BY <2>1 DEF RuleAt, Longer
<1>8. f = Len(t) \/ t[f + 1] \in PHONY
  BY <1>4
<1> HIDE DEF f
<1>9. RuleAt(t, s, f)
  BY <1>3, <1>5, <1>6, <1>7, <1>8 DEF RuleAt
<1> QED BY <1>9 DEF f

\* What stands in the rule of one stands there in that of the other.
LEMMA RmGrows ==
    ASSUME NEW t, NEW r, IsText(t), IsText(r), Longer(r, t), NEW s, NEW e, NEW h, NEW k,
           RmAt(t, s, e, h, k)
    PROVE  RmAt(r, s, IF e = Len(t) THEN Len(r) ELSE e, h, k)
<1> DEFINE f == IF e = Len(t) THEN Len(r) ELSE e
<1>1. Len(t) \in Nat /\ Len(r) \in Nat /\ Len(t) <= Len(r)
  BY DEF IsText, Longer
<1>2. RuleAt(t, s, e) /\ h \in s..e /\ k \in (h + 1)..e
  BY DEF RmAt
<1>3. s \in 1..Len(t) /\ e \in s..Len(t)
  BY <1>2 DEF RuleAt
<1>4. RuleAt(r, s, f)
  BY <1>2, RuleGrows
<1>5. h \in s..f /\ k \in (h + 1)..f
  BY <1>1, <1>2, <1>3
<1> HIDE DEF f
<1>6. \A j \in s..k : r[j] = t[j]
  <2>1. \A j \in s..k : j \in 1..Len(t)
    BY <1>1, <1>2, <1>3
  <2> QED BY <2>1 DEF Longer
<1>7. /\ h \in s..k /\ k \in s..k /\ \A j \in s..(h - 1) : j \in s..k
      /\ \A j \in (h + 1)..(k - 1) : j \in s..k
  BY <1>1, <1>2, <1>3
<1>8. r[h] = HeaderLine /\ \A j \in s..(h - 1) : r[j] # HeaderLine
  BY <1>6, <1>7 DEF RmAt
<1>9. r[k] \in RmRf /\ \A j \in (h + 1)..(k - 1) : r[j] \notin RmRf
  BY <1>6, <1>7 DEF RmAt
<1>10. RmAt(r, s, f, h, k)
  BY <1>4, <1>5, <1>8, <1>9 DEF RmAt
<1> QED BY <1>10 DEF f

LEMMA RmShrinks ==
    ASSUME NEW t, NEW r, IsText(t), IsText(r), Longer(r, t), NEW s, NEW e, NEW h, NEW k,
           RmAt(r, s, e, h, k)
    PROVE  RmAt(t, s, IF e = Len(r) THEN Len(t) ELSE e, h, k)
<1> DEFINE f == IF e = Len(r) THEN Len(t) ELSE e
<1>1. Len(t) \in Nat /\ Len(r) \in Nat /\ Len(t) <= Len(r)
  BY DEF IsText, Longer
<1>2. RuleAt(r, s, e) /\ h \in s..e /\ k \in (h + 1)..e /\ r[k] \in RmRf
  BY DEF RmAt
<1>3. s \in 1..Len(r) /\ e \in s..Len(r)
  BY <1>2 DEF RuleAt
<1>4. RuleAt(t, s, f)
  BY <1>2, RuleShrinks
<1>5. k <= Len(t)
  <2> SUFFICES ASSUME k > Len(t) PROVE FALSE
    BY <1>1, <1>2, <1>3
  <2>1. k \in (Len(t) + 1)..Len(r)
    BY <1>1, <1>2, <1>3
  <2> QED BY <1>2, <2>1, AnchorLines DEF Longer
<1>6. h \in s..f /\ k \in (h + 1)..f
  BY <1>1, <1>2, <1>3, <1>5
<1> HIDE DEF f
<1>7. \A j \in s..k : r[j] = t[j]
  <2>1. \A j \in s..k : j \in 1..Len(t)
    BY <1>1, <1>2, <1>3, <1>5
  <2> QED BY <2>1 DEF Longer
<1>8. /\ h \in s..k /\ k \in s..k /\ \A j \in s..(h - 1) : j \in s..k
      /\ \A j \in (h + 1)..(k - 1) : j \in s..k
  BY <1>1, <1>2, <1>3
<1>9. t[h] = HeaderLine /\ \A j \in s..(h - 1) : t[j] # HeaderLine
  BY <1>7, <1>8 DEF RmAt
<1>10. t[k] \in RmRf /\ \A j \in (h + 1)..(k - 1) : t[j] \notin RmRf
  BY <1>7, <1>8 DEF RmAt
<1>11. RmAt(t, s, f, h, k)
  BY <1>4, <1>6, <1>9, <1>10 DEF RmAt
<1> QED BY <1>11 DEF f

LEMMA ManGrows ==
    ASSUME NEW t, NEW r, IsText(t), IsText(r), Longer(r, t), NEW s, NEW e, NEW m,
           ManAt(t, s, e, m)
    PROVE  ManAt(r, s, IF e = Len(t) THEN Len(r) ELSE e, m)
<1> DEFINE f == IF e = Len(t) THEN Len(r) ELSE e
<1>1. Len(t) \in Nat /\ Len(r) \in Nat /\ Len(t) <= Len(r)
  BY DEF IsText, Longer
<1>2. RuleAt(t, s, e) /\ m \in s..e
  BY DEF ManAt
<1>3. s \in 1..Len(t) /\ e \in s..Len(t)
  BY <1>2 DEF RuleAt
<1>4. RuleAt(r, s, f)
  BY <1>2, RuleGrows
<1>5. m \in s..f
  BY <1>1, <1>2, <1>3
<1> HIDE DEF f
<1>6. r[m] = ManLine /\ \A j \in s..(m - 1) : r[j] # ManLine
  <2>1. m \in 1..Len(t) /\ \A j \in s..(m - 1) : j \in 1..Len(t)
    BY <1>1, <1>2, <1>3
  <2> QED BY <2>1 DEF ManAt, Longer
<1>7. ManAt(r, s, f, m)
  BY <1>4, <1>5, <1>6 DEF ManAt
<1> QED BY <1>7 DEF f

LEMMA ManShrinks ==
    ASSUME NEW t, NEW r, IsText(t), IsText(r), Longer(r, t), NEW s, NEW e, NEW m,
           ManAt(r, s, e, m)
    PROVE  ManAt(t, s, IF e = Len(r) THEN Len(t) ELSE e, m)
<1> DEFINE f == IF e = Len(r) THEN Len(t) ELSE e
<1>1. Len(t) \in Nat /\ Len(r) \in Nat /\ Len(t) <= Len(r)
  BY DEF IsText, Longer
<1>2. RuleAt(r, s, e) /\ m \in s..e /\ r[m] = ManLine
  BY DEF ManAt
<1>3. s \in 1..Len(r) /\ e \in s..Len(r)
  BY <1>2 DEF RuleAt
<1>4. RuleAt(t, s, f)
  BY <1>2, RuleShrinks
<1>5. m <= Len(t)
  <2> SUFFICES ASSUME m > Len(t) PROVE FALSE
    BY <1>1, <1>2, <1>3
  <2>1. m \in (Len(t) + 1)..Len(r)
    BY <1>1, <1>2, <1>3
  <2> QED BY <1>2, <2>1, AnchorLines DEF Longer
<1>6. m \in s..f
  BY <1>1, <1>2, <1>3, <1>5
<1> HIDE DEF f
<1>7. t[m] = ManLine /\ \A j \in s..(m - 1) : t[j] # ManLine
  <2>1. m \in 1..Len(t) /\ \A j \in s..(m - 1) : j \in 1..Len(t)
    BY <1>1, <1>2, <1>3, <1>5
  <2> QED BY <2>1 DEF ManAt, Longer
<1>8. ManAt(t, s, f, m)
  BY <1>4, <1>6, <1>7 DEF ManAt
<1> QED BY <1>8 DEF f

LEMMA JoinAssociates ==
    ASSUME NEW A, NEW u \in Seq(A), NEW v \in Seq(A), NEW w \in Seq(A)
    PROVE  u \o (v \o w) = (u \o v) \o w
<1> DEFINE vw == v \o w
           uv == u \o v
           a == u \o vw
           b == uv \o w
<1>1. vw \in Seq(A) /\ IsJoin(vw, v, w) /\ uv \in Seq(A) /\ IsJoin(uv, u, v)
  BY JoinIs
<1> HIDE DEF vw, uv
<1>2. a \in Seq(A) /\ IsJoin(a, u, vw) /\ b \in Seq(A) /\ IsJoin(b, uv, w)
  BY <1>1, JoinIs
<1> HIDE DEF a, b
<1>3. Len(u) \in Nat /\ Len(v) \in Nat /\ Len(w) \in Nat
  OBVIOUS
<1>4. /\ Len(vw) = Len(v) + Len(w) /\ Len(uv) = Len(u) + Len(v)
      /\ Len(a) = Len(u) + Len(vw) /\ Len(b) = Len(uv) + Len(w)
  BY <1>1, <1>2 DEF IsJoin
<1>5. Len(a) = Len(b)
  BY <1>3, <1>4
<1>6. ASSUME NEW j \in 1..Len(b) PROVE a[j] = b[j]
  <2>1. CASE j \in 1..Len(u)
    <3>1. j \in 1..Len(uv)
      BY <1>3, <1>4, <2>1
    <3>2. a[j] = u[j] /\ uv[j] = u[j] /\ b[j] = uv[j]
      BY <1>1, <1>2, <2>1, <3>1 DEF IsJoin
    <3> QED BY <3>2
  <2>2. CASE j \in (Len(u) + 1)..(Len(u) + Len(v))
    <3> DEFINE i == j - Len(u)
    <3>1. i \in 1..Len(v) /\ i \in 1..Len(vw) /\ Len(u) + i = j /\ j \in 1..Len(uv)
      BY <1>3, <1>4, <2>2
    <3> HIDE DEF i
    <3>2. a[Len(u) + i] = vw[i] /\ vw[i] = v[i] /\ b[j] = uv[j] /\ uv[Len(u) + i] = v[i]
      BY <1>1, <1>2, <3>1 DEF IsJoin
    <3> QED BY <3>1, <3>2
  <2>3. CASE j \in (Len(u) + Len(v) + 1)..Len(b)
    <3> DEFINE i == j - Len(u)
               k == j - Len(uv)
    <3>1. i \in 1..Len(vw) /\ k \in 1..Len(w) /\ Len(u) + i = j /\ Len(v) + k = i /\ Len(uv) + k = j
      BY <1>3, <1>4, <2>3
    <3> HIDE DEF i, k
    <3>2. a[Len(u) + i] = vw[i] /\ vw[Len(v) + k] = w[k] /\ b[Len(uv) + k] = w[k]
      BY <1>1, <1>2, <3>1 DEF IsJoin
    <3> QED BY <3>1, <3>2
  <2> QED BY <1>3, <1>4, <2>1, <2>2, <2>3
<1>7. a = b
  BY <1>2, <1>5, <1>6, SameLines
<1> QED BY <1>7 DEF a, b, uv, vw

\* The lines of t in t \o x, and what is below them.
LEMMA MidGrows ==
    ASSUME NEW A, NEW t \in Seq(A), NEW x \in Seq(A),
           NEW i \in 1..(Len(t) + 1), NEW j \in 0..Len(t)
    PROVE  SubSeq(t \o x, i, j) = SubSeq(t, i, j)
<1> DEFINE r == t \o x
           a == SubSeq(r, i, j)
           b == SubSeq(t, i, j)
<1>1. r \in Seq(A) /\ IsJoin(r, t, x)
  BY JoinIs
<1> HIDE DEF r
<1>2. Len(t) \in Nat /\ Len(x) \in Nat /\ Len(r) = Len(t) + Len(x)
  BY <1>1 DEF IsJoin
<1>3. CASE i <= j
  <2>1. a \in Seq(A) /\ Len(a) = j - i + 1 /\ \A k \in 1..(j - i + 1) : a[k] = r[i - 1 + k]
    BY <1>1, <1>2, <1>3
  <2>2. b \in Seq(A) /\ Len(b) = j - i + 1 /\ \A k \in 1..(j - i + 1) : b[k] = t[i - 1 + k]
    BY <1>2, <1>3
  <2> HIDE DEF a, b
  <2>3. ASSUME NEW k \in 1..Len(b) PROVE a[k] = b[k]
    <3>1. k \in 1..(j - i + 1) /\ i - 1 + k \in 1..Len(t)
      BY <1>2, <1>3, <2>2
    <3>2. r[i - 1 + k] = t[i - 1 + k]
      BY <1>1, <3>1 DEF IsJoin
    <3> QED BY <2>1, <2>2, <3>1, <3>2
  <2>4. a = b
    BY <2>1, <2>2, <2>3, SameLines
  <2> QED BY <2>4 DEF a, b, r
<1>4. CASE ~(i <= j)
  <2>1. a = <<>> /\ b = <<>>
    BY <1>1, <1>2, <1>4
  <2> HIDE DEF a, b
  <2>2. a = b
    BY <2>1
  <2> QED BY <2>2 DEF a, b, r
<1> QED BY <1>3, <1>4

LEMMA TailGrows ==
    ASSUME NEW A, NEW t \in Seq(A), NEW x \in Seq(A), NEW i \in 1..(Len(t) + 1)
    PROVE  SubSeq(t \o x, i, Len(t \o x)) = SubSeq(t, i, Len(t)) \o x
<1> DEFINE r == t \o x
           v == SubSeq(t, i, Len(t))
           a == SubSeq(r, i, Len(r))
           b == v \o x
<1>1. r \in Seq(A) /\ IsJoin(r, t, x)
  BY JoinIs
<1> HIDE DEF r
<1>2. Len(t) \in Nat /\ Len(x) \in Nat /\ Len(r) = Len(t) + Len(x)
  BY <1>1 DEF IsJoin
<1>3. /\ v \in Seq(A) /\ Len(v) = Len(t) - i + 1
      /\ \A k \in 1..(Len(t) - i + 1) : v[k] = t[i - 1 + k]
  BY <1>2
<1>4. /\ a \in Seq(A) /\ Len(a) = Len(r) - i + 1
      /\ \A k \in 1..(Len(r) - i + 1) : a[k] = r[i - 1 + k]
  BY <1>1, <1>2
<1> HIDE DEF v, a
<1>5. b \in Seq(A) /\ IsJoin(b, v, x)
  BY <1>3, JoinIs
<1> HIDE DEF b
<1>6. Len(b) = Len(v) + Len(x) /\ Len(a) = Len(b)
  BY <1>2, <1>3, <1>4, <1>5 DEF IsJoin
<1>7. ASSUME NEW k \in 1..Len(b) PROVE a[k] = b[k]
  <2>1. k \in 1..(Len(r) - i + 1)
    BY <1>2, <1>3, <1>6
  <2>2. CASE k <= Len(v)
    <3>1. k \in 1..Len(v) /\ i - 1 + k \in 1..Len(t) /\ k \in 1..(Len(t) - i + 1)
      BY <1>2, <1>3, <2>2
    <3>2. b[k] = v[k] /\ r[i - 1 + k] = t[i - 1 + k]
      BY <1>1, <1>5, <3>1 DEF IsJoin
    <3> QED BY <1>3, <1>4, <2>1, <3>1, <3>2
  <2>3. CASE k > Len(v)
    <3> DEFINE q == k - Len(v)
    <3>1. q \in 1..Len(x) /\ Len(v) + q = k /\ Len(t) + q = i - 1 + k
      BY <1>2, <1>3, <1>6, <2>3
    <3> HIDE DEF q
    <3>2. b[Len(v) + q] = x[q] /\ r[Len(t) + q] = x[q]
      BY <1>1, <1>5, <3>1 DEF IsJoin
    <3> QED BY <1>4, <2>1, <3>1, <3>2
  <2> QED BY <1>2, <1>3, <2>2, <2>3
<1>8. a = b
  BY <1>4, <1>5, <1>6, <1>7, SameLines
<1> QED BY <1>8 DEF a, b, v, r

LEMMA SpliceGrows ==
    ASSUME NEW t, NEW x, NEW new, IsText(t), IsText(x), IsText(new), NEW i \in 1..Len(t)
    PROVE  Splice(t \o x, i, 1, new) = Splice(t, i, 1, new) \o x
<1>1. PICK B : t \in Seq(B) /\ x \in Seq(B)
  BY Common
<1>2. IsText(t \o x)
  BY <1>1, JoinIs DEF IsText
<1>3. PICK C : new \in Seq(C)
  BY DEF IsText
<1> DEFINE A == B \cup C
<1>4. t \in Seq(A) /\ x \in Seq(A) /\ new \in Seq(A)
  BY <1>1, <1>3, SeqGrows
<1> HIDE DEF A
<1>5. Len(t) \in Nat
  BY <1>4
<1> DEFINE u == SubSeq(t, 1, i - 1)
           v == SubSeq(t, i + 1, Len(t))
           c == u \o new
<1>6. u \in Seq(A) /\ v \in Seq(A)
  BY <1>4, <1>5
<1>7. SubSeq(t \o x, 1, i - 1) = u
  <2>1. 1 \in 1..(Len(t) + 1) /\ i - 1 \in 0..Len(t)
    BY <1>5
  <2> QED BY <1>4, <2>1, MidGrows
<1>8. SubSeq(t \o x, i + 1, Len(t \o x)) = v \o x
  <2>1. i + 1 \in 1..(Len(t) + 1)
    BY <1>5
  <2> QED BY <1>4, <2>1, TailGrows
<1>9. Splice(t \o x, i, 1, new) = c \o (v \o x)
  <2> HIDE DEF u, v
  <2> QED BY <1>7, <1>8 DEF Splice
<1>10. Splice(t, i, 1, new) = c \o v
  BY DEF Splice
<1> HIDE DEF u, v
<1>11. c \in Seq(A)
  BY <1>4, <1>6, JoinIs
<1> HIDE DEF c
<1>12. c \o (v \o x) = (c \o v) \o x
  <2>1. c \in Seq(A) /\ v \in Seq(A) /\ x \in Seq(A)
    BY <1>4, <1>6, <1>11
  <2> HIDE <1>4, <1>6, <1>11
  <2> QED BY <2>1, JoinAssociates
<1> QED BY <1>9, <1>10, <1>12

LEMMA ReplacedGrows ==
    ASSUME NEW t, NEW x, IsText(t), IsText(x), NEW i \in 1..Len(t), NEW new
    PROVE  ReplaceAt(t \o x, i, new) = ReplaceAt(t, i, new) \o x
<1>1. PICK B : t \in Seq(B) /\ x \in Seq(B)
  BY Common
<1> DEFINE A == B \cup {new}
<1>2. t \in Seq(A) /\ x \in Seq(A) /\ new \in A
  BY <1>1, SeqGrows
<1> HIDE DEF A
<1> DEFINE r == t \o x
           a == ReplaceAt(r, i, new)
           c == ReplaceAt(t, i, new)
           b == c \o x
<1>3. r \in Seq(A) /\ IsJoin(r, t, x)
  BY <1>2, JoinIs
<1> HIDE DEF r
<1>4. Len(t) \in Nat /\ Len(x) \in Nat /\ Len(r) = Len(t) + Len(x)
  BY <1>2, <1>3 DEF IsJoin
<1>5. /\ a \in Seq(A) /\ Len(a) = Len(r) /\ a[i] = new
      /\ \A j \in 1..Len(r) : j # i => a[j] = r[j]
  BY <1>2, <1>3, <1>4 DEF ReplaceAt
<1>6. /\ c \in Seq(A) /\ Len(c) = Len(t) /\ c[i] = new
      /\ \A j \in 1..Len(t) : j # i => c[j] = t[j]
  BY <1>2, <1>4 DEF ReplaceAt
<1> HIDE DEF a, c
<1>7. b \in Seq(A) /\ IsJoin(b, c, x)
  BY <1>2, <1>6, JoinIs
<1> HIDE DEF b
<1>8. Len(a) = Len(b)
  BY <1>4, <1>5, <1>6, <1>7 DEF IsJoin
<1>9. ASSUME NEW j \in 1..Len(b) PROVE a[j] = b[j]
  <2>1. j \in 1..Len(r)
    BY <1>5, <1>8
  <2>2. CASE j <= Len(t)
    <3>1. j \in 1..Len(t) /\ j \in 1..Len(c)
      BY <1>4, <1>6, <2>1, <2>2
    <3>2. b[j] = c[j] /\ r[j] = t[j]
      BY <1>3, <1>7, <3>1 DEF IsJoin
    <3> QED BY <1>5, <1>6, <2>1, <3>1, <3>2
  <2>3. CASE j > Len(t)
    <3> DEFINE q == j - Len(t)
    <3>1. q \in 1..Len(x) /\ Len(t) + q = j /\ Len(c) + q = j /\ j # i
      BY <1>4, <1>6, <2>1, <2>3
    <3> HIDE DEF q
    <3>2. b[Len(c) + q] = x[q] /\ r[Len(t) + q] = x[q]
      BY <1>3, <1>7, <3>1 DEF IsJoin
    <3> QED BY <1>5, <2>1, <3>1, <3>2
  <2> QED BY <1>4, <2>1, <2>2, <2>3
<1>10. a = b
  BY <1>5, <1>7, <1>8, <1>9, SameLines
<1> QED BY <1>10 DEF a, b, c, r

\* Further lines that patch_makefile does not look for.
Inert(x) == IsText(x) /\ \A l \in Anchors : ~Contains(x, l)

\* What is done to the text is done to it with the further lines.
Grows(q, r, x) == r = IF q = SystemExit THEN SystemExit ELSE q \o x

LEMMA TwoLinesSay == ASSUME NEW t, Len(t) >= 2 PROVE t # SystemExit
<1>1. Len(SystemExit) = 1
  BY DEF SystemExit
<1> HIDE DEF SystemExit
<1> QED BY <1>1

LEMMA StripAtGrows ==
    ASSUME NEW t, IsText(t), NEW x, Inert(x), NEW k \in 1..Len(t)
    PROVE  Grows(StripAt(t, k, LineAfter(t, k)), StripAt(t \o x, k, LineAfter(t \o x, k)), x)
<1> DEFINE r == t \o x
           two == <<IncludeLine, USR_DOC_COMMENT>>
           at == LineAfter(t, k)
           ar == LineAfter(r, k)
           et == InsertBlock(RemoveAt(t, k), k, two)
           er == InsertBlock(RemoveAt(r, k), k, two)
           pt == ReplaceAt(t, k + 1, USR_DOC_COMMENT)
           pr == ReplaceAt(r, k + 1, USR_DOC_COMMENT)
           u == StripAt(t, k, at)
           v == StripAt(r, k, ar)
<1>1. IsText(x) /\ IsText(r) /\ Longer(r, t)
  BY JoinedLonger DEF Inert
<1>2. Len(t) \in Nat /\ Len(r) \in Nat /\ Len(t) <= Len(r) /\ k # 0
  BY <1>1 DEF IsText, Longer
<1>3. r[k] = t[k] /\ k \in 1..Len(r)
  BY <1>1, <1>2 DEF Longer
<1>4. u = IF t[k] = LiveLine THEN et ELSE IF at = USR_DOC_COMMENT THEN t
          ELSE IF at = DeadLine THEN pt ELSE SystemExit
  BY <1>2, Zenon DEF StripAt, LiveLine, IncludeLine, DeadLine
<1>5. v = IF r[k] = LiveLine THEN er ELSE IF ar = USR_DOC_COMMENT THEN r
          ELSE IF ar = DeadLine THEN pr ELSE SystemExit
  BY <1>2, Zenon DEF StripAt, LiveLine, IncludeLine, DeadLine
<1>6. \/ k < Len(t) /\ at = ar /\ k + 1 \in 1..Len(t)
      \/ k = Len(t) /\ at \notin {USR_DOC_COMMENT, DeadLine} /\ ar \notin {USR_DOC_COMMENT, DeadLine}
  <2> DEFINE empty == ""
  <2>1. empty \notin {USR_DOC_COMMENT, DeadLine}
    BY DEF USR_DOC_COMMENT, DeadLine
  <2>2. /\ at = IF k < Len(t) THEN t[k + 1] ELSE empty
        /\ ar = IF k < Len(r) THEN r[k + 1] ELSE empty
    BY DEF LineAfter
  <2> HIDE DEF empty, at, ar, r
  <2>3. CASE k < Len(t)
    <3>1. k + 1 \in 1..Len(t) /\ k < Len(r)
      BY <1>2, <2>3
    <3>2. r[k + 1] = t[k + 1]
      BY <1>1, <3>1 DEF Longer
    <3> QED BY <2>2, <2>3, <3>1, <3>2
  <2>4. CASE k = Len(t)
    <3>1. at = empty
      BY <1>2, <2>2, <2>4
    <3>2. CASE k < Len(r)
      <4>1. k + 1 \in (Len(t) + 1)..Len(r)
        BY <1>2, <2>4, <3>2
      <4>2. r[k + 1] \notin Anchors
        BY <1>1, <4>1 DEF Longer
      <4>3. ar = r[k + 1]
        BY <2>2, <3>2
      <4> QED BY <2>1, <2>4, <3>1, <4>2, <4>3, AnchorLines
    <3>3. CASE ~(k < Len(r))
      BY <2>1, <2>2, <2>4, <3>1, <3>3
    <3> QED BY <3>2, <3>3
  <2> QED BY <1>2, <2>3, <2>4
<1>7. er = et \o x /\ et # SystemExit
  <2>1. IsText(two) /\ Len(two) = 2
    BY TwoLine
  <2> HIDE DEF two
  <2>2. et = Splice(t, k, 1, two) /\ er = Splice(r, k, 1, two)
    BY <1>1, <1>3, ReplacedIsSplice
  <2>3. Splice(r, k, 1, two) = Splice(t, k, 1, two) \o x
    BY <1>1, <2>1, SpliceGrows
  <2>4. IsSplice(Splice(t, k, 1, two), t, k, 1, two)
    <3>1. k \in 1..(Len(t) + 1) /\ 1 \in Nat /\ k + 1 <= Len(t) + 1
      BY <1>2
    <3> QED BY <2>1, <3>1, TextSplice
  <2>5. Len(Splice(t, k, 1, two)) >= 2
    <3>1. Len(Splice(t, k, 1, two)) = Len(t) - 1 + Len(two)
      BY <2>4 DEF IsSplice
    <3> QED BY <1>2, <2>1, <3>1
  <2>6. Splice(t, k, 1, two) # SystemExit
    BY <2>5, TwoLinesSay
  <2> QED BY <2>2, <2>3, <2>6
<1>8. ASSUME k < Len(t) PROVE t # SystemExit /\ pr = pt \o x /\ pt # SystemExit
  <2>1. k + 1 \in 1..Len(t) /\ Len(t) >= 2
    BY <1>2, <1>8
  <2>2. t # SystemExit
    BY <2>1, TwoLinesSay
  <2>3. pr = pt \o x
    BY <1>1, <2>1, ReplacedGrows
  <2>4. Len(pt) = Len(t)
    BY <2>1, ReplacedAt
  <2> HIDE DEF pt, pr
  <2>5. pt # SystemExit
    BY <2>1, <2>4, TwoLinesSay
  <2> QED BY <2>2, <2>3, <2>5
<1> HIDE DEF u, v, et, er, pt, pr, at, ar
<1>9. Grows(u, v, x)
  <2>1. CASE t[k] = LiveLine
    BY <1>3, <1>4, <1>5, <1>7, <2>1 DEF Grows
  <2>2. CASE t[k] # LiveLine /\ k < Len(t)
    BY <1>3, <1>4, <1>5, <1>6, <1>8, <2>2 DEF Grows
  <2>3. CASE t[k] # LiveLine /\ ~(k < Len(t))
    <3>1. u = SystemExit /\ v = SystemExit
      BY <1>3, <1>4, <1>5, <1>6, <2>3
    <3> QED BY <3>1 DEF Grows
  <2> QED BY <2>1, <2>2, <2>3
<1> QED BY <1>9 DEF u, v, at, ar, r

LEMMA StripGrows ==
    ASSUME NEW t, IsText(t), NEW x, Inert(x)
    PROVE  Grows(Stripped(t), Stripped(t \o x), x)
<1> DEFINE r == t \o x
<1>1. IsText(x) /\ IsText(r) /\ Longer(r, t)
  BY JoinedLonger DEF Inert
<1>2. CASE \E s, e, h, k : RmAt(t, s, e, h, k)
  <2>1. PICK s, e, h, k : RmAt(t, s, e, h, k)
    BY <1>2
  <2> DEFINE f == IF e = Len(t) THEN Len(r) ELSE e
  <2>2. RmAt(r, s, f, h, k)
    BY <1>1, <2>1, RmGrows
  <2> HIDE DEF f
  <2>3. k \in 1..Len(t)
    <3>1. s \in 1..Len(t) /\ e \in s..Len(t) /\ h \in s..e /\ k \in (h + 1)..e /\ Len(t) \in Nat
      BY <2>1 DEF RmAt, RuleAt, IsText
    <3> QED BY <3>1
  <2>4. Stripped(t) = StripAt(t, k, LineAfter(t, k))
    BY <2>1, StripIs
  <2>5. Stripped(r) = StripAt(r, k, LineAfter(r, k))
    BY <1>1, <2>2, StripIs
  <2>6. Grows(StripAt(t, k, LineAfter(t, k)), StripAt(r, k, LineAfter(r, k)), x)
    BY <2>3, StripAtGrows
  <2> QED BY <2>4, <2>5, <2>6
<1>3. CASE ~\E s, e, h, k : RmAt(t, s, e, h, k)
  <2>1. Stripped(t) = SystemExit
    BY <1>3, StripHas
  <2>2. ~\E s, e, h, k : RmAt(r, s, e, h, k)
    <3> SUFFICES ASSUME NEW s, NEW e, NEW h, NEW k, RmAt(r, s, e, h, k) PROVE FALSE
      OBVIOUS
    <3> HIDE DEF r
    <3>1. RmAt(t, s, IF e = Len(r) THEN Len(t) ELSE e, h, k)
      BY <1>1, RmShrinks
    <3> QED BY <1>3, <3>1
  <2> HIDE DEF r
  <2>3. Stripped(r) = SystemExit
    BY <1>1, <2>2, StripHas
  <2> QED BY <2>1, <2>3 DEF Grows, r
<1> QED BY <1>2, <1>3

LEMMA WrapAtGrows ==
    ASSUME NEW t, IsText(t), NEW x, Inert(x), NEW m \in 2..Len(t), NEW d,
           d = 0 \/ d \in m..Len(t)
    PROVE  Grows(WrapAt(t, m, d), WrapAt(t \o x, m, d), x)
<1> DEFINE r == t \o x
           pt == SubSeq(t, m, d)
           pr == SubSeq(r, m, d)
           qt == SubSeq(t, 1, m - 1) \o <<KEEP_DOCS_IFNEQ>> \o pt
                     \o <<"endif">> \o SubSeq(t, d + 1, Len(t))
           qr == SubSeq(r, 1, m - 1) \o <<KEEP_DOCS_IFNEQ>> \o pr
                     \o <<"endif">> \o SubSeq(r, d + 1, Len(r))
           bt == d = 0 \/ ~(ToSet(pt) \subseteq Recipe) \/ ~Contains(pt, "rm -rf gtk-doc")
           br == d = 0 \/ ~(ToSet(pr) \subseteq Recipe) \/ ~Contains(pr, "rm -rf gtk-doc")
           u == WrapAt(t, m, d)
           v == WrapAt(r, m, d)
<1>1. IsText(x) /\ IsText(r) /\ Longer(r, t)
  BY JoinedLonger DEF Inert
<1>2. Len(t) \in Nat /\ Len(r) \in Nat /\ Len(t) <= Len(r) /\ m # 0 /\ m - 1 \in 1..Len(t)
  BY <1>1 DEF IsText, Longer
<1>3. r[m - 1] = t[m - 1]
  BY <1>1, <1>2 DEF Longer
<1>4. u = IF t[m - 1] = KEEP_DOCS_IFNEQ THEN t ELSE IF bt THEN SystemExit ELSE qt
  BY <1>2, Zenon DEF WrapAt
<1>5. v = IF r[m - 1] = KEEP_DOCS_IFNEQ THEN r ELSE IF br THEN SystemExit ELSE qr
  BY <1>2, Zenon DEF WrapAt
<1>6. PICK A : t \in Seq(A) /\ x \in Seq(A)
  BY <1>1, Common
<1>7. ASSUME d # 0 PROVE pr = pt
  <2>1. m \in 1..(Len(t) + 1) /\ d \in 0..Len(t)
    BY <1>2, <1>7
  <2> QED BY <1>6, <2>1, MidGrows
<1>8. bt <=> br
  <2>1. CASE d = 0
    BY <2>1
  <2>2. CASE d # 0
    <3>1. pr = pt
      BY <1>7, <2>2
    <3> HIDE DEF pr, pt
    <3> QED BY <3>1
  <2> QED BY <2>1, <2>2
<1>9. ASSUME ~bt PROVE qr = qt \o x /\ qt # SystemExit
  <2>1. d # 0 /\ d \in m..Len(t)
    BY <1>9
  <2> DEFINE B == A \cup {KEEP_DOCS_IFNEQ, "endif"}
             a == SubSeq(t, 1, m - 1)
             c == SubSeq(t, d + 1, Len(t))
             k == <<KEEP_DOCS_IFNEQ>>
             n == <<"endif">>
             h == ((a \o k) \o pt) \o n
  <2>2. t \in Seq(B) /\ x \in Seq(B)
    BY <1>6, SeqGrows
  <2>3. k \in Seq(B) /\ n \in Seq(B) /\ Len(k) = 1 /\ Len(n) = 1
    OBVIOUS
  <2> HIDE DEF B, k, n
  <2>4. a \in Seq(B) /\ pt \in Seq(B) /\ c \in Seq(B) /\ Len(a) = m - 1
    BY <1>2, <2>1, <2>2
  <2>5. SubSeq(r, 1, m - 1) = a
    <3>1. 1 \in 1..(Len(t) + 1) /\ m - 1 \in 0..Len(t)
      BY <1>2
    <3> QED BY <1>6, <3>1, MidGrows
  <2>6. SubSeq(r, d + 1, Len(r)) = c \o x
    <3>1. d + 1 \in 1..(Len(t) + 1)
      BY <1>2, <2>1
    <3> QED BY <1>6, <3>1, TailGrows
  <2>7. pr = pt
    BY <1>7, <2>1
  <2>8. qt = h \o c
    BY DEF k, n
  <2>9. qr = h \o (c \o x)
    <3> HIDE DEF a, pt, pr, r, c
    <3> QED BY <2>5, <2>6, <2>7 DEF k, n
  <2> HIDE DEF a, pt, c
  <2>10. /\ a \o k \in Seq(B) /\ IsJoin(a \o k, a, k)
    BY <2>3, <2>4, JoinIs
  <2> DEFINE ak == a \o k
             akp == ak \o pt
  <2>11. ak \in Seq(B) /\ Len(ak) = m
    <3>1. Len(a \o k) = Len(a) + Len(k)
      BY <2>10 DEF IsJoin
    <3> QED BY <1>2, <2>3, <2>4, <2>10, <3>1
  <2> HIDE DEF ak
  <2>12. akp \in Seq(B) /\ IsJoin(akp, ak, pt)
    BY <2>4, <2>11, JoinIs
  <2>13. h = akp \o n
    BY DEF ak
  <2> HIDE DEF akp, h
  <2>14. h \in Seq(B) /\ IsJoin(h, akp, n)
    BY <2>3, <2>12, <2>13, JoinIs
  <2>15. h \o c \in Seq(B) /\ IsJoin(h \o c, h, c)
    BY <2>4, <2>14, JoinIs
  <2>16. h \o (c \o x) = (h \o c) \o x
    <3>1. h \in Seq(B) /\ c \in Seq(B) /\ x \in Seq(B)
      BY <2>2, <2>4, <2>14
    <3> HIDE <2>2, <2>4, <2>14
    <3> QED BY <3>1, JoinAssociates
  <2>17. Len(h \o c) >= 2
    <3>1. /\ Len(akp) = Len(ak) + Len(pt) /\ Len(h) = Len(akp) + Len(n)
          /\ Len(h \o c) = Len(h) + Len(c)
      BY <2>12, <2>14, <2>15 DEF IsJoin
    <3>2. Len(pt) \in Nat /\ Len(c) \in Nat
      BY <2>4
    <3> QED BY <2>3, <2>11, <3>1, <3>2
  <2>18. h \o c # SystemExit
    BY <2>17, TwoLinesSay
  <2> HIDE DEF qt, qr
  <2> QED BY <2>8, <2>9, <2>16, <2>18
<1>10. t # SystemExit
  <2>1. Len(t) >= 2
    BY <1>2
  <2> QED BY <2>1, TwoLinesSay
<1> HIDE DEF u, v, qt, qr, bt, br
<1>11. Grows(u, v, x)
  <2>1. CASE t[m - 1] = KEEP_DOCS_IFNEQ
    <3>1. u = t /\ v = r
      BY <1>3, <1>4, <1>5, <2>1
    <3> QED BY <1>10, <3>1 DEF Grows
  <2>2. CASE t[m - 1] # KEEP_DOCS_IFNEQ /\ bt
    <3>1. u = SystemExit /\ v = SystemExit
      BY <1>3, <1>4, <1>5, <1>8, <2>2
    <3> QED BY <3>1 DEF Grows
  <2>3. CASE t[m - 1] # KEEP_DOCS_IFNEQ /\ ~bt
    <3>1. u = qt /\ v = qr
      BY <1>3, <1>4, <1>5, <1>8, <2>3
    <3> QED BY <1>9, <2>3, <3>1 DEF Grows
  <2> QED BY <2>1, <2>2, <2>3
<1> QED BY <1>11 DEF u, v, r

LEMMA WrapGrows ==
    ASSUME NEW t, IsText(t), NEW x, Inert(x)
    PROVE  Grows(Wrapped(t), Wrapped(t \o x), x)
<1> DEFINE r == t \o x
<1>1. IsText(x) /\ IsText(r) /\ Longer(r, t)
  BY JoinedLonger DEF Inert
<1>2. CASE \E s, e, m : ManAt(t, s, e, m)
  <2>1. PICK s, e, m : ManAt(t, s, e, m)
    BY <1>2
  <2> DEFINE f == IF e = Len(t) THEN Len(r) ELSE e
             d == FirstIn(t, m, e, {RmdirLine})
  <2>2. ManAt(r, s, f, m)
    BY <1>1, <2>1, ManGrows
  <2>3. /\ s \in 1..Len(t) /\ e \in s..Len(t) /\ m \in s..e /\ Len(t) \in Nat
        /\ t[s] = PhonyLine /\ t[m] = ManLine
    BY <2>1 DEF ManAt, RuleAt, IsText
  <2>4. m \in 2..Len(t) /\ m \in Nat \ {0} /\ e \in Nat
    <3>1. m # s
      BY <2>3, LinesApart
    <3> QED BY <2>3, <3>1
  <2>5. Len(r) \in Nat /\ Len(t) <= Len(r)
    BY <1>1 DEF IsText, Longer
  <2>6. f \in Nat /\ f \in m..Len(r) /\ e <= f
    BY <2>3, <2>4, <2>5
  <2>7. IsFirst(t, m, e, {RmdirLine}, d)
    <3>1. \/ d = 0 /\ \A j \in m..e : t[j] \notin {RmdirLine}
          \/ d \in m..e /\ t[d] \in {RmdirLine} /\ \A j \in m..(d - 1) : t[j] \notin {RmdirLine}
      BY <2>4, FirstInText, Zenon
    <3> HIDE DEF d
    <3> QED BY <3>1 DEF IsFirst
  <2> HIDE DEF d
  <2>8. d = 0 \/ d \in m..Len(t)
    BY <2>3, <2>7 DEF IsFirst
  <2>9. IsFirst(r, m, f, {RmdirLine}, d)
    <3>1. CASE d = 0 /\ \A j \in m..e : t[j] \notin {RmdirLine}
      <4>1. ASSUME NEW j \in m..f PROVE r[j] # RmdirLine
        <5>1. CASE j <= e
          <6>1. j \in m..e /\ j \in 1..Len(t)
            BY <2>3, <2>4, <2>6, <5>1
          <6>2. r[j] = t[j]
            BY <1>1, <6>1 DEF Longer
          <6> QED BY <3>1, <6>1, <6>2
        <5>2. CASE j > e
          <6>1. e = Len(t) /\ j \in (Len(t) + 1)..Len(r)
            BY <2>3, <2>4, <2>5, <2>6, <5>2
          <6>2. r[j] \notin Anchors
            BY <1>1, <6>1 DEF Longer
          <6> QED BY <6>2, AnchorLines
        <5> QED BY <2>3, <2>4, <2>6, <5>1, <5>2
      <4> QED BY <3>1, <4>1 DEF IsFirst
    <3>2. CASE /\ d \in m..e /\ t[d] \in {RmdirLine}
               /\ \A j \in m..(d - 1) : t[j] \notin {RmdirLine}
      <4>1. d \in m..f /\ \A j \in m..d : j \in 1..Len(t)
        BY <2>3, <2>4, <2>6, <3>2
      <4>2. \A j \in m..d : r[j] = t[j]
        BY <1>1, <4>1 DEF Longer
      <4>3. d \in m..d /\ \A j \in m..(d - 1) : j \in m..d
        BY <2>3, <2>4, <3>2
      <4>4. r[d] \in {RmdirLine} /\ \A j \in m..(d - 1) : r[j] \notin {RmdirLine}
        BY <3>2, <4>2, <4>3
      <4> QED BY <4>1, <4>4 DEF IsFirst
    <3> QED BY <2>7, <3>1, <3>2 DEF IsFirst
  <2>10. Wrapped(t) = WrapAt(t, m, d)
    BY <2>1, WrapIs DEF d
  <2>11. Wrapped(r) = WrapAt(r, m, d)
    <3>1. FirstIn(r, m, f, {RmdirLine}) = d
      <4> HIDE DEF r, f
      <4> QED BY <2>4, <2>6, <2>9, FirstIs
    <3> HIDE DEF r, f
    <3> QED BY <1>1, <2>2, <3>1, WrapIs
  <2>12. Grows(WrapAt(t, m, d), WrapAt(r, m, d), x)
    BY <2>4, <2>8, WrapAtGrows
  <2> QED BY <2>10, <2>11, <2>12
<1>3. CASE ~\E s, e, m : ManAt(t, s, e, m)
  <2>1. Wrapped(t) = SystemExit
    BY <1>3, WrapHas
  <2>2. ~\E s, e, m : ManAt(r, s, e, m)
    <3> SUFFICES ASSUME NEW s, NEW e, NEW m, ManAt(r, s, e, m) PROVE FALSE
      OBVIOUS
    <3> HIDE DEF r
    <3>1. ManAt(t, s, IF e = Len(r) THEN Len(t) ELSE e, m)
      BY <1>1, ManShrinks
    <3> QED BY <1>3, <3>1
  <2> HIDE DEF r
  <2>3. Wrapped(r) = SystemExit
    BY <1>1, <2>2, WrapHas
  <2> QED BY <2>1, <2>3 DEF Grows, r
<1> QED BY <1>2, <1>3

\* patch_makefile works on the rule alone: lines below it that it does not look
\* for stay as they are, and it fails with them when it fails without.
LEMMA MakefileGrows ==
    ASSUME NEW t, IsText(t), NEW x, Inert(x)
    PROVE  Grows(patch_makefile(t), patch_makefile(t \o x), x)
<1> DEFINE a == Stripped(t)
           b == Stripped(t \o x)
           c == Wrapped(a)
           d == Wrapped(b)
<1>1. Grows(a, b, x)
  BY StripGrows
<1>2. patch_makefile(t) = IF a = SystemExit THEN SystemExit ELSE c
  BY MakefileIs
<1>3. patch_makefile(t \o x) = IF b = SystemExit THEN SystemExit ELSE d
  BY MakefileIs
<1>4. CASE a = SystemExit
  <2>1. b = SystemExit
    BY <1>1, <1>4 DEF Grows
  <2> HIDE DEF a, b, c, d
  <2> QED BY <1>2, <1>3, <1>4, <2>1 DEF Grows
<1>5. CASE a # SystemExit
  <2>1. IsText(a) /\ StripDone(a)
    BY <1>5, StrippedDone
  <2>2. b = a \o x
    BY <1>1, <1>5 DEF Grows
  <2>3. Len(a) >= 2
    <3> HIDE DEF a
    <3>1. PICK s, e, h, k : Settled(a, s, e, h, k)
      BY <2>1 DEF StripDone
    <3>2. s \in 1..Len(a) /\ e \in s..Len(a) /\ h \in s..e /\ k \in (h + 1)..e /\ Len(a) \in Nat
      BY <2>1, <3>1 DEF Settled, RmAt, RuleAt, IsText
    <3> QED BY <3>2
  <2>4. b # SystemExit
    <3> HIDE DEF a, b
    <3>1. PICK A : a \in Seq(A) /\ x \in Seq(A)
      BY <2>1, Common DEF Inert
    <3>2. IsJoin(a \o x, a, x) /\ Len(x) \in Nat
      BY <3>1, JoinIs
    <3>3. Len(b) >= 2
      <4>1. Len(a \o x) = Len(a) + Len(x)
        BY <3>2 DEF IsJoin
      <4>2. Len(a) \in Nat
        BY <3>1
      <4> QED BY <2>2, <2>3, <3>2, <4>1, <4>2
    <3> QED BY <3>3, TwoLinesSay
  <2>5. Grows(c, d, x)
    <3> HIDE DEF a, b
    <3> QED BY <2>1, <2>2, WrapGrows
  <2> HIDE DEF a, b, c, d
  <2> QED BY <1>2, <1>3, <1>5, <2>4, <2>5
<1> QED BY <1>4, <1>5

\* The lines the two patches of the rule may add.
RuleLines == {IncludeLine, USR_DOC_COMMENT, KEEP_DOCS_IFNEQ, "endif"}

LEMMA StripAdds ==
    ASSUME NEW text, IsText(text), Stripped(text) # SystemExit,
           NEW l, l \notin RuleLines, Contains(Stripped(text), l)
    PROVE  Contains(text, l)
<1>1. PICK s, e, h, k : RmAt(text, s, e, h, k)
  BY StripHas
<1>2. Len(text) \in Nat /\ k \in 1..Len(text)
  <2>1. s \in 1..Len(text) /\ e \in s..Len(text) /\ h \in s..e /\ k \in (h + 1)..e /\ Len(text) \in Nat
    BY <1>1 DEF RmAt, RuleAt, IsText
  <2> QED BY <2>1
<1> DEFINE r == Stripped(text)
           q == StripAt(text, k, LineAfter(text, k))
           block == <<IncludeLine, USR_DOC_COMMENT>>
<1>3. r = q
  BY <1>1, StripIs
<1>4. \/ text[k] = LiveLine /\ q = Splice(text, k, 1, block)
      \/ text[k] # LiveLine /\ k < Len(text) /\ text[k + 1] = USR_DOC_COMMENT /\ q = text
      \/ /\ text[k] # LiveLine /\ k < Len(text) /\ text[k + 1] = DeadLine
         /\ q = ReplaceAt(text, k + 1, USR_DOC_COMMENT)
  BY <1>2, <1>3, StripCases
<1> HIDE DEF q
<1>5. CASE q = Splice(text, k, 1, block)
  <2>1. IsPair(q, text, k, IncludeLine, USR_DOC_COMMENT)
    BY <1>2, <1>5, TwoForOne
  <2>2. PICK j \in 1..Len(q) : q[j] = l
    BY <1>3 DEF Contains
  <2>3. Len(q) = Len(text) + 1
    BY <2>1 DEF IsPair
  <2>4. CASE j \in 1..(k - 1)
    <3>1. q[j] = text[j] /\ j \in 1..Len(text)
      BY <1>2, <2>1, <2>4 DEF IsPair
    <3> QED BY <2>2, <3>1 DEF Contains
  <2>5. CASE j = k \/ j = k + 1
    BY <2>1, <2>2, <2>5 DEF IsPair, RuleLines
  <2>6. CASE j \in (k + 2)..(Len(text) + 1)
    <3>1. q[j] = text[j - 1] /\ j - 1 \in 1..Len(text)
      BY <1>2, <2>1, <2>6 DEF IsPair
    <3> QED BY <2>2, <3>1 DEF Contains
  <2> QED BY <1>2, <2>3, <2>4, <2>5, <2>6
<1>6. CASE q = text
  BY <1>3, <1>6
<1>7. CASE k < Len(text) /\ q = ReplaceAt(text, k + 1, USR_DOC_COMMENT)
  <2>1. k + 1 \in 1..Len(text)
    BY <1>2, <1>7
  <2>2. /\ Len(q) = Len(text) /\ q[k + 1] = USR_DOC_COMMENT
        /\ \A j \in 1..Len(text) : j # k + 1 => q[j] = text[j]
    BY <1>7, <2>1, ReplacedAt
  <2> QED BY <1>3, <2>2 DEF Contains, RuleLines
<1> QED BY <1>4, <1>5, <1>6, <1>7

LEMMA WrapAdds ==
    ASSUME NEW text, IsText(text), Wrapped(text) # SystemExit,
           NEW l, l \notin RuleLines, Contains(Wrapped(text), l)
    PROVE  Contains(text, l)
<1>1. PICK s, e, m : ManAt(text, s, e, m)
  BY WrapHas
<1> DEFINE d == FirstIn(text, m, e, {RmdirLine})
           q == WrapAt(text, m, d)
<1>2. /\ s \in 1..Len(text) /\ e \in s..Len(text) /\ m \in s..e /\ Len(text) \in Nat
  BY <1>1 DEF ManAt, RuleAt, IsText
<1>3. Wrapped(text) = q
  BY <1>1, WrapIs
<1>4. d = 0 \/ d \in m..Len(text)
  <2>1. m \in Nat \ {0} /\ e \in Nat
    BY <1>2
  <2>2. d = 0 \/ d \in m..e
    BY <2>1, FirstInText
  <2> HIDE DEF d
  <2> QED BY <1>2, <2>2
<1> HIDE DEF d
<1>5. \/ text[m - 1] = KEEP_DOCS_IFNEQ /\ q = text
      \/ /\ d \in m..Len(text)
         /\ IsWrap(q, text, m, d, KEEP_DOCS_IFNEQ, "endif")
  <2>1. m \in 1..Len(text)
    BY <1>2
  <2> QED BY <1>3, <1>4, <2>1, WrapCases
<1> HIDE DEF q
<1>6. CASE q = text
  BY <1>3, <1>6
<1>7. CASE d \in m..Len(text) /\ IsWrap(q, text, m, d, KEEP_DOCS_IFNEQ, "endif")
  <2>1. PICK j \in 1..Len(q) : q[j] = l
    BY <1>3 DEF Contains
  <2>2. Len(q) = Len(text) + 2
    BY <1>7 DEF IsWrap
  <2>3. CASE j \in 1..(m - 1)
    <3>1. q[j] = text[j] /\ j \in 1..Len(text)
      BY <1>2, <1>7, <2>3 DEF IsWrap
    <3> QED BY <2>1, <3>1 DEF Contains
  <2>4. CASE j = m \/ j = d + 2
    BY <1>7, <2>1, <2>4 DEF IsWrap, RuleLines
  <2>5. CASE j \in (m + 1)..(d + 1)
    <3>1. q[j] = text[j - 1] /\ j - 1 \in 1..Len(text)
      BY <1>2, <1>7, <2>5 DEF IsWrap
    <3> QED BY <2>1, <3>1 DEF Contains
  <2>6. CASE j \in (d + 3)..(Len(text) + 2)
    <3>1. q[j] = text[j - 2] /\ j - 2 \in 1..Len(text)
      BY <1>2, <1>7, <2>6 DEF IsWrap
    <3> QED BY <2>1, <3>1 DEF Contains
  <2> QED BY <1>2, <1>7, <2>2, <2>3, <2>4, <2>5, <2>6
<1> QED BY <1>5, <1>6, <1>7

Markers == {CUSTOM_LATE_INCLUDE_MARKER, FETCH_HASH_INCLUDE_MARKER}
Blocks2 == {CUSTOM_LATE_INCLUDE_BLOCK, FETCH_HASH_INCLUDE_BLOCK}

LEMMA MarkerLines ==
    /\ \A l \in Markers : l \notin Anchors /\ l \notin RuleLines /\ l \notin Rewritten
    /\ CUSTOM_LATE_INCLUDE_MARKER # FETCH_HASH_INCLUDE_MARKER
<1>1. CUSTOM_LATE_INCLUDE_MARKER \notin Anchors
  BY DEF CUSTOM_LATE_INCLUDE_MARKER, Anchors, PHONY, Recipe, RmRf, HeaderLine, USR_DOC_COMMENT, DeadLine
<1>2. FETCH_HASH_INCLUDE_MARKER \notin Anchors
  BY DEF FETCH_HASH_INCLUDE_MARKER, Anchors, PHONY, Recipe, RmRf, HeaderLine, USR_DOC_COMMENT, DeadLine
<1>3. CUSTOM_LATE_INCLUDE_MARKER \notin RuleLines /\ CUSTOM_LATE_INCLUDE_MARKER \notin Rewritten
  BY DEF CUSTOM_LATE_INCLUDE_MARKER, RuleLines, Rewritten, IncludeLine, USR_DOC_COMMENT, KEEP_DOCS_IFNEQ
<1>4. FETCH_HASH_INCLUDE_MARKER \notin RuleLines /\ FETCH_HASH_INCLUDE_MARKER \notin Rewritten
  BY DEF FETCH_HASH_INCLUDE_MARKER, RuleLines, Rewritten, IncludeLine, USR_DOC_COMMENT, KEEP_DOCS_IFNEQ
<1>5. CUSTOM_LATE_INCLUDE_MARKER # FETCH_HASH_INCLUDE_MARKER
  BY DEF CUSTOM_LATE_INCLUDE_MARKER, FETCH_HASH_INCLUDE_MARKER
<1> QED BY <1>1, <1>2, <1>3, <1>4, <1>5 DEF Markers

\* patch_makefile neither adds nor removes an include line.
LEMMA MakefileMarkers ==
    ASSUME NEW text, IsText(text), patch_makefile(text) # SystemExit, NEW l \in Markers
    PROVE  Contains(patch_makefile(text), l) <=> Contains(text, l)
<1> DEFINE a == Stripped(text)
           r == Wrapped(a)
<1>1. a # SystemExit /\ r # SystemExit /\ patch_makefile(text) = r
  BY MakefileIs
<1>2. IsText(a)
  BY <1>1, StrippedDone
<1>3. l \notin RuleLines /\ l \notin Rewritten
  BY MarkerLines
<1>4. Contains(r, l) => Contains(a, l)
  <2> HIDE DEF a
  <2> QED BY <1>1, <1>2, <1>3, WrapAdds
<1>5. Contains(a, l) => Contains(text, l)
  BY <1>1, <1>3, StripAdds
<1>6. Contains(text, l) => Contains(patch_makefile(text), l)
  BY <1>3, PatchedMakefile
<1> HIDE DEF a, r
<1> QED BY <1>1, <1>4, <1>5, <1>6

\* custom_late.mk is a text of two lines and more.
LEMMA LateText ==
    ASSUME NEW P, NEW packages \in Seq(P)
    PROVE  custom_late_mk_text(packages) # SystemExit
<1> DEFINE N == Len(packages)
           A == {late_line(p) : p \in P}
           Next(i, x) == IF packages[i] \in LATE_CUSTOM_SKIP_PACKAGES THEN x
                         ELSE Append(x, late_line(packages[i]))
           Eq(f) == f = [n \in 0..N |-> IF n = 0 THEN <<>> ELSE Next(n, f[n - 1])]
           step == [i \in 1..N |-> [x \in Seq(A) |-> Next(i, x)]]
           late == CHOOSE f : Eq(f)
           head == <<"LIBS :=", "PACKAGES :=">>
           foot == <<"ifeq LATE_CUSTOM_APPLY", "foreach -install", "endif">>
<1>1. N \in Nat /\ <<>> \in Seq(A)
  OBVIOUS
<1>2. \A i \in 1..N, x \in Seq(A) : Next(i, x) \in Seq(A)
  <2> SUFFICES ASSUME NEW i \in 1..N, NEW x \in Seq(A) PROVE Next(i, x) \in Seq(A)
    OBVIOUS
  <2>1. late_line(packages[i]) \in A
    OBVIOUS
  <2> HIDE DEF A
  <2> QED BY <2>1
<1>3. custom_late_mk_text(packages) = head \o late[N] \o foot
  BY DEF custom_late_mk_text
<1> HIDE DEF N, Next, A, head, foot
<1>4. step \in [1..N -> [Seq(A) -> Seq(A)]]
  <2>1. \A i \in 1..N : step[i] \in [Seq(A) -> Seq(A)]
    BY <1>2
  <2> QED BY <2>1
<1>5. PICK g \in [0..N -> Seq(A)] : g[0] = <<>> /\ \A i \in 1..N : g[i] = step[i][g[i - 1]]
  <2> DEFINE texts == Seq(A)
             empty == <<>>
  <2>1. N \in Nat /\ empty \in texts
    BY <1>1
  <2>2. step \in [1..N -> [texts -> texts]]
    BY <1>4
  <2> HIDE DEF step, texts, empty
  <2>3. \E g : Solves(g, N, texts, empty, step)
    BY <2>1, <2>2, Recursion
  <2> QED BY <2>3 DEF texts, empty, Solves
<1>6. ASSUME NEW n \in 0..N, n # 0 PROVE g[n] = Next(n, g[n - 1])
  <2>1. n \in 1..N /\ n - 1 \in 0..N /\ g[n - 1] \in Seq(A)
    BY <1>1, <1>6
  <2> QED BY <1>5, <2>1
<1> HIDE DEF step
<1>7. Eq(late)
  <2>1. Eq(g)
    BY <1>1, <1>5, <1>6
  <2> HIDE DEF Eq
  <2> QED BY <2>1
<1> HIDE DEF late
<1>8. late[0] = <<>> /\ \A n \in 1..N : late[n] = Next(n, late[n - 1])
  BY <1>7, <1>1
<1> HIDE DEF Eq
<1>9. late[N] \in Seq(A)
  <2> DEFINE S == {n \in 0..N : late[n] \in Seq(A)}
  <2>1. 0 \in S
    <3>1. late[0] \in Seq(A)
      BY <1>1, <1>8
    <3> QED BY <1>1, <3>1
  <2>2. ASSUME NEW n \in 0..N, n # N, n \in S PROVE n + 1 \in S
    <3>1. n + 1 \in 1..N /\ (n + 1) - 1 = n /\ late[n] \in Seq(A)
      BY <1>1, <2>2
    <3>2. late[n + 1] \in Seq(A)
      BY <1>2, <1>8, <3>1
    <3> QED BY <3>1, <3>2
  <2>3. 0..N \subseteq S
    <3> HIDE DEF S
    <3> QED BY <1>1, <2>1, <2>2, Induction
  <2> QED BY <1>1, <2>3
<1>10. IsText(head) /\ IsText(late[N]) /\ IsText(foot)
  <2>1. IsText(head) /\ IsText(foot)
    BY TwoLine, ThreeLine DEF head, foot
  <2> QED BY <1>9, <2>1 DEF IsText
<1> DEFINE a == head \o late[N]
           r == a \o foot
<1>11. IsText(a)
  BY <1>10, JoinedText
<1> HIDE DEF a
<1>12. Len(r) = Len(a) + Len(foot) /\ Len(a) \in Nat
  BY <1>10, <1>11, JoinedText
<1>13. Len(foot) = 3
  BY DEF foot
<1> HIDE DEF r
<1>14. Len(r) >= 2
  BY <1>12, <1>13
<1>15. r # SystemExit
  BY <1>14, TwoLinesSay
<1> QED BY <1>3, <1>15 DEF a, r
================================================================================
