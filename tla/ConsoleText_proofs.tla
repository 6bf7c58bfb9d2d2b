------------------------ MODULE ConsoleText_proofs ------------------------
(***************************************************************************)
(* However keys, mouse, completion and printing follow one another, and    *)
(* for texts, lines and limits of any length: the four positions separate  *)
(* printed text, candidates, prompt and input line, and the text above the *)
(* prompt loses nothing but its oldest lines.  And for histories and       *)
(* limits of any length, the history loses nothing that was typed.         *)
(***************************************************************************)
EXTENDS ConsoleText, ConsoleHistory, FiniteSetTheorems, FunctionTheorems, SequenceTheorems, WellFoundedInduction, TLAPS

Ends(t) == {k \in 1 .. Len(t) : t[k] \in LineEnd}

Suffix(t, k) == SubSeq(t, k + 1, Len(t))

-----------------------------------------------------------------------------
(* Texts cell by cell.                                                     *)

LEMMA SuffixFacts ==
  ASSUME NEW S, NEW t \in Seq(S), NEW k \in 0 .. Len(t)
  PROVE  /\ Suffix(t, k) \in Seq(S)
         /\ Len(Suffix(t, k)) = Len(t) - k
         /\ \A j \in 1 .. Len(t) - k : Suffix(t, k)[j] = t[j + k]
<1> DEFINE n == Len(t)
<1>1. n \in Nat /\ k + 1 \in Int /\ \A i \in k + 1 .. n : t[i] \in S
  OBVIOUS
<1>2. n - (k + 1) + 1 = n - k /\ (k + 1 <= n => n - k = n - (k + 1) + 1)
      /\ (~ k + 1 <= n => n - k = 0) /\ \A j \in Int : k + 1 + j - 1 = j + k
  BY <1>1
<1> HIDE DEF n
<1>3. /\ SubSeq(t, k + 1, n) \in Seq(S)
      /\ Len(SubSeq(t, k + 1, n)) = n - k
      /\ \A j \in 1 .. n - k : SubSeq(t, k + 1, n)[j] = t[j + k]
  BY <1>1, <1>2, SubSeqProperties
<1>4. QED
  BY <1>3 DEF n, Suffix

LEMMA PrefixFacts ==
  ASSUME NEW S, NEW t \in Seq(S), NEW k \in 0 .. Len(t)
  PROVE  /\ SubSeq(t, 1, k) \in Seq(S)
         /\ Len(SubSeq(t, 1, k)) = k
         /\ \A j \in 1 .. k : SubSeq(t, 1, k)[j] = t[j]
<1>1. k \in Nat /\ \A i \in 1 .. k : t[i] \in S
  OBVIOUS
<1>2. k - 1 + 1 = k /\ (1 <= k => k = k - 1 + 1) /\ (~ 1 <= k => k = 0) /\ \A j \in Int : 1 + j - 1 = j
  BY <1>1
<1>3. QED
  BY ONLY <1>1, <1>2, SubSeqProperties

LEMMA InsertionFacts ==
  ASSUME NEW S, NEW t \in Seq(S), NEW s \in Seq(S), NEW p \in 0 .. Len(t)
  PROVE  /\ Insertion(t, p, s) \in Seq(S)
         /\ Len(Insertion(t, p, s)) = Len(t) + Len(s)
         /\ \A k \in 1 .. p : Insertion(t, p, s)[k] = t[k]
         /\ \A k \in 1 .. Len(s) : Insertion(t, p, s)[p + k] = s[k]
         /\ \A k \in p + 1 .. Len(t) : Insertion(t, p, s)[k + Len(s)] = t[k]
<1> DEFINE a == SubSeq(t, 1, p)  b == Suffix(t, p)  ab == a \o s
<1>1. /\ a \in Seq(S) /\ Len(a) = p /\ \A j \in 1 .. p : a[j] = t[j]
      /\ b \in Seq(S) /\ Len(b) = Len(t) - p /\ \A j \in 1 .. Len(t) - p : b[j] = t[j + p]
  BY PrefixFacts, SuffixFacts
<1> HIDE DEF a, b
<1>2. /\ ab \in Seq(S) /\ Len(ab) = p + Len(s)
      /\ \A i \in 1 .. p + Len(s) : ab[i] = IF i <= p THEN a[i] ELSE s[i - p]
  <2>0. a \in Seq(S) /\ s \in Seq(S)
    BY <1>1
  <2>1. /\ a \o s \in Seq(S) /\ Len(a \o s) = Len(a) + Len(s)
        /\ \A i \in 1 .. Len(a) + Len(s) : (a \o s)[i] = IF i <= Len(a) THEN a[i] ELSE s[i - Len(a)]
    BY ONLY <2>0, ConcatProperties
  <2>2. QED
    BY <1>1, <2>1
<1> HIDE DEF ab
<1>3. /\ ab \o b \in Seq(S) /\ Len(ab \o b) = p + Len(s) + (Len(t) - p)
      /\ \A i \in 1 .. p + Len(s) + (Len(t) - p) :
           (ab \o b)[i] = IF i <= p + Len(s) THEN ab[i] ELSE b[i - (p + Len(s))]
  <2>0. ab \in Seq(S) /\ b \in Seq(S)
    BY <1>1, <1>2
  <2>1. /\ ab \o b \in Seq(S) /\ Len(ab \o b) = Len(ab) + Len(b)
        /\ \A i \in 1 .. Len(ab) + Len(b) : (ab \o b)[i] = IF i <= Len(ab) THEN ab[i] ELSE b[i - Len(ab)]
    BY ONLY <2>0, ConcatProperties
  <2>2. QED
    BY ONLY <1>1, <1>2, <2>1
<1>4. Insertion(t, p, s) = ab \o b
  BY DEF Insertion, ab, a, b, Suffix
<1>5. PICK u : u = ab \o b
  OBVIOUS
<1>6. Len(t) \in Nat /\ Len(s) \in Nat /\ p \in Nat /\ p <= Len(t)
  OBVIOUS
<1>7. \A k \in 1 .. p : u[k] = t[k]
  BY <1>1, <1>2, <1>3, <1>5, <1>6
<1>8. \A k \in 1 .. Len(s) : u[p + k] = s[k]
  <2> TAKE k \in 1 .. Len(s)
  <2>1. p + k \in 1 .. p + Len(s) + (Len(t) - p) /\ p + k <= p + Len(s) /\ ~ p + k <= p /\ p + k - p = k
        /\ p + k \in 1 .. p + Len(s)
    BY <1>6
  <2>2. QED
    BY <2>1, <1>2, <1>3, <1>5
<1>9. \A k \in p + 1 .. Len(t) : u[k + Len(s)] = t[k]
  <2> TAKE k \in p + 1 .. Len(t)
  <2>1. k + Len(s) \in 1 .. p + Len(s) + (Len(t) - p) /\ ~ k + Len(s) <= p + Len(s)
        /\ k + Len(s) - (p + Len(s)) = k - p /\ k - p \in 1 .. Len(t) - p /\ k - p + p = k
    BY <1>6
  <2>2. QED
    BY <2>1, <1>1, <1>3, <1>5
<1>10. p + Len(s) + (Len(t) - p) = Len(t) + Len(s)
  BY <1>6
<1>11. QED
  BY <1>3, <1>4, <1>5, <1>7, <1>8, <1>9, <1>10

LEMMA RemovalFacts ==
  ASSUME NEW S, NEW t \in Seq(S), NEW from \in 0 .. Len(t), NEW to \in from .. Len(t)
  PROVE  /\ Removal(t, from, to) \in Seq(S)
         /\ Len(Removal(t, from, to)) = Len(t) - (to - from)
         /\ \A k \in 1 .. from : Removal(t, from, to)[k] = t[k]
         /\ \A k \in from + 1 .. Len(t) - (to - from) : Removal(t, from, to)[k] = t[k + (to - from)]
<1> DEFINE a == SubSeq(t, 1, from)  b == Suffix(t, to)
<1>0. to \in 0 .. Len(t)
  OBVIOUS
<1>1. /\ a \in Seq(S) /\ Len(a) = from /\ \A j \in 1 .. from : a[j] = t[j]
      /\ b \in Seq(S) /\ Len(b) = Len(t) - to /\ \A j \in 1 .. Len(t) - to : b[j] = t[j + to]
  BY <1>0, PrefixFacts, SuffixFacts
<1> HIDE DEF a, b
<1>2. /\ a \o b \in Seq(S) /\ Len(a \o b) = from + (Len(t) - to)
      /\ \A i \in 1 .. from + (Len(t) - to) : (a \o b)[i] = IF i <= from THEN a[i] ELSE b[i - from]
  <2>0. a \in Seq(S) /\ b \in Seq(S)
    BY <1>1
  <2>1. /\ a \o b \in Seq(S) /\ Len(a \o b) = Len(a) + Len(b)
        /\ \A i \in 1 .. Len(a) + Len(b) : (a \o b)[i] = IF i <= Len(a) THEN a[i] ELSE b[i - Len(a)]
    BY ONLY <2>0, ConcatProperties
  <2>2. QED
    BY ONLY <1>1, <2>1
<1>3. Removal(t, from, to) = a \o b
  BY DEF Removal, a, b, Suffix
<1>5. PICK u : u = a \o b
  OBVIOUS
<1>6. Len(t) \in Nat /\ from \in Nat /\ to \in Nat /\ from <= to /\ to <= Len(t)
  OBVIOUS
<1>7. \A k \in 1 .. from : u[k] = t[k]
  BY <1>1, <1>2, <1>5, <1>6
<1>8. \A k \in from + 1 .. Len(t) - (to - from) : u[k] = t[k + (to - from)]
  <2> TAKE k \in from + 1 .. Len(t) - (to - from)
  <2>1. k \in 1 .. from + (Len(t) - to) /\ ~ k <= from
        /\ k - from \in 1 .. Len(t) - to /\ k - from + to = k + (to - from)
    BY <1>6
  <2>2. QED
    BY <2>1, <1>1, <1>2, <1>5
<1>10. from + (Len(t) - to) = Len(t) - (to - from)
  BY <1>6
<1>11. QED
  BY <1>2, <1>3, <1>5, <1>7, <1>8, <1>10

-----------------------------------------------------------------------------
(* Lines.                                                                  *)

LEMMA LinesFacts ==
  ASSUME NEW t \in Seq(Cell)
  PROVE  /\ IsFiniteSet(Ends(t)) /\ Lines(t) = 1 + Cardinality(Ends(t))
         /\ Cardinality(Ends(t)) \in Nat
         /\ Lines(t) \in Nat \ {0} /\ Lines(t) <= 1 + Len(t)
<1> DEFINE n == Len(t)
<1>1. n \in Nat
  OBVIOUS
<1>2. Ends(t) \in SUBSET (1 .. n)
  BY DEF Ends
<1> HIDE DEF n
<1>3. IsFiniteSet(1 .. n) /\ Cardinality(1 .. n) = n
  BY <1>1, FS_Interval
<1>4. IsFiniteSet(Ends(t)) /\ Cardinality(Ends(t)) <= n
  BY <1>2, <1>3, FS_Subset
<1>5. Cardinality(Ends(t)) \in Nat
  BY <1>4, FS_CardinalityType
<1>6. QED
  BY <1>1, <1>4, <1>5 DEF n, Lines, Ends

(* A text whose line ends are among those of another has no more lines.    *)
LEMMA FewerLines ==
  ASSUME NEW t \in Seq(Cell), NEW u \in Seq(Cell), NEW f \in [Ends(u) -> Ends(t)],
         \A j, k \in Ends(u) : f[j] = f[k] => j = k
  PROVE  Lines(u) <= Lines(t)
<1>1. f \in Injection(Ends(u), Ends(t))
  BY DEF Injection, IsInjective
<1>2. Cardinality(Ends(u)) <= Cardinality(Ends(t))
  BY <1>1, LinesFacts, FS_Injection
<1>3. QED
  BY <1>2, LinesFacts

LEMMA AppendLines ==
  ASSUME NEW t \in Seq(Cell), NEW c \in Cell
  PROVE  /\ Append(t, c) \in Seq(Cell)
         /\ c \notin LineEnd => Lines(Append(t, c)) = Lines(t)
         /\ c \in LineEnd => Lines(Append(t, c)) = Lines(t) + 1
<1>1. /\ Append(t, c) \in Seq(Cell) /\ Len(Append(t, c)) = Len(t) + 1 /\ Len(t) \in Nat
      /\ \A i \in 1 .. Len(t) : Append(t, c)[i] = t[i]
      /\ Append(t, c)[Len(t) + 1] = c
  BY AppendProperties
<1>2. c \notin LineEnd => Ends(Append(t, c)) = Ends(t)
  <2> DEFINE u == Append(t, c)
  <2> HIDE DEF u
  <2>1. SUFFICES ASSUME c \notin LineEnd PROVE Ends(u) = Ends(t)
    BY DEF u
  <2>2. 1 .. Len(u) = (1 .. Len(t)) \cup {Len(t) + 1}
    BY <1>1 DEF u
  <2>3. QED
    BY <2>1, <2>2, <1>1 DEF Ends, u
<1>3. c \in LineEnd => Ends(Append(t, c)) = Ends(t) \cup {Len(t) + 1}
  <2> DEFINE u == Append(t, c)
  <2> HIDE DEF u
  <2>1. SUFFICES ASSUME c \in LineEnd PROVE Ends(u) = Ends(t) \cup {Len(t) + 1}
    BY DEF u
  <2>2. 1 .. Len(u) = (1 .. Len(t)) \cup {Len(t) + 1}
    BY <1>1 DEF u
  <2>3. QED
    BY <2>1, <2>2, <1>1 DEF Ends, u
<1>4. Len(t) + 1 \notin Ends(t)
  BY <1>1 DEF Ends
<1>5. Cardinality(Ends(t) \cup {Len(t) + 1}) = Cardinality(Ends(t)) + 1
  BY <1>4, LinesFacts, FS_AddElement
<1>6. PICK u \in Seq(Cell) : u = Append(t, c)
  BY <1>1
<1>7. Lines(u) = 1 + Cardinality(Ends(u)) /\ Lines(t) = 1 + Cardinality(Ends(t)) /\ Cardinality(Ends(t)) \in Nat
  BY LinesFacts
<1>8. c \notin LineEnd => Lines(u) = Lines(t)
  BY <1>2, <1>6, <1>7
<1>9. c \in LineEnd => Lines(u) = Lines(t) + 1
  <2>1. c \in LineEnd => Cardinality(Ends(u)) = Cardinality(Ends(t)) + 1
    BY <1>3, <1>5, <1>6
  <2>2. QED
    BY ONLY <2>1, <1>7
<1>10. QED
  BY <1>6, <1>8, <1>9

(* The rest of a text, further and further down.                           *)
LEMMA SuffixLines ==
  ASSUME NEW t \in Seq(Cell), NEW k \in 1 .. Len(t)
  PROVE  /\ t[k] \notin LineEnd => Lines(Suffix(t, k - 1)) = Lines(Suffix(t, k))
         /\ t[k] \in LineEnd => Lines(Suffix(t, k - 1)) = Lines(Suffix(t, k)) + 1
<1>1. Len(t) \in Nat /\ k \in Nat \ {0} /\ k <= Len(t)
  OBVIOUS
<1>0. PICK h \in 0 .. Len(t) : h = k - 1 /\ k = h + 1 /\ k \in 0 .. Len(t)
  BY <1>1
<1>2. PICK u \in Seq(Cell) :
        u = Suffix(t, h) /\ Len(u) = Len(t) - h /\ \A j \in 1 .. Len(t) - h : u[j] = t[j + h]
  BY SuffixFacts
<1>3. PICK w \in Seq(Cell) :
        w = Suffix(t, k) /\ Len(w) = Len(t) - k /\ \A j \in 1 .. Len(t) - k : w[j] = t[j + k]
  <2>1. k \in 0 .. Len(t)
    BY <1>0
  <2>2. QED
    BY ONLY t \in Seq(Cell), <2>1, SuffixFacts
<1>4. \A j \in 1 .. Len(w) : j + 1 \in 1 .. Len(u) /\ u[j + 1] = w[j]
  <2> TAKE j \in 1 .. Len(w)
  <2>1. j \in 1 .. Len(t) - k /\ j + 1 \in 1 .. Len(t) - h /\ j + 1 + h = j + k
    BY <1>0, <1>1, <1>3
  <2>2. QED
    BY <2>1, <1>2, <1>3
<1>5. 1 \in 1 .. Len(u) /\ u[1] = t[k] /\ 1 .. Len(u) = {1} \cup {j + 1 : j \in 1 .. Len(w)}
  <2>1. 1 \in 1 .. Len(t) - h /\ 1 + h = k /\ Len(u) = Len(w) + 1 /\ Len(w) \in Nat
    BY <1>0, <1>1, <1>2, <1>3
  <2>2. PICK m \in Nat : m = Len(w)
    BY <2>1
  <2>3. 1 .. m + 1 = {1} \cup {j + 1 : j \in 1 .. m}
    <3>1. \A i \in 2 .. m + 1 : i - 1 \in 1 .. m /\ i = i - 1 + 1
      OBVIOUS
    <3>2. \A i \in 1 .. m + 1 : i = 1 \/ i \in 2 .. m + 1
      OBVIOUS
    <3>3. 1 .. m + 1 \subseteq {1} \cup {j + 1 : j \in 1 .. m}
      BY <3>1, <3>2
    <3>4. {1} \cup {j + 1 : j \in 1 .. m} \subseteq 1 .. m + 1
      OBVIOUS
    <3>5. QED
      BY <3>3, <3>4
  <2>4. u[1] = t[k]
    BY <2>1, <1>2
  <2>5. QED
    BY <2>1, <2>2, <2>3, <2>4
<1> DEFINE later == Ends(u) \ {1}
           f == [j \in Ends(w) |-> j + 1]
<1>6. f \in [Ends(w) -> later] /\ \A i, j \in Ends(w) : f[i] = f[j] => i = j
  BY <1>4 DEF Ends
<1>7. \A m \in later : \E j \in Ends(w) : f[j] = m
  BY <1>4, <1>5 DEF Ends
<1> HIDE DEF f
<1>8. f \in Bijection(Ends(w), later)
  BY <1>6, <1>7 DEF Bijection, Injection, Surjection, IsInjective
<1>9. Cardinality(later) = Cardinality(Ends(w))
  BY <1>8, LinesFacts, FS_Bijection DEF ExistsBijection
<1>10. Cardinality(later) = IF 1 \in Ends(u) THEN Cardinality(Ends(u)) - 1 ELSE Cardinality(Ends(u))
  BY LinesFacts, FS_RemoveElement
<1>11. 1 \in Ends(u) <=> t[k] \in LineEnd
  BY <1>5 DEF Ends
<1>12. /\ Lines(u) = 1 + Cardinality(Ends(u)) /\ Cardinality(Ends(u)) \in Nat
       /\ Lines(w) = 1 + Cardinality(Ends(w)) /\ Cardinality(Ends(w)) \in Nat
  BY LinesFacts
<1>13. QED
  BY ONLY <1>0, <1>2, <1>3, <1>9, <1>10, <1>11, <1>12

LEMMA SuffixFewer ==
  ASSUME NEW t \in Seq(Cell), NEW k \in 0 .. Len(t)
  PROVE  Lines(Suffix(t, k)) <= Lines(t)
<1>1. PICK w \in Seq(Cell) :
        /\ w = Suffix(t, k) /\ Len(w) = Len(t) - k /\ \A j \in 1 .. Len(t) - k : w[j] = t[j + k]
  BY SuffixFacts
<1> DEFINE f == [j \in Ends(w) |-> j + k]
<1>2. f \in [Ends(w) -> Ends(t)] /\ \A i, j \in Ends(w) : f[i] = f[j] => i = j
  BY SMTT(30), <1>1 DEF Ends
<1> HIDE DEF f
<1>3. QED
  BY <1>1, <1>2, FewerLines

LEMMA LeastOf ==
  ASSUME NEW T, T \subseteq Nat, T # {}
  PROVE  \E m \in T : \A j \in T : m <= j
<1>1. PICK m \in T : \A j \in T : ~ (<<j, m>> \in OpToRel(<, Nat))
  BY NatLessThanWellFounded, WFMin
<1>2. \A j \in T : m <= j
  <2> TAKE j \in T
  <2>1. m \in Nat /\ j \in Nat
    OBVIOUS
  <2>2. ~ (j < m)
    BY <1>1, <2>1 DEF OpToRel
  <2>3. QED
    BY <2>1, <2>2
<1>3. QED
  BY <1>2

(* What Qt removes at the top: as few lines as it must.                    *)
LEMMA ExcessFacts ==
  ASSUME NEW t \in Seq(Cell), NEW n \in Nat \ {0}
  PROVE  /\ Excess(t, n) \in 0 .. Len(t)
         /\ Lines(Suffix(t, Excess(t, n))) <= n
         /\ \A j \in 0 .. Len(t) : Lines(Suffix(t, j)) <= n => Excess(t, n) <= j
         /\ Excess(t, n) > 0 =>
              /\ Lines(Suffix(t, Excess(t, n))) = n
              /\ t[Excess(t, n)] \in LineEnd
<1> DEFINE Fits == {k \in 0 .. Len(t) : Lines(Suffix(t, k)) <= n}
<1>1. Len(t) \in Nat
  OBVIOUS
<1>2. Len(t) \in Fits
  <2>1. Suffix(t, Len(t)) \in Seq(Cell) /\ Len(Suffix(t, Len(t))) = Len(t) - Len(t)
    BY <1>1, SuffixFacts
  <2>2. Lines(Suffix(t, Len(t))) <= 1 /\ Lines(Suffix(t, Len(t))) \in Nat
    <3>0. Len(t) - Len(t) = 0
      BY <1>1
    <3>1. PICK w \in Seq(Cell) : w = Suffix(t, Len(t)) /\ Len(w) = 0
      BY ONLY <3>0, <2>1
    <3>2. Lines(w) \in Nat \ {0} /\ Lines(w) <= 1 + Len(w)
      BY LinesFacts
    <3>3. QED
      BY ONLY <3>1, <3>2
  <2>3. QED
    BY <1>1, <2>2
<1>3. PICK e \in Fits : \A j \in Fits : e <= j
  <2>1. Fits \subseteq Nat /\ Fits # {}
    BY <1>2
  <2>2. \E m \in Fits : \A j \in Fits : m <= j
    BY <2>1, LeastOf
  <2>3. QED
    BY <2>2
<1>4. \A j \in 0 .. Len(t) : Lines(Suffix(t, j)) \in Nat
  BY SuffixFacts, LinesFacts
<1> DEFINE P(k) == /\ Lines(SubSeq(t, k + 1, Len(t))) <= n
                   /\ \A j \in 0 .. k - 1 : Lines(SubSeq(t, j + 1, Len(t))) > n
<1>5. P(e)
  <2>1. ASSUME NEW j \in 0 .. e - 1
        PROVE  j \in 0 .. Len(t) /\ ~ (Lines(Suffix(t, j)) <= n)
    BY <1>1, <1>3
  <2>2. \A j \in 0 .. e - 1 : Lines(Suffix(t, j)) > n
    BY <1>4, <2>1
  <2>3. QED
    BY <1>3, <2>2 DEF Suffix
<1>6. Excess(t, n) \in 0 .. Len(t) /\ P(Excess(t, n))
  BY <1>3, <1>5 DEF Excess
<1>7. \A j \in 0 .. Len(t) : Lines(Suffix(t, j)) <= n => Excess(t, n) <= j
  <2> SUFFICES ASSUME NEW j \in 0 .. Len(t), ~ Excess(t, n) <= j
               PROVE  ~ Lines(Suffix(t, j)) <= n
    OBVIOUS
  <2>1. PICK k \in 0 .. Len(t) : k = Excess(t, n) /\ P(k)
    BY <1>6
  <2>2. j \in 0 .. k - 1
    BY <2>1
  <2>3. Lines(Suffix(t, j)) > n
    BY <2>1, <2>2 DEF Suffix
  <2>4. QED
    BY <2>3, <1>4
<1>8. Excess(t, n) > 0 => Lines(Suffix(t, Excess(t, n))) = n /\ t[Excess(t, n)] \in LineEnd
  <2> SUFFICES ASSUME Excess(t, n) > 0
               PROVE  Lines(Suffix(t, Excess(t, n))) = n /\ t[Excess(t, n)] \in LineEnd
    OBVIOUS
  <2> DEFINE k == Excess(t, n)
  <2>1. k \in 1 .. Len(t) /\ k - 1 \in 0 .. Len(t) /\ k \in 0 .. Len(t)
    BY <1>6
  <2>2. Lines(Suffix(t, k - 1)) > n /\ Lines(Suffix(t, k)) <= n
    BY <1>6, <2>1 DEF Suffix
  <2>3. \/ t[k] \notin LineEnd /\ Lines(Suffix(t, k - 1)) = Lines(Suffix(t, k))
        \/ t[k] \in LineEnd /\ Lines(Suffix(t, k - 1)) = Lines(Suffix(t, k)) + 1
    BY <2>1, SuffixLines
  <2>4. Lines(Suffix(t, k - 1)) \in Nat /\ Lines(Suffix(t, k)) \in Nat
    BY <1>4, <2>1
  <2> HIDE DEF k
  <2>5. Lines(Suffix(t, k)) = n /\ t[k] \in LineEnd
    BY <2>2, <2>3, <2>4
  <2>6. QED
    BY <2>5 DEF k
<1>9. Lines(Suffix(t, Excess(t, n))) <= n
  BY <1>6 DEF Suffix
<1>10. QED
  BY <1>6, <1>7, <1>8, <1>9

-----------------------------------------------------------------------------
(* A text in order, and its edits.                                         *)

Placed(t, a) ==
  /\ 0 <= a.complete /\ a.complete <= a.prompt /\ a.prompt <= a.complete + 2
  /\ a.line = a.prompt + 1 /\ a.line <= a.mark
  /\ a.line <= Len(t) /\ Len(t) <= a.line + MaxInput
  /\ \A k \in a.complete + 1 .. a.prompt : t[k] = "candidate"
  /\ t[a.line] = "prompt"
  /\ \A k \in a.line + 1 .. Len(t) : t[k] \in InputCell

(* Nothing below the printed text ends a line.                             *)
Plain(t, a) == \A k \in a.complete + 1 .. Len(t) : t[k] \notin LineEnd

Edited(t, from, to, s) == Insertion(Removal(t, from, to), from, s)

LEMMA CellFacts ==
  /\ "prompt" \in Cell \ (LineEnd \cup InputCell) /\ "typed" \in InputCell \ LineEnd
  /\ "pasted" \in InputCell \cap LineEnd /\ "candidate" \in (Cell \cap LineEnd) \ InputCell
  /\ "entered" \in Cell \cap LineEnd
  /\ InputCell \subseteq Cell /\ OutputCell \subseteq Cell
BY DEF Cell, LineEnd, InputCell, OutputCell

LEMMA EditedFacts ==
  ASSUME NEW t \in Seq(Cell), NEW from \in 0 .. Len(t), NEW to \in from .. Len(t), NEW s \in Seq(Cell)
  PROVE  /\ Edited(t, from, to, s) \in Seq(Cell)
         /\ Len(Edited(t, from, to, s)) = Len(t) - (to - from) + Len(s)
         /\ \A k \in 1 .. from : Edited(t, from, to, s)[k] = t[k]
         /\ \A k \in 1 .. Len(s) : Edited(t, from, to, s)[from + k] = s[k]
         /\ \A k \in from + 1 .. Len(t) - (to - from) :
              Edited(t, from, to, s)[k + Len(s)] = t[k + (to - from)]
<1>1. PICK r \in Seq(Cell) :
        /\ r = Removal(t, from, to) /\ Len(r) = Len(t) - (to - from)
        /\ \A k \in 1 .. from : r[k] = t[k]
        /\ \A k \in from + 1 .. Len(t) - (to - from) : r[k] = t[k + (to - from)]
  <2>1. /\ Removal(t, from, to) \in Seq(Cell)
        /\ Len(Removal(t, from, to)) = Len(t) - (to - from)
        /\ \A k \in 1 .. from : Removal(t, from, to)[k] = t[k]
        /\ \A k \in from + 1 .. Len(t) - (to - from) : Removal(t, from, to)[k] = t[k + (to - from)]
    BY RemovalFacts
  <2>2. QED
    BY ONLY <2>1
<1>2. from \in 0 .. Len(r)
  BY <1>1
<1>3. PICK u \in Seq(Cell) :
        /\ u = Insertion(r, from, s) /\ Len(u) = Len(r) + Len(s)
        /\ \A k \in 1 .. from : u[k] = r[k]
        /\ \A k \in 1 .. Len(s) : u[from + k] = s[k]
        /\ \A k \in from + 1 .. Len(r) : u[k + Len(s)] = r[k]
  <2>1. /\ Insertion(r, from, s) \in Seq(Cell)
        /\ Len(Insertion(r, from, s)) = Len(r) + Len(s)
        /\ \A k \in 1 .. from : Insertion(r, from, s)[k] = r[k]
        /\ \A k \in 1 .. Len(s) : Insertion(r, from, s)[from + k] = s[k]
        /\ \A k \in from + 1 .. Len(r) : Insertion(r, from, s)[k + Len(s)] = r[k]
    BY <1>2, InsertionFacts
  <2>2. QED
    BY ONLY <2>1
<1>4. u = Edited(t, from, to, s)
  BY <1>1, <1>3 DEF Edited
<1>5. QED
  BY ONLY <1>1, <1>3, <1>4

LEMMA EditedCells ==
  ASSUME NEW t \in Seq(Cell), NEW from \in 0 .. Len(t), NEW to \in from .. Len(t), NEW s \in Seq(Cell),
         NEW k \in from + 1 .. Len(Edited(t, from, to, s))
  PROVE  \/ k - from \in 1 .. Len(s) /\ Edited(t, from, to, s)[k] = s[k - from]
         \/ /\ k > from + Len(s)
            /\ k - Len(s) + (to - from) \in to + 1 .. Len(t)
            /\ Edited(t, from, to, s)[k] = t[k - Len(s) + (to - from)]
<1>1. PICK u \in Seq(Cell) :
        /\ u = Edited(t, from, to, s)
        /\ Len(u) = Len(t) - (to - from) + Len(s)
        /\ \A j \in 1 .. Len(s) : u[from + j] = s[j]
        /\ \A j \in from + 1 .. Len(t) - (to - from) : u[j + Len(s)] = t[j + (to - from)]
  BY EditedFacts
<1>2. Len(t) \in Nat /\ Len(s) \in Nat /\ from \in Nat /\ to \in Nat /\ from <= to /\ to <= Len(t) /\ k \in Nat
      /\ k <= Len(t) - (to - from) + Len(s) /\ k > from
  BY <1>1
<1>3. CASE k <= from + Len(s)
  <2>1. k - from \in 1 .. Len(s) /\ from + (k - from) = k
    BY <1>2, <1>3
  <2>2. QED
    BY <1>1, <2>1
<1>4. CASE k > from + Len(s)
  <2>1. k - Len(s) \in from + 1 .. Len(t) - (to - from) /\ k - Len(s) + Len(s) = k
        /\ k - Len(s) + (to - from) \in to + 1 .. Len(t)
    BY <1>2, <1>4
  <2>2. QED
    BY <1>1, <1>4, <2>1
<1>5. QED
  BY <1>2, <1>3, <1>4

(* The input line is edited.                                               *)
LEMMA EditedPlaced ==
  ASSUME NEW t \in Seq(Cell), NEW a \in Position, Placed(t, a),
         NEW from \in a.line .. Len(t), NEW to \in from .. Len(t), NEW s \in Seq(InputCell),
         Len(Edited(t, from, to, s)) <= a.line + MaxInput
  PROVE  /\ Edited(t, from, to, s) \in Seq(Cell)
         /\ Placed(Edited(t, from, to, s), a)
         /\ \A k \in 1 .. a.line : Edited(t, from, to, s)[k] = t[k]
<1>1. /\ from \in 0 .. Len(t) /\ s \in Seq(Cell) /\ a.line \in Nat /\ a.prompt \in Int /\ a.complete \in Int
      /\ a.mark \in Int
  BY CellFacts DEF Position, Placed
<1>2. PICK u \in Seq(Cell) :
        /\ u = Edited(t, from, to, s) /\ Len(u) = Len(t) - (to - from) + Len(s)
        /\ \A k \in 1 .. from : u[k] = t[k]
  BY <1>1, EditedFacts
<1>3. ASSUME NEW k \in 1 .. a.line PROVE u[k] = t[k]
  <2>1. k \in 1 .. from
    BY <1>1
  <2>2. QED
    BY ONLY <1>2, <2>1
<1>4. ASSUME NEW k \in a.line + 1 .. Len(u)
      PROVE  u[k] \in InputCell
  <2>1. CASE k <= from
    <3>1. k \in 1 .. from /\ k \in a.line + 1 .. Len(t)
      BY <1>1, <2>1
    <3>2. QED
      BY <3>1, <1>2 DEF Placed
  <2>2. CASE k > from
    <3>1. k \in from + 1 .. Len(Edited(t, from, to, s))
      BY <1>1, <1>2, <2>2
    <3>2. \/ k - from \in 1 .. Len(s) /\ u[k] = s[k - from]
          \/ k - Len(s) + (to - from) \in to + 1 .. Len(t) /\ u[k] = t[k - Len(s) + (to - from)]
      <4>1. \/ k - from \in 1 .. Len(s) /\ Edited(t, from, to, s)[k] = s[k - from]
            \/ /\ k > from + Len(s)
               /\ k - Len(s) + (to - from) \in to + 1 .. Len(t)
               /\ Edited(t, from, to, s)[k] = t[k - Len(s) + (to - from)]
        BY <1>1, <3>1, EditedCells
      <4>2. u = Edited(t, from, to, s)
        BY <1>2
      <4>3. QED
        BY ONLY <4>1, <4>2
    <3>3. \A j \in to + 1 .. Len(t) : j \in a.line + 1 .. Len(t)
      BY <1>1
    <3>4. \A j \in to + 1 .. Len(t) : t[j] \in InputCell
      BY <3>3 DEF Placed
    <3>5. \A j \in 1 .. Len(s) : s[j] \in InputCell
      OBVIOUS
    <3>6. QED
      BY ONLY <3>2, <3>4, <3>5
  <2>3. QED
    BY <1>1, <2>1, <2>2
<1>5. a.line <= Len(u) /\ Len(u) <= a.line + MaxInput
  BY <1>1, <1>2
<1>6. /\ \A k \in a.complete + 1 .. a.prompt : u[k] = "candidate"
      /\ u[a.line] = "prompt"
  <2>1. /\ \A k \in a.complete + 1 .. a.prompt : t[k] = "candidate"
        /\ t[a.line] = "prompt" /\ 0 <= a.complete /\ a.line = a.prompt + 1 /\ a.complete <= a.prompt
    BY DEF Placed
  <2>2. a.line \in 1 .. a.line /\ \A k \in a.complete + 1 .. a.prompt : k \in 1 .. a.line
    BY SMTT(30), <1>1, <2>1
  <2>3. QED
    BY ONLY <1>3, <2>1, <2>2
<1>7. Placed(u, a)
  BY <1>4, <1>5, <1>6 DEF Placed
<1>8. QED
  BY <1>2, <1>3, <1>7

(* It is edited without a line end.                                        *)
LEMMA EditedLines ==
  ASSUME NEW t \in Seq(Cell), NEW from \in 0 .. Len(t), NEW to \in from .. Len(t), NEW s \in Seq(Cell),
         \A k \in 1 .. Len(s) : s[k] \notin LineEnd
  PROVE  Lines(Edited(t, from, to, s)) <= Lines(t)
<1>1. PICK u \in Seq(Cell) :
        /\ u = Edited(t, from, to, s) /\ \A k \in 1 .. from : u[k] = t[k]
  BY EditedFacts
<1> DEFINE f == [k \in Ends(u) |-> IF k <= from THEN k ELSE k - Len(s) + (to - from)]
<1>2. ASSUME NEW k \in Ends(u)
      PROVE  /\ k \in 1 .. Len(u) /\ f[k] \in Ends(t)
             /\ k > from => f[k] = k - Len(s) + (to - from) /\ f[k] > to
             /\ k <= from => f[k] = k
  <2>1. k \in 1 .. Len(u) /\ u[k] \in LineEnd
    BY DEF Ends
  <2>2. CASE k <= from
    <3>1. k \in 1 .. from /\ k \in 1 .. Len(t)
      BY <2>1, <2>2
    <3>2. QED
      BY <2>1, <2>2, <3>1, <1>1 DEF Ends
  <2>3. CASE k > from
    <3>1. k \in from + 1 .. Len(Edited(t, from, to, s))
      BY <2>1, <2>3, <1>1
    <3>2. k - Len(s) + (to - from) \in to + 1 .. Len(t) /\ u[k] = t[k - Len(s) + (to - from)]
      <4>1. \/ k - from \in 1 .. Len(s) /\ Edited(t, from, to, s)[k] = s[k - from]
            \/ /\ k > from + Len(s)
               /\ k - Len(s) + (to - from) \in to + 1 .. Len(t)
               /\ Edited(t, from, to, s)[k] = t[k - Len(s) + (to - from)]
        BY ONLY <3>1, EditedCells
      <4>2. u = Edited(t, from, to, s)
        BY <1>1
      <4>3. ~ (k - from \in 1 .. Len(s) /\ u[k] = s[k - from])
        BY <2>1
      <4>4. QED
        BY ONLY <4>1, <4>2, <4>3
    <3>3. f[k] = k - Len(s) + (to - from)
      <4>1. ~ k <= from
        BY <2>1, <2>3
      <4>2. QED
        BY <4>1
    <3>4. QED
      BY <2>1, <2>3, <3>2, <3>3 DEF Ends
  <2>4. QED
    BY <2>1, <2>2, <2>3
<1> HIDE DEF f
<1>3. f \in [Ends(u) -> Ends(t)]
  <2>1. f = [k \in Ends(u) |-> f[k]]
    BY DEF f
  <2>2. QED
    BY <2>1, <1>2
<1>4. ASSUME NEW j \in Ends(u), NEW k \in Ends(u), f[j] = f[k]
      PROVE  j = k
  <2>1. Len(s) \in Nat /\ from \in Nat /\ to \in Nat /\ from <= to
    OBVIOUS
  <2>2. QED
    BY SMTT(30), <1>2, <1>4, <2>1
<1>5. QED
  BY <1>1, <1>3, <1>4, FewerLines

LEMMA EditedPlain ==
  ASSUME NEW t \in Seq(Cell), NEW a \in Position, Placed(t, a), Plain(t, a),
         NEW from \in a.line .. Len(t), NEW to \in from .. Len(t), NEW s \in Seq(Cell),
         \A k \in 1 .. Len(s) : s[k] \notin LineEnd
  PROVE  Plain(Edited(t, from, to, s), a)
<1>1. /\ from \in 0 .. Len(t) /\ a.line \in Nat /\ a.prompt \in Int /\ a.complete \in Nat
      /\ a.complete < a.line
  BY CellFacts DEF Position, Placed
<1>2. PICK u \in Seq(Cell) :
        /\ u = Edited(t, from, to, s) /\ \A k \in 1 .. from : u[k] = t[k]
  BY <1>1, EditedFacts
<1>3. ASSUME NEW k \in a.complete + 1 .. Len(u)
      PROVE  u[k] \notin LineEnd
  <2>1. CASE k <= from
    <3>1. k \in 1 .. from /\ k \in a.complete + 1 .. Len(t)
      BY <1>1, <2>1
    <3>2. QED
      BY <3>1, <1>2 DEF Plain
  <2>2. CASE k > from
    <3>1. k \in from + 1 .. Len(Edited(t, from, to, s))
      BY <1>1, <1>2, <2>2
    <3>2. \/ k - from \in 1 .. Len(s) /\ u[k] = s[k - from]
          \/ k - Len(s) + (to - from) \in to + 1 .. Len(t) /\ u[k] = t[k - Len(s) + (to - from)]
      <4>1. \/ k - from \in 1 .. Len(s) /\ Edited(t, from, to, s)[k] = s[k - from]
            \/ /\ k > from + Len(s)
               /\ k - Len(s) + (to - from) \in to + 1 .. Len(t)
               /\ Edited(t, from, to, s)[k] = t[k - Len(s) + (to - from)]
        BY <1>1, <3>1, EditedCells
      <4>2. u = Edited(t, from, to, s)
        BY <1>2
      <4>3. QED
        BY ONLY <4>1, <4>2
    <3>3. \A j \in to + 1 .. Len(t) : j \in a.complete + 1 .. Len(t)
      BY <1>1
    <3>4. \A j \in to + 1 .. Len(t) : t[j] \notin LineEnd
      BY <3>3 DEF Plain
    <3>5. QED
      BY <3>2, <3>4
  <2>3. QED
    BY <1>1, <2>1, <2>2
<1>4. QED
  BY <1>2, <1>3 DEF Plain

-----------------------------------------------------------------------------
(* Candidates, prompts, and what is printed.                               *)

LEMMA EditedNone ==
  ASSUME NEW t \in Seq(Cell), NEW from \in 0 .. Len(t), NEW to \in from .. Len(t)
  PROVE  Edited(t, from, to, << >>) = Removal(t, from, to)
<1>0. PICK none \in Seq(Cell) : none = << >> /\ Len(none) = 0
  <2>1. << >> \in Seq(Cell) /\ Len(<< >>) = 0
    BY EmptySeq
  <2>2. QED
    BY ONLY <2>1
<1>1. PICK r \in Seq(Cell) : r = Removal(t, from, to) /\ Len(r) = Len(t) - (to - from)
  BY RemovalFacts
<1>2. from \in 0 .. Len(r) /\ Len(r) \in Nat
  BY <1>1
<1>3. /\ Insertion(r, from, none) \in Seq(Cell)
      /\ Len(Insertion(r, from, none)) = Len(r) + Len(none)
      /\ \A k \in 1 .. from : Insertion(r, from, none)[k] = r[k]
      /\ \A k \in 1 .. Len(none) : Insertion(r, from, none)[from + k] = none[k]
      /\ \A k \in from + 1 .. Len(r) : Insertion(r, from, none)[k + Len(none)] = r[k]
  BY <1>2, InsertionFacts
<1>4. PICK u \in Seq(Cell) : u = Insertion(r, from, none)
  BY <1>3
<1>5. Len(u) = Len(r)
  BY <1>0, <1>2, <1>3, <1>4
<1>6. ASSUME NEW k \in 1 .. Len(u) PROVE u[k] = r[k]
  <2>1. CASE k <= from
    BY <1>3, <1>4, <2>1
  <2>2. CASE k > from
    <3>1. k \in from + 1 .. Len(r) /\ k + Len(none) = k
      BY <1>0, <1>2, <1>5, <2>2
    <3>2. QED
      BY <1>3, <1>4, <3>1
  <2>3. QED
    BY <1>2, <2>1, <2>2
<1>7. u = r
  BY ONLY <1>5, <1>6, SeqEqual
<1>8. QED
  BY <1>0, <1>1, <1>4, <1>7 DEF Edited

(* The positions when n candidates take the place of those before.         *)
ListedAt(a, n) ==
  [complete |-> a.complete, prompt |-> a.complete + n,
   line |-> a.complete + n + 1, mark |-> a.mark + (a.complete + n - a.prompt)]

LEMMA Listed ==
  ASSUME NEW t \in Seq(Cell), NEW a \in Position, Placed(t, a), NEW s \in Seq(Cell),
         Len(s) <= 2, \A k \in 1 .. Len(s) : s[k] = "candidate"
  PROVE  /\ a.complete \in 0 .. Len(t) /\ a.prompt \in a.complete .. Len(t)
         /\ ListedAt(a, Len(s)) \in Position
         /\ Edited(t, a.complete, a.prompt, s) \in Seq(Cell)
         /\ Len(Edited(t, a.complete, a.prompt, s)) = Len(t) - (a.prompt - a.complete) + Len(s)
         /\ Placed(Edited(t, a.complete, a.prompt, s), ListedAt(a, Len(s)))
         /\ \A k \in 1 .. a.complete : Edited(t, a.complete, a.prompt, s)[k] = t[k]
<1>1. /\ a.complete \in Nat /\ a.prompt \in Nat /\ a.line \in Nat /\ a.mark \in Int
      /\ a.complete <= a.prompt /\ a.prompt <= a.complete + 2 /\ a.line = a.prompt + 1 /\ a.line <= a.mark
      /\ a.line <= Len(t) /\ Len(t) <= a.line + MaxInput /\ Len(t) \in Nat /\ Len(s) \in Nat
      /\ MaxInput \in Nat
  BY TextAssumption DEF Position, Placed
<1>2. PICK c \in Nat, q \in Nat, m \in Int, n \in Nat, len \in Nat :
        /\ c = a.complete /\ q = a.prompt /\ a.line = q + 1 /\ m = a.mark /\ n = Len(s) /\ len = Len(t)
        /\ c <= q /\ q <= c + 2 /\ q + 1 <= m /\ q + 1 <= len /\ len <= q + 1 + MaxInput /\ n <= 2
  BY ONLY <1>1, Len(s) <= 2
<1>b. /\ c \in Nat /\ q \in Nat /\ m \in Int /\ n \in Nat /\ len \in Nat /\ MaxInput \in Nat
      /\ c <= q /\ q <= c + 2 /\ q + 1 <= m /\ q + 1 <= len /\ len <= q + 1 + MaxInput /\ n <= 2
  BY ONLY <1>1, <1>2
<1>a. c \in 0 .. Len(t) /\ q \in c .. Len(t)
  BY <1>2
<1>3. /\ Edited(t, c, q, s) \in Seq(Cell)
      /\ Len(Edited(t, c, q, s)) = Len(t) - (q - c) + Len(s)
      /\ \A k \in 1 .. c : Edited(t, c, q, s)[k] = t[k]
      /\ \A k \in 1 .. Len(s) : Edited(t, c, q, s)[c + k] = s[k]
      /\ \A k \in c + 1 .. Len(t) - (q - c) : Edited(t, c, q, s)[k + Len(s)] = t[k + (q - c)]
  BY ONLY <1>a, EditedFacts
<1>4. PICK u \in Seq(Cell) :
        /\ u = Edited(t, c, q, s)
        /\ Len(u) = len - (q - c) + n
        /\ \A k \in 1 .. c : u[k] = t[k]
        /\ \A k \in 1 .. n : u[c + k] = s[k]
        /\ \A k \in c + 1 .. len - (q - c) : u[k + n] = t[k + (q - c)]
  BY ONLY <1>3, <1>2
<1>5. PICK b \in Position :
        /\ b = ListedAt(a, n)
        /\ b.complete = c /\ b.prompt = c + n /\ b.line = c + n + 1 /\ b.mark = m + (c + n - q)
  <2>1. ListedAt(a, n) = [complete |-> c, prompt |-> c + n, line |-> c + n + 1, mark |-> m + (c + n - q)]
    BY <1>2 DEF ListedAt
  <2>2. c + n \in Int /\ c + n + 1 \in Int /\ m + (c + n - q) \in Int /\ c \in Int
    BY ONLY <1>b
  <2>3. ListedAt(a, n) \in Position
    BY ONLY <2>1, <2>2 DEF Position
  <2>4. PICK b \in Position : b = ListedAt(a, n)
    BY <2>3
  <2>5. b.complete = c /\ b.prompt = c + n /\ b.line = c + n + 1 /\ b.mark = m + (c + n - q)
    BY ONLY <2>1, <2>4
  <2>6. QED
    BY ONLY <2>4, <2>5
<1>6. /\ 0 <= b.complete /\ b.complete <= b.prompt /\ b.prompt <= b.complete + 2
      /\ b.line = b.prompt + 1 /\ b.line <= b.mark
      /\ b.line <= Len(u) /\ Len(u) <= b.line + MaxInput
  <2>1. /\ 0 <= c /\ c <= c + n /\ c + n <= c + 2 /\ c + n + 1 <= m + (c + n - q)
        /\ c + n + 1 <= len - (q - c) + n /\ len - (q - c) + n <= c + n + 1 + MaxInput
    BY ONLY <1>b
  <2>2. QED
    BY ONLY <1>4, <1>5, <2>1
<1>7. ASSUME NEW k \in b.complete + 1 .. b.prompt PROVE u[k] = "candidate"
  <2>1. k \in c + 1 .. c + n
    BY <1>5
  <2>2. PICK j \in 1 .. n : k = c + j
    <3>1. k - c \in 1 .. n /\ k = c + (k - c)
      BY ONLY <2>1, <1>b
    <3>2. QED
      BY <3>1
  <2>3. QED
    BY <2>2, <1>2, <1>4
<1>8. u[b.line] = "prompt"
  <2>1. /\ c + 1 \in c + 1 .. len - (q - c)
        /\ c + 1 + n = c + n + 1 /\ c + 1 + (q - c) = q + 1
    BY ONLY <1>b
  <2>2. t[q + 1] = "prompt"
    BY <1>2 DEF Placed
  <2>3. u[c + 1 + n] = t[c + 1 + (q - c)]
    BY <2>1, <1>4
  <2>4. QED
    BY <2>1, <2>2, <2>3, <1>5
<1>9. ASSUME NEW k \in b.line + 1 .. Len(u) PROVE u[k] \in InputCell
  <2>1. k \in c + n + 2 .. len - (q - c) + n
    BY SMTT(30), <1>2, <1>4, <1>5
  <2>2. PICK j \in c + 1 .. len - (q - c) : k = j + n /\ j + (q - c) \in q + 2 .. len
    <3>1. /\ k - n \in c + 1 .. len - (q - c) /\ k = (k - n) + n /\ (k - n) + (q - c) \in q + 2 .. len
      BY ONLY <2>1, <1>b
    <3>2. QED
      BY <3>1
  <2>3. \A i \in q + 2 .. len : t[i] \in InputCell
    <3>1. q + 1 + 1 = q + 2
      BY <1>2
    <3>2. QED
      BY <3>1, <1>2 DEF Placed
  <2>4. QED
    BY <2>2, <2>3, <1>4
<1>10. Placed(u, b)
  BY <1>6, <1>7, <1>8, <1>9 DEF Placed
<1>11. QED
  BY ONLY <1>a, <1>2, <1>3, <1>4, <1>5, <1>10

(* The list goes.                                                          *)
LEMMA Unlisting ==
  ASSUME NEW t \in Seq(Cell), NEW a \in Position, Placed(t, a)
  PROVE  /\ ListedAt(a, 0) \in Position
         /\ Removal(t, a.complete, a.prompt) \in Seq(Cell)
         /\ Len(Removal(t, a.complete, a.prompt)) = Len(t) - (a.prompt - a.complete)
         /\ Placed(Removal(t, a.complete, a.prompt), ListedAt(a, 0))
         /\ \A k \in 1 .. a.complete : Removal(t, a.complete, a.prompt)[k] = t[k]
         /\ Lines(Removal(t, a.complete, a.prompt)) <= Lines(t)
         /\ Plain(t, a) => Plain(Removal(t, a.complete, a.prompt), ListedAt(a, 0))
<1>0. PICK none \in Seq(Cell) : none = << >> /\ Len(none) = 0
  <2>1. << >> \in Seq(Cell) /\ Len(<< >>) = 0
    BY EmptySeq
  <2>2. QED
    BY ONLY <2>1
<1>1. /\ a.complete \in 0 .. Len(t) /\ a.prompt \in a.complete .. Len(t)
      /\ ListedAt(a, Len(none)) \in Position
      /\ Edited(t, a.complete, a.prompt, none) \in Seq(Cell)
      /\ Len(Edited(t, a.complete, a.prompt, none)) = Len(t) - (a.prompt - a.complete) + Len(none)
      /\ Placed(Edited(t, a.complete, a.prompt, none), ListedAt(a, Len(none)))
      /\ \A k \in 1 .. a.complete : Edited(t, a.complete, a.prompt, none)[k] = t[k]
  <2>1. Len(none) <= 2 /\ \A k \in 1 .. Len(none) : none[k] = "candidate"
    BY <1>0
  <2>2. QED
    BY <2>1, Listed
<1>2. PICK u \in Seq(Cell) : u = Removal(t, a.complete, a.prompt) /\ u = Edited(t, a.complete, a.prompt, none)
  BY <1>0, <1>1, EditedNone
<1>3. /\ ListedAt(a, 0) \in Position /\ Placed(u, ListedAt(a, 0))
      /\ \A k \in 1 .. a.complete : u[k] = t[k]
      /\ Len(u) = Len(t) - (a.prompt - a.complete)
  <2>1. Len(u) = Len(t) - (a.prompt - a.complete) + 0
    BY <1>0, <1>1, <1>2
  <2>2. Len(t) \in Nat /\ a.prompt \in Int /\ a.complete \in Int
    BY <1>1
  <2>3. QED
    BY <1>0, <1>1, <1>2, <2>1, <2>2
<1>4. Lines(u) <= Lines(t)
  <2>1. \A k \in 1 .. Len(none) : none[k] \notin LineEnd
    BY <1>0
  <2>2. QED
    BY <1>0, <1>1, <1>2, <2>1, EditedLines
<1>5. ASSUME Plain(t, a) PROVE Plain(u, ListedAt(a, 0))
  <2>1. ASSUME NEW k \in a.complete + 1 .. Len(u) PROVE u[k] \notin LineEnd
    <3>1. k \in a.complete + 1 .. Len(Edited(t, a.complete, a.prompt, none))
      BY <1>2
    <3>2. \/ k - a.complete \in 1 .. Len(none) /\ Edited(t, a.complete, a.prompt, none)[k] = none[k - a.complete]
          \/ /\ k > a.complete + Len(none)
             /\ k - Len(none) + (a.prompt - a.complete) \in a.prompt + 1 .. Len(t)
             /\ Edited(t, a.complete, a.prompt, none)[k] = t[k - Len(none) + (a.prompt - a.complete)]
      <4>1. PICK c, q : c = a.complete /\ q = a.prompt
        OBVIOUS
      <4>2. c \in 0 .. Len(t) /\ q \in c .. Len(t) /\ k \in c + 1 .. Len(Edited(t, c, q, none))
        BY <1>1, <3>1, <4>1
      <4>3. \/ k - c \in 1 .. Len(none) /\ Edited(t, c, q, none)[k] = none[k - c]
            \/ /\ k > c + Len(none)
               /\ k - Len(none) + (q - c) \in q + 1 .. Len(t)
               /\ Edited(t, c, q, none)[k] = t[k - Len(none) + (q - c)]
        BY ONLY <4>2, EditedCells
      <4>4. QED
        BY <4>1, <4>3
    <3>3. PICK j \in a.prompt + 1 .. Len(t) : u[k] = t[j]
      BY <1>0, <1>2, <3>2
    <3>4. j \in a.complete + 1 .. Len(t)
      BY <1>1
    <3>5. QED
      BY <1>5, <3>3, <3>4 DEF Plain
  <2>2. QED
    BY <2>1 DEF Plain, ListedAt
<1>6. QED
  BY <1>2, <1>3, <1>4, <1>5

(* A prompt is displayed below a text.                                     *)
PromptedAt(t) ==
  [complete |-> Len(t), prompt |-> Len(t), line |-> Len(t) + 1, mark |-> Len(t) + 1]

LEMMA Prompting ==
  ASSUME NEW t \in Seq(Cell)
  PROVE  /\ Append(t, "prompt") \in Seq(Cell) /\ PromptedAt(t) \in Position
         /\ Len(Append(t, "prompt")) = Len(t) + 1
         /\ Placed(Append(t, "prompt"), PromptedAt(t)) /\ Plain(Append(t, "prompt"), PromptedAt(t))
         /\ Lines(Append(t, "prompt")) = Lines(t)
         /\ \A k \in 1 .. Len(t) : Append(t, "prompt")[k] = t[k]
<1>1. PICK u \in Seq(Cell) :
        /\ u = Append(t, "prompt") /\ Len(u) = Len(t) + 1
        /\ \A i \in 1 .. Len(t) : u[i] = t[i]
        /\ u[Len(t) + 1] = "prompt"
  <2>1. "prompt" \in Cell
    BY CellFacts
  <2>2. /\ Append(t, "prompt") \in Seq(Cell) /\ Len(Append(t, "prompt")) = Len(t) + 1
        /\ \A i \in 1 .. Len(t) : Append(t, "prompt")[i] = t[i]
        /\ Append(t, "prompt")[Len(t) + 1] = "prompt"
    BY ONLY <2>1, t \in Seq(Cell), AppendProperties
  <2>3. QED
    BY ONLY <2>2
<1>2. Len(t) \in Nat /\ MaxInput \in Nat
  BY TextAssumption
<1>3. PromptedAt(t) \in Position
  BY <1>2 DEF PromptedAt, Position
<1>4. Placed(u, PromptedAt(t))
  BY <1>1, <1>2 DEF PromptedAt, Placed
<1>5. Plain(u, PromptedAt(t))
  BY <1>1, <1>2, CellFacts DEF PromptedAt, Plain
<1>6. Lines(Append(t, "prompt")) = Lines(t)
  BY CellFacts, AppendLines
<1>7. QED
  BY <1>1, <1>3, <1>4, <1>5, <1>6

(* The printed text with more of it.                                       *)
Printed(t, c, s) == SubSeq(t, 1, c) \o s

LEMMA PrintedFacts ==
  ASSUME NEW t \in Seq(Cell), NEW c \in 0 .. Len(t), NEW s \in Seq(Cell)
  PROVE  /\ Printed(t, c, s) \in Seq(Cell)
         /\ Len(Printed(t, c, s)) = c + Len(s)
         /\ \A k \in 1 .. c : Printed(t, c, s)[k] = t[k]
         /\ \A k \in 1 .. Len(s) : Printed(t, c, s)[c + k] = s[k]
<1>1. PICK p \in Seq(Cell) : p = SubSeq(t, 1, c) /\ Len(p) = c /\ \A j \in 1 .. c : p[j] = t[j]
  <2>1. /\ SubSeq(t, 1, c) \in Seq(Cell) /\ Len(SubSeq(t, 1, c)) = c
        /\ \A j \in 1 .. c : SubSeq(t, 1, c)[j] = t[j]
    BY PrefixFacts
  <2>2. QED
    BY ONLY <2>1
<1>2. PICK u \in Seq(Cell) :
        /\ u = p \o s /\ Len(u) = Len(p) + Len(s)
        /\ \A i \in 1 .. Len(p) + Len(s) : u[i] = IF i <= Len(p) THEN p[i] ELSE s[i - Len(p)]
  <2>1. /\ p \o s \in Seq(Cell) /\ Len(p \o s) = Len(p) + Len(s)
        /\ \A i \in 1 .. Len(p) + Len(s) : (p \o s)[i] = IF i <= Len(p) THEN p[i] ELSE s[i - Len(p)]
    BY ONLY p \in Seq(Cell), s \in Seq(Cell), ConcatProperties
  <2>2. QED
    BY ONLY <2>1
<1>3. PICK n \in Nat : n = Len(s) /\ c \in Nat
  OBVIOUS
<1>4. ASSUME NEW k \in 1 .. c PROVE u[k] = t[k]
  <2>1. k \in 1 .. c + n /\ k <= c
    BY ONLY <1>3, k \in 1 .. c
  <2>2. QED
    BY <2>1, <1>1, <1>2, <1>3
<1>5. ASSUME NEW k \in 1 .. n PROVE u[c + k] = s[k]
  <2>1. c + k \in 1 .. c + n /\ ~ c + k <= c /\ c + k - c = k
    BY ONLY <1>3, k \in 1 .. n
  <2>2. QED
    BY <2>1, <1>1, <1>2, <1>3
<1>6. u = Printed(t, c, s)
  BY <1>1, <1>2 DEF Printed
<1>7. QED
  BY <1>1, <1>2, <1>3, <1>4, <1>5, <1>6

(* It is inserted, and cells go at the top.                                *)
LEMMA Printing ==
  ASSUME NEW t \in Seq(Cell), NEW c \in 0 .. Len(t), NEW s \in Seq(Cell), NEW e \in 0 .. c + Len(s)
  PROVE  /\ Insertion(t, c, s) \in Seq(Cell) /\ Len(Insertion(t, c, s)) = Len(t) + Len(s)
         /\ Suffix(Insertion(t, c, s), e) \in Seq(Cell)
         /\ Len(Suffix(Insertion(t, c, s), e)) = Len(t) + Len(s) - e
         /\ \A k \in c + 1 .. Len(t) : Suffix(Insertion(t, c, s), e)[k + (Len(s) - e)] = t[k]
         /\ \A k \in 1 .. c + Len(s) - e :
              Suffix(Insertion(t, c, s), e)[k] = Printed(t, c, s)[k + e]
         /\ \A k \in 1 .. c + Len(s) : Insertion(t, c, s)[k] = Printed(t, c, s)[k]
<1>1. PICK n \in Nat, len \in Nat : n = Len(s) /\ len = Len(t)
  OBVIOUS
<1>2. c \in Nat /\ c <= len /\ e \in Nat /\ e <= c + n /\ n \in Nat /\ len \in Nat
  BY <1>1
<1>3. PICK u \in Seq(Cell) :
        /\ u = Insertion(t, c, s) /\ Len(u) = len + n
        /\ \A k \in 1 .. c : u[k] = t[k]
        /\ \A k \in 1 .. n : u[c + k] = s[k]
        /\ \A k \in c + 1 .. len : u[k + n] = t[k]
  <2>1. /\ Insertion(t, c, s) \in Seq(Cell)
        /\ Len(Insertion(t, c, s)) = Len(t) + Len(s)
        /\ \A k \in 1 .. c : Insertion(t, c, s)[k] = t[k]
        /\ \A k \in 1 .. Len(s) : Insertion(t, c, s)[c + k] = s[k]
        /\ \A k \in c + 1 .. Len(t) : Insertion(t, c, s)[k + Len(s)] = t[k]
    BY InsertionFacts
  <2>2. QED
    BY ONLY <1>1, <2>1
<1>4. PICK w \in Seq(Cell) :
        /\ w = Suffix(u, e) /\ Len(w) = len + n - e
        /\ \A j \in 1 .. len + n - e : w[j] = u[j + e]
  <2>1. e \in 0 .. Len(u)
    BY <1>2, <1>3
  <2>2. /\ Suffix(u, e) \in Seq(Cell) /\ Len(Suffix(u, e)) = Len(u) - e
        /\ \A j \in 1 .. Len(u) - e : Suffix(u, e)[j] = u[j + e]
    BY <2>1, SuffixFacts
  <2>3. QED
    BY ONLY <1>3, <2>2
<1>5. PICK p \in Seq(Cell) :
        /\ p = Printed(t, c, s)
        /\ \A k \in 1 .. c : p[k] = t[k]
        /\ \A k \in 1 .. n : p[c + k] = s[k]
  <2>1. /\ Printed(t, c, s) \in Seq(Cell)
        /\ Len(Printed(t, c, s)) = c + Len(s)
        /\ \A k \in 1 .. c : Printed(t, c, s)[k] = t[k]
        /\ \A k \in 1 .. Len(s) : Printed(t, c, s)[c + k] = s[k]
    BY PrintedFacts
  <2>2. QED
    BY ONLY <1>1, <2>1
<1>6. ASSUME NEW k \in c + 1 .. len PROVE w[k + (n - e)] = t[k]
  <2>1. k + (n - e) \in 1 .. len + n - e /\ k + (n - e) + e = k + n
    BY ONLY <1>2, k \in c + 1 .. len
  <2>2. QED
    BY <2>1, <1>3, <1>4
<1>7. ASSUME NEW k \in 1 .. c + n PROVE u[k] = p[k]
  <2>1. k \in 1 .. c \/ \E m \in 1 .. n : k = c + m
    <3>1. k \in 1 .. c \/ (k - c \in 1 .. n /\ k = c + (k - c))
      BY ONLY <1>2, k \in 1 .. c + n
    <3>2. QED
      BY <3>1
  <2>2. \A j \in 1 .. c : p[j] = t[j]
    BY <1>5
  <2>3. \A j \in 1 .. n : p[c + j] = s[j]
    BY <1>5
  <2>4. QED
    BY <2>1, <2>2, <2>3, <1>3
<1>8. ASSUME NEW k \in 1 .. c + n - e PROVE w[k] = p[k + e]
  <2>1. k \in 1 .. len + n - e /\ k + e \in 1 .. c + n
    BY ONLY <1>2, k \in 1 .. c + n - e
  <2>2. QED
    BY <2>1, <1>4, <1>7
<1>9. QED
  BY ONLY <1>1, <1>3, <1>4, <1>5, <1>6, <1>7, <1>8

ShiftedAt(a, n) ==
  [complete |-> a.complete + n, prompt |-> a.prompt + n, line |-> a.line + n, mark |-> a.mark + n]

LEMMA PrintingPlaced ==
  ASSUME NEW t \in Seq(Cell), NEW a \in Position, Placed(t, a), NEW s \in Seq(Cell),
         NEW e \in 0 .. a.complete + Len(s)
  PROVE  /\ a.complete \in 0 .. Len(t)
         /\ ShiftedAt(a, Len(s) - e) \in Position
         /\ Placed(Suffix(Insertion(t, a.complete, s), e), ShiftedAt(a, Len(s) - e))
         /\ Plain(t, a) => Plain(Suffix(Insertion(t, a.complete, s), e), ShiftedAt(a, Len(s) - e))
<1>1. /\ a.complete \in Nat /\ a.prompt \in Nat /\ a.line \in Nat /\ a.mark \in Int
      /\ a.complete <= a.prompt /\ a.prompt <= a.complete + 2 /\ a.line = a.prompt + 1 /\ a.line <= a.mark
      /\ a.line <= Len(t) /\ Len(t) <= a.line + MaxInput /\ Len(t) \in Nat /\ Len(s) \in Nat
      /\ MaxInput \in Nat
  BY TextAssumption DEF Position, Placed
<1>2. PICK c \in Nat, q \in Nat, m \in Int, n \in Nat, len \in Nat :
        /\ c = a.complete /\ q = a.prompt /\ a.line = q + 1 /\ m = a.mark /\ n = Len(s) /\ len = Len(t)
        /\ c <= q /\ q <= c + 2 /\ q + 1 <= m /\ q + 1 <= len /\ len <= q + 1 + MaxInput
  BY ONLY <1>1
<1>3. /\ c \in Nat /\ q \in Nat /\ m \in Int /\ n \in Nat /\ len \in Nat /\ MaxInput \in Nat
      /\ c <= q /\ q <= c + 2 /\ q + 1 <= m /\ q + 1 <= len /\ len <= q + 1 + MaxInput
      /\ e \in Nat /\ e <= c + n
  BY <1>1, <1>2
<1>4. PICK w \in Seq(Cell) :
        /\ w = Suffix(Insertion(t, c, s), e) /\ Len(w) = len + n - e
        /\ \A k \in c + 1 .. len : w[k + (n - e)] = t[k]
  <2>1. c \in 0 .. Len(t) /\ e \in 0 .. c + Len(s)
    BY <1>2, <1>3
  <2>2. /\ Insertion(t, c, s) \in Seq(Cell) /\ Len(Insertion(t, c, s)) = Len(t) + Len(s)
        /\ Suffix(Insertion(t, c, s), e) \in Seq(Cell)
        /\ Len(Suffix(Insertion(t, c, s), e)) = Len(t) + Len(s) - e
        /\ \A k \in c + 1 .. Len(t) : Suffix(Insertion(t, c, s), e)[k + (Len(s) - e)] = t[k]
        /\ \A k \in 1 .. c + Len(s) - e :
              Suffix(Insertion(t, c, s), e)[k] = Printed(t, c, s)[k + e]
        /\ \A k \in 1 .. c + Len(s) : Insertion(t, c, s)[k] = Printed(t, c, s)[k]
    BY ONLY <2>1, Printing
  <2>3. QED
    BY ONLY <1>2, <2>2
<1>5. PICK d \in Int : d = n - e /\ c + d >= 0
  <2>1. n - e \in Int /\ c + (n - e) >= 0
    BY ONLY <1>3
  <2>2. QED
    BY <2>1
<1>6. PICK b \in Position :
        /\ b = ShiftedAt(a, d)
        /\ b.complete = c + d /\ b.prompt = q + d /\ b.line = q + 1 + d /\ b.mark = m + d
  <2>1. ShiftedAt(a, d) = [complete |-> c + d, prompt |-> q + d, line |-> q + 1 + d, mark |-> m + d]
    BY <1>2 DEF ShiftedAt
  <2>2. c + d \in Int /\ q + d \in Int /\ q + 1 + d \in Int /\ m + d \in Int
    BY ONLY <1>3, d \in Int
  <2>3. ShiftedAt(a, d) \in Position
    BY ONLY <2>1, <2>2 DEF Position
  <2>4. PICK b \in Position : b = ShiftedAt(a, d)
    BY <2>3
  <2>5. b.complete = c + d /\ b.prompt = q + d /\ b.line = q + 1 + d /\ b.mark = m + d
    BY ONLY <2>1, <2>4
  <2>6. QED
    BY ONLY <2>4, <2>5
<1>7. \A i \in c + d + 1 .. len + d : \E k \in c + 1 .. len : i = k + d /\ w[i] = t[k]
  <2> TAKE i \in c + d + 1 .. len + d
  <2>1. i - d \in c + 1 .. len /\ i = i - d + d
    BY ONLY <1>3, d \in Int, i \in c + d + 1 .. len + d
  <2>2. PICK k \in c + 1 .. len : i = k + d
    BY <2>1
  <2>3. QED
    BY <2>2, <1>4, <1>5
<1>8. Len(w) = len + d /\ d \in Int
  BY <1>3, <1>4, <1>5
<1>9. /\ 0 <= b.complete /\ b.complete <= b.prompt /\ b.prompt <= b.complete + 2
      /\ b.line = b.prompt + 1 /\ b.line <= b.mark
      /\ b.line <= Len(w) /\ Len(w) <= b.line + MaxInput
  <2>1. /\ 0 <= c + d /\ c + d <= q + d /\ q + d <= c + d + 2 /\ q + 1 + d = q + d + 1 /\ q + 1 + d <= m + d
        /\ q + 1 + d <= len + d /\ len + d <= q + 1 + d + MaxInput
    BY ONLY <1>3, <1>5
  <2>2. QED
    BY ONLY <1>6, <1>8, <2>1
<1>10. ASSUME NEW i \in b.complete + 1 .. b.prompt PROVE w[i] = "candidate"
  <2>1. i \in c + d + 1 .. q + d
    BY <1>6
  <2>2. i \in c + d + 1 .. len + d
    BY ONLY <1>3, <2>1, d \in Int
  <2>3. PICK k \in c + 1 .. len : i = k + d /\ w[i] = t[k]
    BY <2>2, <1>7
  <2>4. k \in c + 1 .. q
    BY ONLY <1>3, <2>1, <2>3, d \in Int
  <2>5. QED
    BY <2>3, <2>4, <1>2 DEF Placed
<1>11. w[b.line] = "prompt"
  <2>1. q + 1 + d \in c + d + 1 .. len + d
    BY ONLY <1>3, d \in Int
  <2>2. PICK k \in c + 1 .. len : q + 1 + d = k + d /\ w[q + 1 + d] = t[k]
    BY <2>1, <1>7
  <2>3. k = q + 1
    BY ONLY <1>3, <2>2, d \in Int
  <2>4. QED
    BY <2>2, <2>3, <1>2, <1>6 DEF Placed
<1>12. ASSUME NEW i \in b.line + 1 .. Len(w) PROVE w[i] \in InputCell
  <2>1. i \in q + 1 + d + 1 .. len + d
    BY <1>6, <1>8
  <2>2. i \in c + d + 1 .. len + d
    BY ONLY <1>3, <2>1, d \in Int
  <2>3. PICK k \in c + 1 .. len : i = k + d /\ w[i] = t[k]
    BY <2>2, <1>7
  <2>4. k \in q + 1 + 1 .. len
    BY ONLY <1>3, <2>1, <2>3, d \in Int
  <2>5. QED
    BY <2>3, <2>4, <1>2 DEF Placed
<1>13. Placed(w, b)
  BY <1>9, <1>10, <1>11, <1>12 DEF Placed
<1>14. ASSUME Plain(t, a) PROVE Plain(w, b)
  <2>1. ASSUME NEW i \in b.complete + 1 .. Len(w) PROVE w[i] \notin LineEnd
    <3>1. i \in c + d + 1 .. len + d
      BY <1>6, <1>8
    <3>2. PICK k \in c + 1 .. len : w[i] = t[k]
      BY <3>1, <1>7
    <3>3. QED
      BY <3>2, <1>14, <1>2 DEF Plain
  <2>2. QED
    BY <2>1 DEF Plain
<1>15. c \in 0 .. Len(t)
  BY <1>2, <1>3
<1>16. QED
  BY ONLY <1>2, <1>4, <1>5, <1>6, <1>13, <1>14, <1>15

(* The printed text is still there, but for whole lines at the top, which  *)
(* went because there were more than n.                                    *)
Kept(printed, w, n) ==
  \E k \in 0 .. Len(printed) :
    /\ IsPrefix(SubSeq(printed, k + 1, Len(printed)), w)
    /\ k > 0 => Lines(w) = n /\ printed[k] \in LineEnd

LEMMA KeptFrom ==
  ASSUME NEW p \in Seq(Cell), NEW w \in Seq(Cell), NEW n, NEW k \in 0 .. Len(p),
         Len(p) - k <= Len(w), \A j \in 1 .. Len(p) - k : w[j] = p[j + k],
         k > 0 => Lines(w) = n /\ p[k] \in LineEnd
  PROVE  Kept(p, w, n)
<1>1. PICK u \in Seq(Cell) :
        /\ u = Suffix(p, k) /\ Len(u) = Len(p) - k /\ \A j \in 1 .. Len(p) - k : u[j] = p[j + k]
  <2>1. /\ Suffix(p, k) \in Seq(Cell) /\ Len(Suffix(p, k)) = Len(p) - k
        /\ \A j \in 1 .. Len(p) - k : Suffix(p, k)[j] = p[j + k]
    BY SuffixFacts
  <2>2. QED
    BY ONLY <2>1
<1>2. Len(u) \in Nat /\ Len(u) <= Len(w) /\ Len(u) \in 0 .. Len(w) /\ Len(u) \in 0 .. Len(u)
  BY <1>1
<1>3. PICK v \in Seq(Cell) : v = SubSeq(w, 1, Len(u)) /\ Len(v) = Len(u) /\ \A j \in 1 .. Len(u) : v[j] = w[j]
  <2>1. /\ SubSeq(w, 1, Len(u)) \in Seq(Cell) /\ Len(SubSeq(w, 1, Len(u))) = Len(u)
        /\ \A j \in 1 .. Len(u) : SubSeq(w, 1, Len(u))[j] = w[j]
    BY ONLY <1>2, PrefixFacts
  <2>2. QED
    BY ONLY <2>1
<1>4. PICK x \in Seq(Cell) : x = SubSeq(u, 1, Len(u)) /\ Len(x) = Len(u) /\ \A j \in 1 .. Len(u) : x[j] = u[j]
  <2>1. /\ SubSeq(u, 1, Len(u)) \in Seq(Cell) /\ Len(SubSeq(u, 1, Len(u))) = Len(u)
        /\ \A j \in 1 .. Len(u) : SubSeq(u, 1, Len(u))[j] = u[j]
    BY ONLY <1>2, PrefixFacts
  <2>2. QED
    BY ONLY <2>1
<1>5. x = v
  <2>1. Len(x) = Len(v) /\ \A j \in 1 .. Len(x) : x[j] = v[j]
    BY <1>1, <1>3, <1>4
  <2>2. QED
    BY ONLY <2>1, SeqEqual
<1>6. IsPrefix(SubSeq(p, k + 1, Len(p)), w)
  BY <1>1, <1>2, <1>3, <1>4, <1>5 DEF IsPrefix, Suffix
<1>7. QED
  BY <1>6 DEF Kept

(* Nothing went.                                                           *)
LEMMA KeptWhole ==
  ASSUME NEW t \in Seq(Cell), NEW w \in Seq(Cell), NEW n, NEW c \in 0 .. Len(t),
         c <= Len(w), \A j \in 1 .. c : w[j] = t[j]
  PROVE  Kept(Printed(t, c, << >>), w, n)
<1>0. PICK none \in Seq(Cell) : none = << >> /\ Len(none) = 0
  <2>1. << >> \in Seq(Cell) /\ Len(<< >>) = 0
    BY EmptySeq
  <2>2. QED
    BY ONLY <2>1
<1>1. PICK p \in Seq(Cell) : p = Printed(t, c, none) /\ Len(p) = c /\ \A j \in 1 .. c : p[j] = t[j]
  <2>1. /\ Printed(t, c, none) \in Seq(Cell) /\ Len(Printed(t, c, none)) = c + Len(none)
        /\ \A k \in 1 .. c : Printed(t, c, none)[k] = t[k]
    BY PrintedFacts
  <2>2. c + Len(none) = c
    BY <1>0
  <2>3. QED
    BY ONLY <2>1, <2>2
<1>2. 0 \in 0 .. Len(p) /\ Len(p) - 0 = c /\ \A j \in 1 .. c : j + 0 = j
  BY <1>1
<1>3. Kept(p, w, n)
  <2>1. /\ Len(p) - 0 <= Len(w) /\ \A j \in 1 .. Len(p) - 0 : w[j] = p[j + 0]
        /\ 0 > 0 => Lines(w) = n /\ p[0] \in LineEnd
    BY <1>1, <1>2
  <2>2. QED
    BY ONLY <1>2, <2>1, KeptFrom
<1>4. QED
  BY <1>0, <1>1, <1>3

(* Output in a text that was within the limit of lines: no more than what  *)
(* is printed goes.                                                        *)
LEMMA PrintingKeeps ==
  ASSUME NEW t \in Seq(Cell), NEW c \in 0 .. Len(t), NEW s \in Seq(Cell),
         NEW n \in Nat \ {0}, Lines(t) <= n
  PROVE  /\ Excess(Insertion(t, c, s), n) \in 0 .. c + Len(s)
         /\ Lines(Suffix(Insertion(t, c, s), Excess(Insertion(t, c, s), n))) <= n
         /\ Kept(Printed(t, c, s), Suffix(Insertion(t, c, s), Excess(Insertion(t, c, s), n)), n)
<1>1. PICK k \in Nat, len \in Nat : k = Len(s) /\ len = Len(t)
  OBVIOUS
<1>2. c \in Nat /\ c <= len /\ k \in Nat /\ len \in Nat
  BY <1>1
<1>3. PICK u \in Seq(Cell) : u = Insertion(t, c, s) /\ Len(u) = len + k
  BY <1>1, InsertionFacts
<1>4. PICK e \in 0 .. Len(u) :
        /\ e = Excess(u, n) /\ Lines(Suffix(u, e)) <= n
        /\ \A j \in 0 .. Len(u) : Lines(Suffix(u, j)) <= n => e <= j
        /\ e > 0 => Lines(Suffix(u, e)) = n /\ u[e] \in LineEnd
  BY ExcessFacts
<1>5. c + k \in 0 .. c + k /\ c + k \in 0 .. Len(u) /\ c + k - (c + k) = 0 /\ len + k - (c + k) = len - c
  BY ONLY <1>2, <1>3
<1>6. Lines(Suffix(u, c + k)) <= n
  <2>1. PICK v \in Seq(Cell) : v = Suffix(u, c + k) /\ Len(v) = len - c /\ \A j \in 1 .. len - c : v[j] = t[j + c]
    <3>1. c + k \in 0 .. c + Len(s)
      BY <1>1, <1>5
    <3>2. /\ Suffix(Insertion(t, c, s), c + k) \in Seq(Cell)
          /\ Len(Suffix(Insertion(t, c, s), c + k)) = Len(t) + Len(s) - (c + k)
          /\ \A j \in c + 1 .. Len(t) : Suffix(Insertion(t, c, s), c + k)[j + (Len(s) - (c + k))] = t[j]
      BY <3>1, Printing
    <3>3. PICK v \in Seq(Cell) :
            /\ v = Suffix(u, c + k) /\ Len(v) = len + k - (c + k)
            /\ \A j \in c + 1 .. len : v[j + (k - (c + k))] = t[j]
      BY ONLY <1>1, <1>3, <3>2
    <3>4. ASSUME NEW j \in 1 .. len - c PROVE v[j] = t[j + c]
      <4>1. j + c \in c + 1 .. len /\ j + c + (k - (c + k)) = j
        BY ONLY <1>2, j \in 1 .. len - c
      <4>2. QED
        BY <4>1, <3>3
    <3>5. QED
      BY <1>5, <3>3, <3>4
  <2>2. PICK v2 \in Seq(Cell) : v2 = Suffix(t, c) /\ Len(v2) = len - c /\ \A j \in 1 .. len - c : v2[j] = t[j + c]
    <3>1. /\ Suffix(t, c) \in Seq(Cell) /\ Len(Suffix(t, c)) = Len(t) - c
          /\ \A j \in 1 .. Len(t) - c : Suffix(t, c)[j] = t[j + c]
      BY SuffixFacts
    <3>2. QED
      BY ONLY <1>1, <3>1
  <2>3. v = v2
    <3>1. Len(v) = Len(v2) /\ \A j \in 1 .. Len(v) : v[j] = v2[j]
      BY ONLY <2>1, <2>2
    <3>2. QED
      BY ONLY <3>1, SeqEqual
  <2>4. Lines(v2) <= Lines(t) /\ Lines(v2) \in Nat /\ Lines(t) \in Nat
    BY <2>2, SuffixFewer, LinesFacts
  <2>5. QED
    BY <2>1, <2>3, <2>4
<1>7. e <= c + k /\ e \in Nat /\ e \in 0 .. c + Len(s)
  BY <1>1, <1>2, <1>4, <1>5, <1>6
<1>8. PICK p \in Seq(Cell) : p = Printed(t, c, s) /\ Len(p) = c + k
  BY <1>1, PrintedFacts
<1>9. PICK w \in Seq(Cell) :
        /\ w = Suffix(u, e) /\ Len(w) = len + k - e
        /\ \A j \in 1 .. c + k - e : w[j] = p[j + e]
        /\ \A j \in 1 .. c + k : u[j] = p[j]
  <2>1. /\ Insertion(t, c, s) \in Seq(Cell) /\ Len(Insertion(t, c, s)) = Len(t) + Len(s)
        /\ Suffix(Insertion(t, c, s), e) \in Seq(Cell)
        /\ Len(Suffix(Insertion(t, c, s), e)) = Len(t) + Len(s) - e
        /\ \A j \in c + 1 .. Len(t) : Suffix(Insertion(t, c, s), e)[j + (Len(s) - e)] = t[j]
        /\ \A j \in 1 .. c + Len(s) - e : Suffix(Insertion(t, c, s), e)[j] = Printed(t, c, s)[j + e]
        /\ \A j \in 1 .. c + Len(s) : Insertion(t, c, s)[j] = Printed(t, c, s)[j]
    <3>1. e \in 0 .. c + Len(s)
      BY <1>7
    <3>2. QED
      BY ONLY <3>1, Printing
  <2>2. QED
    BY ONLY <1>1, <1>3, <1>8, <2>1
<1>10. Kept(p, w, n)
  <2>1. e \in 0 .. Len(p) /\ Len(p) - e = c + k - e
    BY ONLY <1>7, <1>8, <1>2
  <2>2. c + k - e <= len + k - e
    BY ONLY <1>7, <1>2
  <2>3. e > 0 => Lines(w) = n /\ p[e] \in LineEnd
    <3>1. e > 0 => e \in 1 .. c + k
      BY ONLY <1>7, <1>2
    <3>2. QED
      BY <3>1, <1>4, <1>9
  <2>4. Len(p) - e <= Len(w) /\ \A j \in 1 .. Len(p) - e : w[j] = p[j + e]
    BY ONLY <2>1, <2>2, <1>9
  <2>5. QED
    BY ONLY <2>1, <2>3, <2>4, KeptFrom
<1>11. QED
  BY <1>3, <1>4, <1>7, <1>8, <1>9, <1>10

(* Output at the end of a text that may be over the limit.                 *)
LEMMA AppendingKeeps ==
  ASSUME NEW t \in Seq(Cell), NEW s \in Seq(Cell), NEW n \in Nat \ {0},
         NEW e \in 0 .. Len(t), e = Excess(t, n), NEW x \in Seq(Cell), x = Suffix(t, e),
         NEW u \in Seq(Cell), u = Insertion(x, Len(x), s), NEW f \in 0 .. Len(u), f = Excess(u, n),
         NEW w \in Seq(Cell), w = Suffix(u, f)
  PROVE  /\ Len(x) = Len(t) - e /\ Len(u) = Len(x) + Len(s) /\ Len(w) = Len(u) - f
         /\ Lines(w) <= n
         /\ Kept(Printed(t, Len(t), s), w, n)
<1>1. PICK k \in Nat, len \in Nat : k = Len(s) /\ len = Len(t) /\ e \in Nat /\ e <= len
  OBVIOUS
<1>2. len \in 0 .. Len(t) /\ len \in Nat /\ k \in Nat /\ e \in Nat /\ e <= len
  BY <1>1
<1>3. Len(x) = len - e /\ \A j \in 1 .. len - e : x[j] = t[j + e]
  <2>1. /\ Suffix(t, e) \in Seq(Cell) /\ Len(Suffix(t, e)) = Len(t) - e
        /\ \A j \in 1 .. Len(t) - e : Suffix(t, e)[j] = t[j + e]
    BY ONLY SuffixFacts
  <2>2. QED
    BY ONLY <1>1, <2>1, x = Suffix(t, e)
<1>4. PICK m \in Nat : m = len - e /\ m = Len(x) /\ m \in 0 .. Len(x)
  BY <1>2, <1>3
<1>5. /\ Len(u) = m + k
      /\ \A j \in 1 .. m : u[j] = x[j]
      /\ \A j \in 1 .. k : u[m + j] = s[j]
  <2>1. /\ Insertion(x, m, s) \in Seq(Cell)
        /\ Len(Insertion(x, m, s)) = Len(x) + Len(s)
        /\ \A j \in 1 .. m : Insertion(x, m, s)[j] = x[j]
        /\ \A j \in 1 .. Len(s) : Insertion(x, m, s)[m + j] = s[j]
        /\ \A j \in m + 1 .. Len(x) : Insertion(x, m, s)[j + Len(s)] = x[j]
    <3>1. m \in 0 .. Len(x)
      BY <1>4
    <3>2. QED
      BY ONLY ZenonT(30), <3>1, InsertionFacts
  <2>2. u = Insertion(x, m, s)
    BY <1>4
  <2>3. QED
    BY ONLY <1>1, <1>4, <2>1, <2>2
<1>6. f \in Nat /\ f <= m + k /\ m + k - f \in Nat
  <2>1. f \in 0 .. m + k /\ m \in Nat /\ k \in Nat
    BY <1>2, <1>4, <1>5
  <2>2. QED
    BY ONLY <2>1
<1>7. Len(w) = m + k - f /\ \A j \in 1 .. m + k - f : w[j] = u[j + f]
  <2>1. /\ Suffix(u, f) \in Seq(Cell) /\ Len(Suffix(u, f)) = Len(u) - f
        /\ \A j \in 1 .. Len(u) - f : Suffix(u, f)[j] = u[j + f]
    BY ONLY SuffixFacts
  <2>2. QED
    BY ONLY <1>5, <2>1, w = Suffix(u, f)
<1>8. PICK p \in Seq(Cell) :
        /\ p = Printed(t, len, s) /\ Len(p) = len + k
        /\ \A j \in 1 .. len : p[j] = t[j]
        /\ \A j \in 1 .. k : p[len + j] = s[j]
  <2>1. /\ Printed(t, len, s) \in Seq(Cell) /\ Len(Printed(t, len, s)) = len + Len(s)
        /\ \A j \in 1 .. len : Printed(t, len, s)[j] = t[j]
        /\ \A j \in 1 .. Len(s) : Printed(t, len, s)[len + j] = s[j]
    BY ONLY ZenonT(30), <1>2, PrintedFacts
  <2>2. QED
    BY ONLY <1>1, <2>1
<1>9. ASSUME NEW j \in 1 .. m + k PROVE u[j] = p[j + e]
  <2>1. CASE j <= m
    <3>1. j \in 1 .. m /\ j \in 1 .. len - e /\ j + e \in 1 .. len
      BY ONLY <1>2, <1>4, <2>1, j \in 1 .. m + k
    <3>2. u[j] = x[j] /\ x[j] = t[j + e] /\ p[j + e] = t[j + e]
      BY ONLY <3>1, <1>3, <1>5, <1>8
    <3>3. QED
      BY ONLY <3>2
  <2>2. CASE j > m
    <3>1. j - m \in 1 .. k /\ m + (j - m) = j /\ len + (j - m) = j + e
      BY ONLY <1>2, <1>4, <2>2, j \in 1 .. m + k
    <3>2. u[m + (j - m)] = s[j - m] /\ p[len + (j - m)] = s[j - m]
      BY ONLY <3>1, <1>5, <1>8
    <3>3. QED
      BY ONLY <3>1, <3>2
  <2>3. QED
    BY ONLY <2>1, <2>2, <1>4, j \in 1 .. m + k
<1>10. PICK g \in 0 .. len + k : g = e + f /\ len + k - g = m + k - f /\ \A j \in Int : j + f + e = j + g
  <2>1. e + f \in 0 .. len + k /\ len + k - (e + f) = m + k - f /\ \A j \in Int : j + f + e = j + (e + f)
    BY ONLY <1>2, <1>4, <1>6
  <2>2. QED
    BY <2>1
<1>11. ASSUME NEW j \in 1 .. len + k - g PROVE w[j] = p[j + g]
  <2>1. j \in 1 .. m + k - f /\ j + f \in 1 .. m + k /\ j + f + e = j + g
    BY ONLY <1>2, <1>4, <1>6, <1>10, j \in 1 .. len + k - g
  <2>2. w[j] = u[j + f] /\ u[j + f] = p[j + f + e]
    BY ONLY <2>1, <1>7, <1>9
  <2>3. QED
    BY ONLY <2>1, <2>2
<1>12. /\ Lines(w) <= n
       /\ f > 0 => Lines(w) = n /\ u[f] \in LineEnd
  BY ExcessFacts
<1>13. e > 0 => Lines(x) = n /\ t[e] \in LineEnd
  BY ExcessFacts
<1>14. ASSUME g > 0 PROVE Lines(w) = n /\ p[g] \in LineEnd
  <2>1. CASE f > 0
    <3>1. f \in 1 .. m + k /\ f + e = g
      BY ONLY <1>2, <1>6, <1>10, <2>1
    <3>2. QED
      BY <3>1, <2>1, <1>9, <1>12
  <2>2. CASE f = 0
    <3>1. e > 0 /\ g = e /\ e \in 1 .. len
      BY ONLY <1>2, <1>10, <1>14, <2>2
    <3>2. p[g] \in LineEnd
      BY <3>1, <1>8, <1>13
    <3>3. \A j \in 1 .. m : j \in 1 .. Len(w) /\ w[j] = x[j]
      <4> TAKE j \in 1 .. m
      <4>1. j \in 1 .. m + k - f /\ j + f = j
        BY ONLY <1>2, <1>4, <2>2, j \in 1 .. m
      <4>2. w[j] = u[j + f] /\ u[j] = x[j] /\ Len(w) = m + k - f
        BY ONLY <1>5, <1>7, <4>1, j \in 1 .. m
      <4>3. QED
        BY ONLY <1>2, <1>4, <2>2, <4>1, <4>2, j \in 1 .. m
    <3> DEFINE h == [j \in Ends(x) |-> j]
    <3>4. h \in [Ends(x) -> Ends(w)] /\ \A i, j \in Ends(x) : h[i] = h[j] => i = j
      BY SMTT(30), <3>3, <1>4 DEF Ends
    <3> HIDE DEF h
    <3>5. Lines(x) <= Lines(w)
      BY ONLY <3>4, FewerLines
    <3>6. Lines(x) \in Nat /\ Lines(w) \in Nat
      BY LinesFacts
    <3>7. Lines(x) = n
      BY <3>1, <1>13
    <3>8. QED
      BY ONLY <3>2, <3>5, <3>6, <3>7, <1>12
  <2>3. QED
    BY <2>1, <2>2, <1>6
<1>15. Kept(p, w, n)
  <2>1. g \in 0 .. Len(p) /\ Len(p) - g <= Len(w) /\ \A j \in 1 .. Len(p) - g : w[j] = p[j + g]
    BY ONLY <1>6, <1>7, <1>8, <1>10, <1>11
  <2>2. QED
    BY ONLY <2>1, <1>14, KeptFrom
<1>16. Kept(Printed(t, Len(t), s), w, n)
  BY ONLY <1>1, <1>8, <1>15
<1>17. Len(x) = Len(t) - e /\ Len(u) = Len(x) + Len(s) /\ Len(w) = Len(u) - f
  BY ONLY <1>1, <1>3, <1>4, <1>5, <1>7
<1>18. Lines(w) <= n
  BY ONLY <1>12
<1>19. QED
  BY ONLY <1>16, <1>17, <1>18

(* A new prompt below a text cut to the limit.                             *)
LEMMA NewPromptKeeps ==
  ASSUME NEW u \in Seq(Cell), NEW n \in Nat \ {0}, NEW t \in Seq(Cell), NEW c \in 0 .. Len(t),
         c <= Len(u), \A j \in 1 .. c : u[j] = t[j], Excess(u, n) <= c
  PROVE  Kept(Printed(t, c, << >>), Append(Suffix(u, Excess(u, n)), "prompt"), n)
<1>1. PICK e \in 0 .. Len(u) :
        e = Excess(u, n) /\ (e > 0 => Lines(Suffix(u, e)) = n /\ u[e] \in LineEnd)
  BY ExcessFacts
<1>2. PICK x \in Seq(Cell) : x = Suffix(u, e) /\ Len(x) = Len(u) - e /\ \A j \in 1 .. Len(u) - e : x[j] = u[j + e]
  <2>1. /\ Suffix(u, e) \in Seq(Cell) /\ Len(Suffix(u, e)) = Len(u) - e
        /\ \A j \in 1 .. Len(u) - e : Suffix(u, e)[j] = u[j + e]
    BY SuffixFacts
  <2>2. QED
    BY ONLY <2>1
<1>3. PICK w \in Seq(Cell) :
        /\ w = Append(x, "prompt") /\ Len(w) = Len(x) + 1 /\ Lines(w) = Lines(x)
        /\ \A j \in 1 .. Len(x) : w[j] = x[j]
  BY Prompting
<1>4. PICK p \in Seq(Cell) : p = Printed(t, c, << >>) /\ Len(p) = c /\ \A j \in 1 .. c : p[j] = t[j]
  <2>0. PICK none \in Seq(Cell) : none = << >> /\ Len(none) = 0
    <3>1. << >> \in Seq(Cell) /\ Len(<< >>) = 0
      BY EmptySeq
    <3>2. QED
      BY ONLY <3>1
  <2>1. /\ Printed(t, c, none) \in Seq(Cell) /\ Len(Printed(t, c, none)) = c + Len(none)
        /\ \A k \in 1 .. c : Printed(t, c, none)[k] = t[k]
    BY PrintedFacts
  <2>2. c + Len(none) = c
    BY <2>0
  <2>3. QED
    BY ONLY <2>0, <2>1, <2>2
<1>5. PICK len \in Nat : len = Len(u) /\ c \in Nat /\ c <= len /\ e \in Nat /\ e <= c
  BY <1>1
<1>6. ASSUME NEW j \in 1 .. c - e PROVE w[j] = p[j + e]
  <2>1. j \in 1 .. len - e /\ j + e \in 1 .. c
    BY ONLY <1>5, j \in 1 .. c - e
  <2>2. QED
    BY <2>1, <1>2, <1>3, <1>4, <1>5
<1>7. e \in 0 .. c /\ c - e <= len - e + 1
  BY ONLY <1>5
<1>8. e > 0 => Lines(w) = n /\ p[e] \in LineEnd
  <2>1. e > 0 => e \in 1 .. c
    BY ONLY <1>5
  <2>2. QED
    BY <2>1, <1>1, <1>2, <1>3, <1>4
<1>9. Kept(p, w, n)
  <2>1. e \in 0 .. Len(p) /\ Len(p) - e <= Len(w) /\ \A j \in 1 .. Len(p) - e : w[j] = p[j + e]
    BY ONLY <1>2, <1>3, <1>4, <1>5, <1>6, <1>7
  <2>2. QED
    BY ONLY <2>1, <1>8, KeptFrom
<1>10. QED
  BY <1>1, <1>2, <1>3, <1>4, <1>9

-----------------------------------------------------------------------------
(* The inductive invariant.                                                *)

(* No text within the bounds has more lines.                               *)
Far == 2 * MaxText + MaxInput + 3

TextSizes ==
  /\ Len(buffer) <= MaxText
  /\ at.complete + Len(buffer) <= 2 * MaxText
  /\ \E n \in ScrollBack : n <= scroll

(* While the user may edit: nothing is in excess, since only what is       *)
(* printed and entered makes lines, unless the limit is out of reach.  The *)
(* cursor, or the one saved while the mouse is down, is in the input line. *)
InOrder ==
  /\ Placed(text, at)
  /\ Lines(text) <= scroll
  /\ scroll <= Far => Plain(text, at)
  /\ pressed = None => at.line <= cur
  /\ pressed # None => at.line <= pressed /\ pressed <= Len(text)

(* While a line is evaluated: it is the end of the text, and may be one    *)
(* too many as long as the cursor is there.                                *)
Evaluating ==
  /\ pressed = None
  /\ at.complete = Len(text)
  /\ Lines(text) <= scroll \/ cur = Len(text)

IInv ==
  /\ TypeOK /\ TextSizes
  /\ ~ busy => InOrder
  /\ busy => Evaluating

TranscriptStep ==
  LET printed == IF buffer' = << >> THEN buffer ELSE << >>
      kept == SubSeq(text, 1, at.complete) \o printed
  IN  \E k \in 0 .. Len(kept) :
        /\ IsPrefix(SubSeq(kept, k + 1, Len(kept)), text')
        /\ k > 0 => Lines(text') = scroll' /\ kept[k] \in LineEnd

LEMMA TypeFacts ==
  ASSUME IInv
  PROVE  /\ text \in Seq(Cell) /\ Len(text) \in Nat /\ at \in Position
         /\ cur \in Nat /\ cur <= Len(text) /\ cur \in 0 .. Len(text)
         /\ buffer \in Seq(Cell) /\ buffer \in Seq(OutputCell) /\ Len(buffer) \in Nat
         /\ scroll \in Nat \ {0} /\ MaxText \in Nat /\ MaxInput \in Nat
         /\ at.complete \in Int /\ at.prompt \in Int /\ at.line \in Int /\ at.mark \in Int
         /\ pressed \in Nat \cup {None} /\ timer \in BOOLEAN /\ busy \in BOOLEAN
<1>1. buffer \in Seq(Cell)
  BY CellFacts DEF IInv, TypeOK
<1>2. QED
  BY <1>1, TextAssumption DEF IInv, TypeOK, Position

LEMMA PlacedFacts ==
  ASSUME IInv, ~ busy
  PROVE  /\ Placed(text, at) /\ Lines(text) <= scroll /\ (scroll <= Far => Plain(text, at))
         /\ at.complete \in Nat /\ at.prompt \in Nat /\ at.line \in Nat
         /\ at.complete <= at.prompt /\ at.prompt <= at.complete + 2 /\ at.line = at.prompt + 1
         /\ at.line <= at.mark /\ at.line <= Len(text) /\ Len(text) <= at.line + MaxInput
         /\ at.complete \in 0 .. Len(text)
         /\ at.complete + Len(buffer) <= 2 * MaxText
<1>1. InOrder /\ TextSizes
  BY DEF IInv
<1>2. /\ at.complete \in Nat /\ at.prompt \in Nat /\ at.line \in Nat /\ at.complete <= Len(text)
  <2>1. /\ 0 <= at.complete /\ at.complete <= at.prompt /\ at.line = at.prompt + 1 /\ at.line <= Len(text)
    BY <1>1 DEF InOrder, Placed
  <2>2. at.complete \in Int /\ at.prompt \in Int /\ at.line \in Int /\ Len(text) \in Nat
    BY TypeFacts
  <2>3. QED
    BY ONLY <2>1, <2>2
<1>3. QED
  BY <1>1, <1>2, TypeFacts DEF InOrder, Placed, TextSizes

LEMMA ReachFacts ==
  ASSUME NEW t \in Seq(Cell), NEW a \in Position, Placed(t, a), a.complete <= 2 * MaxText
  PROVE  Lines(t) <= Far + 1
<1>1. PICK c \in Int, len \in Nat, l \in Nat : c = a.complete /\ len = Len(t) /\ l = Lines(t)
  BY LinesFacts DEF Position
<1>2. len <= c + 2 + 1 + MaxInput /\ MaxInput \in Nat /\ MaxText \in Nat
  BY SMTT(30), <1>1, TextAssumption DEF Placed, Position
<1>3. l <= 1 + len /\ c <= 2 * MaxText
  BY <1>1, LinesFacts
<1>4. l <= 2 * MaxText + MaxInput + 3 + 1
  BY ONLY <1>1, <1>2, <1>3
<1>5. QED
  BY <1>1, <1>4 DEF Far

(* Enough for a handler that ends with the user at work.                   *)
LEMMA Settled ==
  ASSUME IInv, ~ busy',
         text' \in Seq(Cell), at' \in Position, Placed(text', at'),
         pressed = None, pressed' = pressed,
         cur' \in Int, at'.line <= cur', cur' <= Len(text'),
         UNCHANGED <<buffer, timer, scroll>>, busy' \in BOOLEAN,
         at'.complete + Len(buffer) <= 2 * MaxText,
         scroll > Far \/ Lines(text') <= scroll,
         scroll <= Far => Plain(text', at')
  PROVE  IInv'
<1>1. at'.complete \in Nat /\ at'.line \in Nat /\ at'.complete <= 2 * MaxText
  <2>1. at'.complete \in Int /\ at'.line \in Int /\ at'.prompt \in Int
    BY DEF Position
  <2>2. 0 <= at'.complete /\ at'.complete <= at'.prompt /\ at'.line = at'.prompt + 1
    BY DEF Placed
  <2>3. Len(buffer) \in Nat /\ MaxText \in Nat
    BY TypeFacts
  <2>4. QED
    BY ONLY <2>1, <2>2, <2>3, at'.complete + Len(buffer) <= 2 * MaxText
<1>2. Lines(text') <= scroll
  <2>1. CASE scroll > Far
    <3>1. Lines(text') <= Far + 1
      BY <1>1, ReachFacts
    <3>2. Far \in Nat /\ scroll \in Nat /\ Lines(text') \in Nat
      <4>1. Lines(text') \in Nat
        BY LinesFacts
      <4>2. MaxText \in Nat /\ MaxInput \in Nat /\ scroll \in Nat
        BY TypeFacts
      <4>3. QED
        BY ONLY <4>1, <4>2 DEF Far
    <3>3. QED
      BY ONLY <2>1, <3>1, <3>2
  <2>2. QED
    BY <2>1
<1>3. cur' \in 0 .. Len(text')
  BY <1>1
<1>4. TypeOK'
  BY <1>3, TypeFacts DEF TypeOK
<1>5. TextSizes'
  BY DEF TextSizes, IInv
<1>6. InOrder'
  BY <1>2 DEF InOrder
<1>7. QED
  BY <1>4, <1>5, <1>6 DEF IInv

(* Printed text that a handler leaves alone.                               *)
LEMMA SameTranscript ==
  ASSUME IInv, buffer' = buffer \/ buffer' # << >>, text' \in Seq(Cell), at.complete \in 0 .. Len(text),
         at.complete <= Len(text'), \A k \in 1 .. at.complete : text'[k] = text[k]
  PROVE  TranscriptStep
<1>1. Kept(Printed(text, at.complete, << >>), text', scroll')
  BY TypeFacts, KeptWhole
<1>2. (IF buffer' = << >> THEN buffer ELSE << >>) = << >>
  OBVIOUS
<1>3. QED
  BY <1>1, <1>2 DEF Kept, Printed, TranscriptStep

-----------------------------------------------------------------------------
(* The keys that edit the input line.                                      *)

LEMMA EditLength ==
  ASSUME IInv, ~ busy, NEW from \in at.line .. Len(text), NEW to \in from .. Len(text),
         NEW s \in Seq(InputCell), Edit(from, to, s)
  PROVE  Len(text') = Len(text) - (to - from) + Len(s) /\ from \in Nat /\ to \in Nat
<1>1. at.line \in Nat /\ text \in Seq(Cell) /\ Len(text) \in Nat
  BY PlacedFacts, TypeFacts
<1>2. from \in 0 .. Len(text) /\ s \in Seq(Cell) /\ to \in from .. Len(text) /\ to \in Nat
  BY <1>1, CellFacts
<1>3. Len(Edited(text, from, to, s)) = Len(text) - (to - from) + Len(s)
  BY ONLY <1>1, <1>2, EditedFacts
<1>4. QED
  BY <1>2, <1>3 DEF Edit, Edited

LEMMA EditStep ==
  ASSUME Careful, IInv, Idle, NEW from \in at.line .. Len(text), NEW to \in from .. Len(text),
         NEW s \in Seq(InputCell), Room \/ \A k \in 1 .. Len(s) : s[k] \notin LineEnd,
         Edit(from, to, s), cur' \in Int, at.line <= cur', cur' <= Len(text')
  PROVE  IInv' /\ TranscriptStep
<1>1. /\ ~ busy /\ pressed = None
      /\ text \in Seq(Cell) /\ at \in Position /\ Placed(text, at) /\ s \in Seq(Cell)
      /\ at.line \in Nat /\ at.complete \in Nat /\ at.complete <= at.line /\ Len(text) \in Nat
      /\ Lines(text) <= scroll /\ (scroll <= Far => Plain(text, at))
      /\ at.complete + Len(buffer) <= 2 * MaxText /\ at.complete \in 0 .. Len(text)
      /\ busy \in BOOLEAN
  <2>1. ~ busy /\ pressed = None
    BY DEF Idle
  <2>2. at.complete <= at.line
    <3>1. /\ at.complete \in Nat /\ at.prompt \in Nat /\ at.complete <= at.prompt /\ at.line = at.prompt + 1
      BY <2>1, PlacedFacts
    <3>2. QED
      BY ONLY <3>1
  <2>3. QED
    BY <2>1, <2>2, PlacedFacts, TypeFacts, CellFacts
<1>2. from \in 0 .. Len(text)
  BY <1>1
<1>3. /\ text' = Edited(text, from, to, s) /\ Len(text') - at.line <= MaxInput
      /\ UNCHANGED <<at, pressed, buffer, timer, scroll, busy>>
  BY DEF Edit, Edited
<1>4. Len(Edited(text, from, to, s)) <= at.line + MaxInput
  <2>1. Len(text') = Len(text) - (to - from) + Len(s) /\ from \in Nat /\ to \in Nat
    BY <1>1, EditLength
  <2>2. Len(text') \in Int /\ MaxInput \in Nat
    BY <1>1, <2>1, TypeFacts
  <2>3. QED
    BY ONLY <1>1, <1>3, <2>2
<1>5. /\ text' \in Seq(Cell) /\ Placed(text', at) /\ \A k \in 1 .. at.line : text'[k] = text[k]
  <2>1. /\ Edited(text, from, to, s) \in Seq(Cell)
        /\ Placed(Edited(text, from, to, s), at)
        /\ \A k \in 1 .. at.line : Edited(text, from, to, s)[k] = text[k]
    BY ONLY <1>1, <1>4, EditedPlaced
  <2>2. QED
    BY ONLY <1>3, <2>1
<1>6. scroll > Far \/ (Lines(text') <= scroll /\ (scroll <= Far => Plain(text', at)))
  <2>1. CASE Room
    <3>1. scroll > Far
      BY <2>1 DEF Room, Far
    <3>2. QED
      BY <3>1
  <2>2. CASE \A k \in 1 .. Len(s) : s[k] \notin LineEnd
    <3>1. Lines(Edited(text, from, to, s)) <= Lines(text)
      BY <1>1, <1>2, <2>2, EditedLines
    <3>2. Lines(text') \in Nat /\ Lines(text) \in Nat /\ scroll \in Nat
      BY <1>1, <1>5, LinesFacts, TypeFacts
    <3>3. Lines(text') <= scroll
      BY ONLY <1>1, <1>3, <3>1, <3>2
    <3>4. scroll <= Far => Plain(text', at)
      BY <1>1, <1>3, <2>2, EditedPlain
    <3>5. QED
      BY <3>3, <3>4
  <2>3. QED
    BY <2>1, <2>2
<1>7. Far \in Nat /\ scroll \in Nat
  <2>1. MaxText \in Nat /\ MaxInput \in Nat /\ scroll \in Nat
    BY TypeFacts
  <2>2. QED
    BY ONLY <2>1 DEF Far
<1>8. IInv'
  <2>1. scroll > Far \/ Lines(text') <= scroll
    BY <1>6
  <2>2. scroll <= Far => Plain(text', at')
    BY <1>3, <1>6, <1>7
  <2>3. /\ ~ busy' /\ busy' \in BOOLEAN /\ at' \in Position /\ Placed(text', at') /\ pressed' = pressed
        /\ at'.line <= cur' /\ UNCHANGED <<buffer, timer, scroll>>
        /\ at'.complete + Len(buffer) <= 2 * MaxText
    BY <1>1, <1>3, <1>5
  <2>4. QED
    BY <1>1, <1>5, <2>1, <2>2, <2>3, Settled
<1>9. TranscriptStep
  <2>1. at.line <= Len(text')
    BY <1>5 DEF Placed
  <2>2. Len(text') \in Nat
    BY <1>5
  <2>3. at.complete <= Len(text') /\ \A k \in 1 .. at.complete : text'[k] = text[k]
    BY <1>1, <1>5, <2>1, <2>2
  <2>4. QED
    BY <1>1, <1>3, <1>5, <2>3, SameTranscript
<1>10. QED
  BY <1>8, <1>9

LEMMA IdleFacts ==
  ASSUME IInv, Idle
  PROVE  /\ ~ busy /\ pressed = None
         /\ text \in Seq(Cell) /\ Len(text) \in Nat /\ cur \in Nat /\ at.line \in Nat
         /\ at.line <= cur /\ cur <= Len(text) /\ MaxInput \in Nat
         /\ at.complete \in Nat /\ at.complete < at.line /\ at.prompt \in Nat /\ at.prompt < at.line
         /\ Idle /\ IInv
<1>1. ~ busy /\ pressed = None
  BY DEF Idle
<1>2. at.line <= cur
  BY <1>1 DEF IInv, InOrder
<1>3. at.complete < at.line /\ at.prompt < at.line
  <2>1. /\ at.complete \in Nat /\ at.prompt \in Nat /\ at.complete <= at.prompt /\ at.line = at.prompt + 1
    BY <1>1, PlacedFacts
  <2>2. QED
    BY ONLY <2>1
<1>4. QED
  BY <1>1, <1>2, <1>3, TypeFacts, PlacedFacts

LEMMA InputFacts ==
  /\ \A c \in InputCell : <<c>> \in Seq(InputCell) /\ Len(<<c>>) = 1 /\ <<c>>[1] = c
  /\ << >> \in Seq(InputCell) /\ Len(<< >>) = 0
  /\ \A k \in 1 .. Len(<<"typed">>) : <<"typed">>[k] \notin LineEnd
  /\ \A k \in 1 .. Len(<< >>) : << >>[k] \notin LineEnd
<1>1. \A c \in InputCell : <<c>> \in Seq(InputCell) /\ Len(<<c>>) = 1 /\ <<c>>[1] = c
  OBVIOUS
<1>2. << >> \in Seq(InputCell) /\ Len(<< >>) = 0
  BY EmptySeq
<1>3. Len(<<"typed">>) = 1 /\ <<"typed">>[1] = "typed"
  OBVIOUS
<1>4. QED
  BY <1>1, <1>2, <1>3, CellFacts

LEMMA TypedFacts ==
  ASSUME NEW n \in Nat
  PROVE  /\ [k \in 1 .. n |-> "typed"] \in Seq(InputCell) /\ Len([k \in 1 .. n |-> "typed"]) = n
         /\ \A k \in 1 .. Len([j \in 1 .. n |-> "typed"]) : [j \in 1 .. n |-> "typed"][k] \notin LineEnd
<1>1. [k \in 1 .. n |-> "typed"] \in Seq(InputCell) /\ Len([k \in 1 .. n |-> "typed"]) = n
  BY CellFacts
<1>2. QED
  BY <1>1, CellFacts

LEMMA GoStep ==
  ASSUME IInv, NEW p \in Int, Go(p), at.line <= p, p <= Len(text)
  PROVE  IInv' /\ TranscriptStep
<1>1. Idle /\ cur' = p /\ UNCHANGED <<text, at, pressed, buffer, timer, scroll, busy>>
  BY DEF Go
<1>2. /\ text \in Seq(Cell) /\ at \in Position /\ Placed(text, at) /\ pressed = None /\ ~ busy
      /\ busy \in BOOLEAN /\ at.complete + Len(buffer) <= 2 * MaxText
      /\ Lines(text) <= scroll /\ (scroll <= Far => Plain(text, at))
      /\ at.complete \in 0 .. Len(text) /\ at.complete \in Nat /\ Len(text) \in Nat
  BY <1>1, IdleFacts, TypeFacts, PlacedFacts
<1>3. IInv'
  BY <1>1, <1>2, Settled
<1>4. TranscriptStep
  <2>1. at.complete <= Len(text') /\ \A k \in 1 .. at.complete : text'[k] = text[k]
    BY <1>1, <1>2
  <2>2. QED
    BY <1>1, <1>2, <2>1, SameTranscript
<1>5. QED
  BY <1>3, <1>4

LEMMA TypingStep ==
  ASSUME Careful, IInv, Type \/ Paste \/ Backspace \/ Delete
  PROVE  IInv' /\ TranscriptStep
<1>1. CASE Type
  <2>1. Idle /\ Edit(cur, cur, <<"typed">>) /\ cur' = cur + 1
    BY <1>1 DEF Type
  <2>2. PICK s \in Seq(InputCell) : s = <<"typed">> /\ Len(s) = 1 /\ \A k \in 1 .. Len(s) : s[k] \notin LineEnd
    BY InputFacts, CellFacts
  <2>3. cur \in at.line .. Len(text) /\ cur \in cur .. Len(text) /\ ~ busy
    BY <2>1, IdleFacts
  <2>4. Len(text') = Len(text) - (cur - cur) + Len(s)
    BY <2>1, <2>2, <2>3, EditLength
  <2>5. cur' \in Int /\ at.line <= cur' /\ cur' <= Len(text')
    BY <2>1, <2>2, <2>4, IdleFacts
  <2>6. QED
    BY <2>1, <2>2, <2>3, <2>5, EditStep
<1>2. CASE Paste
  <2>1. Idle /\ Room /\ Edit(cur, cur, <<"pasted">>) /\ cur' = cur + 1
    BY <1>2 DEF Paste
  <2>2. PICK s \in Seq(InputCell) : s = <<"pasted">> /\ Len(s) = 1
    BY InputFacts, CellFacts
  <2>3. cur \in at.line .. Len(text) /\ cur \in cur .. Len(text) /\ ~ busy
    BY <2>1, IdleFacts
  <2>4. Len(text') = Len(text) - (cur - cur) + Len(s)
    BY <2>1, <2>2, <2>3, EditLength
  <2>5. cur' \in Int /\ at.line <= cur' /\ cur' <= Len(text')
    BY <2>1, <2>2, <2>4, IdleFacts
  <2>6. QED
    BY <2>1, <2>2, <2>3, <2>5, EditStep
<1>3. CASE Backspace
  <2>1. Idle /\ cur > at.line /\ Edit(cur - 1, cur, << >>) /\ cur' = cur - 1
    BY <1>3 DEF Backspace, MayGoBack
  <2>2. PICK s \in Seq(InputCell) : s = << >> /\ Len(s) = 0 /\ \A k \in 1 .. Len(s) : s[k] \notin LineEnd
    BY InputFacts
  <2>3. PICK p \in at.line .. Len(text) : p = cur - 1 /\ cur \in p .. Len(text)
    BY <2>1, IdleFacts
  <2>4. Len(text') = Len(text) - (cur - p) + Len(s)
    BY ZenonT(30), <2>1, <2>2, <2>3, IdleFacts, EditLength
  <2>5. cur' \in Int /\ at.line <= cur' /\ cur' <= Len(text')
    BY <2>1, <2>2, <2>3, <2>4, IdleFacts
  <2>6. QED
    BY <2>1, <2>2, <2>3, <2>5, EditStep
<1>4. CASE Delete
  <2>1. Idle /\ cur < Len(text) /\ Edit(cur, cur + 1, << >>) /\ cur' = cur
    BY <1>4 DEF Delete
  <2>2. PICK s \in Seq(InputCell) : s = << >> /\ Len(s) = 0 /\ \A k \in 1 .. Len(s) : s[k] \notin LineEnd
    BY InputFacts
  <2>3. PICK p \in cur .. Len(text) : p = cur + 1 /\ cur \in at.line .. Len(text)
    BY <2>1, IdleFacts
  <2>4. Len(text') = Len(text) - (p - cur) + Len(s)
    BY <2>1, <2>2, <2>3, IdleFacts, EditLength
  <2>5. cur' \in Int /\ at.line <= cur' /\ cur' <= Len(text')
    BY <2>1, <2>2, <2>3, <2>4, IdleFacts
  <2>6. QED
    BY <2>1, <2>2, <2>3, <2>5, EditStep
<1>5. QED
  BY <1>1, <1>2, <1>3, <1>4

LEMMA MovingStep ==
  ASSUME IInv, \/ Left \/ Right \/ Home \/ End
               \/ \E k \in 0 .. Len(text) : NextWord(k) \/ PreviousWord(k)
  PROVE  IInv' /\ TranscriptStep
<1>1. ASSUME NEW p, Go(p) PROVE /\ cur \in Nat /\ at.line \in Nat /\ Len(text) \in Nat
                                /\ at.line <= cur /\ cur <= Len(text)
  BY <1>1, IdleFacts DEF Go
<1>2. CASE Left
  <2>1. Go(cur - 1) /\ cur > at.line
    BY <1>2 DEF Left, MayGoBack
  <2>2. cur - 1 \in Int /\ at.line <= cur - 1 /\ cur - 1 <= Len(text)
    BY <2>1, <1>1
  <2>3. QED
    BY <2>1, <2>2, GoStep
<1>3. CASE Right
  <2>1. Go(cur + 1) /\ cur < Len(text)
    BY <1>3 DEF Right
  <2>2. cur + 1 \in Int /\ at.line <= cur + 1 /\ cur + 1 <= Len(text)
    BY <2>1, <1>1
  <2>3. QED
    BY <2>1, <2>2, GoStep
<1>4. CASE Home
  <2>1. Go(at.line)
    BY <1>4 DEF Home
  <2>2. at.line \in Int /\ at.line <= at.line /\ at.line <= Len(text)
    BY <2>1, <1>1
  <2>3. QED
    BY <2>1, <2>2, GoStep
<1>5. CASE End
  <2>1. Go(Len(text))
    BY <1>5 DEF End
  <2>2. Len(text) \in Int /\ at.line <= Len(text) /\ Len(text) <= Len(text)
    BY <2>1, <1>1
  <2>3. QED
    BY <2>1, <2>2, GoStep
<1>6. ASSUME NEW k \in 0 .. Len(text), NextWord(k) PROVE IInv' /\ TranscriptStep
  <2>1. Go(k) /\ k \in cur .. Len(text)
    BY <1>6 DEF NextWord
  <2>2. k \in Int /\ at.line <= k /\ k <= Len(text)
    BY <2>1, <1>1
  <2>3. QED
    BY <2>1, <2>2, GoStep
<1>7. ASSUME NEW k \in 0 .. Len(text), PreviousWord(k) PROVE IInv' /\ TranscriptStep
  <2>1. Go(FromLine(k)) /\ k \in 0 .. cur
    BY <1>7 DEF PreviousWord
  <2>2. FromLine(k) \in Int /\ at.line <= FromLine(k) /\ FromLine(k) <= Len(text)
    BY <2>1, <1>1 DEF FromLine
  <2>3. QED
    BY <2>1, <2>2, GoStep
<1>8. QED
  BY <1>2, <1>3, <1>4, <1>5, <1>6, <1>7

LEMMA CuttingStep ==
  ASSUME Careful, IInv, \/ CutLine \/ CutEnd \/ CutMark
                        \/ \E k \in 0 .. Len(text) : DeleteNextWord(k) \/ DeletePreviousWord(k)
  PROVE  IInv' /\ TranscriptStep
<1>0. PICK s \in Seq(InputCell) : s = << >> /\ Len(s) = 0 /\ \A k \in 1 .. Len(s) : s[k] \notin LineEnd
  BY InputFacts
<1>1. ASSUME NEW p, at.line <= p, Cut(p) PROVE IInv' /\ TranscriptStep
  <2>1. Idle /\ p \in 0 .. Len(text)
    BY <1>1 DEF Cut
  <2>2. PICK from \in at.line .. Len(text), to \in Nat :
          /\ from = IF p < cur THEN p ELSE cur
          /\ to = IF p < cur THEN cur ELSE p
          /\ to \in from .. Len(text)
    <3>1. /\ (IF p < cur THEN p ELSE cur) \in at.line .. Len(text)
          /\ (IF p < cur THEN cur ELSE p) \in (IF p < cur THEN p ELSE cur) .. Len(text)
          /\ (IF p < cur THEN cur ELSE p) \in Nat
      BY <1>1, <2>1, IdleFacts
    <3>2. QED
      BY <3>1
  <2>3. Edit(from, to, s) /\ cur' = from
    BY <1>0, <1>1, <2>2 DEF Cut
  <2>4. Len(text') = Len(text) - (to - from) + Len(s)
    BY <2>1, <2>2, <2>3, IdleFacts, EditLength
  <2>5. cur' \in Int /\ at.line <= cur' /\ cur' <= Len(text')
    BY <2>1, <2>2, <2>3, <2>4, <1>0, IdleFacts
  <2>6. QED
    BY <2>1, <2>2, <2>3, <2>5, <1>0, EditStep
<1>2. CASE CutLine
  <2>1. Cut(at.line)
    BY <1>2 DEF CutLine
  <2>2. at.line <= at.line
    BY <2>1, IdleFacts DEF Cut
  <2>3. QED
    BY <2>1, <2>2, <1>1
<1>3. CASE CutEnd
  <2>1. Cut(Len(text))
    BY <1>3 DEF CutEnd
  <2>2. at.line <= Len(text)
    BY <2>1, IdleFacts DEF Cut
  <2>3. QED
    BY <2>1, <2>2, <1>1
<1>4. CASE CutMark
  <2>1. Cut(at.mark)
    BY <1>4 DEF CutMark
  <2>2. at.line <= at.mark
    BY <2>1, IdleFacts, PlacedFacts DEF Cut
  <2>3. QED
    BY <2>1, <2>2, <1>1
<1>5. ASSUME NEW from \in at.line .. Len(text), NEW to \in from .. Len(text), Idle,
             Edit(from, to, s), cur' = from
      PROVE  IInv' /\ TranscriptStep
  <2>1. Len(text') = Len(text) - (to - from) + Len(s)
    BY <1>5, IdleFacts, EditLength
  <2>2. cur' \in Int /\ at.line <= cur' /\ cur' <= Len(text')
    BY <1>5, <2>1, <1>0, IdleFacts
  <2>3. QED
    BY <1>5, <2>2, <1>0, EditStep
<1>6. ASSUME NEW k \in 0 .. Len(text), DeleteNextWord(k) PROVE IInv' /\ TranscriptStep
  <2>1. Idle /\ k \in cur .. Len(text) /\ Edit(cur, k, s) /\ cur' = cur
    BY <1>0, <1>6 DEF DeleteNextWord
  <2>2. cur \in at.line .. Len(text)
    BY <2>1, IdleFacts
  <2>3. QED
    BY <2>1, <2>2, <1>5
<1>7. ASSUME NEW k \in 0 .. Len(text), DeletePreviousWord(k) PROVE IInv' /\ TranscriptStep
  <2>1. PICK p : p = FromLine(k)
    OBVIOUS
  <2>2. Idle /\ k \in 0 .. cur
    BY <1>7 DEF DeletePreviousWord
  <2>3. p \in at.line .. Len(text) /\ cur \in at.line .. Len(text) /\ p <= cur /\ p \in Nat /\ cur \in Nat
    BY <2>1, <2>2, IdleFacts DEF FromLine
  <2>4. CASE p < cur
    <3>1. Edit(p, cur, s) /\ cur' = p
      BY <1>0, <1>7, <2>1, <2>4 DEF DeletePreviousWord
    <3>2. cur \in p .. Len(text)
      BY <2>2, <2>3
    <3>3. QED
      BY <2>2, <2>3, <3>1, <3>2, <1>5
  <2>5. CASE ~ p < cur
    <3>1. Edit(cur, p, s) /\ cur' = cur
      BY <1>0, <1>7, <2>1, <2>5 DEF DeletePreviousWord
    <3>2. p \in cur .. Len(text)
      BY <2>3, <2>5
    <3>3. QED
      BY <2>2, <2>3, <3>1, <3>2, <1>5
  <2>6. QED
    BY <2>4, <2>5
<1>8. QED
  BY <1>2, <1>3, <1>4, <1>6, <1>7

LEMMA MarkStep ==
  ASSUME IInv, SetMark
  PROVE  IInv' /\ TranscriptStep
<1>1. /\ Idle /\ at' = [at EXCEPT !.mark = cur]
      /\ UNCHANGED <<text, cur, pressed, buffer, timer, scroll, busy>>
  BY DEF SetMark
<1>2. /\ text \in Seq(Cell) /\ at \in Position /\ Placed(text, at) /\ pressed = None /\ ~ busy
      /\ busy \in BOOLEAN /\ at.complete + Len(buffer) <= 2 * MaxText
      /\ Lines(text) <= scroll /\ (scroll <= Far => Plain(text, at))
      /\ at.complete \in 0 .. Len(text) /\ at.complete \in Nat /\ Len(text) \in Nat
      /\ cur \in Nat /\ at.line <= cur /\ cur <= Len(text)
  BY <1>1, IdleFacts, TypeFacts, PlacedFacts
<1>3. /\ at' \in Position /\ at'.complete = at.complete /\ at'.prompt = at.prompt
      /\ at'.line = at.line /\ at'.mark = cur
  BY <1>1, <1>2 DEF Position
<1>4. Placed(text', at') /\ (Plain(text, at) => Plain(text', at'))
  BY <1>1, <1>2, <1>3 DEF Placed, Plain
<1>5. IInv'
  BY <1>1, <1>2, <1>3, <1>4, Settled
<1>6. TranscriptStep
  <2>1. at.complete <= Len(text') /\ \A k \in 1 .. at.complete : text'[k] = text[k]
    BY <1>1, <1>2
  <2>2. QED
    BY <1>1, <1>2, <2>1, SameTranscript
<1>7. QED
  BY <1>5, <1>6

(* The input line is replaced.                                             *)
LEMMA ReplacingStep ==
  ASSUME Careful, IInv,
         \/ \E n \in 0 .. MaxInput : ShowHistory(n) \/ Undo(n)
         \/ \E n \in 0 .. MaxInput, p \in 0 .. Len(text) + MaxInput : FindHistory(n, p)
  PROVE  IInv' /\ TranscriptStep
<1>1. ASSUME NEW n \in 0 .. MaxInput, Idle, Edit(at.line, Len(text), [k \in 1 .. n |-> "typed"]),
             cur' \in at.line .. Len(text') \/ cur' = Len(text')
      PROVE  IInv' /\ TranscriptStep
  <2>1. PICK s \in Seq(InputCell) :
          s = [k \in 1 .. n |-> "typed"] /\ Len(s) = n /\ \A k \in 1 .. Len(s) : s[k] \notin LineEnd
    <3>1. n \in Nat
      BY IdleFacts, <1>1
    <3>2. QED
      BY <3>1, TypedFacts
  <2>2. PICK from \in at.line .. Len(text), to \in Nat :
          from = at.line /\ to = Len(text) /\ to \in from .. Len(text)
    <3>1. at.line \in at.line .. Len(text) /\ Len(text) \in Nat /\ Len(text) \in at.line .. Len(text)
      BY <1>1, IdleFacts
    <3>2. QED
      BY ONLY <3>1
  <2>3. Edit(from, to, s)
    BY <1>1, <2>1, <2>2
  <2>4. Len(text') = Len(text) - (to - from) + Len(s)
    BY <1>1, <2>2, <2>3, IdleFacts, EditLength
  <2>5. Len(text') = at.line + n
    BY <1>1, <2>1, <2>2, <2>4, IdleFacts
  <2>6. cur' \in Int /\ at.line <= cur' /\ cur' <= Len(text')
    BY <1>1, <2>5, IdleFacts
  <2>7. QED
    BY <1>1, <2>1, <2>2, <2>3, <2>6, EditStep
<1>2. ASSUME NEW n \in 0 .. MaxInput, ShowHistory(n) PROVE IInv' /\ TranscriptStep
  <2>1. Idle /\ Edit(at.line, Len(text), [k \in 1 .. n |-> "typed"])
    BY <1>2 DEF ShowHistory
  <2>2. cur' = Len(text')
    <3>1. cur \in Nat /\ at.line \in Nat /\ at.line <= cur
      BY <2>1, IdleFacts
    <3>2. ~ cur < at.line
      BY ONLY <3>1
    <3>3. QED
      BY <3>2, <1>2 DEF ShowHistory
  <2>3. QED
    BY <2>1, <2>2, <1>1
<1>3. ASSUME NEW n \in 0 .. MaxInput, Undo(n) PROVE IInv' /\ TranscriptStep
  BY <1>1, <1>3 DEF Undo
<1>4. ASSUME NEW n \in 0 .. MaxInput, NEW p \in 0 .. Len(text) + MaxInput, FindHistory(n, p)
      PROVE  IInv' /\ TranscriptStep
  BY <1>1, <1>4 DEF FindHistory
<1>5. QED
  BY <1>2, <1>3, <1>4

-----------------------------------------------------------------------------
(* Completion.                                                             *)

(* What delete_completion_list makes of the text and the positions.        *)
LEMMA UnlistedFacts ==
  ASSUME IInv, Idle
  PROVE  /\ Unlisted.text = Removal(text, at.complete, at.prompt)
         /\ Unlisted.at = ListedAt(at, 0)
         /\ Unlisted.cur = cur - (at.prompt - at.complete)
         /\ ListedAt(at, 0) \in Position /\ ListedAt(at, 0).complete = at.complete
         /\ ListedAt(at, 0).line = at.complete + 1
         /\ Unlisted.text \in Seq(Cell) /\ Placed(Unlisted.text, ListedAt(at, 0))
         /\ Len(Unlisted.text) = Len(text) - (at.prompt - at.complete)
         /\ \A k \in 1 .. at.complete : Unlisted.text[k] = text[k]
         /\ Lines(Unlisted.text) <= Lines(text)
         /\ Plain(text, at) => Plain(Unlisted.text, ListedAt(at, 0))
<1>1. /\ text \in Seq(Cell) /\ at \in Position /\ Placed(text, at)
      /\ at.line = at.prompt + 1 /\ at.complete \in Nat /\ at.prompt \in Nat /\ at.complete <= at.prompt
      /\ at.mark \in Int /\ cur \in Nat /\ at.prompt < cur
  BY SMTT(30), IdleFacts, TypeFacts, PlacedFacts
<1>2. /\ ListedAt(at, 0) \in Position
      /\ Removal(text, at.complete, at.prompt) \in Seq(Cell)
      /\ Len(Removal(text, at.complete, at.prompt)) = Len(text) - (at.prompt - at.complete)
      /\ Placed(Removal(text, at.complete, at.prompt), ListedAt(at, 0))
      /\ \A k \in 1 .. at.complete : Removal(text, at.complete, at.prompt)[k] = text[k]
      /\ Lines(Removal(text, at.complete, at.prompt)) <= Lines(text)
      /\ Plain(text, at) => Plain(Removal(text, at.complete, at.prompt), ListedAt(at, 0))
  BY <1>1, Unlisting
<1>3. Unlisted.text = Removal(text, at.complete, at.prompt)
  BY DEF Unlisted
<1>4. Unlisted.at = ListedAt(at, 0)
  BY <1>1 DEF Unlisted, ListedAt
<1>5. Unlisted.cur = cur - (at.prompt - at.complete)
  BY <1>1 DEF Unlisted, Moved
<1>6. ListedAt(at, 0).complete = at.complete /\ ListedAt(at, 0).line = at.complete + 1
  BY <1>1 DEF ListedAt
<1>7. QED
  BY <1>1, <1>2, <1>3, <1>4, <1>5, <1>6

(* Enough for a completion, which has room.                                *)
LEMMA CompletedStep ==
  ASSUME Careful, IInv, Idle, Room, text' \in Seq(Cell), at' \in Position, at'.complete = at.complete,
         Placed(text', at'), cur' \in Int, at'.line <= cur', cur' <= Len(text'),
         \A k \in 1 .. at.complete : text'[k] = text[k],
         UNCHANGED <<pressed, buffer, timer, scroll, busy>>
  PROVE  IInv' /\ TranscriptStep
<1>1. scroll > Far
  BY DEF Room, Far
<1>2. ~ scroll <= Far
  <2>1. MaxText \in Nat /\ MaxInput \in Nat /\ scroll \in Nat
    BY TypeFacts
  <2>2. QED
    BY ONLY <1>1, <2>1 DEF Far
<1>3. /\ ~ busy /\ busy \in BOOLEAN /\ pressed = None /\ at.complete + Len(buffer) <= 2 * MaxText
      /\ at.complete \in 0 .. Len(text) /\ at.complete \in Nat
  BY IdleFacts, TypeFacts, PlacedFacts
<1>4. IInv'
  BY <1>1, <1>2, <1>3, Settled
<1>5. at.complete <= Len(text')
  <2>1. /\ at'.complete <= at'.prompt /\ at'.line = at'.prompt + 1 /\ at'.line <= Len(text')
    BY DEF Placed
  <2>2. at'.complete \in Int /\ at'.prompt \in Int /\ at'.line \in Int /\ Len(text') \in Nat
    BY DEF Position
  <2>3. QED
    BY ONLY <2>1, <2>2, at'.complete = at.complete
<1>6. TranscriptStep
  BY <1>3, <1>5, SameTranscript
<1>7. QED
  BY <1>4, <1>6

LEMMA CompleteNoneStep ==
  ASSUME Careful, IInv, CompleteNone
  PROVE  IInv' /\ TranscriptStep
<1>1. /\ Idle /\ Room /\ text' = Unlisted.text /\ at' = Unlisted.at /\ cur' = Unlisted.cur
      /\ UNCHANGED <<pressed, buffer, timer, scroll, busy>>
  BY DEF CompleteNone
<1>2. /\ Unlisted.at = ListedAt(at, 0)
      /\ Unlisted.cur = cur - (at.prompt - at.complete)
      /\ ListedAt(at, 0) \in Position /\ ListedAt(at, 0).complete = at.complete
      /\ ListedAt(at, 0).line = at.complete + 1
      /\ Unlisted.text \in Seq(Cell) /\ Placed(Unlisted.text, ListedAt(at, 0))
      /\ Len(Unlisted.text) = Len(text) - (at.prompt - at.complete)
      /\ \A k \in 1 .. at.complete : Unlisted.text[k] = text[k]
  BY <1>1, UnlistedFacts
<1>3. at'.line <= cur' /\ cur' <= Len(text') /\ cur' \in Int
  <2>1. /\ at.complete \in Nat /\ at.prompt \in Nat /\ cur \in Nat /\ at.line = at.prompt + 1
        /\ at.line <= cur /\ cur <= Len(text) /\ Len(text) \in Nat
    BY <1>1, IdleFacts, PlacedFacts
  <2>2. at'.line = at.complete + 1 /\ cur' = cur - (at.prompt - at.complete)
        /\ Len(text') = Len(text) - (at.prompt - at.complete)
    BY <1>1, <1>2
  <2>3. QED
    BY ONLY <2>1, <2>2
<1>4. QED
  BY <1>1, <1>2, <1>3, CompletedStep

(* The cells before the cursor are replaced by what completes them.        *)
LEMMA Completing ==
  ASSUME IInv, Idle, NEW from \in at.line .. cur - 1
  PROVE  LET t == Insertion(Removal(text, from, cur), from, <<"typed">>)
         IN  /\ t \in Seq(Cell) /\ Placed(t, at) /\ from + 1 <= Len(t) /\ from \in Nat
             /\ \A k \in 1 .. at.complete : t[k] = text[k]
<1>1. /\ text \in Seq(Cell) /\ at \in Position /\ Placed(text, at) /\ Len(text) \in Nat /\ cur \in Nat
      /\ at.line \in Nat /\ at.complete \in Nat /\ at.complete < at.line /\ cur <= Len(text)
      /\ Len(text) <= at.line + MaxInput /\ MaxInput \in Nat
  BY IdleFacts, TypeFacts, PlacedFacts
<1>2. PICK s \in Seq(InputCell) : s = <<"typed">> /\ Len(s) = 1
  BY InputFacts, CellFacts
<1>3. PICK c \in Nat, f \in at.line .. Len(text) : c = cur /\ f = from /\ c \in f .. Len(text) /\ f \in Nat /\ f < c
  <2>1. cur \in Nat /\ from \in at.line .. Len(text) /\ cur \in from .. Len(text) /\ from \in Nat /\ from < cur
    BY <1>1
  <2>2. QED
    BY ONLY <2>1
<1>4. s \in Seq(Cell) /\ f \in 0 .. Len(text) /\ c \in f .. Len(text)
  BY <1>1, <1>3, CellFacts
<1>5. PICK t \in Seq(Cell) : t = Edited(text, f, c, s) /\ Len(t) = Len(text) - (c - f) + Len(s)
  BY ONLY <1>1, <1>4, EditedFacts
<1>6. Len(t) <= at.line + MaxInput /\ f + 1 <= Len(t)
  <2>1. Len(t) \in Nat
    BY <1>5
  <2>2. c <= Len(text)
    BY <1>1, <1>3
  <2>3. QED
    BY ONLY <1>1, <1>2, <1>3, <1>5, <2>1, <2>2
<1>7. /\ Placed(t, at) /\ \A k \in 1 .. at.line : t[k] = text[k]
  <2>1. Len(Edited(text, f, c, s)) <= at.line + MaxInput
    BY <1>5, <1>6
  <2>2. /\ Edited(text, f, c, s) \in Seq(Cell) /\ Placed(Edited(text, f, c, s), at)
        /\ \A k \in 1 .. at.line : Edited(text, f, c, s)[k] = text[k]
    BY <1>1, <1>3, <2>1, EditedPlaced
  <2>3. QED
    BY ONLY <1>5, <2>2
<1>8. \A k \in 1 .. at.complete : t[k] = text[k]
  BY <1>1, <1>7
<1>9. t = Insertion(Removal(text, from, cur), from, <<"typed">>)
  BY <1>2, <1>3, <1>5 DEF Edited
<1>10. QED
  BY <1>3, <1>5, <1>6, <1>7, <1>8, <1>9

LEMMA CompleteOneStep ==
  ASSUME Careful, IInv, NEW from \in 0 .. Len(text), NEW back \in {0, 1}, CompleteOne(from, back)
  PROVE  IInv' /\ TranscriptStep
<1>1. /\ Idle /\ Room /\ from \in at.line .. cur - 1 /\ at' = Unlisted.at
      /\ cur' = Moved(from + 1 - back, at.complete, at.prompt)
      /\ UNCHANGED <<pressed, buffer, timer, scroll, busy>>
  BY DEF CompleteOne
<1>2. PICK t \in Seq(Cell) :
        /\ t = Insertion(Removal(text, from, cur), from, <<"typed">>)
        /\ Placed(t, at) /\ from + 1 <= Len(t) /\ \A k \in 1 .. at.complete : t[k] = text[k]
  BY <1>1, Completing
<1>3. text' = Removal(t, at.complete, at.prompt)
  BY <1>2 DEF CompleteOne
<1>4. /\ at \in Position /\ at.complete \in Nat /\ at.prompt \in Nat /\ at.line = at.prompt + 1
      /\ at.complete <= at.prompt /\ at.line \in Nat
  BY <1>1, IdleFacts, TypeFacts, PlacedFacts
<1>5. /\ Removal(t, at.complete, at.prompt) \in Seq(Cell)
      /\ Len(Removal(t, at.complete, at.prompt)) = Len(t) - (at.prompt - at.complete)
      /\ Placed(Removal(t, at.complete, at.prompt), ListedAt(at, 0))
      /\ \A k \in 1 .. at.complete : Removal(t, at.complete, at.prompt)[k] = t[k]
  BY <1>2, <1>4, Unlisting
<1>6. /\ Unlisted.at = ListedAt(at, 0) /\ ListedAt(at, 0) \in Position
      /\ ListedAt(at, 0).complete = at.complete /\ ListedAt(at, 0).line = at.complete + 1
  BY <1>1, UnlistedFacts
<1>7. at'.line <= cur' /\ cur' <= Len(text') /\ cur' \in Int
  <2>1. at'.line = at.complete + 1 /\ Len(text') = Len(t) - (at.prompt - at.complete) /\ Len(t) \in Nat
    BY <1>1, <1>2, <1>3, <1>5, <1>6
  <2>2. from \in Nat /\ from >= at.line
    BY <1>1, <1>4
  <2>3. cur' = from + 1 - back - (at.prompt - at.complete)
    BY SMTT(30), <1>1, <1>4, <2>2 DEF Moved
  <2>4. PICK c \in Nat, q \in Nat, len \in Nat, f \in Nat, b \in Nat :
          /\ c = at.complete /\ q = at.prompt /\ len = Len(t) /\ f = from /\ b = back
          /\ b <= 1 /\ f >= q + 1 /\ c <= q /\ f + 1 <= len
    BY SMTT(30), <1>2, <1>4, <2>1, <2>2
  <2>5. c + 1 <= f + 1 - b - (q - c) /\ f + 1 - b - (q - c) <= len - (q - c) /\ f + 1 - b - (q - c) \in Int
    <3>1. b <= 1 /\ f >= q + 1 /\ c <= q /\ f + 1 <= len
      BY <2>4
    <3>2. c \in Int /\ q \in Int /\ len \in Int /\ f \in Int /\ b \in Int
      BY <2>4
    <3>3. QED
      BY ONLY <3>1, <3>2
  <2>6. at'.line = c + 1 /\ Len(text') = len - (q - c) /\ cur' = f + 1 - b - (q - c)
    BY <2>1, <2>3, <2>4
  <2>7. QED
    BY ONLY <2>5, <2>6
<1>8. /\ text' \in Seq(Cell) /\ at' \in Position /\ at'.complete = at.complete /\ Placed(text', at')
      /\ \A k \in 1 .. at.complete : text'[k] = text[k]
  BY <1>1, <1>2, <1>3, <1>5, <1>6
<1>9. QED
  BY ONLY <1>1, <1>7, <1>8, Careful, IInv, CompletedStep

LEMMA CompleteManyStep ==
  ASSUME Careful, IInv, NEW from \in 0 .. Len(text), NEW common \in BOOLEAN, CompleteMany(from, common, 2)
  PROVE  IInv' /\ TranscriptStep
<1>1. Idle /\ Room /\ from \in at.line .. cur - 1 /\ UNCHANGED <<pressed, buffer, timer, scroll, busy>>
  BY DEF CompleteMany
<1>2. /\ at \in Position /\ at.complete \in Nat /\ at.prompt \in Nat /\ at.line = at.prompt + 1
      /\ at.complete <= at.prompt /\ at.line \in Nat /\ at.mark \in Int /\ text \in Seq(Cell)
      /\ Placed(text, at) /\ at.line <= cur /\ cur \in Nat /\ cur <= Len(text) /\ Len(text) \in Nat
  BY <1>1, IdleFacts, TypeFacts, PlacedFacts
<1>3. PICK t \in Seq(Cell), c \in Nat :
        /\ t = IF common THEN Insertion(Removal(text, from, cur), from, <<"typed">>) ELSE text
        /\ c = IF common THEN from + 1 ELSE cur
        /\ Placed(t, at) /\ at.line <= c /\ c <= Len(t) /\ \A k \in 1 .. at.complete : t[k] = text[k]
  <2>1. CASE common
    <3>1. PICK t \in Seq(Cell) :
            /\ t = Insertion(Removal(text, from, cur), from, <<"typed">>)
            /\ Placed(t, at) /\ from + 1 <= Len(t) /\ \A k \in 1 .. at.complete : t[k] = text[k]
      BY <1>1, Completing
    <3>2. from + 1 \in Nat /\ at.line <= from + 1
      BY <1>1, <1>2
    <3>3. QED
      BY <2>1, <3>1, <3>2
  <2>2. CASE ~ common
    BY <1>2, <2>2
  <2>3. QED
    BY <2>1, <2>2
<1>4. PICK s \in Seq(Cell) :
        s = [k \in 1 .. 2 |-> "candidate"] /\ Len(s) = 2 /\ \A k \in 1 .. Len(s) : s[k] = "candidate"
  <2>1. [k \in 1 .. 2 |-> "candidate"] \in Seq(Cell) /\ Len([k \in 1 .. 2 |-> "candidate"]) = 2
    BY CellFacts
  <2>2. QED
    BY <2>1
<1>5. /\ text' = Edited(t, at.complete, at.prompt, s)
      /\ at' = [at EXCEPT !.prompt = @ + (at.complete + 2 - at.prompt), !.line = @ + (at.complete + 2 - at.prompt),
                          !.mark = @ + (at.complete + 2 - at.prompt)]
      /\ cur' = SetPosition(text', at.complete + 2, at'.line + (c - at.line))
  BY <1>3, <1>4, Zenon DEF CompleteMany, Edited
<1>6. /\ ListedAt(at, Len(s)) \in Position
      /\ Edited(t, at.complete, at.prompt, s) \in Seq(Cell)
      /\ Len(Edited(t, at.complete, at.prompt, s)) = Len(t) - (at.prompt - at.complete) + Len(s)
      /\ Placed(Edited(t, at.complete, at.prompt, s), ListedAt(at, Len(s)))
      /\ \A k \in 1 .. at.complete : Edited(t, at.complete, at.prompt, s)[k] = t[k]
  <2>1. Len(s) <= 2
    BY <1>4
  <2>2. QED
    BY ZenonT(30), <1>2, <1>3, <1>4, <2>1, Listed
<1>7. at' = ListedAt(at, Len(s)) /\ at'.complete = at.complete /\ at'.line = at.complete + 3
  <2>1. at' = [complete |-> at.complete, prompt |-> at.prompt + (at.complete + 2 - at.prompt),
               line |-> at.line + (at.complete + 2 - at.prompt), mark |-> at.mark + (at.complete + 2 - at.prompt)]
    BY <1>2, <1>5 DEF Position
  <2>2. at.prompt + (at.complete + 2 - at.prompt) = at.complete + 2
        /\ at.line + (at.complete + 2 - at.prompt) = at.complete + 2 + 1
        /\ at.complete + 2 + 1 = at.complete + 3
    BY ONLY SMTT(30), <1>2
  <2>3. at' = [complete |-> at.complete, prompt |-> at.complete + 2,
               line |-> at.complete + 2 + 1, mark |-> at.mark + (at.complete + 2 - at.prompt)]
    BY <2>1, <2>2
  <2>4. QED
    BY <1>4, <2>2, <2>3 DEF ListedAt
<1>8. at'.line <= cur' /\ cur' <= Len(text') /\ cur' \in Int
  <2>1. Len(text') = Len(t) - (at.prompt - at.complete) + 2 /\ Len(t) \in Nat
    BY <1>4, <1>5, <1>6, <1>3
  <2>2. PICK q \in Int : q = at'.line + (c - at.line) /\ q >= at'.line /\ q <= Len(text') /\ q \in 0 .. Len(text')
    <3>1. PICK k \in Nat, p \in Nat, len \in Nat :
            /\ k = at.complete /\ p = at.prompt /\ len = Len(t) /\ k <= p /\ p + 1 <= c /\ c <= len
      BY <1>2, <1>3, <2>1
    <3>2. /\ k + 3 + (c - (p + 1)) \in 0 .. len - (p - k) + 2 /\ k + 3 + (c - (p + 1)) >= k + 3
          /\ k + 3 + (c - (p + 1)) <= len - (p - k) + 2 /\ k + 3 + (c - (p + 1)) \in Int
      <4>1. k <= p /\ p + 1 <= c /\ c <= len
        BY <3>1
      <4>2. k \in Int /\ p \in Int /\ len \in Int /\ c \in Int /\ 0 <= k
        BY <3>1
      <4>3. QED
        BY ONLY <4>1, <4>2
    <3>3. at'.line = k + 3 /\ at.line = p + 1 /\ Len(text') = len - (p - k) + 2
      BY <1>2, <1>7, <2>1, <3>1
    <3>4. QED
      BY ONLY <3>2, <3>3
  <2>3. cur' = q
    BY <1>5, <2>2 DEF SetPosition
  <2>4. QED
    BY ONLY <2>2, <2>3
<1>9. /\ text' \in Seq(Cell) /\ at' \in Position /\ Placed(text', at')
      /\ \A k \in 1 .. at.complete : text'[k] = text[k]
  BY <1>3, <1>5, <1>6, <1>7
<1>10. QED
  BY ONLY <1>1, <1>7, <1>8, <1>9, Careful, IInv, CompletedStep

-----------------------------------------------------------------------------
(* Prompts and the lines entered.                                          *)

(* The line is closed.                                                     *)
LEMMA EnteredFacts ==
  ASSUME IInv, Idle
  PROVE  LET u == Append(Unlisted.text, "entered")
         IN  /\ u \in Seq(Cell) /\ Len(u) <= Len(text) + 1 /\ at.complete < Len(u)
             /\ \A k \in 1 .. at.complete : u[k] = text[k]
             /\ Plain(text, at) => \A k \in at.complete + 1 .. Len(u) - 1 : u[k] \notin LineEnd
<1>1. /\ at.complete \in Nat /\ at.prompt \in Nat /\ at.complete <= at.prompt /\ Len(text) \in Nat
  BY IdleFacts, PlacedFacts
<1>2. PICK v \in Seq(Cell) :
        /\ v = Unlisted.text
        /\ Placed(v, ListedAt(at, 0)) /\ ListedAt(at, 0).complete = at.complete
        /\ ListedAt(at, 0).line = at.complete + 1
        /\ Len(v) = Len(text) - (at.prompt - at.complete)
        /\ \A k \in 1 .. at.complete : v[k] = text[k]
        /\ Plain(text, at) => Plain(v, ListedAt(at, 0))
  BY UnlistedFacts
<1>3. PICK u \in Seq(Cell) : /\ u = Append(v, "entered") /\ Len(u) = Len(v) + 1
                             /\ \A k \in 1 .. Len(v) : u[k] = v[k]
  <2>1. Append(v, "entered") \in Seq(Cell) /\ Len(Append(v, "entered")) = Len(v) + 1
        /\ \A k \in 1 .. Len(v) : Append(v, "entered")[k] = v[k]
    BY CellFacts
  <2>2. QED
    BY ONLY <2>1
<1>4. at.complete + 1 <= Len(v)
  BY <1>2 DEF Placed
<1>5. PICK c \in Nat, p \in Nat, n \in Nat, m \in Nat :
        c = at.complete /\ p = at.prompt /\ n = Len(v) /\ m = Len(text)
  BY <1>1
<1>6. c <= p /\ n = m - (p - c) /\ c + 1 <= n /\ Len(u) = n + 1
  BY <1>1, <1>2, <1>3, <1>4, <1>5
<1>7. n + 1 <= m + 1 /\ c < n + 1 /\ c \in 0 .. n
  BY ONLY <1>6
<1>8. \A k \in 1 .. c : u[k] = text[k]
  <2>1. \A k \in 1 .. c : k \in 1 .. n
    BY ONLY <1>7
  <2>2. QED
    BY <1>2, <1>3, <1>5, <2>1
<1>9. Plain(text, at) => \A k \in c + 1 .. n : u[k] \notin LineEnd
  <2>1. \A k \in c + 1 .. n : k \in 1 .. n
    BY ONLY <1>7
  <2>2. QED
    BY <1>2, <1>3, <1>5, <2>1 DEF Plain
<1>10. Len(u) - 1 = n
  BY ONLY <1>6
<1>11. QED
  BY <1>2, <1>3, <1>5, <1>6, <1>7, <1>8, <1>9, <1>10

(* A text ends in at most two lines below its last line end.               *)
LEMMA ClosedLines ==
  ASSUME NEW u \in Seq(Cell), NEW c \in 0 .. Len(u), \A k \in c + 1 .. Len(u) - 1 : u[k] \notin LineEnd
  PROVE  Lines(Suffix(u, c)) <= 2
<1>1. PICK x \in Seq(Cell), n \in Nat :
        x = Suffix(u, c) /\ n = Len(u) /\ Len(x) = n - c /\ \A j \in 1 .. n - c : x[j] = u[j + c]
  <2>1. /\ Suffix(u, c) \in Seq(Cell) /\ Len(Suffix(u, c)) = Len(u) - c
        /\ \A j \in 1 .. Len(u) - c : Suffix(u, c)[j] = u[j + c]
    BY SuffixFacts
  <2>2. Len(u) \in Nat
    OBVIOUS
  <2>3. QED
    BY ONLY <2>1, <2>2
<1>2. Ends(x) \subseteq {n - c}
  <2>1. ASSUME NEW k \in 1 .. n - c, k # n - c PROVE x[k] \notin LineEnd
    <3>1. k + c \in c + 1 .. n - 1
      BY <2>1
    <3>2. QED
      BY <1>1, <3>1
  <2>2. QED
    BY <1>1, <2>1 DEF Ends
<1>3. Cardinality({n - c}) = 1 /\ IsFiniteSet({n - c})
  BY FS_Singleton
<1>4. Cardinality(Ends(x)) <= 1
  BY <1>2, <1>3, FS_Subset
<1>5. Lines(x) = 1 + Cardinality(Ends(x)) /\ Cardinality(Ends(x)) \in Nat
  BY LinesFacts
<1>6. QED
  BY <1>1, <1>4, <1>5

LEMMA KeptStep ==
  ASSUME buffer' = buffer, Kept(Printed(text, at.complete, << >>), text', scroll')
  PROVE  TranscriptStep
<1>1. (IF buffer' = << >> THEN buffer ELSE << >>) = << >>
  OBVIOUS
<1>2. QED
  BY <1>1 DEF Kept, Printed, TranscriptStep

LEMMA PromptStep ==
  ASSUME IInv, pressed = None, ~ busy', busy' \in BOOLEAN, NEW x \in Seq(Cell), Prompted(x),
         UNCHANGED <<pressed, buffer, timer, scroll>>,
         Len(x) + Len(buffer) <= 2 * MaxText, scroll > Far \/ Lines(x) <= scroll
  PROVE  /\ IInv' /\ text' = Append(x, "prompt") /\ text' \in Seq(Cell)
         /\ Len(text') = Len(x) + 1 /\ \A k \in 1 .. Len(x) : text'[k] = x[k]
<1>1. text' = Append(x, "prompt") /\ cur' = Len(x) + 1 /\ at' = PromptedAt(x)
  BY DEF Prompted, PromptedAt
<1>2. /\ Append(x, "prompt") \in Seq(Cell) /\ PromptedAt(x) \in Position
      /\ Len(Append(x, "prompt")) = Len(x) + 1
      /\ Placed(Append(x, "prompt"), PromptedAt(x)) /\ Plain(Append(x, "prompt"), PromptedAt(x))
      /\ Lines(Append(x, "prompt")) = Lines(x)
      /\ \A k \in 1 .. Len(x) : Append(x, "prompt")[k] = x[k]
  BY Prompting
<1>3. at'.line <= cur' /\ cur' <= Len(text') /\ cur' \in Int /\ at'.complete = Len(x)
  <2>1. Len(x) \in Nat /\ at'.line = Len(x) + 1 /\ at'.complete = Len(x) /\ Len(text') = Len(x) + 1
    BY <1>1, <1>2 DEF PromptedAt
  <2>2. QED
    BY <1>1, <2>1
<1>4. IInv'
  BY <1>1, <1>2, <1>3, Settled
<1>5. QED
  BY <1>1, <1>2, <1>4

LEMMA InterruptStep ==
  ASSUME Careful, IInv, Interrupt
  PROVE  IInv' /\ TranscriptStep
<1>1. /\ Idle /\ Room /\ Len(text) + 2 <= MaxText /\ Prompted(Append(Unlisted.text, "entered"))
      /\ UNCHANGED <<pressed, buffer, timer, scroll, busy>>
  BY DEF Interrupt
<1>2. PICK u \in Seq(Cell) :
        /\ u = Append(Unlisted.text, "entered") /\ Len(u) <= Len(text) + 1 /\ at.complete < Len(u)
        /\ \A k \in 1 .. at.complete : u[k] = text[k]
  BY <1>1, EnteredFacts
<1>3. /\ ~ busy /\ busy \in BOOLEAN /\ pressed = None /\ Len(text) \in Nat /\ Len(buffer) \in Nat
      /\ Len(buffer) <= MaxText /\ MaxText \in Nat /\ at.complete \in Nat /\ at.complete \in 0 .. Len(text)
  BY <1>1, IdleFacts, TypeFacts, PlacedFacts DEF IInv, TextSizes
<1>4. Len(u) + Len(buffer) <= 2 * MaxText /\ Len(u) \in Nat
  BY <1>1, <1>2, <1>3
<1>5. scroll > Far
  BY <1>1 DEF Room, Far
<1>6. /\ IInv' /\ text' = Append(u, "prompt") /\ text' \in Seq(Cell)
      /\ Len(text') = Len(u) + 1 /\ \A k \in 1 .. Len(u) : text'[k] = u[k]
  BY <1>1, <1>2, <1>3, <1>4, <1>5, PromptStep
<1>7. at.complete <= Len(text') /\ \A k \in 1 .. at.complete : text'[k] = text[k]
  BY <1>2, <1>3, <1>4, <1>6
<1>8. TranscriptStep
  BY <1>1, <1>3, <1>6, <1>7, SameTranscript
<1>9. QED
  BY <1>6, <1>8

(* A new prompt below u, of which what is in excess goes.                  *)
LEMMA NewPromptStep ==
  ASSUME IInv, pressed = None, ~ busy', busy' \in BOOLEAN, NEW u \in Seq(Cell), NewPrompt(u),
         UNCHANGED <<pressed, buffer, timer, scroll>>, Len(u) + Len(buffer) <= 2 * MaxText,
         at.complete \in 0 .. Len(text), at.complete <= Len(u), \A k \in 1 .. at.complete : u[k] = text[k]
  PROVE  /\ IInv'
         /\ Excess(u, scroll) <= at.complete => TranscriptStep
<1>1. scroll \in Nat \ {0} /\ text \in Seq(Cell) /\ Len(buffer) \in Nat /\ MaxText \in Nat
  BY TypeFacts
<1>2. PICK e \in 0 .. Len(u) : e = Excess(u, scroll) /\ Lines(Suffix(u, e)) <= scroll
  BY <1>1, ExcessFacts
<1>3. PICK x \in Seq(Cell) : x = Suffix(u, e) /\ Len(x) = Len(u) - e
  <2>1. Suffix(u, e) \in Seq(Cell) /\ Len(Suffix(u, e)) = Len(u) - e
    BY SuffixFacts
  <2>2. QED
    BY ONLY <2>1
<1>4. Prompted(x)
  BY <1>2, <1>3 DEF NewPrompt, Suffix
<1>5. Len(x) + Len(buffer) <= 2 * MaxText
  <2>1. Len(u) \in Nat /\ e >= 0 /\ e \in Nat
    BY <1>2
  <2>2. QED
    BY <1>1, <1>3, <2>1
<1>6. IInv' /\ text' = Append(x, "prompt")
  BY <1>2, <1>3, <1>4, <1>5, PromptStep
<1>7. ASSUME Excess(u, scroll) <= at.complete PROVE TranscriptStep
  <2>1. Kept(Printed(text, at.complete, << >>), Append(Suffix(u, Excess(u, scroll)), "prompt"), scroll)
    BY <1>1, <1>7, NewPromptKeeps
  <2>2. QED
    BY <1>2, <1>3, <1>6, <2>1, KeptStep
<1>8. QED
  BY <1>6, <1>7

LEMMA EnterBlankStep ==
  ASSUME IInv, EnterBlank
  PROVE  IInv' /\ (scroll > 1 => TranscriptStep)
<1>1. /\ Idle /\ Len(text) + 2 <= MaxText /\ NewPrompt(Append(Unlisted.text, "entered"))
      /\ UNCHANGED <<pressed, buffer, timer, scroll, busy>>
  BY DEF EnterBlank
<1>2. PICK u \in Seq(Cell) :
        /\ u = Append(Unlisted.text, "entered") /\ Len(u) <= Len(text) + 1 /\ at.complete < Len(u)
        /\ \A k \in 1 .. at.complete : u[k] = text[k]
        /\ Plain(text, at) => \A k \in at.complete + 1 .. Len(u) - 1 : u[k] \notin LineEnd
  BY <1>1, EnteredFacts
<1>3. /\ ~ busy /\ busy \in BOOLEAN /\ pressed = None /\ Len(text) \in Nat /\ Len(buffer) \in Nat
      /\ Len(buffer) <= MaxText /\ MaxText \in Nat /\ MaxInput \in Nat
      /\ at.complete \in Nat /\ at.complete \in 0 .. Len(text)
      /\ scroll \in Nat \ {0} /\ (scroll <= Far => Plain(text, at))
  BY <1>1, IdleFacts, TypeFacts, PlacedFacts DEF IInv, TextSizes
<1>4. Len(u) + Len(buffer) <= 2 * MaxText /\ Len(u) \in Nat /\ at.complete <= Len(u) /\ at.complete \in 0 .. Len(u)
  BY <1>1, <1>2, <1>3
<1>5. IInv' /\ (Excess(u, scroll) <= at.complete => TranscriptStep)
  BY <1>1, <1>2, <1>3, <1>4, NewPromptStep
<1>6. ASSUME scroll > 1 PROVE Excess(u, scroll) <= at.complete
  <2>1. \A j \in 0 .. Len(u) : Lines(Suffix(u, j)) <= scroll => Excess(u, scroll) <= j
    BY <1>3, ExcessFacts
  <2>2. CASE scroll <= Far
    <3>1. Lines(Suffix(u, at.complete)) <= 2
      BY <1>2, <1>3, <1>4, <2>2, ClosedLines
    <3>2. PICK l \in Nat : l = Lines(Suffix(u, at.complete))
      BY <1>4, LinesFacts, SuffixFacts
    <3>3. l <= scroll
      BY <1>3, <1>6, <3>1, <3>2
    <3>4. QED
      BY <1>4, <2>1, <3>2, <3>3
  <2>3. CASE ~ scroll <= Far
    <3>1. PICK l \in Nat : l = Lines(Suffix(u, 0))
      BY <1>4, LinesFacts, SuffixFacts
    <3>2. PICK m \in Nat : m = Lines(u) /\ m <= 1 + Len(u)
      BY LinesFacts
    <3>3. l <= m
      BY <1>4, <3>1, <3>2, SuffixFewer
    <3>4. l <= scroll
      BY <1>1, <1>2, <1>3, <1>4, <2>3, <3>2, <3>3 DEF Far
    <3>5. Excess(u, scroll) <= 0
      BY <1>4, <2>1, <3>1, <3>4
    <3>6. Excess(u, scroll) \in 0 .. Len(u)
      BY <1>3, ExcessFacts
    <3>7. QED
      BY <1>3, <3>5, <3>6
  <2>4. QED
    BY <2>2, <2>3
<1>7. QED
  BY <1>5, <1>6

LEMMA EnterStep ==
  ASSUME IInv, Enter
  PROVE  IInv' /\ TranscriptStep
<1>1. /\ Idle /\ Len(text) + 2 <= MaxText /\ text' = Append(Unlisted.text, "entered")
      /\ cur' = Len(text') /\ at' = [Unlisted.at EXCEPT !.complete = Len(text')] /\ busy' = TRUE
      /\ UNCHANGED <<pressed, buffer, timer, scroll>>
  BY DEF Enter
<1>2. /\ text' \in Seq(Cell) /\ Len(text') <= Len(text) + 1 /\ at.complete < Len(text')
      /\ \A k \in 1 .. at.complete : text'[k] = text[k]
  BY <1>1, EnteredFacts
<1>3. /\ ~ busy /\ pressed = None /\ Len(text) \in Nat /\ Len(buffer) \in Nat
      /\ Len(buffer) <= MaxText /\ MaxText \in Nat
      /\ at.complete \in Nat /\ at.complete \in 0 .. Len(text)
      /\ buffer \in Seq(OutputCell) /\ timer \in BOOLEAN /\ scroll \in Nat \ {0}
      /\ \E n \in ScrollBack : n <= scroll
  BY <1>1, IdleFacts, TypeFacts, PlacedFacts DEF IInv, TextSizes
<1>4. Len(text') \in Nat /\ at.complete <= Len(text') /\ Len(text') + Len(buffer) <= 2 * MaxText
  BY <1>1, <1>2, <1>3
<1>5. at' \in Position /\ at'.complete = Len(text')
  <2>1. PICK a \in Position, n \in Nat : a = Unlisted.at /\ n = Len(text')
    BY <1>1, <1>4, UnlistedFacts
  <2>2. at' = [a EXCEPT !.complete = n]
    BY <1>1, <2>1
  <2>3. at' \in Position /\ at'.complete = n
    BY ONLY <2>2 DEF Position
  <2>4. QED
    BY <2>1, <2>3
<1>6. TypeOK'
  BY <1>1, <1>2, <1>3, <1>4, <1>5 DEF TypeOK
<1>7. TextSizes' /\ Evaluating'
  BY <1>1, <1>3, <1>4, <1>5 DEF TextSizes, Evaluating
<1>8. TranscriptStep
  BY <1>1, <1>2, <1>3, <1>4, SameTranscript
<1>9. QED
  BY <1>1, <1>6, <1>7, <1>8 DEF IInv

LEMMA EnterEndStep ==
  ASSUME IInv, EnterEnd
  PROVE  IInv' /\ TranscriptStep
<1>1. busy /\ NewPrompt(text) /\ busy' = FALSE /\ UNCHANGED <<pressed, buffer, timer, scroll>>
  BY DEF EnterEnd
<1>2. pressed = None /\ at.complete = Len(text) /\ at.complete + Len(buffer) <= 2 * MaxText
  BY <1>1 DEF IInv, Evaluating, TextSizes
<1>3. text \in Seq(Cell) /\ Len(text) \in Nat /\ at.complete \in 0 .. Len(text) /\ at.complete <= Len(text)
      /\ scroll \in Nat \ {0}
  BY <1>2, TypeFacts
<1>4. IInv' /\ (Excess(text, scroll) <= at.complete => TranscriptStep)
  BY <1>1, <1>2, <1>3, NewPromptStep
<1>5. Excess(text, scroll) <= at.complete
  <2>1. Excess(text, scroll) \in 0 .. Len(text)
    BY <1>3, ExcessFacts
  <2>2. QED
    BY <1>2, <1>3, <2>1
<1>6. QED
  BY <1>4, <1>5

-----------------------------------------------------------------------------
(* The mouse, the limit of lines, and printing.                            *)

LEMMA MouseStep ==
  ASSUME IInv, (\E p \in 0 .. Len(text) : MousePress(p)) \/ MouseRelease
  PROVE  IInv' /\ TranscriptStep
<1>1. /\ ~ busy /\ UNCHANGED <<text, at, buffer, timer, scroll, busy>>
      /\ \/ pressed = None /\ pressed' = cur /\ cur' \in 0 .. Len(text)
         \/ pressed # None /\ cur' = SetPosition(text, cur, pressed) /\ pressed' = None
  BY DEF MousePress, MouseRelease
<1>2. InOrder /\ TypeOK /\ TextSizes /\ cur \in Nat /\ None \notin Nat /\ Len(text) \in Nat /\ cur <= Len(text)
      /\ text \in Seq(Cell) /\ at.complete \in 0 .. Len(text) /\ at.line \in Nat
  BY <1>1, TypeFacts, PlacedFacts, TextAssumption DEF IInv
<1>3. /\ pressed' \in Nat \cup {None} /\ cur' \in 0 .. Len(text)
      /\ pressed' = None => at.line <= cur'
      /\ pressed' # None => at.line <= pressed' /\ pressed' <= Len(text)
  <2>1. CASE pressed = None
    BY <1>1, <1>2, <2>1 DEF InOrder
  <2>2. CASE pressed # None
    <3>1. pressed \in Nat /\ at.line <= pressed /\ pressed <= Len(text)
      BY <1>2, <2>2 DEF InOrder, TypeOK
    <3>2. cur' = pressed /\ pressed' = None
      BY <1>1, <1>2, <2>2, <3>1 DEF SetPosition
    <3>3. QED
      BY <1>2, <3>1, <3>2
  <2>3. QED
    BY <2>1, <2>2
<1>4. TypeOK' /\ TextSizes'
  BY <1>1, <1>2, <1>3 DEF TypeOK, TextSizes
<1>5. InOrder'
  BY <1>1, <1>2, <1>3 DEF InOrder
<1>6. TranscriptStep
  <2>1. at.complete <= Len(text') /\ \A k \in 1 .. at.complete : text'[k] = text[k]
    BY <1>1, <1>2
  <2>2. QED
    BY <1>1, <1>2, <2>1, SameTranscript
<1>7. QED
  BY <1>1, <1>4, <1>5, <1>6 DEF IInv

(* Where the printed text ends.                                            *)
LEMMA CompleteFacts ==
  ASSUME IInv
  PROVE  /\ at.complete \in 0 .. Len(text) /\ at.complete \in Nat /\ Len(text) \in Nat
         /\ Len(buffer) \in Nat /\ MaxText \in Nat /\ at.complete + Len(buffer) <= 2 * MaxText
<1>1. text \in Seq(Cell) /\ Len(text) \in Nat /\ Len(buffer) \in Nat /\ MaxText \in Nat /\ busy \in BOOLEAN
  BY TypeFacts
<1>2. CASE ~ busy
  BY <1>1, <1>2, PlacedFacts
<1>3. CASE busy
  BY <1>1, <1>3 DEF IInv, Evaluating, TextSizes
<1>4. QED
  BY <1>2, <1>3

LEMMA PrintTextStep ==
  ASSUME IInv, NEW s \in Outputs, PrintText(s)
  PROVE  IInv' /\ TranscriptStep
<1>1. /\ Len(text) + Len(buffer) + Len(s) <= MaxText /\ buffer' = buffer \o s /\ timer' = TRUE
      /\ UNCHANGED <<text, at, cur, pressed, scroll, busy>>
  BY DEF PrintText
<1>2. s \in Seq(OutputCell) /\ buffer \in Seq(OutputCell) /\ text \in Seq(Cell)
  BY TextAssumption, TypeFacts
<1>3. PICK b \in Seq(OutputCell) : b = buffer' /\ Len(b) = Len(buffer) + Len(s) /\ (b = << >> => buffer = << >>)
  <2>1. buffer \o s \in Seq(OutputCell) /\ Len(buffer \o s) = Len(buffer) + Len(s)
    BY <1>2
  <2>2. buffer \o s = << >> => buffer = << >>
    <3>1. Len(<< >>) = 0 /\ Len(buffer) \in Nat /\ Len(s) \in Nat
      BY <1>2, EmptySeq
    <3>2. buffer \o s = << >> => Len(buffer) = 0
      BY <2>1, <3>1
    <3>3. QED
      BY <1>2, <3>2, EmptySeq
  <2>3. QED
    BY ONLY <1>1, <2>1, <2>2
<1>4. /\ at.complete \in 0 .. Len(text) /\ at.complete \in Nat /\ Len(text) \in Nat
      /\ Len(buffer) \in Nat /\ MaxText \in Nat /\ Len(s) \in Nat /\ Len(b) \in Nat
  BY <1>2, <1>3, CompleteFacts
<1>5. Len(b) <= MaxText /\ at.complete + Len(b) <= 2 * MaxText
  BY <1>1, <1>3, <1>4
<1>6. TypeOK'
  BY <1>1, <1>3 DEF IInv, TypeOK
<1>7. TextSizes'
  BY <1>1, <1>3, <1>5 DEF IInv, TextSizes
<1>8. (~ busy => InOrder)' /\ (busy => Evaluating)'
  BY <1>1 DEF IInv, InOrder, Evaluating
<1>9. TranscriptStep
  <2>1. at.complete <= Len(text') /\ \A k \in 1 .. at.complete : text'[k] = text[k]
    BY <1>1, <1>4
  <2>2. buffer' = buffer \/ buffer' # << >>
    BY <1>3
  <2>3. QED
    BY <1>1, <1>2, <1>4, <2>1, <2>2, SameTranscript
<1>10. QED
  BY <1>6, <1>7, <1>8, <1>9 DEF IInv

LEMMA SetScrollBackStep ==
  ASSUME Careful, IInv, NEW n \in ScrollBacks, SetScrollBack(n)
  PROVE  IInv' /\ TranscriptStep
<1>1. n >= scroll /\ scroll' = n /\ UNCHANGED <<text, at, cur, pressed, buffer, timer, busy>>
  BY DEF SetScrollBack
<1>2. n \in Nat \ {0} /\ scroll \in Nat \ {0} /\ Far \in Nat /\ text \in Seq(Cell)
  <2>1. n \in Nat \ {0} /\ scroll \in Nat \ {0} /\ MaxText \in Nat /\ MaxInput \in Nat /\ text \in Seq(Cell)
    BY TextAssumption, TypeFacts
  <2>2. QED
    BY <2>1 DEF Far
<1>3. TypeOK'
  BY <1>1, <1>2 DEF IInv, TypeOK
<1>4. TextSizes'
  <2>1. PICK m \in ScrollBack : m <= scroll
    BY DEF IInv, TextSizes
  <2>2. m \in Nat /\ m <= n
    BY <1>1, <1>2, <2>1, TextAssumption
  <2>3. QED
    BY <1>1, <2>2 DEF IInv, TextSizes
<1>5. Lines(text) \in Nat
  BY <1>2, LinesFacts
<1>6. (~ busy => InOrder)'
  BY <1>1, <1>2, <1>5 DEF IInv, InOrder
<1>7. (busy => Evaluating)'
  BY <1>1, <1>2, <1>5 DEF IInv, Evaluating
<1>8. TranscriptStep
  <2>1. at.complete <= Len(text') /\ \A k \in 1 .. at.complete : text'[k] = text[k]
    BY <1>1, CompleteFacts
  <2>2. QED
    BY <1>1, <1>2, <2>1, CompleteFacts, SameTranscript
<1>9. QED
  BY <1>3, <1>4, <1>6, <1>7, <1>8 DEF IInv

LEMMA Flushing ==
  ASSUME PrintFlush
  PROVE  /\ timer /\ buffer # << >> /\ (Careful => pressed = None)
         /\ timer' = FALSE /\ UNCHANGED <<pressed, scroll, busy>>
         /\ \E first, x, cur1, p, u, f, end :
              /\ first = Excess(text, scroll) /\ x = Suffix(text, first) /\ cur1 = Moved(cur, 0, first)
              /\ p = SetPosition(x, cur1, at.complete)
              /\ u = Insertion(x, p, buffer) /\ f = Excess(u, scroll) /\ end = Moved(p + Len(buffer), 0, f)
              /\ text' = Suffix(u, f) /\ at' = Shifted(end - at.complete)
              /\ cur' = SetPosition(text', end, cur1 + (end - at.complete))
              /\ buffer' = SubSeq(buffer, Len(buffer) + 1, Len(buffer))
BY Zenon DEF PrintFlush, Flushed, Suffix

(* Nothing is left to print.                                               *)
LEMMA BufferEmptied ==
  ASSUME NEW b \in Seq(OutputCell)
  PROVE  SubSeq(b, Len(b) + 1, Len(b)) = << >> /\ << >> \in Seq(OutputCell) /\ Len(<< >>) = 0
<1>1. SubSeq(b, Len(b) + 1, Len(b)) \in Seq(OutputCell) /\ Len(SubSeq(b, Len(b) + 1, Len(b))) = 0
  OBVIOUS
<1>2. QED
  BY <1>1, EmptySeq

LEMMA WholeText ==
  ASSUME NEW t \in Seq(Cell)
  PROVE  Suffix(t, 0) = t
<1>1. /\ Suffix(t, 0) \in Seq(Cell) /\ Len(Suffix(t, 0)) = Len(t) - 0
      /\ \A j \in 1 .. Len(t) - 0 : Suffix(t, 0)[j] = t[j + 0]
  <2>1. 0 \in 0 .. Len(t)
    OBVIOUS
  <2>2. QED
    BY <2>1, SuffixFacts
<1>2. Len(Suffix(t, 0)) = Len(t) /\ \A j \in 1 .. Len(t) : Suffix(t, 0)[j] = t[j]
  BY <1>1
<1>3. QED
  BY <1>1, <1>2, SeqEqual

(* Nothing is in excess of a text within the limit.                        *)
LEMMA NoExcess ==
  ASSUME NEW t \in Seq(Cell), NEW n \in Nat \ {0}, Lines(t) <= n
  PROVE  Excess(t, n) = 0
<1>1. /\ Excess(t, n) \in 0 .. Len(t)
      /\ \A j \in 0 .. Len(t) : Lines(Suffix(t, j)) <= n => Excess(t, n) <= j
  BY ExcessFacts
<1>2. Lines(Suffix(t, 0)) <= n /\ 0 \in 0 .. Len(t)
  BY WholeText
<1>3. QED
  BY <1>1, <1>2

(* Printing while the user edits.                                          *)
LEMMA FlushIdleStep ==
  ASSUME Careful, IInv, ~ busy, PrintFlush
  PROVE  IInv' /\ TranscriptStep
<1>1. /\ text \in Seq(Cell) /\ at \in Position /\ Placed(text, at) /\ buffer \in Seq(Cell)
      /\ buffer \in Seq(OutputCell) /\ Lines(text) <= scroll /\ scroll \in Nat \ {0}
      /\ (scroll <= Far => Plain(text, at)) /\ at.complete \in 0 .. Len(text)
      /\ at.complete \in Nat /\ at.line \in Nat /\ at.complete < at.line /\ cur \in Nat /\ at.line <= cur
      /\ cur <= Len(text) /\ Len(text) \in Nat /\ Len(buffer) \in Nat /\ pressed = None /\ MaxText \in Nat
      /\ at.complete + Len(buffer) <= 2 * MaxText /\ \E n \in ScrollBack : n <= scroll
  <2>1. pressed = None
    BY Flushing
  <2>2. Idle
    BY <2>1 DEF Idle
  <2>3. QED
    BY <2>2, IdleFacts, TypeFacts, PlacedFacts DEF IInv, TextSizes
<1>2. PICK first, x, cur1, p, u, f, end :
        /\ first = Excess(text, scroll) /\ x = Suffix(text, first) /\ cur1 = Moved(cur, 0, first)
        /\ p = SetPosition(x, cur1, at.complete)
        /\ u = Insertion(x, p, buffer) /\ f = Excess(u, scroll) /\ end = Moved(p + Len(buffer), 0, f)
        /\ text' = Suffix(u, f) /\ at' = Shifted(end - at.complete)
        /\ cur' = SetPosition(text', end, cur1 + (end - at.complete))
        /\ buffer' = SubSeq(buffer, Len(buffer) + 1, Len(buffer))
  BY Flushing, Zenon
<1>3. first = 0 /\ x = text
  BY <1>1, <1>2, NoExcess, WholeText
<1>4. cur1 = cur /\ p = at.complete
  BY <1>1, <1>2, <1>3 DEF Moved, SetPosition
<1>5. PICK c \in Nat, n \in Nat : c = at.complete /\ n = Len(buffer)
  BY <1>1
<1>6. /\ f \in 0 .. c + n /\ Lines(text') <= scroll
      /\ Kept(Printed(text, at.complete, buffer), text', scroll)
  <2>1. /\ Excess(Insertion(text, c, buffer), scroll) \in 0 .. c + Len(buffer)
        /\ Lines(Suffix(Insertion(text, c, buffer), Excess(Insertion(text, c, buffer), scroll))) <= scroll
        /\ Kept(Printed(text, c, buffer), Suffix(Insertion(text, c, buffer), Excess(Insertion(text, c, buffer), scroll)), scroll)
    BY <1>1, <1>5, PrintingKeeps
  <2>2. u = Insertion(text, c, buffer) /\ text' = Suffix(Insertion(text, c, buffer), Excess(Insertion(text, c, buffer), scroll))
        /\ f = Excess(Insertion(text, c, buffer), scroll)
    BY <1>2, <1>3, <1>4, <1>5
  <2>3. QED
    BY ONLY <1>5, <2>1, <2>2
<1>7. /\ text' \in Seq(Cell) /\ Len(text') = Len(text) + n - f
  <2>1. /\ Suffix(Insertion(text, c, buffer), f) \in Seq(Cell)
        /\ Len(Suffix(Insertion(text, c, buffer), f)) = Len(text) + Len(buffer) - f
    BY <1>1, <1>5, <1>6, Printing
  <2>2. QED
    BY <1>2, <1>3, <1>4, <1>5, <2>1
<1>8. end = c + (n - f)
  <2>1. PICK m \in Nat : m = c + n /\ p + Len(buffer) = m
    BY <1>4, <1>5
  <2>2. end = IF m <= 0 THEN m ELSE IF m <= f THEN 0 ELSE m - (f - 0)
    BY <1>2, <2>1 DEF Moved
  <2>3. f \in 0 .. m
    BY <1>6, <2>1
  <2>4. end = m - f
    BY ONLY <2>2, <2>3
  <2>5. m - f = c + (n - f)
    <3>1. m = c + n /\ f \in Int
      BY <2>1, <2>3
    <3>2. QED
      BY ONLY <3>1
  <2>6. QED
    BY <2>4, <2>5, Zenon
<1>9. at' = ShiftedAt(at, n - f) /\ at' \in Position /\ Placed(text', at') /\ (Plain(text, at) => Plain(text', at'))
  <2>1. /\ ShiftedAt(at, Len(buffer) - f) \in Position
        /\ Placed(Suffix(Insertion(text, at.complete, buffer), f), ShiftedAt(at, Len(buffer) - f))
        /\ Plain(text, at) => Plain(Suffix(Insertion(text, at.complete, buffer), f), ShiftedAt(at, Len(buffer) - f))
    BY <1>1, <1>5, <1>6, PrintingPlaced
  <2>2. end - at.complete = n - f
    <3>1. (c + (n - f)) - c = n - f
      BY <1>5, <1>6
    <3>2. end - at.complete = (c + (n - f)) - c
      BY <1>5, <1>8, Zenon
    <3>3. QED
      BY <3>1, <3>2, Zenon
  <2>3. at' = ShiftedAt(at, n - f)
    BY <1>2, <2>2 DEF Shifted, ShiftedAt
  <2>4. text' = Suffix(Insertion(text, at.complete, buffer), f)
    BY <1>2, <1>3, <1>4
  <2>5. QED
    BY <1>5, <2>1, <2>3, <2>4
<1>10. cur' = cur + (n - f) /\ cur' \in 0 .. Len(text') /\ at'.line <= cur'
  <2>1. cur' = SetPosition(text', end, cur + ((c + (n - f)) - c))
    BY <1>2, <1>4, <1>5, <1>8, Zenon
  <2>2. PICK m \in Nat, l \in Nat, k \in Nat : m = Len(text) /\ l = at.line /\ k = cur
    BY <1>1
  <2>3. c < l /\ l <= k /\ k <= m /\ f \in 0 .. c + n
    BY <1>1, <1>5, <1>6, <2>2
  <2>4. k + ((c + (n - f)) - c) = k + (n - f) /\ k + (n - f) \in 0 .. m + n - f /\ l + (n - f) <= k + (n - f)
    BY ONLY <2>3
  <2>5. cur' = k + (n - f) /\ Len(text') = m + n - f
    BY <2>1, <2>2, <2>4, <1>7 DEF SetPosition
  <2>6. at'.line = l + (n - f)
    BY <1>9, <2>2 DEF ShiftedAt
  <2>7. QED
    BY <2>2, <2>4, <2>5, <2>6
<1>11. buffer' = << >> /\ << >> \in Seq(OutputCell) /\ Len(<< >>) = 0
  BY <1>1, <1>2, BufferEmptied
<1>12. timer' = FALSE /\ UNCHANGED <<pressed, scroll, busy>>
  BY Flushing
<1>13. TypeOK'
  BY <1>7, <1>9, <1>10, <1>11, <1>12 DEF IInv, TypeOK
<1>14. TextSizes'
  <2>1. at'.complete = c + (n - f)
    BY <1>5, <1>9 DEF ShiftedAt
  <2>2. PICK max \in Nat : max = MaxText /\ c + n <= 2 * max
    BY <1>1, <1>5
  <2>3. c + (n - f) + 0 <= 2 * max /\ 0 <= max
    BY <2>2, <1>6
  <2>4. QED
    BY <1>1, <1>11, <1>12, <2>1, <2>2, <2>3 DEF TextSizes
<1>15. InOrder'
  BY <1>1, <1>6, <1>9, <1>10, <1>12 DEF InOrder
<1>16. TranscriptStep
  BY <1>6, <1>11, <1>12 DEF TranscriptStep, Kept, Printed
<1>17. QED
  BY <1>12, <1>13, <1>14, <1>15, <1>16 DEF IInv

(* Printing while a line is evaluated.                                     *)
LEMMA FlushBusyStep ==
  ASSUME IInv, busy, PrintFlush
  PROVE  IInv' /\ TranscriptStep
<1>1. /\ text \in Seq(Cell) /\ at \in Position /\ buffer \in Seq(Cell)
      /\ buffer \in Seq(OutputCell) /\ (Lines(text) <= scroll \/ cur = Len(text)) /\ scroll \in Nat \ {0}
      /\ at.complete = Len(text) /\ cur \in Nat /\ Len(text) \in Nat /\ cur <= Len(text) /\ cur \in 0 .. Len(text)
      /\ Len(buffer) \in Nat /\ pressed = None /\ MaxText \in Nat
      /\ Len(text) + Len(buffer) <= 2 * MaxText /\ \E n \in ScrollBack : n <= scroll
  BY TypeFacts DEF IInv, TextSizes, Evaluating
<1>2. PICK first, x, cur1, p, u, f, end :
        /\ first = Excess(text, scroll) /\ x = Suffix(text, first) /\ cur1 = Moved(cur, 0, first)
        /\ p = SetPosition(x, cur1, at.complete)
        /\ u = Insertion(x, p, buffer) /\ f = Excess(u, scroll) /\ end = Moved(p + Len(buffer), 0, f)
        /\ text' = Suffix(u, f) /\ at' = Shifted(end - at.complete)
        /\ cur' = SetPosition(text', end, cur1 + (end - at.complete))
        /\ buffer' = SubSeq(buffer, Len(buffer) + 1, Len(buffer))
  BY Flushing, Zenon
<1>3. first \in 0 .. Len(text)
  BY <1>1, <1>2, ExcessFacts
<1>4. x \in Seq(Cell) /\ Len(x) = Len(text) - first /\ Len(x) \in Nat
  <2>1. Suffix(text, first) \in Seq(Cell) /\ Len(Suffix(text, first)) = Len(text) - first
    BY <1>1, <1>3, SuffixFacts
  <2>2. QED
    BY <1>2, <2>1
<1>5. p = Len(x) /\ cur1 \in Int
  <2>1. PICK m \in Nat, k \in Nat, e \in Nat : m = Len(text) /\ k = cur /\ e = first /\ k <= m /\ e <= m
    BY <1>1, <1>3
  <2>2. cur1 = IF k <= 0 THEN k ELSE IF k <= e THEN 0 ELSE k - (e - 0)
    BY <1>2, <2>1 DEF Moved
  <2>3. p = IF m \in 0 .. (m - e) THEN m ELSE cur1
    BY <1>1, <1>2, <1>4, <2>1 DEF SetPosition
  <2>4. e # 0 => k = m
    BY <1>1, <1>2, <2>1, NoExcess
  <2>5. p = m - e /\ cur1 \in Int
    <3>1. CASE e = 0
      BY ONLY <2>2, <2>3, <3>1, m \in Nat, k \in Nat
    <3>2. CASE e # 0
      <4>1. k = m /\ e > 0 /\ e <= m
        BY <2>1, <2>4, <3>2
      <4>2. ~ m \in 0 .. (m - e)
        BY ONLY <4>1
      <4>3. cur1 = m - e
        BY ONLY <2>2, <4>1
      <4>4. QED
        BY <2>3, <4>2, <4>3, <4>1
    <3>3. QED
      BY <3>1, <3>2
  <2>6. QED
    BY <1>4, <2>1, <2>5
<1>6. u \in Seq(Cell) /\ Len(u) = Len(x) + Len(buffer) /\ Len(u) \in Nat /\ u = Insertion(x, Len(x), buffer)
  <2>1. Len(x) \in 0 .. Len(x)
    BY <1>4
  <2>2. Insertion(x, Len(x), buffer) \in Seq(Cell) /\ Len(Insertion(x, Len(x), buffer)) = Len(x) + Len(buffer)
    <3>1. PICK y \in Seq(Cell), k \in Nat : y = x /\ k = Len(x) /\ k \in 0 .. Len(y)
      BY <1>4, <2>1
    <3>2. buffer \in Seq(Cell)
      BY <1>1
    <3>3. Insertion(y, k, buffer) \in Seq(Cell) /\ Len(Insertion(y, k, buffer)) = Len(y) + Len(buffer)
      BY ONLY <3>1, <3>2, InsertionFacts
    <3>4. QED
      BY <3>1, <3>3
  <2>3. QED
    BY <1>2, <1>5, <2>2
<1>7. f \in 0 .. Len(u)
  BY <1>1, <1>2, <1>6, ExcessFacts
<1>8. text' \in Seq(Cell) /\ Len(text') = Len(u) - f
  <2>1. Suffix(u, f) \in Seq(Cell) /\ Len(Suffix(u, f)) = Len(u) - f
    BY <1>6, <1>7, SuffixFacts
  <2>2. QED
    BY <1>2, <2>1
<1>9. /\ Lines(text') <= scroll /\ Kept(Printed(text, Len(text), buffer), text', scroll)
  <2>1. PICK w \in Seq(Cell) : w = text'
    BY <1>8
  <2>2. w = Suffix(u, f)
    BY <1>2, <2>1
  <2>3. first = Excess(text, scroll) /\ x = Suffix(text, first) /\ f = Excess(u, scroll)
    BY <1>2
  <2>4. /\ Lines(w) <= scroll /\ Kept(Printed(text, Len(text), buffer), w, scroll)
    BY SMTT(60), <1>1, <1>3, <1>4, <1>6, <1>7, <2>2, <2>3, AppendingKeeps
  <2>5. QED
    BY <2>1, <2>4
<1>10. end = Len(text') /\ end \in Nat
  <2>1. PICK m \in Nat : m = Len(u) /\ p + Len(buffer) = m
    BY <1>5, <1>6
  <2>2. end = IF m <= 0 THEN m ELSE IF m <= f THEN 0 ELSE m - (f - 0)
    BY <1>2, <2>1 DEF Moved
  <2>3. f \in 0 .. m
    BY <1>7, <2>1
  <2>4. end = m - f /\ m - f \in Nat
    BY <2>2, <2>3
  <2>5. QED
    BY <1>8, <2>1, <2>4
<1>11. at' \in Position /\ at'.complete = Len(text')
  <2>1. PICK n \in Int : n = end - at.complete /\ at.complete + n = end
    BY <1>1, <1>10
  <2>2. at' = Shifted(n)
    BY <1>2, <2>1
  <2>3. at' \in Position /\ at'.complete = at.complete + n
    BY SMTT(30), <1>1, <2>2 DEF Shifted, Position
  <2>4. QED
    BY <1>10, <2>1, <2>3
<1>12. cur' \in 0 .. Len(text')
  BY <1>2, <1>8, <1>10 DEF SetPosition
<1>13. buffer' = << >> /\ << >> \in Seq(OutputCell) /\ Len(<< >>) = 0
  BY <1>1, <1>2, BufferEmptied
<1>14. timer' = FALSE /\ UNCHANGED <<pressed, scroll, busy>>
  BY Flushing
<1>15. TypeOK'
  BY <1>8, <1>11, <1>12, <1>13, <1>14 DEF IInv, TypeOK
<1>16. TextSizes'
  <2>1. Len(text') <= Len(text) + Len(buffer) /\ Len(text') \in Nat
    <3>1. PICK m \in Nat, b \in Nat, l \in Nat : m = Len(text) /\ b = Len(buffer) /\ l = Len(x) /\ l = m - first
      BY <1>1, <1>4
    <3>2. Len(text') = l + b - f /\ f \in 0 .. l + b
      BY SMTT(30), <1>6, <1>7, <1>8, <3>1
    <3>3. QED
      BY <1>3, <3>1, <3>2
  <2>2. at'.complete + Len(buffer') <= 2 * MaxText /\ Len(buffer') <= MaxText
    BY <1>1, <1>11, <1>13, <2>1
  <2>3. QED
    BY <1>1, <1>14, <2>2 DEF TextSizes
<1>17. Evaluating'
  BY <1>1, <1>9, <1>11, <1>14 DEF Evaluating
<1>18. TranscriptStep
  BY <1>1, <1>9, <1>13, <1>14 DEF TranscriptStep, Kept, Printed
<1>19. QED
  BY <1>14, <1>15, <1>16, <1>17, <1>18 DEF IInv

-----------------------------------------------------------------------------
(* Every step.                                                             *)

LEMMA InitInOrder == Init => IInv
<1> SUFFICES ASSUME Init PROVE IInv
  OBVIOUS
<1>1. /\ text = <<"prompt">> /\ at = [complete |-> 0, prompt |-> 0, line |-> 1, mark |-> 1] /\ cur = 1
      /\ pressed = None /\ buffer = << >> /\ timer = FALSE /\ scroll \in ScrollBack /\ busy = FALSE
  BY DEF Init
<1>2. scroll \in Nat \ {0} /\ MaxText \in Nat /\ MaxInput \in Nat
  BY <1>1, TextAssumption
<1>3. << >> \in Seq(OutputCell) /\ Len(<< >>) = 0
  BY EmptySeq
<1>4. PICK t \in Seq(Cell) : t = <<"prompt">> /\ Len(t) = 1 /\ t[1] = "prompt"
  <2>1. \A c \in Cell : <<c>> \in Seq(Cell) /\ Len(<<c>>) = 1 /\ <<c>>[1] = c
    OBVIOUS
  <2>2. QED
    BY <2>1, CellFacts
<1>5. Lines(t) = 1
  <2>1. Ends(t) = {}
    BY <1>4, CellFacts DEF Ends
  <2>2. Lines(t) = 1 + Cardinality(Ends(t))
    BY LinesFacts
  <2>3. QED
    BY <2>1, <2>2, FS_EmptySet
<1>6. TypeOK
  <2>1. at \in Position
    BY <1>1 DEF Position
  <2>2. text \in Seq(Cell) /\ cur \in 0 .. Len(text)
    BY <1>1, <1>4
  <2>3. QED
    BY <1>1, <1>2, <1>3, <2>1, <2>2 DEF TypeOK
<1>7. TextSizes
  BY <1>1, <1>2, <1>3 DEF TextSizes
<1>8. Placed(text, at)
  BY <1>1, <1>2, <1>4 DEF Placed
<1>9. Plain(text, at)
  BY <1>1, <1>4, CellFacts DEF Plain
<1>10. InOrder
  BY <1>1, <1>2, <1>4, <1>5, <1>8, <1>9 DEF InOrder
<1>11. QED
  BY <1>1, <1>6, <1>7, <1>10 DEF IInv

LEMMA KeysStep ==
  ASSUME Careful, IInv, Keys
  PROVE  IInv' /\ (scroll > 1 => TranscriptStep)
<1>1. CASE Type \/ Paste \/ Backspace \/ Delete
  BY <1>1, TypingStep
<1>2. CASE \/ Left \/ Right \/ Home \/ End
           \/ \E k \in 0 .. Len(text) : NextWord(k) \/ PreviousWord(k)
  BY <1>2, MovingStep
<1>3. CASE \/ CutLine \/ CutEnd \/ CutMark
           \/ \E k \in 0 .. Len(text) : DeleteNextWord(k) \/ DeletePreviousWord(k)
  BY <1>3, CuttingStep
<1>4. CASE SetMark
  BY <1>4, MarkStep
<1>5. CASE \/ \E n \in 0 .. MaxInput : ShowHistory(n) \/ Undo(n)
           \/ \E n \in 0 .. MaxInput, p \in 0 .. Len(text) + MaxInput : FindHistory(n, p)
  BY <1>5, ReplacingStep
<1>6. CASE CompleteNone
  BY <1>6, CompleteNoneStep
<1>7. CASE \E from \in 0 .. Len(text), back \in {0, 1} : CompleteOne(from, back)
  BY <1>7, CompleteOneStep
<1>8. CASE \E from \in 0 .. Len(text), common \in BOOLEAN : CompleteMany(from, common, 2)
  BY <1>8, CompleteManyStep
<1>9. CASE Interrupt
  BY <1>9, InterruptStep
<1>10. CASE EnterBlank
  BY <1>10, EnterBlankStep
<1>11. CASE Enter
  BY <1>11, EnterStep
<1>12. CASE EnterEnd
  BY <1>12, EnterEndStep
<1>13. QED
  BY <1>1, <1>2, <1>3, <1>4, <1>5, <1>6, <1>7, <1>8, <1>9, <1>10, <1>11, <1>12 DEF Keys

LEMMA NextStep ==
  ASSUME Careful, IInv, Next
  PROVE  IInv' /\ (scroll > 1 => TranscriptStep)
<1>1. CASE Keys
  BY <1>1, KeysStep
<1>2. CASE (\E p \in 0 .. Len(text) : MousePress(p)) \/ MouseRelease
  BY <1>2, MouseStep
<1>3. ASSUME NEW s \in Outputs, PrintText(s) PROVE IInv' /\ TranscriptStep
  BY <1>3, PrintTextStep
<1>4. ASSUME NEW n \in ScrollBacks, SetScrollBack(n) PROVE IInv' /\ TranscriptStep
  BY <1>4, SetScrollBackStep
<1>5. CASE PrintFlush
  BY <1>5, FlushIdleStep, FlushBusyStep
<1>6. QED
  BY <1>1, <1>2, <1>3, <1>4, <1>5 DEF Next

LEMMA StepInOrder ==
  ASSUME Careful, IInv, [Next]_vars
  PROVE  IInv'
<1>1. CASE Next
  BY <1>1, NextStep
<1>2. CASE UNCHANGED vars
  BY <1>2 DEF vars, IInv, TypeOK, TextSizes, InOrder, Evaluating, Placed, Plain, Lines
<1>3. QED
  BY <1>1, <1>2

-----------------------------------------------------------------------------
(* With users that keep clear of what the code gets wrong, whatever they   *)
(* type, print, complete and enter: no position leaves the text.           *)
THEOREM TypeCorrect == ASSUME Careful PROVE Spec => []TypeOK
<1>1. IInv => TypeOK
  BY DEF IInv
<1>2. QED
  BY InitInOrder, StepInOrder, <1>1, PTL DEF Spec

(* For such users printed text, candidates, prompt and input line never    *)
(* mix, and what is edited, cut or entered is the input line alone.        *)
THEOREM LayoutStays == ASSUME Careful PROVE Spec => []Layout
<1>1. IInv => Layout
  <2> SUFFICES ASSUME IInv, ~ busy PROVE Layout
    BY DEF Layout
  <2>1. /\ Placed(text, at) /\ at.complete \in Nat /\ at.prompt \in Nat /\ at.line \in Nat
        /\ at.line = at.prompt + 1 /\ at.complete <= at.prompt /\ at.line <= at.mark /\ at.line <= Len(text)
        /\ text \in Seq(Cell) /\ Len(text) \in Nat
    BY PlacedFacts, TypeFacts
  <2>2. SubSeq(text, at.prompt + 1, at.line) = <<"prompt">>
    <3>1. PICK l \in 1 .. Len(text) : l = at.line /\ at.prompt + 1 = l
      BY <2>1
    <3>2. text[l] = "prompt"
      BY <2>1, <3>1 DEF Placed
    <3>3. SubSeq(text, l, l) = <<text[l]>>
      <4>1. l \in Int /\ l - l + 1 = 1 /\ l <= l /\ l + 1 - 1 = l /\ 1 \in 1 .. 1 /\ text[l] \in Cell
            /\ \A i \in l .. l : i = l
        BY <2>1, <3>1
      <4>2. /\ SubSeq(text, l, l) \in Seq(Cell) /\ Len(SubSeq(text, l, l)) = 1
            /\ SubSeq(text, l, l)[1] = text[l]
        BY ONLY <4>1, SubSeqProperties
      <4>3. PICK s \in Seq(Cell) : s = <<text[l]>> /\ Len(s) = 1 /\ s[1] = text[l]
        <5>1. \A c \in Cell : <<c>> \in Seq(Cell) /\ Len(<<c>>) = 1 /\ <<c>>[1] = c
          OBVIOUS
        <5>2. QED
          BY <4>1, <5>1
      <4>4. \A i \in 1 .. Len(s) : SubSeq(text, l, l)[i] = s[i]
        BY <4>2, <4>3
      <4>5. SubSeq(text, l, l) = s
        BY <4>2, <4>3, <4>4, SeqEqual
      <4>6. QED
        BY <4>3, <4>5
    <3>4. QED
      BY <3>1, <3>2, <3>3
  <2>3. at.prompt < at.line
    BY <2>1
  <2>4. pressed = None => at.line <= cur
    BY DEF IInv, InOrder
  <2>5. QED
    BY <2>1, <2>2, <2>3, <2>4 DEF Layout, Placed
<1>2. QED
  BY InitInOrder, StepInOrder, <1>1, PTL DEF Spec

(* For such users, and with room for two lines, printed text stays: what   *)
(* goes are whole lines at the top, when there are more than the limit.    *)
THEOREM TranscriptIsKept ==
  ASSUME Careful, \A n \in ScrollBack : n > 1
  PROVE  Spec => TranscriptKept
<1>1. IInv /\ [Next]_vars =>
        [LET printed == IF buffer' = << >> THEN buffer ELSE << >>
             kept == SubSeq(text, 1, at.complete) \o printed
         IN  \E k \in 0 .. Len(kept) :
               /\ IsPrefix(SubSeq(kept, k + 1, Len(kept)), text')
               /\ k > 0 => Lines(text') = scroll' /\ kept[k] \in LineEnd]_vars
  <2> SUFFICES ASSUME IInv, Next PROVE TranscriptStep
    BY DEF TranscriptStep
  <2>1. PICK n \in ScrollBack : n <= scroll
    BY DEF IInv, TextSizes
  <2>2. scroll > 1
    BY <2>1, TypeFacts, TextAssumption
  <2>3. QED
    BY <2>2, NextStep
<1>2. QED
  BY InitInOrder, StepInOrder, <1>1, PTL DEF Spec, TranscriptKept

-----------------------------------------------------------------------------
(* The history of the same widget (ConsoleHistory): for histories and      *)
(* limits of any length, the keys lose nothing of what was typed, and an   *)
(* entered line takes no other one with it, but the oldest ones in excess. *)

(* The places a search finds.                                              *)

LEMMA FirstOf ==
  ASSUME NEW m \in Nat, NEW I \in SUBSET (1 .. m), I # {}
  PROVE  Min(I) \in I
<1>1. I \subseteq Nat
  OBVIOUS
<1>2. PICK i \in I : \A j \in I : i <= j
  BY <1>1, LeastOf
<1>3. QED
  BY <1>2 DEF Min

LEMMA LastOf ==
  ASSUME NEW m \in Nat, NEW I \in SUBSET (1 .. m), I # {}
  PROVE  Max(I) \in I /\ \A j \in I : j <= Max(I)
<1> DEFINE T == {m - i : i \in I}
<1>1. T \in SUBSET Nat /\ T # {}
  <2>1. \A i \in I : m - i \in Nat
    OBVIOUS
  <2>2. QED
    BY <2>1
<1>2. PICK t \in T : \A j \in T : t <= j
  BY <1>1, LeastOf
<1>3. PICK i \in I : t = m - i
  BY <1>2
<1>4. ASSUME NEW j \in I PROVE j <= i
  <2>1. t <= m - j
    BY <1>2
  <2>2. QED
    BY <1>3, <2>1
<1> HIDE DEF T
<1>5. \E x \in I : \A j \in I : x >= j
  BY <1>4
<1>6. QED
  BY <1>5 DEF Max

(* A search finds an entry that exists, or none.                           *)
LEMMA FoundFacts ==
  ASSUME HistoryTypeOK, NEW str, NEW d \in {-1, 1}
  PROVE  FoundAt(str, d) \in 0 .. Len(history)
<1>1. Len(history) \in Nat /\ ndx \in Int /\ ndx >= -1
  BY DEF HistoryTypeOK
<1>2. CASE ~ Exists(ndx + d)
  BY <1>1, <1>2 DEF FoundAt
<1>3. CASE Exists(ndx + d) /\ d = -1
  <2> DEFINE I == {i \in 1 .. ndx : <<str, history[i]>> \in Within}
  <2>1. FoundAt(str, d) = IF I # {} THEN Max(I) ELSE 0
    BY <1>3 DEF FoundAt, SelectLastInSubSeq
  <2>2. I \in SUBSET (1 .. Len(history))
    BY <1>1, <1>3 DEF Exists
  <2> HIDE DEF I
  <2>3. CASE I = {}
    BY <1>1, <2>1, <2>3
  <2>4. CASE I # {}
    <3>1. Max(I) \in I
      BY <1>1, <2>2, <2>4, LastOf
    <3>2. Max(I) \in 1 .. Len(history)
      BY ONLY <2>2, <3>1
    <3>3. QED
      BY <1>1, <2>1, <2>4, <3>2
  <2>5. QED
    BY <2>3, <2>4
<1>4. CASE Exists(ndx + d) /\ d = 1
  <2> DEFINE I == {i \in ndx + 2 .. Len(history) : <<str, history[i]>> \in Within}
  <2>1. FoundAt(str, d) = IF I # {} THEN Min(I) ELSE 0
    BY <1>4 DEF FoundAt, SelectInSubSeq
  <2>2. I \in SUBSET (1 .. Len(history))
    BY <1>1, <1>4 DEF Exists
  <2> HIDE DEF I
  <2>3. CASE I = {}
    BY <1>1, <2>1, <2>3
  <2>4. CASE I # {}
    <3>1. Min(I) \in I
      BY <1>1, <2>2, <2>4, FirstOf
    <3>2. Min(I) \in 1 .. Len(history)
      BY ONLY <2>2, <3>1
    <3>3. QED
      BY <1>1, <2>1, <2>4, <3>2
  <2>5. QED
    BY <2>3, <2>4
<1>5. QED
  BY <1>2, <1>3, <1>4

-----------------------------------------------------------------------------
(* What stripping and the removal of a duplicate leave of a history.       *)

LEMMA StripFacts ==
  ASSUME NEW h \in Seq(Line), NEW n \in Nat
  PROVE  /\ Strip(h, n) \in Seq(Line)
         /\ \E d \in 0 .. Len(h) :
              /\ Len(Strip(h, n)) = Len(h) - d
              /\ \A i \in 1 .. Len(h) - d : Strip(h, n)[i] = h[i + d]
              /\ Len(h) - d <= n
              /\ d > 0 => Len(h) > n /\ Len(h) - d = n
<1> DEFINE d == IF Len(h) > n THEN Len(h) - n ELSE 0
<1>1. d \in 0 .. Len(h) /\ Len(h) \in Nat /\ Len(h) - d <= n /\ (d > 0 => Len(h) > n /\ Len(h) - d = n)
  OBVIOUS
<1>2. Strip(h, n) = SubSeq(h, d + 1, Len(h))
  BY DEF Strip
<1> HIDE DEF d
<1>3. Strip(h, n) \in Seq(Line) /\ Len(Strip(h, n)) = Len(h) - d
  BY <1>1, <1>2
<1>4. ASSUME NEW i \in 1 .. Len(h) - d PROVE Strip(h, n)[i] = h[i + d]
  BY <1>1, <1>2
<1>5. QED
  BY <1>1, <1>3, <1>4

LEMMA WithoutFacts ==
  ASSUME NEW h \in Seq(Line), Len(h) > 0, NEW l \in Line
  PROVE  /\ WithoutDuplicate(h, l) \in Seq(Line)
         /\ \/ WithoutDuplicate(h, l) = h
            \/ \E p \in 1 .. Len(h) - 1 :
                 /\ h[p] = l
                 /\ Len(WithoutDuplicate(h, l)) = Len(h) - 1
                 /\ \A i \in 1 .. p - 1 : WithoutDuplicate(h, l)[i] = h[i]
                 /\ \A i \in p .. Len(h) - 1 : WithoutDuplicate(h, l)[i] = h[i + 1]
<1> DEFINE I == {i \in 1 .. Len(h) - 1 : h[i] = l}
           p == IF I # {} THEN Max(I) ELSE 0
           u == SubSeq(h, 1, p - 1) \o SubSeq(h, p + 1, Len(h))
<1>1. WithoutDuplicate(h, l) = IF p = 0 THEN h ELSE u
  BY DEF WithoutDuplicate, SelectLastInSubSeq, RemoveAt
<1>2. CASE p = 0
  BY <1>1, <1>2
<1>3. CASE p # 0
  <2>1. Len(h) \in Nat /\ Len(h) - 1 \in Nat /\ I \in SUBSET (1 .. Len(h) - 1) /\ I # {}
    BY <1>3
  <2>2. p \in I
    BY <2>1, LastOf
  <2>3. p \in 1 .. Len(h) - 1 /\ h[p] = l
    BY <2>2
  <2> HIDE DEF p, I
  <2>4. /\ SubSeq(h, 1, p - 1) \in Seq(Line) /\ Len(SubSeq(h, 1, p - 1)) = p - 1
        /\ \A i \in 1 .. p - 1 : SubSeq(h, 1, p - 1)[i] = h[i]
    BY <2>1, <2>3
  <2>5. /\ SubSeq(h, p + 1, Len(h)) \in Seq(Line) /\ Len(SubSeq(h, p + 1, Len(h))) = Len(h) - p
        /\ \A i \in 1 .. Len(h) - p : SubSeq(h, p + 1, Len(h))[i] = h[i + p]
    BY <2>1, <2>3
  <2>6. u \in Seq(Line) /\ Len(u) = Len(h) - 1
    <3> DEFINE a == SubSeq(h, 1, p - 1)
               b == SubSeq(h, p + 1, Len(h))
    <3>1. a \in Seq(Line) /\ b \in Seq(Line) /\ Len(a) = p - 1 /\ Len(b) = Len(h) - p
      BY <2>4, <2>5
    <3> HIDE DEF a, b
    <3>2. a \o b \in Seq(Line) /\ Len(a \o b) = Len(a) + Len(b)
      BY ONLY <3>1, ConcatProperties
    <3>3. Len(a \o b) = Len(h) - 1
      BY <2>1, <2>3, <3>1, <3>2
    <3>4. QED
      BY <3>2, <3>3 DEF a, b
  <2>7. ASSUME NEW i \in 1 .. p - 1 PROVE u[i] = h[i]
    BY <2>1, <2>3, <2>4, <2>5
  <2>8. ASSUME NEW i \in p .. Len(h) - 1 PROVE u[i] = h[i + 1]
    <3>1. i - (p - 1) \in 1 .. Len(h) - p /\ i - (p - 1) + p = i + 1 /\ i \in p - 1 + 1 .. p - 1 + (Len(h) - p)
      BY <2>1, <2>3
    <3>2. u[i] = SubSeq(h, p + 1, Len(h))[i - (p - 1)]
      <4>1. i \in 1 .. (p - 1) + (Len(h) - p) /\ ~ i <= p - 1
        BY <2>1, <2>3
      <4> DEFINE a == SubSeq(h, 1, p - 1)
                 b == SubSeq(h, p + 1, Len(h))
      <4>2. a \in Seq(Line) /\ b \in Seq(Line) /\ Len(a) = p - 1 /\ Len(b) = Len(h) - p
        BY <2>4, <2>5
      <4> HIDE DEF a, b
      <4>3. (a \o b)[i] = b[i - (p - 1)]
        BY ONLY <4>1, <4>2, ConcatProperties
      <4>4. QED
        BY <4>3 DEF a, b
    <3>3. QED
      BY <2>5, <3>1, <3>2
  <2> HIDE DEF u
  <2>9. QED
    BY <1>1, <1>3, <2>3, <2>6, <2>7, <2>8
<1>4. QED
  BY <1>2, <1>3
LEMMA FrontFacts ==
  ASSUME NEW h \in Seq(Line), Len(h) > 0
  PROVE  Len(Front(h)) = Len(h) - 1 /\ \A k \in 1 .. Len(h) - 1 : Front(h)[k] = h[k]
<1>1. PICK n \in Nat : Len(h) = n /\ n - 1 \in Nat /\ n - 1 <= n
  OBVIOUS
<1>2. Front(h) = SubSeq(h, 1, n - 1)
  BY <1>1 DEF Front
<1>3. Len(SubSeq(h, 1, n - 1)) = n - 1
  BY <1>1
<1>4. \A k \in 1 .. n - 1 : SubSeq(h, 1, n - 1)[k] = h[k]
  BY <1>1
<1>5. QED
  BY <1>1, <1>2, <1>3, <1>4

(* What entering a line that is not blank leaves: older entries in their   *)
(* order, and the line.                                                    *)
LEMMA HistoryEnteredFacts ==
  ASSUME HistoryTypeOK, HistoryAssumption, NEW l \in Line, l # Empty, Strip(history, limit) # << >>
  PROVE  /\ Entered(l) \in Seq(Line) /\ Len(Entered(l)) > 0 /\ Len(Entered(l)) <= limit + 1
         /\ LET before == Front(history)
                after == Front(Front(Entered(l)))
            IN  /\ Entered(l) = Append(Append(after, l), Empty)
                /\ \E K \in SUBSET (1 .. Len(before)) :
                     /\ EntriesAt(after, before, K)
                     /\ \A k \in 1 .. Len(before) :
                          \/ k \in K
                          \/ before[k] = l
                          \/ Len(history) > limit /\ \A i \in K : k < i
<1> DEFINE h == Strip(history, limit)
           u == WithoutDuplicate(h, l)
<1>1. history \in Seq(Line) /\ limit \in Nat /\ Empty \in Line /\ Len(history) \in Nat
  BY DEF HistoryTypeOK, HistoryAssumption
<1>2. h \in Seq(Line)
  BY <1>1, StripFacts
<1>3. PICK d \in 0 .. Len(history) :
        /\ Len(h) = Len(history) - d
        /\ \A i \in 1 .. Len(history) - d : h[i] = history[i + d]
        /\ Len(history) - d <= limit
        /\ d > 0 => Len(history) > limit /\ Len(history) - d = limit
  BY <1>1, StripFacts
<1> HIDE DEF h
<1>4. Len(h) \in Nat /\ Len(h) > 0
  BY <1>2, EmptySeq DEF h
<1>5. PICK p \in 0 .. Len(h) - 1 :
        /\ p = 0 => u = h
        /\ p > 0 => /\ h[p] = l
                    /\ Len(u) = Len(h) - 1
                    /\ \A i \in 1 .. p - 1 : u[i] = h[i]
                    /\ \A i \in p .. Len(h) - 1 : u[i] = h[i + 1]
  <2>1. CASE u = h
    <3>1. 0 \in 0 .. Len(h) - 1 /\ ~ 0 > 0
      BY <1>4
    <3>2. QED
      BY <2>1, <3>1
  <2>2. CASE u # h
    <3>1. PICK p \in 1 .. Len(h) - 1 :
                 /\ h[p] = l
                 /\ Len(u) = Len(h) - 1
                 /\ \A i \in 1 .. p - 1 : u[i] = h[i]
                 /\ \A i \in p .. Len(h) - 1 : u[i] = h[i + 1]
      BY <1>2, <1>4, <2>2, WithoutFacts
    <3>2. p \in 0 .. Len(h) - 1 /\ p # 0
      BY <1>4
    <3>3. QED
      BY <3>1, <3>2
  <2>3. QED
    BY <2>1, <2>2
<1>6. u \in Seq(Line)
  BY <1>2, <1>4, WithoutFacts
<1> HIDE DEF u
<1>7. PICK m \in Nat : m = Len(u) /\ m > 0 /\ m <= limit /\ (p = 0 => m = Len(h)) /\ (p > 0 => m = Len(h) - 1)
  <2>1. Len(u) \in Nat /\ Len(u) > 0 /\ Len(u) <= limit /\ (p = 0 => Len(u) = Len(h)) /\ (p > 0 => Len(u) = Len(h) - 1)
    <3>1. Len(u) \in Nat
      BY <1>6
    <3>2. CASE p = 0
      BY <1>1, <1>3, <1>4, <1>5, <3>2
    <3>3. CASE p > 0
      <4>1. Len(u) = Len(h) - 1 /\ p <= Len(h) - 1 /\ Len(h) <= limit /\ p \in Int /\ ~ p = 0
        <5>1. Len(h) <= limit
          BY ONLY <1>3
        <5>2. Len(u) = Len(h) - 1
          BY <1>5, <3>3
        <5>3. QED
          BY ONLY <1>4, <3>3, <5>1, <5>2, p \in 0 .. Len(h) - 1
      <4>2. QED
        BY ONLY <1>1, <1>4, <3>1, <3>3, <4>1
    <3>4. QED
      BY <1>4, <3>2, <3>3
  <2>2. QED
    BY <2>1
<1> DEFINE v == [u EXCEPT ![m] = l]
           a == SubSeq(v, 1, m - 1)
<1>8. v \in Seq(Line) /\ Len(v) = m /\ v[m] = l /\ \A i \in 1 .. m - 1 : v[i] = u[i]
  BY <1>6, <1>7
<1>9. Entered(l) = Append(v, Empty)
  BY <1>7 DEF Entered, ReplaceAt, u, h
<1> HIDE DEF v
<1>10. Front(Entered(l)) = v /\ Entered(l) \in Seq(Line) /\ Len(Entered(l)) = m + 1
  <2>1. Append(v, Empty) \in Seq(Line) /\ Len(Append(v, Empty)) = m + 1
    BY <1>1, <1>7, <1>8
  <2>2. SubSeq(Append(v, Empty), 1, m) = v
    BY <1>1, <1>7, <1>8
  <2>3. m + 1 - 1 = m
    BY <1>7
  <2>4. QED
    BY <1>9, <2>1, <2>2, <2>3 DEF Front
<1>11. /\ Front(Front(Entered(l))) = a /\ a \in Seq(Line) /\ Len(a) = m - 1
       /\ \A i \in 1 .. m - 1 : a[i] = u[i]
  BY <1>7, <1>8, <1>10 DEF Front
<1>12. v = Append(a, l)
  BY <1>7, <1>8, <1>11
<1> HIDE DEF a
<1> DEFINE before == Front(history)
           place == [i \in 1 .. m - 1 |-> IF p = 0 \/ i < p THEN i + d ELSE i + 1 + d]
           K == {place[i] : i \in 1 .. m - 1}
<1>13. /\ Len(before) = Len(history) - 1
       /\ \A k \in 1 .. Len(history) - 1 : before[k] = history[k]
  <2>1. Len(history) > 0
    BY <1>1, <1>3, <1>4
  <2>2. QED
    BY <1>1, <2>1, FrontFacts
<1> HIDE DEF before
<1>14. ASSUME NEW i \in 1 .. m - 1
       PROVE  place[i] \in 1 .. Len(history) - 1 /\ history[place[i]] = u[i]
  <2>1. CASE p = 0 \/ i < p
    <3>1. place[i] = i + d
      BY <2>1
    <3>2. i \in 1 .. Len(history) - d /\ i + d \in 1 .. Len(history) - 1
      BY ONLY <1>1, <1>3, <1>4, <1>5, <1>7, <2>1, i \in 1 .. m - 1
    <3>3. u[i] = h[i]
      BY <1>5, <1>7, <2>1
    <3>4. QED
      BY <1>3, <3>1, <3>2, <3>3
  <2>2. CASE p > 0 /\ i >= p
    <3>1. place[i] = i + 1 + d /\ i + 1 \in 1 .. Len(history) - d /\ i + 1 + d \in 1 .. Len(history) - 1
      BY <1>1, <1>3, <1>4, <1>7, <2>2
    <3>2. u[i] = h[i + 1]
      BY ONLY <1>4, <1>5, <1>7, <2>2, i \in 1 .. m - 1
    <3>3. QED
      BY <1>3, <3>1, <3>2
  <2>3. QED
    BY <2>1, <2>2
<1>15. ASSUME NEW i \in 1 .. m - 1, NEW j \in 1 .. m - 1, i < j PROVE place[i] < place[j]
  BY <1>3, <1>7, <1>15
<1>16. ASSUME NEW k \in 1 .. Len(history) - 1
       PROVE  \/ k \in K
              \/ before[k] = l
              \/ Len(history) > limit /\ \A i \in K : k < i
  <2>1. CASE k <= d
    <3>1. Len(history) > limit
      BY <1>3, <2>1
    <3>2. \A i \in 1 .. m - 1 : k < place[i]
      BY <1>3, <1>7, <2>1
    <3>3. QED
      BY <3>1, <3>2
  <2>2. CASE k > d /\ (p = 0 \/ k - d < p)
    <3>1. k - d \in 1 .. m - 1 /\ k - d + d = k
      BY <1>1, <1>3, <1>4, <1>5, <1>7, <2>2
    <3>2. place[k - d] = k
      BY <2>2, <3>1
    <3>3. QED
      BY <3>1, <3>2
  <2>3. CASE k > d /\ p > 0 /\ k - d = p
    <3>1. p \in 1 .. Len(history) - d /\ p + d = k
      BY <1>1, <1>3, <1>4, <2>3
    <3>2. history[k] = l
      BY <1>3, <1>5, <2>3, <3>1
    <3>3. QED
      BY <1>13, <3>2
  <2>4. CASE k > d /\ p > 0 /\ k - d > p
    <3>1. k - d - 1 \in 1 .. m - 1 /\ k - d - 1 + 1 + d = k /\ ~ k - d - 1 < p
      <4>1. k \in Int /\ d \in Int /\ p \in Int /\ m \in Int
        BY <1>1, <1>3, <1>4
      <4>2. k - d - 1 >= 1 /\ k - d - 1 <= m - 1
        BY <1>1, <1>3, <1>4, <1>7, <2>4, <4>1
      <4>3. QED
        BY <2>4, <4>1, <4>2
    <3>2. place[k - d - 1] = k
      BY <2>4, <3>1
    <3>3. QED
      BY <3>1, <3>2
  <2>5. QED
    BY <1>3, <1>4, <2>1, <2>2, <2>3, <2>4
<1>17. EntriesAt(a, before, K)
  <2>1. place \in [1 .. Len(a) -> K]
    BY <1>11
  <2>2. \A k \in K : \E i \in 1 .. Len(a) : place[i] = k
    BY <1>11
  <2>3. \A i \in 1 .. Len(a) : a[i] = before[place[i]]
    BY <1>11, <1>13, <1>14
  <2>4. \A i, j \in 1 .. Len(a) : i < j => place[i] < place[j]
    BY <1>11, <1>15
  <2> HIDE DEF place, K
  <2>5. QED
    BY <2>1, <2>2, <2>3, <2>4 DEF EntriesAt
<1>18. K \in SUBSET (1 .. Len(before))
  BY <1>13, <1>14
<1> HIDE DEF K
<1>19. QED
  <2>1. Entered(l) \in Seq(Line) /\ Len(Entered(l)) > 0 /\ Len(Entered(l)) <= limit + 1
    BY <1>1, <1>7, <1>10
  <2>2. Entered(l) = Append(Append(a, l), Empty)
    BY <1>9, <1>12
  <2>3. \A k \in 1 .. Len(before) : k \in K \/ before[k] = l \/ (Len(history) > limit /\ \A i \in K : k < i)
    BY <1>13, <1>16
  <2>4. before = Front(history)
    BY DEF before
  <2>5. QED
    BY ONLY <2>1, <2>2, <2>3, <2>4, <1>11, <1>17, <1>18
-----------------------------------------------------------------------------
(* Steps.                                                                  *)

(* Up and down show an entry that exists, when they do not fault.          *)
LEMMA MoveFacts ==
  ASSUME HistoryTypeOK, NEW k \in {ndx - 1, ndx + 1}, NEW what, Move(k, what), Exists(ndx) => Exists(k)
  PROVE  \/ Fault(what) /\ ~ Exists(ndx)
         \/ /\ Exists(ndx) /\ Exists(k) /\ k \in Nat /\ did' = what
            /\ history' = [history EXCEPT ![ndx + 1] = input] /\ history' \in Seq(Line)
            /\ Len(history') = Len(history)
            /\ ndx' = k /\ input' = history[k + 1] /\ input' \in Line
            /\ found' = Empty /\ limit' = limit /\ saved' = saved /\ fault' = fault
<1>1. CASE Exists(ndx)
  <2>1. ndx + 1 \in 1 .. Len(history) /\ k + 1 \in 1 .. Len(history) /\ k \in Nat
    BY <1>1 DEF Exists, HistoryTypeOK
  <2>2. [history EXCEPT ![ndx + 1] = input] \in Seq(Line) /\ Len([history EXCEPT ![ndx + 1] = input]) = Len(history)
    BY <2>1 DEF HistoryTypeOK
  <2>3. history[k + 1] \in Line
    BY <2>1 DEF HistoryTypeOK
  <2>4. QED
    BY <1>1, <2>1, <2>2, <2>3 DEF Move, ReplaceAt
<1>2. CASE ~ Exists(ndx)
  BY <1>2 DEF Move
<1>3. QED
  BY <1>1, <1>2

(* Up and down leave the entries with the line in the place of the one     *)
(* that is shown.                                                          *)
LEMMA MoveKeeps ==
  ASSUME HistoryTypeOK, NEW k \in {ndx - 1, ndx + 1}, Exists(ndx), Exists(k),
         history' = [history EXCEPT ![ndx + 1] = input], ndx' = k, input' = history[k + 1]
  PROVE  Seen' = Seen
<1>1. /\ history \in Seq(Line) /\ input \in Line
      /\ ndx + 1 \in 1 .. Len(history) /\ k + 1 \in 1 .. Len(history) /\ k + 1 # ndx + 1
  BY DEF HistoryTypeOK, Exists
<1>2. history'[k + 1] = history[k + 1]
  BY <1>1
<1>3. history' \in Seq(Line)
  BY <1>1
<1>4. [history' EXCEPT ![k + 1] = history'[k + 1]] = history'
  BY <1>3
<1>5. Seen' = [history' EXCEPT ![k + 1] = history[k + 1]]
  BY DEF Seen, ReplaceAt
<1>6. Seen = history'
  BY DEF Seen, ReplaceAt
<1>7. QED
  BY <1>2, <1>4, <1>5, <1>6

LEMMA UpDownFacts ==
  ASSUME HistoryTypeOK, HistoryUp \/ HistoryDown
  PROVE  \E k \in {ndx - 1, ndx + 1}, what \in {"up", "down"} :
           Move(k, what) /\ (Exists(ndx) => Exists(k))
<1>1. CASE HistoryUp
  BY <1>1 DEF HistoryUp, Exists, HistoryTypeOK
<1>2. CASE HistoryDown
  BY <1>2 DEF HistoryDown, Exists, HistoryTypeOK
<1>3. QED
  BY <1>1, <1>2

LEMMA FindFacts ==
  ASSUME HistoryTypeOK, HistoryAssumption, NEW d \in {-1, 1}, HistoryFind(d)
  PROVE  /\ Exists(ndx') /\ ndx' \in Nat /\ input' \in Line /\ found' \in Line /\ did' = "find"
         /\ history' = history /\ limit' = limit /\ saved' = saved /\ fault' = fault
<1> DEFINE str == IF found = Empty THEN Trim[input] ELSE found
           k == FoundAt(str, d)
<1>1. str \in Line
  BY DEF HistoryTypeOK, HistoryAssumption
<1>2. /\ k # 0 /\ ndx' = k - 1 /\ input' = history[k] /\ found' = str /\ did' = "find"
      /\ history' = history /\ limit' = limit /\ saved' = saved /\ fault' = fault
  BY DEF HistoryFind
<1>3. k \in 0 .. Len(history)
  BY FoundFacts
<1> HIDE DEF k, str
<1>4. k \in 1 .. Len(history) /\ k - 1 \in 0 .. Len(history) - 1 /\ k - 1 \in Nat /\ history[k] \in Line
  BY <1>2, <1>3 DEF HistoryTypeOK
<1>5. QED
  BY <1>1, <1>2, <1>4 DEF Exists

(* Enter, when there is an entry for the line to take the place of.        *)
LEMMA EnterFacts ==
  ASSUME HistoryTypeOK, HistoryAssumption, HistoryEnter
  PROVE  \/ Fault("enter") /\ Strip(history, limit) = << >>
         \/ /\ history' = Entered(Trim[input]) /\ history' \in Seq(Line)
            /\ Len(history') <= limit + 1
            /\ Len(history') > 0 \/ Strip(history, limit) = << >>
            /\ Trim[input] # Empty => Strip(history, limit) # << >>
            /\ ndx' = Len(history') - 1 /\ did' = "enter"
            /\ input' = Empty /\ found' = Empty
            /\ limit' = limit /\ saved' = saved /\ fault' = fault
<1> DEFINE l == Trim[input]
<1>1. /\ l \in Line /\ history \in Seq(Line) /\ limit \in Nat
  BY DEF HistoryTypeOK, HistoryAssumption
<1>2. CASE l # Empty /\ Strip(history, limit) = << >>
  BY <1>2 DEF HistoryEnter
<1>3. CASE ~ (l # Empty /\ Strip(history, limit) = << >>)
  <2>1. /\ history' = Entered(l) /\ ndx' = Len(history') - 1 /\ did' = "enter"
        /\ input' = Empty /\ found' = Empty
        /\ limit' = limit /\ saved' = saved /\ fault' = fault
    BY <1>3 DEF HistoryEnter
  <2>2. CASE l = Empty
    <3>1. Entered(l) = Strip(history, limit)
      BY <2>2 DEF Entered
    <3>2. Strip(history, limit) \in Seq(Line) /\ Len(Strip(history, limit)) <= limit
      BY <1>1, StripFacts
    <3>3. Len(Strip(history, limit)) > 0 \/ Strip(history, limit) = << >>
      BY <3>2
    <3>4. QED
      BY <1>1, <2>1, <2>2, <3>1, <3>2, <3>3
  <2>3. CASE l # Empty
    <3>1. Entered(l) \in Seq(Line) /\ Len(Entered(l)) > 0 /\ Len(Entered(l)) <= limit + 1
      BY <1>1, <1>3, <2>3, HistoryEnteredFacts
    <3>2. QED
      BY <1>3, <2>1, <2>3, <3>1
  <2>4. QED
    BY <2>2, <2>3
<1>4. QED
  BY <1>2, <1>3

(* Stripping to a limit that leaves something.                             *)
LEMMA StripLeaves ==
  ASSUME HistoryTypeOK, limit > 0, Len(history) > 0
  PROVE  Strip(history, limit) # << >>
<1>1. PICK d \in 0 .. Len(history) :
        /\ Len(Strip(history, limit)) = Len(history) - d
        /\ d > 0 => Len(history) - d = limit
  BY StripFacts DEF HistoryTypeOK
<1>2. Len(Strip(history, limit)) > 0
  BY <1>1 DEF HistoryTypeOK
<1>3. QED
  BY <1>2

LEMMA SaveFacts ==
  ASSUME HistoryTypeOK, SaveHistory
  PROVE  saved' \in Seq(Line)
BY DEF SaveHistory, HistoryAssumption

LEMMA AppendedFacts ==
  ASSUME NEW h \in Seq(Line), HistoryAssumption
  PROVE  /\ Append(h, Empty) \in Seq(Line) /\ Len(Append(h, Empty)) = Len(h) + 1
         /\ Len(h) \in 0 .. Len(Append(h, Empty)) - 1 /\ Len(h) \in Nat
BY DEF HistoryAssumption

-----------------------------------------------------------------------------
LEMMA InitType ==
  ASSUME HistoryAssumption, HistoryInit
  PROVE  HistoryTypeOK
<1>1. PICK h \in Given : history = Append(h, Empty) /\ ndx = Len(h)
  BY DEF HistoryInit
<1>2. h \in Seq(Line) /\ Empty \in Line
  BY DEF HistoryAssumption
<1>3. history \in Seq(Line) /\ ndx \in Nat
  BY <1>1, <1>2
<1>4. QED
  BY <1>3 DEF HistoryInit, HistoryTypeOK, HistoryAssumption

LEMMA StepType ==
  ASSUME HistoryAssumption, HistoryTypeOK, [HistoryNext]_history_vars
  PROVE  HistoryTypeOK'
<1>1. ASSUME NEW what \in {"up", "down", "enter"}, Fault(what) PROVE HistoryTypeOK'
  BY <1>1 DEF Fault, HistoryTypeOK
<1>2. ASSUME NEW l \in Line, HistoryType(l) PROVE HistoryTypeOK'
  BY <1>2 DEF HistoryType, HistoryTypeOK, HistoryAssumption
<1>3. CASE HistoryEnter
  <2>1. CASE Fault("enter")
    BY <1>1, <2>1
  <2>2. CASE /\ history' \in Seq(Line) /\ ndx' = Len(history') - 1 /\ did' = "enter"
             /\ input' = Empty /\ found' = Empty /\ limit' = limit /\ saved' = saved /\ fault' = fault
    <3>1. ndx' \in Nat \cup {-1}
      BY <2>2
    <3>2. QED
      BY <2>2, <3>1 DEF HistoryTypeOK, HistoryAssumption
  <2>3. QED
    BY <1>3, <2>1, <2>2, EnterFacts
<1>4. CASE HistoryInterrupt
  BY <1>4 DEF HistoryInterrupt, HistoryTypeOK, HistoryAssumption
<1>5. CASE HistoryUp \/ HistoryDown
  <2>1. PICK k \in {ndx - 1, ndx + 1}, what \in {"up", "down"} :
          Move(k, what) /\ (Exists(ndx) => Exists(k))
    BY <1>5, UpDownFacts
  <2>2. \/ Fault(what) /\ ~ Exists(ndx)
        \/ /\ Exists(ndx) /\ Exists(k) /\ k \in Nat /\ did' = what
           /\ history' = [history EXCEPT ![ndx + 1] = input] /\ history' \in Seq(Line)
           /\ Len(history') = Len(history)
           /\ ndx' = k /\ input' = history[k + 1] /\ input' \in Line
           /\ found' = Empty /\ limit' = limit /\ saved' = saved /\ fault' = fault
    BY <2>1, MoveFacts
  <2>3. QED
    BY <1>1, <2>2 DEF HistoryTypeOK, HistoryAssumption
<1>6. ASSUME NEW d \in {-1, 1}, HistoryFind(d) PROVE HistoryTypeOK'
  <2>1. /\ Exists(ndx') /\ ndx' \in Nat /\ input' \in Line /\ found' \in Line /\ did' = "find"
        /\ history' = history /\ limit' = limit /\ saved' = saved /\ fault' = fault
    BY <1>6, FindFacts
  <2>2. QED
    BY <2>1 DEF HistoryTypeOK
<1>7. ASSUME NEW h \in Given, SetHistory(h) PROVE HistoryTypeOK'
  <2>1. Append(h, Empty) \in Seq(Line) /\ Len(h) \in Nat
    BY AppendedFacts DEF HistoryAssumption
  <2>2. QED
    BY <1>7, <2>1 DEF SetHistory, HistoryTypeOK
<1>8. ASSUME NEW n \in Sizes, SetHistorySize(n) PROVE HistoryTypeOK'
  <2>1. Strip(history, n) \in Seq(Line) /\ n \in Nat
    BY StripFacts DEF HistoryAssumption, HistoryTypeOK
  <2>2. QED
    BY <1>8, <2>1 DEF SetHistorySize, HistoryTypeOK
<1>9. CASE SaveHistory
  <2>1. saved' \in Seq(Line)
    BY <1>9, SaveFacts
  <2>2. QED
    BY <1>9, <2>1 DEF SaveHistory, HistoryTypeOK
<1>10. CASE LoadHistory
  <2>1. Append(saved, Empty) \in Seq(Line) /\ Len(saved) \in Nat
    BY AppendedFacts DEF HistoryTypeOK
  <2>2. QED
    BY <1>10, <2>1 DEF LoadHistory, HistoryTypeOK
<1>11. CASE Restart
  <2>1. <<Empty>> \in Seq(Line) /\ Limit \in Nat
    BY DEF HistoryAssumption
  <2>2. QED
    BY <1>11, <2>1 DEF Restart, HistoryTypeOK, HistoryAssumption
<1>12. CASE UNCHANGED history_vars
  BY <1>12 DEF history_vars, HistoryTypeOK
<1>13. QED
  BY <1>2, <1>3, <1>4, <1>5, <1>6, <1>7, <1>8, <1>9, <1>10, <1>11, <1>12 DEF HistoryNext

(* Whatever keys, application code and restarts do, in any order: the      *)
(* history holds lines, and the index is an integer from -1 on.            *)
THEOREM HistoryTypeCorrect == HistorySpec => []HistoryTypeOK
BY InitType, StepType, HistoryAssumption, PTL DEF HistorySpec

-----------------------------------------------------------------------------
(* With sizes that leave room for a line, so does the limit.               *)
LEMMA LimitStep ==
  ASSUME HistoryAssumption, 0 \notin Sizes, limit > 0, [HistoryNext]_history_vars
  PROVE  limit' > 0
<1>1. ASSUME NEW n \in Sizes, SetHistorySize(n) PROVE limit' > 0
  BY <1>1 DEF SetHistorySize, HistoryAssumption
<1>2. CASE Restart
  BY <1>2 DEF Restart, HistoryAssumption
<1>3. CASE ~ (\E n \in Sizes : SetHistorySize(n)) /\ ~ Restart
  <2>1. limit' = limit
    BY <1>3 DEF HistoryNext, history_vars, HistoryType, HistoryEnter, Fault,
                HistoryInterrupt, HistoryUp, HistoryDown, Move,
                HistoryFind, SetHistory, SaveHistory, LoadHistory
  <2>2. QED
    BY <2>1
<1>4. QED
  BY <1>1, <1>2, <1>3

(* What a step does to the index, and to what the user would see.          *)
LEMMA NavigationStep ==
  ASSUME HistoryAssumption, HistoryTypeOK, limit > 0, HistoryNext
  PROVE  /\ did' # "resize" /\ IndexInHistory => IndexInHistory'
         /\ did' \in {"up", "down"} /\ ~ fault' => Seen' = Seen
<1>1. ASSUME NEW l \in Line, HistoryType(l)
      PROVE  did' = "type" /\ (IndexInHistory => IndexInHistory')
  BY <1>1 DEF HistoryType, IndexInHistory, Exists
<1>2. CASE HistoryEnter
  <2>1. CASE Strip(history, limit) = << >>
    <3>1. ~ Len(history) > 0
      BY <2>1, StripLeaves
    <3>2. ~ IndexInHistory
      BY <3>1 DEF IndexInHistory, Exists, HistoryTypeOK
    <3>3. did' = "enter"
      BY <1>2 DEF HistoryEnter, Fault
    <3>4. QED
      BY <3>2, <3>3
  <2>2. CASE Strip(history, limit) # << >>
    <3>1. history' \in Seq(Line) /\ Len(history') > 0 /\ ndx' = Len(history') - 1 /\ did' = "enter" /\ fault' = fault
      BY <1>2, <2>2, EnterFacts
    <3>2. ndx' \in 0 .. Len(history') - 1
      BY <3>1
    <3>3. QED
      BY <3>1, <3>2 DEF IndexInHistory, Exists
  <2>3. QED
    BY <2>1, <2>2
<1>3. CASE HistoryInterrupt
  BY <1>3 DEF HistoryInterrupt, IndexInHistory, Exists
<1>4. CASE HistoryUp \/ HistoryDown
  <2>1. PICK k \in {ndx - 1, ndx + 1}, what \in {"up", "down"} :
          Move(k, what) /\ (Exists(ndx) => Exists(k))
    BY <1>4, UpDownFacts
  <2>2. CASE Fault(what) /\ ~ Exists(ndx)
    BY <2>2 DEF Fault, IndexInHistory
  <2>3. CASE /\ Exists(ndx) /\ Exists(k)
             /\ history' = [history EXCEPT ![ndx + 1] = input] /\ Len(history') = Len(history)
             /\ ndx' = k /\ input' = history[k + 1] /\ fault' = fault
    <3>1. Seen' = Seen
      BY <2>3, MoveKeeps
    <3>2. Exists(ndx)'
      BY <2>3 DEF Exists
    <3>3. QED
      BY <2>3, <3>1, <3>2 DEF IndexInHistory
  <2>4. QED
    BY <2>1, <2>2, <2>3, MoveFacts
<1>5. ASSUME NEW d \in {-1, 1}, HistoryFind(d)
      PROVE  did' = "find" /\ (IndexInHistory => IndexInHistory')
  BY <1>5, FindFacts DEF IndexInHistory, Exists
<1>6. ASSUME NEW h \in Given, SetHistory(h)
      PROVE  did' = "set" /\ (IndexInHistory => IndexInHistory')
  <2>1. Len(h) \in 0 .. Len(Append(h, Empty)) - 1
    BY AppendedFacts DEF HistoryAssumption
  <2>2. QED
    BY <1>6, <2>1 DEF SetHistory, IndexInHistory, Exists
<1>7. ASSUME NEW n \in Sizes, SetHistorySize(n)
      PROVE  did' = "resize"
  BY <1>7 DEF SetHistorySize
<1>8. CASE SaveHistory
  BY <1>8 DEF SaveHistory, IndexInHistory, Exists
<1>9. CASE LoadHistory
  <2>1. Len(saved) \in 0 .. Len(Append(saved, Empty)) - 1
    BY AppendedFacts DEF HistoryTypeOK
  <2>2. QED
    BY <1>9, <2>1 DEF LoadHistory, IndexInHistory, Exists
<1>10. CASE Restart
  BY <1>10 DEF Restart, IndexInHistory, Exists
<1>11. QED
  BY <1>1, <1>2, <1>3, <1>4, <1>5, <1>6, <1>7, <1>8, <1>9, <1>10 DEF HistoryNext

(* For sizes that leave room for a line: going up and down loses nothing   *)
(* that was typed, and no handler but set_history_size takes the index out *)
(* of the history.                                                         *)
THEOREM NavigationLosesNothing ==
  ASSUME 0 \notin Sizes PROVE HistorySpec => NavigationKeepsLines
<1>1. HistoryInit => HistoryTypeOK /\ limit > 0
  <2>1. HistoryInit => HistoryTypeOK
    BY InitType, HistoryAssumption
  <2>2. HistoryInit => limit > 0
    BY HistoryAssumption DEF HistoryInit, HistoryAssumption
  <2>3. QED
    BY <2>1, <2>2
<1>2. HistoryTypeOK /\ limit > 0 /\ [HistoryNext]_history_vars => (HistoryTypeOK /\ limit > 0)'
  BY StepType, LimitStep, HistoryAssumption
<1>3. HistoryTypeOK /\ limit > 0 /\ [HistoryNext]_history_vars =>
        [/\ did' # "resize" /\ IndexInHistory => IndexInHistory'
         /\ did' \in {"up", "down"} /\ ~ fault' => Seen' = Seen]_history_vars
  BY NavigationStep, HistoryAssumption
<1>4. QED
  BY <1>1, <1>2, <1>3, PTL DEF HistorySpec, NavigationKeepsLines

(* For all histories, limits and lines: an entered line comes last and     *)
(* drops no other one, but the oldest ones in excess of the limit.         *)
THEOREM EnteringKeepsOthers == HistorySpec => EnterKeepsOthers
<1> DEFINE KeptThen ==
       did' = "enter" /\ ~ fault' =>
         /\ Len(history') <= limit + 1
         /\ Trim[input] # Empty =>
              LET before == Front(history)
                  after == Front(Front(history'))
              IN  /\ history' = Append(Append(after, Trim[input]), Empty)
                  /\ \E K \in SUBSET (1 .. Len(before)) :
                       /\ EntriesAt(after, before, K)
                       /\ \A k \in 1 .. Len(before) :
                            \/ k \in K
                            \/ before[k] = Trim[input]
                            \/ Len(history) > limit /\ \A i \in K : k < i
<1>1. HistoryTypeOK /\ [HistoryNext]_history_vars => [KeptThen]_history_vars
  <2> SUFFICES ASSUME HistoryTypeOK, HistoryNext, did' = "enter", ~ fault'
               PROVE  KeptThen
    BY DEF KeptThen
  <2>1. HistoryEnter
    <3>1. ~ (HistoryUp \/ HistoryDown)
      BY DEF HistoryUp, HistoryDown, Move, Fault
    <3>2. QED
      BY <3>1 DEF HistoryNext, HistoryType, HistoryInterrupt, HistoryFind,
                  SetHistory, SetHistorySize, SaveHistory,
                  LoadHistory, Restart
  <2>2. ~ Fault("enter")
    BY DEF Fault
  <2>3. /\ history' = Entered(Trim[input]) /\ Len(history') <= limit + 1
        /\ Trim[input] # Empty => Strip(history, limit) # << >>
    BY <2>1, <2>2, EnterFacts, HistoryAssumption
  <2>4. Trim[input] \in Line
    BY HistoryAssumption DEF HistoryAssumption, HistoryTypeOK
  <2>5. QED
    BY <2>3, <2>4, HistoryEnteredFacts, HistoryAssumption
<1> HIDE DEF KeptThen
<1>2. [][KeptThen]_history_vars => EnterKeepsOthers
  BY PTL DEF EnterKeepsOthers, KeptThen
<1>3. QED
  BY <1>1, <1>2, HistoryTypeCorrect, PTL DEF HistorySpec
=============================================================================
