--------------------------- MODULE HostRoutingProofs ---------------------------
(***************************************************************************)
(* HostRouting: the lines of others survive, and there is one whole block  *)
(* that the recorded hash tells, for any files, snapshots and histories.   *)
(***************************************************************************)
EXTENDS HostRouting, SequenceTheorems, WellFoundedInduction, TLAPS

(***************************************************************************)
(* Induction over numbers, by the set of those that have the property.     *)
(***************************************************************************)
LEMMA Induction ==
  ASSUME NEW P, 0 \in P, \A n \in Nat : n \in P => n + 1 \in P
  PROVE  Nat \subseteq P
  <1> SUFFICES ASSUME Nat \ P # {} PROVE FALSE
    OBVIOUS
  <1>1. \A p : p \in OpToRel(<, Nat) <=> p \in Nat \X Nat /\ p[1] < p[2]
    BY Zenon DEF OpToRel
  <1>2. PICK k \in Nat \ P : \A j \in Nat \ P : <<j, k>> \notin OpToRel(<, Nat)
    BY NatLessThanWellFounded, WFMin
  <1>3. k # 0
    OBVIOUS
  <1>4. k - 1 \in Nat /\ k = (k - 1) + 1 /\ k - 1 < k
    BY <1>3
  <1>5. k - 1 \notin P
    BY <1>4
  <1>6. <<k - 1, k>> \in Nat \X Nat /\ <<k - 1, k>>[1] < <<k - 1, k>>[2]
    BY <1>4
  <1> QED
    BY <1>1, <1>2, <1>4, <1>5, <1>6

-----------------------------------------------------------------------------
(***************************************************************************)
(* The wanted lines of a file.                                             *)
(***************************************************************************)

\* How Only goes on from one line to the next.
Step(kept, l, wanted) == IF l \in wanted THEN Append(kept, l) ELSE kept

\* The first n results of Only for a file.
Results(g, file, wanted, n) ==
  g = [i \in 0 .. n |-> IF i = 0 THEN <<>> ELSE Step(g[i - 1], file[i], wanted)]

LEMMA ResultsExist ==
  ASSUME NEW file, NEW wanted
  PROVE  \A n \in Nat : \E g : Results(g, file, wanted, n)
  <1> DEFINE P == {n \in Nat : \E g : Results(g, file, wanted, n)}
  <1>1. 0 \in P
    <2>1. Results([i \in 0 .. 0 |-> <<>>], file, wanted, 0)
      BY DEF Results
    <2> QED
      BY <2>1
  <1>2. ASSUME NEW n \in Nat, n \in P PROVE n + 1 \in P
    <2>1. PICK g : Results(g, file, wanted, n)
      BY <1>2
    <2> DEFINE h == [i \in 0 .. n + 1 |->
                       IF i = 0 THEN <<>> ELSE Step(g[i - 1], file[i], wanted)]
    <2>2. \A i \in 0 .. n : h[i] = g[i]
      BY <2>1 DEF Results
    <2>3. \A i \in 0 .. n + 1 : i # 0 => i - 1 \in 0 .. n
      OBVIOUS
    <2>4. Results(h, file, wanted, n + 1)
      BY <2>2, <2>3 DEF Results
    <2> QED
      BY <2>4
  <1> QED
    BY <1>1, <1>2, Induction

SameStart(s, t, n) == \A i \in 1 .. n : s[i] = t[i]

\* Files that begin with the same n lines have the same first n results.
LEMMA ResultsUnique ==
  ASSUME NEW wanted, NEW s, NEW t, NEW g, NEW h, NEW n \in Nat,
         Results(g, s, wanted, n), Results(h, t, wanted, n + 1), SameStart(s, t, n)
  PROVE  g[n] = h[n]
  <1> DEFINE P == {k \in Nat : k <= n => g[k] = h[k]}
  <1>1. 0 \in P
    BY DEF Results
  <1>2. ASSUME NEW k \in Nat, k \in P PROVE k + 1 \in P
    <2> SUFFICES ASSUME k + 1 <= n PROVE g[k + 1] = h[k + 1]
      OBVIOUS
    <2>1. g[k + 1] = Step(g[k], s[k + 1], wanted)
      BY DEF Results
    <2>2. h[k + 1] = Step(h[k], t[k + 1], wanted)
      BY DEF Results
    <2>3. g[k] = h[k] /\ s[k + 1] = t[k + 1]
      BY <1>2 DEF SameStart
    <2> QED
      BY <2>1, <2>2, <2>3
  <1>3. n \in P
    BY <1>1, <1>2, Induction
  <1> QED
    BY <1>3

LEMMA StepConcat ==
  ASSUME NEW wanted, NEW u \in Seq(wanted), NEW v \in Seq(wanted), NEW l
  PROVE  Step(u \o v, l, wanted) = u \o Step(v, l, wanted)
  <1>1. ASSUME l \in wanted PROVE Append(u \o v, l) = u \o Append(v, l)
    BY <1>1
  <1> QED
    BY <1>1 DEF Step

LEMMA OnlyIsResult ==
  ASSUME NEW file, NEW wanted, Len(file) \in Nat
  PROVE  \E g : Results(g, file, wanted, Len(file)) /\ Only(file, wanted) = g[Len(file)]
  <1> DEFINE g == CHOOSE f : Results(f, file, wanted, Len(file))
  <1>1. Results(g, file, wanted, Len(file))
    BY ResultsExist
  <1>2. Only(file, wanted) = g[Len(file)]
    BY DEF Only, Results, Step
  <1> QED
    BY <1>1, <1>2

LEMMA OnlyEmpty == \A wanted : Only(<<>>, wanted) = <<>>
  <1> TAKE wanted
  <1>1. Len(<<>>) = 0
    OBVIOUS
  <1>2. PICK g : Results(g, <<>>, wanted, 0) /\ Only(<<>>, wanted) = g[0]
    BY <1>1, OnlyIsResult
  <1> QED
    BY <1>2 DEF Results

LEMMA OnlyAppend ==
  ASSUME NEW X, NEW file \in Seq(X), NEW l \in X, NEW wanted
  PROVE  Only(Append(file, l), wanted) = Step(Only(file, wanted), l, wanted)
  <1> DEFINE longer == Append(file, l)
             n == Len(file)
  <1>1. /\ longer \in Seq(X) /\ Len(longer) = n + 1 /\ longer[n + 1] = l
        /\ \A i \in 1 .. n : longer[i] = file[i]
        /\ n \in Nat
    OBVIOUS
  <1> HIDE DEF longer, n
  <1>2. PICK g : Results(g, file, wanted, n) /\ Only(file, wanted) = g[n]
    BY <1>1, OnlyIsResult DEF n
  <1>3. PICK h : Results(h, longer, wanted, n + 1) /\ Only(longer, wanted) = h[n + 1]
    BY <1>1, OnlyIsResult
  <1>4. g[n] = h[n]
    <2>1. SameStart(file, longer, n)
      BY <1>1 DEF SameStart
    <2> QED
      BY <1>1, <1>2, <1>3, <2>1, ResultsUnique
  <1>5. h[n + 1] = Step(h[n], l, wanted)
    <2>1. n + 1 \in 0 .. n + 1 /\ n + 1 # 0 /\ (n + 1) - 1 = n
      BY <1>1
    <2> QED
      BY <1>1, <1>3, <2>1 DEF Results
  <1> QED
    BY <1>2, <1>3, <1>4, <1>5 DEF longer

\* Induction over files: the empty one, and one more line at the end.
LEMMA FileInduction ==
  ASSUME NEW X, NEW T,
         <<>> \in T, \A file \in Seq(X), l \in X : file \in T => Append(file, l) \in T
  PROVE  Seq(X) \subseteq T
  <1> DEFINE P == {n \in Nat : \A s \in Seq(X) : Len(s) = n => s \in T}
  <1>1. 0 \in P
    <2>1. \A s \in Seq(X) : Len(s) = 0 => s = <<>>
      OBVIOUS
    <2> QED
      BY <2>1
  <1>2. ASSUME NEW n \in Nat, n \in P PROVE n + 1 \in P
    <2>1. ASSUME NEW s \in Seq(X), Len(s) = n + 1 PROVE s \in T
      <3> DEFINE front == SubSeq(s, 1, n)
                 t == Append(front, s[n + 1])
      <3>1. s[n + 1] \in X
        BY <2>1
      <3>2. front \in Seq(X) /\ Len(front) = n /\ \A i \in 1 .. n : front[i] = s[i]
        BY <2>1
      <3> HIDE DEF front
      <3>3. t \in Seq(X) /\ Len(t) = n + 1 /\ \A i \in 1 .. n + 1 : t[i] = s[i]
        BY <3>1, <3>2
      <3>4. t \in T
        BY <1>2, <3>1, <3>2
      <3> HIDE DEF t
      <3>5. t = s
        BY <2>1, <3>3, SeqEqual
      <3> QED
        BY <3>4, <3>5
    <2> QED
      BY <2>1
  <1> HIDE DEF P
  <1>3. Nat \subseteq P
    BY <1>1, <1>2, Induction
  <1> QED
    BY <1>3 DEF P

LEMMA OnlyType ==
  ASSUME NEW X, NEW file \in Seq(X), NEW wanted
  PROVE  Only(file, wanted) \in Seq(wanted)
  <1> DEFINE T == {s \in Seq(X) : Only(s, wanted) \in Seq(wanted)}
  <1>1. <<>> \in T
    <2>1. <<>> \in Seq(X) /\ <<>> \in Seq(wanted)
      OBVIOUS
    <2> QED
      BY <2>1, OnlyEmpty
  <1>2. ASSUME NEW s \in Seq(X), NEW l \in X, s \in T PROVE Append(s, l) \in T
    <2>1. Only(Append(s, l), wanted) = Step(Only(s, wanted), l, wanted)
      BY OnlyAppend
    <2> DEFINE k == Only(s, wanted)
    <2>2. k \in Seq(wanted)
      BY <1>2
    <2> HIDE DEF k
    <2>3. Step(k, l, wanted) \in Seq(wanted)
      BY <2>2 DEF Step
    <2>4. Append(s, l) \in Seq(X)
      OBVIOUS
    <2> QED
      BY <2>1, <2>3, <2>4 DEF k
  <1> HIDE DEF T
  <1>3. Seq(X) \subseteq T
    BY <1>1, <1>2, FileInduction
  <1> QED
    BY <1>3 DEF T

LEMMA OnlyConcat ==
  ASSUME NEW X, NEW file \in Seq(X), NEW rest \in Seq(X), NEW wanted
  PROVE  Only(file \o rest, wanted) = Only(file, wanted) \o Only(rest, wanted)
  <1> DEFINE kept == Only(file, wanted)
             T == {s \in Seq(X) : Only(file \o s, wanted) = kept \o Only(s, wanted)}
  <1>1. kept \in Seq(wanted)
    BY OnlyType
  <1> HIDE DEF kept
  <1>2. <<>> \in T
    <2>1. file \o <<>> = file /\ kept \o <<>> = kept /\ <<>> \in Seq(X)
      BY <1>1
    <2>2. Only(<<>>, wanted) = <<>>
      BY OnlyEmpty
    <2>3. Only(file \o <<>>, wanted) = kept \o Only(<<>>, wanted)
      BY <2>1, <2>2 DEF kept
    <2> QED
      BY <2>1, <2>3
  <1>3. ASSUME NEW s \in Seq(X), NEW l \in X, s \in T PROVE Append(s, l) \in T
    <2>1. file \o Append(s, l) = Append(file \o s, l) /\ file \o s \in Seq(X)
      OBVIOUS
    <2>2. Only(file \o Append(s, l), wanted) = Step(Only(file \o s, wanted), l, wanted)
      BY <2>1, OnlyAppend
    <2>3. Only(Append(s, l), wanted) = Step(Only(s, wanted), l, wanted)
      BY OnlyAppend
    <2>4. Only(s, wanted) \in Seq(wanted)
      BY OnlyType
    <2>5. Only(file \o s, wanted) = kept \o Only(s, wanted)
      BY <1>3
    <2>7. Step(kept \o Only(s, wanted), l, wanted) = kept \o Step(Only(s, wanted), l, wanted)
      BY <1>1, <2>4, StepConcat
    <2>8. Append(s, l) \in Seq(X)
      OBVIOUS
    <2> QED
      BY <2>2, <2>3, <2>5, <2>7, <2>8
  <1> HIDE DEF T
  <1>4. Seq(X) \subseteq T
    BY <1>2, <1>3, FileInduction
  <1> QED
    BY <1>4 DEF T, kept

\* A file of wanted lines is kept as it is, ...
LEMMA OnlyWanted ==
  ASSUME NEW wanted, NEW file \in Seq(wanted)
  PROVE  Only(file, wanted) = file
  <1> DEFINE T == {s \in Seq(wanted) : Only(s, wanted) = s}
  <1>1. <<>> \in T
    BY OnlyEmpty
  <1>2. ASSUME NEW s \in Seq(wanted), NEW l \in wanted, s \in T PROVE Append(s, l) \in T
    BY <1>2, OnlyAppend DEF Step
  <1> HIDE DEF T
  <1>3. Seq(wanted) \subseteq T
    BY <1>1, <1>2, FileInduction
  <1> QED
    BY <1>3 DEF T

\* ... and nothing of one that has none.
LEMMA OnlyUnwanted ==
  ASSUME NEW X, NEW file \in Seq(X), NEW wanted, X \cap wanted = {}
  PROVE  Only(file, wanted) = <<>>
  <1> DEFINE T == {s \in Seq(X) : Only(s, wanted) = <<>>}
  <1>1. <<>> \in T
    BY OnlyEmpty
  <1>2. ASSUME NEW s \in Seq(X), NEW l \in X, s \in T PROVE Append(s, l) \in T
    <2>1. l \notin wanted
      OBVIOUS
    <2>2. Only(Append(s, l), wanted) = Step(Only(s, wanted), l, wanted)
      BY OnlyAppend
    <2> QED
      BY <1>2, <2>1, <2>2 DEF Step
  <1> HIDE DEF T
  <1>3. Seq(X) \subseteq T
    BY <1>1, <1>2, FileInduction
  <1> QED
    BY <1>3 DEF T

-----------------------------------------------------------------------------
(***************************************************************************)
(* Where the markers stand.                                                *)
(***************************************************************************)
LEMMA LeastNumber ==
  ASSUME NEW S \in SUBSET Nat, S # {}
  PROVE  \E i \in S : \A j \in S : i <= j
  <1>1. \A p : p \in OpToRel(<, Nat) <=> p \in Nat \X Nat /\ p[1] < p[2]
    BY Zenon DEF OpToRel
  <1>2. PICK i \in S : \A j \in S : <<j, i>> \notin OpToRel(<, Nat)
    BY NatLessThanWellFounded, WFMin
  <1>3. ASSUME NEW j \in S PROVE i <= j
    <2>1. ~(j < i)
      BY <1>1, <1>2
    <2> QED
      BY <2>1
  <1> QED
    BY <1>3

\* The first line of a file that is l, 0 when there is none.
FirstIs(file, l, n) ==
  \/ n = 0 /\ \A i \in 1 .. Len(file) : file[i] # l
  \/ n \in 1 .. Len(file) /\ file[n] = l /\ \A i \in 1 .. n - 1 : file[i] # l

LEMMA LeastIsFirst ==
  ASSUME NEW file, Len(file) \in Nat, NEW l, NEW n,
         n = LET I == {i \in 1 .. Len(file) : file[i] = l}
             IN  IF I # {} THEN Min(I) ELSE 0
  PROVE  FirstIs(file, l, n)
  <1> DEFINE I == {i \in 1 .. Len(file) : file[i] = l}
  <1>1. CASE I = {}
    BY <1>1 DEF FirstIs
  <1>2. CASE I # {}
    <2>1. I \in SUBSET Nat
      OBVIOUS
    <2>2. \E i \in I : \A j \in I : i <= j
      BY <1>2, <2>1, LeastNumber
    <2>3. n \in I /\ \A j \in I : n <= j
      BY <1>2, <2>2 DEF Min
    <2>4. n \in 1 .. Len(file) /\ file[n] = l
      BY <2>3
    <2>5. ASSUME NEW i \in 1 .. n - 1, file[i] = l PROVE FALSE
      <3>1. i \in 1 .. Len(file) /\ ~(n <= i)
        BY <2>4
      <3>2. i \in I
        BY <2>5, <3>1
      <3> QED
        BY <2>3, <3>1, <3>2
    <2> QED
      BY <2>4, <2>5 DEF FirstIs
  <1> QED
    BY <1>1, <1>2

LEMMA FirstBegin ==
  \A file : Len(file) \in Nat => FirstIs(file, Begin, SelectInSeq(file, IsBegin))
  <1> SUFFICES ASSUME NEW file, Len(file) \in Nat
               PROVE  FirstIs(file, Begin, SelectInSeq(file, IsBegin))
    OBVIOUS
  <1>1. SelectInSeq(file, IsBegin) = LET I == {i \in 1 .. Len(file) : file[i] = Begin}
                                     IN  IF I # {} THEN Min(I) ELSE 0
    BY DEF SelectInSeq, IsBegin
  <1> QED
    BY <1>1, LeastIsFirst

LEMMA FirstEnd ==
  \A file : Len(file) \in Nat => FirstIs(file, End, SelectInSeq(file, IsEnd))
  <1> SUFFICES ASSUME NEW file, Len(file) \in Nat
               PROVE  FirstIs(file, End, SelectInSeq(file, IsEnd))
    OBVIOUS
  <1>1. SelectInSeq(file, IsEnd) = LET I == {i \in 1 .. Len(file) : file[i] = End}
                                   IN  IF I # {} THEN Min(I) ELSE 0
    BY DEF SelectInSeq, IsEnd
  <1> QED
    BY <1>1, LeastIsFirst

LEMMA FirstUnique ==
  ASSUME NEW file, NEW l, NEW m, NEW n, Len(file) \in Nat,
         FirstIs(file, l, m), FirstIs(file, l, n)
  PROVE  m = n
  BY DEF FirstIs

LEMMA StripDef ==
  ASSUME NEW file, Len(file) \in Nat
  PROVE  \E b, e : 
           /\ FirstIs(file, Begin, b) /\ FirstIs(file, End, e)
           /\ Strip(file) = IF b = 0 \/ e = 0 \/ e < b THEN file
                            ELSE SubSeq(file, 1, b - 1) \o SubSeq(file, e + 1, Len(file))
  BY FirstBegin, FirstEnd DEF Strip

LEMMA StripType ==
  ASSUME NEW X, NEW file \in Seq(X)
  PROVE  Strip(file) \in Seq(X)
  <1>1. PICK b, e : 
          /\ FirstIs(file, Begin, b) /\ FirstIs(file, End, e)
          /\ Strip(file) = IF b = 0 \/ e = 0 \/ e < b THEN file
                           ELSE SubSeq(file, 1, b - 1) \o SubSeq(file, e + 1, Len(file))
    <2>1. Len(file) \in Nat
      OBVIOUS
    <2> QED
      BY <2>1, StripDef
  <1>2. ASSUME b \in 1 .. Len(file), e \in 1 .. Len(file)
        PROVE  SubSeq(file, 1, b - 1) \in Seq(X) /\ SubSeq(file, e + 1, Len(file)) \in Seq(X)
    BY <1>2
  <1> QED
    BY <1>1, <1>2 DEF FirstIs

-----------------------------------------------------------------------------
(***************************************************************************)
(* Files with one block, and files whose begin marker is gone.             *)
(***************************************************************************)
Blocked(file, s) == \E u, v \in Seq(Lines) : file = u \o Block(s) \o v
OneBlock(file) == file \in Seq(Lines) \/ \E s \in Snapshots : Blocked(file, s)

\* An end marker stands before every begin marker: nothing is stripped any more.
EndFirst(file) ==
  \E i \in 1 .. Len(file) :
    file[i] = End /\ \A j \in 1 .. i - 1 : file[j] \notin {Begin, End}

LEMMA BlockType ==
  ASSUME NEW s \in Snapshots
  PROVE  /\ Block(s) \in Seq(Snapshots \cup {Begin, End}) /\ Block(s) \in FileContents
         /\ Len(Block(s)) \in 2 .. 3
         /\ Block(s)[1] = Begin /\ Block(s)[Len(Block(s))] = End
         /\ \A i \in 2 .. Len(Block(s)) - 1 : Block(s)[i] \in Snapshots
  <1> DEFINE X == Snapshots \cup {Begin, End}
             p == <<Begin>>
             q == IF s = EmptySnapshot THEN <<>> ELSE <<s>>
             r == <<End>>
  <1>1. p \in Seq(X) /\ Len(p) = 1 /\ p[1] = Begin
    OBVIOUS
  <1>2. q \in Seq(X) /\ Len(q) \in 0 .. 1 /\ \A i \in 1 .. Len(q) : q[i] = s
    <2>1. CASE s = EmptySnapshot
      <3>1. q = <<>>
        BY <2>1
      <3>2. <<>> \in Seq(X) /\ Len(<<>>) = 0
        OBVIOUS
      <3> QED
        BY <3>1, <3>2
    <2>2. CASE s # EmptySnapshot
      <3>1. q = <<s>>
        BY <2>2
      <3>2. <<s>> \in Seq(X) /\ Len(<<s>>) = 1 /\ <<s>>[1] = s
        OBVIOUS
      <3> HIDE DEF q
      <3>3. \A i \in 1 .. Len(q) : i = 1
        BY <3>1, <3>2
      <3> QED
        BY <3>1, <3>2, <3>3
    <2> QED
      BY <2>1, <2>2
  <1>3. r \in Seq(X) /\ Len(r) = 1 /\ r[1] = End
    OBVIOUS
  <1>4. Block(s) = (p \o q) \o r
    BY DEF Block
  <1>5. \A b \in Seq(X) : b \in FileContents
    BY DEF FileContents
  <1> HIDE DEF X, p, q, r
  <1>0. \A x, y \in Seq(X) :
          /\ x \o y \in Seq(X) /\ Len(x \o y) = Len(x) + Len(y)
          /\ \A i \in 1 .. Len(x) + Len(y) :
               (x \o y)[i] = IF i <= Len(x) THEN x[i] ELSE y[i - Len(x)]
    BY ConcatProperties
  <1> DEFINE pq == p \o q
             b == pq \o r
  <1>6. /\ pq \in Seq(X) /\ Len(pq) = 1 + Len(q) /\ pq[1] = Begin
        /\ \A i \in 2 .. Len(pq) : pq[i] = s
    <2>1. /\ pq \in Seq(X) /\ Len(pq) = Len(p) + Len(q)
          /\ \A i \in 1 .. Len(p) + Len(q) :
               pq[i] = IF i <= Len(p) THEN p[i] ELSE q[i - Len(p)]
      BY <1>0, <1>1, <1>2
    <2> HIDE DEF pq
    <2>2. Len(pq) = 1 + Len(q) /\ pq[1] = Begin
      BY <1>1, <1>2, <2>1
    <2>3. ASSUME NEW i \in 2 .. Len(pq) PROVE pq[i] = s
      <3>1. i - 1 \in 1 .. Len(q) /\ i \in 1 .. 1 + Len(q) /\ ~(i <= 1)
        BY <1>2, <2>2
      <3>2. pq[i] = q[i - 1]
        BY <1>1, <2>1, <3>1
      <3> QED
        BY <1>2, <3>1, <3>2
    <2> QED
      BY <2>1, <2>2, <2>3
  <1> HIDE DEF pq
  <1>7. /\ b \in Seq(X) /\ Len(b) = Len(pq) + 1 /\ b[Len(b)] = End
        /\ \A i \in 1 .. Len(pq) : b[i] = pq[i]
    BY <1>0, <1>2, <1>3, <1>6
  <1> HIDE DEF b
  <1>8. b[1] = Begin /\ Len(b) \in 2 .. 3 /\ \A i \in 2 .. Len(b) - 1 : b[i] = s
    BY <1>2, <1>6, <1>7
  <1>9. Block(s) = b
    BY <1>4 DEF b, pq
  <1> QED
    BY <1>5, <1>7, <1>8, <1>9 DEF X

\* The file is the block of s between the n lines of u and those of v; m is the
\* length of the block.
BlockAt(file, u, s, v, n, m) ==
  /\ file \in FileContents /\ n \in Nat /\ m \in 2 .. 3
  /\ Len(file) = n + m + Len(v)
  /\ \A i \in 1 .. n : file[i] \in Lines
  /\ file[n + 1] = Begin /\ file[n + m] = End
  /\ \A i \in n + 2 .. n + m - 1 : file[i] \in Snapshots
  /\ \A i \in n + m + 1 .. Len(file) : file[i] \in Lines
  /\ SubSeq(file, 1, n) = u
  /\ SubSeq(file, n + m + 1, Len(file)) = v
  /\ SubSeq(file, n + 1, n + m) = Block(s)

LEMMA BlockedFile ==
  ASSUME NEW u \in Seq(Lines), NEW v \in Seq(Lines), NEW s \in Snapshots,
         NEW file, NEW n, NEW m,
         file = u \o Block(s) \o v, n = Len(u), m = Len(Block(s))
  PROVE  BlockAt(file, u, s, v, n, m)
  <1> DEFINE b == Block(s)
  <1>1. /\ u \in FileContents /\ v \in FileContents /\ b \in FileContents
        /\ n \in Nat /\ Len(v) \in Nat /\ m \in 2 .. 3
        /\ b[1] = Begin /\ b[m] = End /\ \A i \in 2 .. m - 1 : b[i] \in Snapshots
    <2>1. u \in FileContents /\ v \in FileContents /\ n \in Nat /\ Len(v) \in Nat
      BY DEF FileContents
    <2> QED
      BY <2>1, BlockType
  <1> HIDE DEF b
  <1>2. file \in FileContents /\ Len(file) = n + m + Len(v)
    BY <1>1 DEF FileContents, b
  <1>3. \A i \in 1 .. n : file[i] = u[i]
    BY <1>1 DEF FileContents, b
  <1>4. \A i \in 1 .. m : file[n + i] = b[i]
    BY <1>1 DEF FileContents, b
  <1>5. \A i \in 1 .. Len(v) : file[n + m + i] = v[i]
    BY <1>1 DEF FileContents, b
  <1>6. \A i \in 1 .. n : file[i] \in Lines
    BY <1>3
  <1>7. file[n + 1] = Begin /\ file[n + m] = End
    <2>1. 1 \in 1 .. m /\ m \in 1 .. m
      BY <1>1
    <2> QED
      BY <1>1, <1>4, <2>1
  <1>8. ASSUME NEW i \in n + 2 .. n + m - 1 PROVE file[i] \in Snapshots
    <2>0. i - n \in 2 .. m - 1 /\ i = n + (i - n)
      BY <1>1
    <2>1. PICK j \in 2 .. m - 1 : i = n + j
      BY <2>0
    <2>2. j \in 1 .. m
      BY <1>1
    <2>3. file[n + j] = b[j]
      BY <1>4, <2>2
    <2>4. b[j] \in Snapshots
      BY <1>1
    <2> QED
      BY <2>1, <2>3, <2>4
  <1>9. ASSUME NEW i \in n + m + 1 .. Len(file) PROVE file[i] \in Lines
    <2>1. PICK j \in 1 .. Len(v) : i = n + m + j
      BY <1>1, <1>2
    <2>2. file[n + m + j] = v[j]
      BY <1>5
    <2>3. v[j] \in Lines
      OBVIOUS
    <2> QED
      BY <2>1, <2>2, <2>3
  <1>10. SubSeq(file, 1, n) = u
    BY <1>1, <1>2, <1>3 DEF FileContents
  <1>11. SubSeq(file, n + m + 1, Len(file)) = v
    BY <1>1, <1>2, <1>5 DEF FileContents
  <1>12. SubSeq(file, n + 1, n + m) = b
    <2> DEFINE w == SubSeq(file, n + 1, n + m)
    <2>1. w \in FileContents /\ Len(w) = m /\ \A i \in 1 .. m : w[i] = file[n + i]
      BY <1>1, <1>2 DEF FileContents
    <2> HIDE DEF w
    <2>2. \A i \in 1 .. m : w[i] = b[i]
      BY <1>4, <2>1
    <2>3. w = b
      BY <1>1, <2>1, <2>2, SeqEqual DEF b, FileContents
    <2> QED
      BY <2>3 DEF w
  <1> QED
    BY <1>1, <1>2, <1>6, <1>7, <1>8, <1>9, <1>10, <1>11, <1>12 DEF b, BlockAt

LEMMA StripPlain ==
  ASSUME NEW u \in Seq(Lines)
  PROVE  Strip(u) = u
  <1>1. Len(u) \in Nat /\ \A i \in 1 .. Len(u) : u[i] # Begin
    BY LinesAssumption
  <1>2. PICK b, e :
          /\ FirstIs(u, Begin, b) /\ FirstIs(u, End, e)
          /\ Strip(u) = IF b = 0 \/ e = 0 \/ e < b THEN u
                        ELSE SubSeq(u, 1, b - 1) \o SubSeq(u, e + 1, Len(u))
    BY <1>1, StripDef
  <1>3. b = 0
    BY <1>1, <1>2 DEF FirstIs
  <1> QED
    BY <1>2, <1>3

LEMMA StripBlocked ==
  ASSUME NEW u \in Seq(Lines), NEW v \in Seq(Lines), NEW s \in Snapshots
  PROVE  Strip(u \o Block(s) \o v) = u \o v
  <1>0. PICK file, n, m : file = u \o Block(s) \o v /\ n = Len(u) /\ m = Len(Block(s))
    OBVIOUS
  <1>1. /\ file \in FileContents /\ n \in Nat /\ m \in 2 .. 3
        /\ Len(file) = n + m + Len(v)
        /\ \A i \in 1 .. n : file[i] \in Lines
        /\ file[n + 1] = Begin /\ file[n + m] = End
        /\ \A i \in n + 2 .. n + m - 1 : file[i] \in Snapshots
        /\ SubSeq(file, 1, n) = u
        /\ SubSeq(file, n + m + 1, Len(file)) = v
    <2>1. BlockAt(file, u, s, v, n, m)
      BY <1>0, BlockedFile
    <2> QED
      BY <2>1 DEF BlockAt
  <1>2. Len(file) \in Nat /\ Len(v) \in Nat
    BY <1>1 DEF FileContents
  <1>3. PICK b, e :
          /\ FirstIs(file, Begin, b) /\ FirstIs(file, End, e)
          /\ Strip(file) = IF b = 0 \/ e = 0 \/ e < b THEN file
                           ELSE SubSeq(file, 1, b - 1) \o SubSeq(file, e + 1, Len(file))
    BY <1>2, StripDef
  <1>4. b = n + 1
    <2>1. FirstIs(file, Begin, n + 1)
      <3>1. n + 1 \in 1 .. Len(file)
        BY <1>1, <1>2
      <3>2. \A i \in 1 .. (n + 1) - 1 : file[i] # Begin
        BY <1>1, LinesAssumption
      <3> QED
        BY <1>1, <3>1, <3>2 DEF FirstIs
    <2> QED
      BY <1>2, <1>3, <2>1, FirstUnique
  <1>5. e = n + m
    <2>1. FirstIs(file, End, n + m)
      <3>1. n + m \in 1 .. Len(file)
        BY <1>1, <1>2
      <3>2. ASSUME NEW i \in 1 .. n + m - 1 PROVE file[i] # End
        <4>1. i \in 1 .. n \/ i = n + 1 \/ i \in n + 2 .. n + m - 1
          BY <1>1
        <4>2. file[i] \in Lines \/ file[i] = Begin \/ file[i] \in Snapshots
          BY <1>1, <4>1
        <4> QED
          BY <4>2, LinesAssumption
      <3> QED
        BY <1>1, <3>1, <3>2 DEF FirstIs
    <2> QED
      BY <1>2, <1>3, <2>1, FirstUnique
  <1>6. ~(b = 0 \/ e = 0 \/ e < b) /\ b - 1 = n
    BY <1>1, <1>4, <1>5
  <1>7. Strip(file) = u \o v
    BY <1>1, <1>3, <1>5, <1>6
  <1> QED
    BY <1>0, <1>7

LEMMA StripEndFirst ==
  ASSUME NEW file \in FileContents, EndFirst(file)
  PROVE  Strip(file) = file
  <1>1. PICK k \in 1 .. Len(file) :
          file[k] = End /\ \A j \in 1 .. k - 1 : file[j] \notin {Begin, End}
    BY DEF EndFirst
  <1>2. Len(file) \in Nat
    BY DEF FileContents
  <1>3. PICK b, e :
          /\ FirstIs(file, Begin, b) /\ FirstIs(file, End, e)
          /\ Strip(file) = IF b = 0 \/ e = 0 \/ e < b THEN file
                           ELSE SubSeq(file, 1, b - 1) \o SubSeq(file, e + 1, Len(file))
    BY <1>2, StripDef
  <1>4. e = k
    <2>1. FirstIs(file, End, k)
      BY <1>1 DEF FirstIs
    <2> QED
      BY <1>2, <1>3, <2>1, FirstUnique
  <1>5. b = 0 \/ k < b
    <2> SUFFICES ASSUME b \in 1 .. Len(file), b <= k PROVE FALSE
      BY <1>1, <1>2, <1>3 DEF FirstIs
    <2>1. file[b] = Begin
      BY <1>3 DEF FirstIs
    <2>2. b # k
      BY <1>1, <2>1, LinesAssumption
    <2> QED
      BY <1>1, <2>1, <2>2
  <1> QED
    BY <1>1, <1>3, <1>4, <1>5

-----------------------------------------------------------------------------
LEMMA PlainLines ==
  ASSUME NEW u \in Seq(Lines)
  PROVE  UserLines(u) = u /\ Managed(u) = <<>>
  <1>1. Only(u, Lines) = u
    BY OnlyWanted
  <1>2. Lines \cap (Snapshots \cup {Begin, End}) = {}
    BY LinesAssumption
  <1>3. Only(u, Snapshots \cup {Begin, End}) = <<>>
    BY <1>2, OnlyUnwanted
  <1> QED
    BY <1>1, <1>3 DEF UserLines, Managed

LEMMA BlockLines ==
  ASSUME NEW s \in Snapshots
  PROVE  UserLines(Block(s)) = <<>> /\ Managed(Block(s)) = Block(s)
  <1>1. Block(s) \in Seq(Snapshots \cup {Begin, End})
    BY BlockType
  <1>2. (Snapshots \cup {Begin, End}) \cap Lines = {}
    BY LinesAssumption
  <1>3. Only(Block(s), Lines) = <<>>
    BY <1>1, <1>2, OnlyUnwanted
  <1>4. Only(Block(s), Snapshots \cup {Begin, End}) = Block(s)
    BY <1>1, OnlyWanted
  <1> QED
    BY <1>3, <1>4 DEF UserLines, Managed

LEMMA ConcatLines ==
  ASSUME NEW f \in FileContents, NEW g \in FileContents
  PROVE  /\ f \o g \in FileContents
         /\ UserLines(f \o g) = UserLines(f) \o UserLines(g)
         /\ Managed(f \o g) = Managed(f) \o Managed(g)
  <1>1. PICK X : X = Lines \cup Snapshots \cup {Begin, End}
    OBVIOUS
  <1>2. f \in Seq(X) /\ g \in Seq(X)
    BY <1>1 DEF FileContents
  <1>3. f \o g \in FileContents
    BY <1>1, <1>2 DEF FileContents
  <1>4. Only(f \o g, Lines) = Only(f, Lines) \o Only(g, Lines)
    BY <1>2, OnlyConcat
  <1>5. Only(f \o g, Snapshots \cup {Begin, End})
          = Only(f, Snapshots \cup {Begin, End}) \o Only(g, Snapshots \cup {Begin, End})
    BY <1>2, OnlyConcat
  <1> QED
    BY <1>3, <1>4, <1>5 DEF UserLines, Managed

LEMMA BlockedLines ==
  ASSUME NEW u \in Seq(Lines), NEW v \in Seq(Lines), NEW s \in Snapshots
  PROVE  /\ UserLines(u \o Block(s) \o v) = u \o v
         /\ Managed(u \o Block(s) \o v) = Block(s)
  <1>1. u \in FileContents /\ v \in FileContents /\ Block(s) \in FileContents
    BY BlockType DEF FileContents
  <1>2. u \o Block(s) \in FileContents /\ UserLines(u \o Block(s)) = u /\ Managed(u \o Block(s)) = Block(s)
    <2>1. /\ u \o Block(s) \in FileContents
          /\ UserLines(u \o Block(s)) = UserLines(u) \o UserLines(Block(s))
          /\ Managed(u \o Block(s)) = Managed(u) \o Managed(Block(s))
      BY <1>1, ConcatLines
    <2>2. u \o <<>> = u /\ <<>> \o Block(s) = Block(s)
      BY <1>1 DEF FileContents
    <2> QED
      BY <2>1, <2>2, PlainLines, BlockLines
  <1>3. /\ UserLines((u \o Block(s)) \o v) = UserLines(u \o Block(s)) \o UserLines(v)
        /\ Managed((u \o Block(s)) \o v) = Managed(u \o Block(s)) \o Managed(v)
    BY <1>1, <1>2, ConcatLines
  <1>4. Block(s) \o <<>> = Block(s)
    BY <1>1 DEF FileContents
  <1> QED
    BY <1>2, <1>3, <1>4, PlainLines

LEMMA BlockAdded ==
  ASSUME NEW f \in FileContents, NEW s \in Snapshots
  PROVE  f \o Block(s) \in FileContents /\ UserLines(f \o Block(s)) = UserLines(f)
  <1>1. Block(s) \in FileContents
    BY BlockType
  <1>2. UserLines(f) \in Seq(Lines)
    BY OnlyType DEF UserLines, FileContents
  <1>3. UserLines(f) \o <<>> = UserLines(f)
    BY <1>2
  <1>4. /\ f \o Block(s) \in FileContents
        /\ UserLines(f \o Block(s)) = UserLines(f) \o UserLines(Block(s))
    BY <1>1, ConcatLines
  <1> QED
    BY <1>3, <1>4, BlockLines

Shape(file) == OneBlock(file) \/ EndFirst(file)

LEMMA StripOneBlock ==
  ASSUME NEW file, OneBlock(file)
  PROVE  Strip(file) \in Seq(Lines) /\ Strip(file) = UserLines(file)
  <1>1. CASE file \in Seq(Lines)
    BY <1>1, StripPlain, PlainLines
  <1>2. ASSUME NEW s \in Snapshots, Blocked(file, s)
        PROVE  Strip(file) \in Seq(Lines) /\ Strip(file) = UserLines(file)
    <2>1. PICK u, v \in Seq(Lines) : file = u \o Block(s) \o v
      BY <1>2 DEF Blocked
    <2>2. Strip(file) = u \o v
      BY <2>1, StripBlocked
    <2>3. UserLines(file) = u \o v
      BY <2>1, BlockedLines
    <2>4. u \o v \in Seq(Lines)
      OBVIOUS
    <2> QED
      BY <2>2, <2>3, <2>4
  <1> QED
    BY <1>1, <1>2 DEF OneBlock

\* What a sync makes of a file: the lines of others stay, and the shape.
LEMMA NewContent ==
  ASSUME NEW file \in FileContents, Shape(file), NEW s \in Snapshots
  PROVE  /\ UserLines(Strip(file) \o Block(s)) = UserLines(file)
         /\ Shape(Strip(file) \o Block(s))
         /\ OneBlock(file) => Blocked(Strip(file) \o Block(s), s)
  <1>1. CASE OneBlock(file)
    <2>1. PICK u \in Seq(Lines) : u = Strip(file) /\ u = UserLines(file)
      BY <1>1, StripOneBlock
    <2>2. <<>> \in Seq(Lines)
      OBVIOUS
    <2>3. (u \o Block(s)) \o <<>> = u \o Block(s) /\ u \o <<>> = u
      <3>1. u \in FileContents /\ Block(s) \in FileContents
        BY BlockType DEF FileContents
      <3> QED
        BY <3>1 DEF FileContents
    <2>4. Blocked(u \o Block(s), s)
      BY <2>2, <2>3 DEF Blocked
    <2>5. UserLines(u \o Block(s)) = u
      <3>1. u \in FileContents
        BY DEF FileContents
      <3> QED
        BY <3>1, BlockAdded, PlainLines
    <2> QED
      BY <2>1, <2>4, <2>5 DEF Shape, OneBlock
  <1>2. CASE EndFirst(file) /\ ~OneBlock(file)
    <2>1. Strip(file) = file
      BY <1>2, StripEndFirst
    <2>2. UserLines(file \o Block(s)) = UserLines(file)
      BY BlockAdded
    <2>3. EndFirst(file \o Block(s))
      <3>1. PICK i \in 1 .. Len(file) :
              file[i] = End /\ \A j \in 1 .. i - 1 : file[j] \notin {Begin, End}
        BY <1>2 DEF EndFirst
      <3>2. PICK b : b = Block(s) /\ b \in FileContents
        BY BlockType
      <3>3. Len(file \o b) = Len(file) + Len(b) /\ Len(file) \in Nat /\ Len(b) \in Nat
        BY <3>2 DEF FileContents
      <3>4. \A j \in 1 .. Len(file) : (file \o b)[j] = file[j]
        BY <3>2 DEF FileContents
      <3>5. i \in 1 .. Len(file \o b) /\ 1 .. i - 1 \subseteq 1 .. Len(file)
        BY <3>3
      <3> QED
        BY <3>1, <3>2, <3>4, <3>5 DEF EndFirst
    <2> QED
      BY <1>2, <2>1, <2>2, <2>3 DEF Shape
  <1> QED
    BY <1>1, <1>2 DEF Shape

\* Two equal sequences.  (An equation between \o terms is no goal the provers
\* instantiate a lemma for, a named predicate is.)
Same(f, g) == f = g

LEMMA ConcatFour ==
  ASSUME NEW f \in FileContents, NEW g \in FileContents, NEW h \in FileContents,
         NEW i \in FileContents
  PROVE  Same(((f \o g) \o h) \o i, f \o ((g \o h) \o i))
  <1>1. (f \o g) \o h = f \o (g \o h)
    BY DEF FileContents
  <1>2. g \o h \in FileContents
    BY DEF FileContents
  <1>3. (f \o (g \o h)) \o i = f \o ((g \o h) \o i)
    <2>1. PICK gh : gh = g \o h /\ gh \in FileContents
      BY <1>2
    <2>2. (f \o gh) \o i = f \o (gh \o i)
      BY <2>1 DEF FileContents
    <2> QED
      BY <2>1, <2>2
  <1> QED
    BY <1>1, <1>3 DEF Same

LEMMA ConcatAppend ==
  ASSUME NEW f \in FileContents, NEW g \in FileContents, NEW l \in Lines
  PROVE  Same(Append(f \o g, l), f \o Append(g, l))
  <1> DEFINE X == Lines \cup Snapshots \cup {Begin, End}
  <1>1. f \in Seq(X) /\ g \in Seq(X) /\ l \in X
    BY DEF FileContents
  <1> HIDE DEF X
  <1> QED
    BY <1>1 DEF Same

LEMMA LineBefore ==
  ASSUME NEW file \in FileContents, NEW l \in Lines
  PROVE  /\ <<l>> \o file \in FileContents
         /\ file \in Seq(Lines) => <<l>> \o file \in Seq(Lines)
         /\ \A s \in Snapshots : Blocked(file, s) => Blocked(<<l>> \o file, s)
         /\ EndFirst(file) => EndFirst(<<l>> \o file)
  <1>0. PICK p : p = <<l>> /\ p \in Seq(Lines) /\ Len(p) = 1 /\ p[1] = l
    <2>1. <<l>> \in Seq(Lines) /\ Len(<<l>>) = 1 /\ <<l>>[1] = l
      OBVIOUS
    <2> QED
      BY <2>1
  <1>1. p \o file \in FileContents
    BY <1>0 DEF FileContents
  <1>2. file \in Seq(Lines) => p \o file \in Seq(Lines)
    BY <1>0
  <1>3. ASSUME NEW s \in Snapshots, Blocked(file, s) PROVE Blocked(p \o file, s)
    <2>1. PICK u, v \in Seq(Lines) : file = u \o Block(s) \o v
      BY <1>3 DEF Blocked
    <2>2. PICK b : b = Block(s) /\ b \in FileContents
      BY BlockType
    <2>3. p \o u \in Seq(Lines)
      BY <1>0
    <2>4. Same(((p \o u) \o b) \o v, p \o ((u \o b) \o v))
      <3>1. p \in FileContents /\ u \in FileContents /\ v \in FileContents
        BY <1>0 DEF FileContents
      <3> QED
        BY <2>2, <3>1, ConcatFour
    <2> QED
      BY <2>1, <2>2, <2>3, <2>4 DEF Blocked, Same
  <1>4. ASSUME EndFirst(file) PROVE EndFirst(p \o file)
    <2>1. PICK i \in 1 .. Len(file) :
            file[i] = End /\ \A j \in 1 .. i - 1 : file[j] \notin {Begin, End}
      BY <1>4 DEF EndFirst
    <2>2. Len(p \o file) = 1 + Len(file) /\ Len(file) \in Nat
      BY <1>0 DEF FileContents
    <2>3. (p \o file)[1] = l /\ \A j \in 2 .. Len(file) + 1 : (p \o file)[j] = file[j - 1]
      BY <1>0 DEF FileContents
    <2>4. i + 1 \in 1 .. Len(p \o file) /\ (p \o file)[i + 1] = End
      BY <2>1, <2>2, <2>3
    <2>5. ASSUME NEW j \in 1 .. (i + 1) - 1 PROVE (p \o file)[j] \notin {Begin, End}
      <3>1. CASE j = 1
        BY <2>3, <3>1, LinesAssumption
      <3>2. CASE j # 1
        <4>1. j - 1 \in 1 .. i - 1 /\ j \in 2 .. Len(file) + 1
          BY <2>2, <3>2
        <4> QED
          BY <2>1, <2>3, <4>1
      <3> QED
        BY <3>1, <3>2
    <2> QED
      BY <2>4, <2>5 DEF EndFirst
  <1> QED
    BY <1>0, <1>1, <1>2, <1>3, <1>4

LEMMA LineAfter ==
  ASSUME NEW file \in FileContents, NEW l \in Lines
  PROVE  /\ Append(file, l) \in FileContents
         /\ file \in Seq(Lines) => Append(file, l) \in Seq(Lines)
         /\ \A s \in Snapshots : Blocked(file, s) => Blocked(Append(file, l), s)
         /\ EndFirst(file) => EndFirst(Append(file, l))
  <1>1. Append(file, l) \in FileContents
    BY DEF FileContents
  <1>2. file \in Seq(Lines) => Append(file, l) \in Seq(Lines)
    OBVIOUS
  <1>3. ASSUME NEW s \in Snapshots, Blocked(file, s) PROVE Blocked(Append(file, l), s)
    <2>1. PICK u, v \in Seq(Lines) : file = u \o Block(s) \o v
      BY <1>3 DEF Blocked
    <2>2. PICK b : b = u \o Block(s) /\ b \in FileContents
      <3>1. u \in FileContents /\ Block(s) \in FileContents
        BY BlockType DEF FileContents
      <3> QED
        BY <3>1, ConcatLines
    <2>3. Append(v, l) \in Seq(Lines)
      OBVIOUS
    <2>4. Same(Append(b \o v, l), b \o Append(v, l))
      <3>1. v \in FileContents
        BY DEF FileContents
      <3> QED
        BY <2>2, <3>1, ConcatAppend
    <2> QED
      BY <2>1, <2>2, <2>3, <2>4 DEF Blocked, Same
  <1>4. ASSUME EndFirst(file) PROVE EndFirst(Append(file, l))
    <2>1. PICK i \in 1 .. Len(file) :
            file[i] = End /\ \A j \in 1 .. i - 1 : file[j] \notin {Begin, End}
      BY <1>4 DEF EndFirst
    <2>2. Len(Append(file, l)) = Len(file) + 1 /\ Len(file) \in Nat
      BY DEF FileContents
    <2>3. \A j \in 1 .. Len(file) : Append(file, l)[j] = file[j]
      BY DEF FileContents
    <2>4. i \in 1 .. Len(Append(file, l)) /\ 1 .. i - 1 \subseteq 1 .. Len(file)
      BY <2>2
    <2> QED
      BY <2>1, <2>3, <2>4 DEF EndFirst
  <1> QED
    BY <1>1, <1>2, <1>3, <1>4

LEMMA RemoveAtProperties ==
  ASSUME NEW file \in FileContents, NEW i \in 1 .. Len(file)
  PROVE  /\ RemoveAt(file, i) \in FileContents
         /\ Len(RemoveAt(file, i)) = Len(file) - 1
         /\ \A j \in 1 .. Len(file) - 1 :
              RemoveAt(file, i)[j] = file[IF j < i THEN j ELSE j + 1]
  <1> DEFINE a == SubSeq(file, 1, i - 1)
             b == SubSeq(file, i + 1, Len(file))
  <1>1. /\ a \in FileContents /\ Len(a) = i - 1 /\ \A j \in 1 .. i - 1 : a[j] = file[j]
        /\ Len(file) \in Nat
    BY DEF FileContents
  <1>2. /\ b \in FileContents /\ Len(b) = Len(file) - i
        /\ \A j \in 1 .. Len(file) - i : b[j] = file[j + i]
    BY DEF FileContents
  <1> HIDE DEF a, b
  <1>3. a \o b \in FileContents /\ Len(a \o b) = Len(file) - 1
    <2>1. a \o b \in FileContents /\ Len(a \o b) = Len(a) + Len(b)
      BY <1>1, <1>2, ConcatProperties DEF FileContents
    <2> QED
      BY <1>1, <1>2, <2>1
  <1>4. ASSUME NEW j \in 1 .. Len(file) - 1
        PROVE  (a \o b)[j] = file[IF j < i THEN j ELSE j + 1]
    <2>1. (a \o b)[j] = IF j <= Len(a) THEN a[j] ELSE b[j - Len(a)]
      BY <1>1, <1>2, ConcatProperties DEF FileContents
    <2>2. CASE j < i
      BY <1>1, <2>1, <2>2
    <2>3. CASE ~(j < i)
      <3>1. j - Len(a) \in 1 .. Len(file) - i /\ j - Len(a) + i = j + 1
        BY <1>1, <2>3
      <3> QED
        BY <1>1, <1>2, <2>1, <2>3, <3>1
    <2> QED
      BY <2>2, <2>3
  <1> QED
    BY <1>3, <1>4 DEF RemoveAt, a, b

\* Without the begin marker of its one block, the end marker comes first.
LEMMA BeginRemoved ==
  ASSUME NEW file \in FileContents, OneBlock(file), NEW k \in 1 .. Len(file), file[k] = Begin
  PROVE  EndFirst(RemoveAt(file, k))
  <1>1. PICK s \in Snapshots : Blocked(file, s)
    <2>1. file \notin Seq(Lines)
      BY LinesAssumption
    <2> QED
      BY <2>1 DEF OneBlock
  <1>2. PICK u, v \in Seq(Lines) : file = u \o Block(s) \o v
    BY <1>1 DEF Blocked
  <1>3. PICK n, m : n = Len(u) /\ m = Len(Block(s))
    OBVIOUS
  <1>4. BlockAt(file, u, s, v, n, m)
    BY <1>2, <1>3, BlockedFile
  <1>5. /\ n \in Nat /\ m \in 2 .. 3 /\ Len(file) = n + m + Len(v) /\ Len(v) \in Nat
        /\ \A i \in 1 .. n : file[i] \in Lines
        /\ file[n + m] = End
        /\ \A i \in n + 2 .. n + m - 1 : file[i] \in Snapshots
        /\ \A i \in n + m + 1 .. Len(file) : file[i] \in Lines
    BY <1>4 DEF BlockAt
  <1>6. k = n + 1
    <2>1. k \in 1 .. n \/ k = n + 1 \/ k \in n + 2 .. n + m - 1 \/ k = n + m
            \/ k \in n + m + 1 .. Len(file)
      BY <1>5
    <2>2. k \notin 1 .. n /\ k \notin n + 2 .. n + m - 1 /\ k # n + m
            /\ k \notin n + m + 1 .. Len(file)
      BY <1>5, LinesAssumption
    <2> QED
      BY <2>1, <2>2
  <1>7. PICK g : g = RemoveAt(file, k)
    OBVIOUS
  <1>8. /\ Len(g) = Len(file) - 1
        /\ \A j \in 1 .. Len(file) - 1 : g[j] = file[IF j < k THEN j ELSE j + 1]
    BY <1>7, RemoveAtProperties
  <1>9. n + m - 1 \in 1 .. Len(g) /\ g[n + m - 1] = End
    <2>1. n + m - 1 \in 1 .. Len(file) - 1 /\ ~(n + m - 1 < k) /\ (n + m - 1) + 1 = n + m
      BY <1>5, <1>6
    <2> QED
      BY <1>5, <1>8, <2>1
  <1>10. ASSUME NEW j \in 1 .. (n + m - 1) - 1 PROVE g[j] \notin {Begin, End}
    <2>1. j \in 1 .. Len(file) - 1
      BY <1>5
    <2>2. CASE j < k
      <3>1. j \in 1 .. n /\ g[j] = file[j]
        BY <1>5, <1>6, <1>8, <2>1, <2>2
      <3> QED
        BY <1>5, <3>1, LinesAssumption
    <2>3. CASE ~(j < k)
      <3>1. j + 1 \in n + 2 .. n + m - 1 /\ g[j] = file[j + 1]
        BY <1>5, <1>6, <1>8, <2>1, <2>3
      <3> QED
        BY <1>5, <3>1, LinesAssumption
    <2> QED
      BY <2>2, <2>3
  <1> QED
    BY <1>7, <1>9, <1>10 DEF EndFirst

(***************************************************************************)
(* The inductive invariant.                                                *)
(***************************************************************************)

\* /etc/hosts: as long as both markers were left alone it has at most one block,
\* with the end marker left alone it is a file that a sync can handle; and the lines
\* of others are in it.
HostsInv ==
  /\ removed = {} => OneBlock(hosts)
  /\ End \notin removed => Shape(hosts)
  /\ End \notin removed /\ ~raced => UserLines(hosts) = users

\* The same of what a sync is about to put there.
ContentInv ==
  pc \in {"write", "rename"} =>
    /\ removed = {} => Blocked(content, entries)
    /\ End \notin removed => Shape(content)
    /\ End \notin removed /\ ~raced => UserLines(content) = users
TmpInv == pc = "rename" => tmp = content

\* The recorded hash is that of the block, if there are both.
HashInv ==
  removed = {} =>
    /\ pc = "record" => Blocked(hosts, entries)
    /\ \/ hosts \in Seq(Lines)
       \/ pc = "record"
       \/ \E s \in Snapshots : Blocked(hosts, s) /\ lastHash \in {s, NoHash}

IInv == TypeOK /\ HostsInv /\ ContentInv /\ TmpInv /\ HashInv

-----------------------------------------------------------------------------
LEMMA InitInv == Init => IInv
  <1> SUFFICES ASSUME Init PROVE IInv
    OBVIOUS
  <1> USE LinesAssumption DEF Init
  <1>1. /\ hosts \in Seq(Lines) /\ hosts \in FileContents /\ <<>> \in FileContents
        /\ users = hosts
    <2>1. <<FirstLine>> \in Seq(Lines) /\ <<FirstLine>> \in FileContents
      BY DEF FileContents
    <2>2. <<>> \in Seq(Lines)
      OBVIOUS
    <2>3. <<>> \in FileContents
      BY DEF FileContents
    <2> QED
      BY <2>1, <2>2, <2>3
  <1>2. TypeOK
    <2>1. changes \in 0 .. MaxChanges /\ restarts \in 0 .. MaxRestarts
      BY BoundsAssumption
    <2> QED
      BY <1>1, <2>1 DEF TypeOK
  <1>3. UserLines(hosts) = users /\ OneBlock(hosts)
    BY <1>1, PlainLines DEF OneBlock
  <1>4. HostsInv
    BY <1>3 DEF HostsInv, Shape
  <1>5. ContentInv /\ TmpInv /\ HashInv
    BY <1>1 DEF ContentInv, TmpInv, HashInv
  <1> QED
    BY <1>2, <1>4, <1>5 DEF IInv

LEMMA TypeStep ==
  ASSUME TypeOK, TmpInv, [Next]_vars
  PROVE  TypeOK'
  <1> USE LinesAssumption, BoundsAssumption DEF TypeOK
  <1>1. <<>> \in FileContents
    BY DEF FileContents
  <1>2. CASE MaybeSync
    BY <1>2 DEF MaybeSync, adminVars, historyVars
  <1>3. CASE GetSnapshot
    BY <1>1, <1>3 DEF GetSnapshot, Return, adminVars, historyVars
  <1>4. CASE ReadHosts
    <2>1. Strip(hosts) \in FileContents
      BY StripType DEF FileContents
    <2>2. Strip(hosts) \o Block(entries) \in FileContents
      BY <2>1, BlockAdded
    <2> QED
      BY <1>4, <2>2 DEF ReadHosts, adminVars, historyVars
  <1>5. CASE WriteTemporary
    BY <1>5 DEF WriteTemporary, adminVars, historyVars
  <1>6. CASE Rename
    BY <1>6 DEF Rename, TmpInv, adminVars, historyVars
  <1>7. CASE RecordHash
    BY <1>1, <1>7 DEF RecordHash, Return, adminVars, historyVars
  <1>8. CASE SyncFails
    BY <1>1, <1>8 DEF SyncFails, Return, adminVars, historyVars
  <1>9. CASE WriteFails
    BY <1>1, <1>9 DEF WriteFails, Return, adminVars, historyVars
  <1>10. CASE RenameFails
    BY <1>1, <1>10 DEF RenameFails, Return, adminVars, historyVars
  <1>11. CASE Restart
    BY <1>1, <1>11 DEF Restart, Return, historyVars
  <1>12. CASE IntervalPasses
    BY <1>12 DEF IntervalPasses, adminVars, historyVars
  <1>13. CASE AdminChanges
    BY <1>13 DEF AdminChanges, syncVars, historyVars
  <1>14. ASSUME NEW file \in FileContents, Edit(file),
                removed' = removed \/ \E l \in {Begin, End} : removed' = removed \cup {l}
         PROVE  TypeOK'
    <2>1. UserLines(file) \in Seq(Lines)
      BY OnlyType DEF UserLines, FileContents
    <2>2. raced' \in BOOLEAN
      BY <1>14 DEF Edit
    <2>3. removed' \subseteq {Begin, End}
      BY <1>14
    <2> QED
      BY <1>14, <2>1, <2>2, <2>3 DEF Edit, adminVars, syncVars
  <1>15. CASE AddLine
    <2>1. PICK l \in Lines : Edit(<<l>> \o hosts) \/ Edit(Append(hosts, l))
      BY <1>15 DEF AddLine
    <2>2. <<l>> \o hosts \in FileContents /\ Append(hosts, l) \in FileContents
      BY LineBefore, LineAfter
    <2>3. removed' = removed
      BY <1>15 DEF AddLine
    <2> QED
      BY <1>14, <2>1, <2>2, <2>3
  <1>16. CASE RemoveMarker
    <2>1. PICK i \in 1 .. Len(hosts) :
            /\ hosts[i] \in {Begin, End} /\ removed' = removed \cup {hosts[i]}
            /\ Edit(RemoveAt(hosts, i))
      BY <1>16 DEF RemoveMarker
    <2>2. RemoveAt(hosts, i) \in FileContents
      BY RemoveAtProperties
    <2> QED
      BY <1>14, <2>1, <2>2
  <1>17. CASE UNCHANGED vars
    BY <1>17 DEF vars, adminVars, syncVars, historyVars
  <1> QED
    BY <1>2, <1>3, <1>4, <1>5, <1>6, <1>7, <1>8, <1>9, <1>10, <1>11, <1>12, <1>13, <1>15,
       <1>16, <1>17 DEF Next, Sync

FilesInv == HostsInv /\ ContentInv /\ TmpInv /\ HashInv

\* A step that leaves /etc/hosts alone and ends without anything to write.
Quiet ==
  /\ hosts' = hosts /\ users' = users /\ removed' = removed /\ raced' = raced
  /\ pc' \notin {"write", "rename", "record"}
  /\ \/ pc # "record" /\ lastHash' = lastHash
     \/ lastHash' = NoHash

LEMMA QuietStep ==
  ASSUME TypeOK, FilesInv, Quiet
  PROVE  FilesInv'
  <1> USE DEF Quiet
  <1>1. HostsInv'
    BY DEF FilesInv, HostsInv
  <1>2. ContentInv' /\ TmpInv'
    BY DEF ContentInv, TmpInv
  <1>3. HashInv'
    <2> SUFFICES ASSUME removed = {}
                 PROVE  \/ hosts \in Seq(Lines)
                        \/ \E s \in Snapshots : Blocked(hosts, s) /\ lastHash' \in {s, NoHash}
      BY DEF HashInv
    <2>1. CASE pc = "record"
      BY <2>1 DEF FilesInv, HashInv, TypeOK
    <2>2. CASE pc # "record"
      BY <2>2 DEF FilesInv, HashInv
    <2> QED
      BY <2>1, <2>2
  <1> QED
    BY <1>1, <1>2, <1>3 DEF FilesInv

\* Somebody else's edit: what becomes of the file decides.
LEMMA EditStep ==
  ASSUME TypeOK, FilesInv, NEW file, Edit(file), removed \subseteq removed',
         removed' = {} => /\ OneBlock(file)
                          /\ hosts \in Seq(Lines) => file \in Seq(Lines)
                          /\ \A s \in Snapshots : Blocked(hosts, s) => Blocked(file, s),
         End \notin removed' => Shape(file)
  PROVE  FilesInv'
  <1>1. /\ hosts' = file /\ users' = UserLines(file)
        /\ tmp' = tmp /\ pc' = pc /\ entries' = entries /\ content' = content
        /\ lastHash' = lastHash
        /\ ~raced' => ~raced /\ pc \notin {"write", "rename"}
    BY DEF Edit, syncVars
  <1>2. HostsInv'
    BY <1>1 DEF HostsInv
  <1>3. ContentInv'
    BY <1>1 DEF FilesInv, ContentInv
  <1>4. TmpInv'
    BY <1>1 DEF FilesInv, TmpInv
  <1>5. HashInv'
    <2> SUFFICES ASSUME removed' = {}
                 PROVE  /\ pc = "record" => Blocked(file, entries)
                        /\ \/ file \in Seq(Lines)
                           \/ pc = "record"
                           \/ \E s \in Snapshots :
                                Blocked(file, s) /\ lastHash \in {s, NoHash}
      BY <1>1 DEF HashInv
    <2>1. removed = {}
      OBVIOUS
    <2>2. entries \in Snapshots
      BY DEF TypeOK
    <2> QED
      BY <2>1, <2>2 DEF FilesInv, HashInv
  <1> QED
    BY <1>2, <1>3, <1>4, <1>5 DEF FilesInv

LEMMA FilesStep ==
  ASSUME TypeOK, FilesInv, [Next]_vars
  PROVE  FilesInv'
  <1>1. CASE MaybeSync
    <2>1. Quiet
      BY <1>1 DEF MaybeSync, historyVars, Quiet
    <2> QED
      BY <2>1, QuietStep
  <1>2. CASE GetSnapshot
    <2>1. Quiet
      BY <1>2 DEF GetSnapshot, Return, historyVars, Quiet
    <2> QED
      BY <2>1, QuietStep
  <1>3. CASE ReadHosts
    <2>1. /\ pc' = "write" /\ content' = Strip(hosts) \o Block(entries)
          /\ hosts' = hosts /\ entries' = entries /\ lastHash' = lastHash /\ pc = "read"
          /\ users' = users /\ removed' = removed /\ raced' = raced
      BY <1>3 DEF ReadHosts, historyVars
    <2>2. HostsInv'
      BY <2>1 DEF FilesInv, HostsInv
    <2>3. ContentInv'
      <3>1. ASSUME Shape(hosts)
            PROVE  /\ UserLines(content') = UserLines(hosts)
                   /\ Shape(content')
                   /\ OneBlock(hosts) => Blocked(content', entries)
        BY <2>1, <3>1, NewContent DEF TypeOK
      <3>2. removed = {} => Shape(hosts) /\ OneBlock(hosts)
        BY DEF FilesInv, HostsInv, Shape
      <3>3. End \notin removed => Shape(hosts)
        BY DEF FilesInv, HostsInv
      <3>4. End \notin removed /\ ~raced => UserLines(hosts) = users
        BY DEF FilesInv, HostsInv
      <3> QED
        BY <2>1, <3>1, <3>2, <3>3, <3>4 DEF ContentInv
    <2>4. TmpInv' /\ HashInv'
      BY <2>1 DEF FilesInv, TmpInv, HashInv
    <2> QED
      BY <2>2, <2>3, <2>4 DEF FilesInv
  <1>4. CASE WriteTemporary
    <2>1. /\ pc = "write" /\ pc' = "rename" /\ tmp' = content /\ content' = content
          /\ hosts' = hosts /\ entries' = entries /\ lastHash' = lastHash
          /\ users' = users /\ removed' = removed /\ raced' = raced
      BY <1>4 DEF WriteTemporary, historyVars
    <2>2. HostsInv'
      BY <2>1 DEF FilesInv, HostsInv
    <2>3. ContentInv'
      BY <2>1 DEF FilesInv, ContentInv
    <2>4. TmpInv' /\ HashInv'
      BY <2>1 DEF FilesInv, TmpInv, HashInv
    <2> QED
      BY <2>2, <2>3, <2>4 DEF FilesInv
  <1>5. CASE Rename
    <2>1. /\ pc = "rename" /\ pc' = "record" /\ hosts' = tmp /\ entries' = entries
          /\ users' = users /\ removed' = removed /\ raced' = raced
      BY <1>5 DEF Rename, historyVars
    <2>2. hosts' = content
      BY <2>1 DEF FilesInv, TmpInv
    <2>3. /\ removed = {} => Blocked(content, entries)
          /\ End \notin removed => Shape(content)
          /\ End \notin removed /\ ~raced => UserLines(content) = users
      BY <2>1 DEF FilesInv, ContentInv
    <2>4. entries \in Snapshots
      BY DEF TypeOK
    <2>5. HostsInv'
      BY <2>1, <2>2, <2>3, <2>4 DEF HostsInv, OneBlock
    <2>6. ContentInv' /\ TmpInv'
      BY <2>1 DEF ContentInv, TmpInv
    <2>7. HashInv'
      BY <2>1, <2>2, <2>3 DEF HashInv
    <2> QED
      BY <2>5, <2>6, <2>7 DEF FilesInv
  <1>6. CASE RecordHash
    <2>1. /\ pc = "record" /\ pc' = "idle" /\ lastHash' = entries /\ hosts' = hosts
          /\ users' = users /\ removed' = removed /\ raced' = raced
      BY <1>6 DEF RecordHash, Return, historyVars
    <2>2. HostsInv'
      BY <2>1 DEF FilesInv, HostsInv
    <2>3. ContentInv' /\ TmpInv'
      BY <2>1 DEF ContentInv, TmpInv
    <2>4. HashInv'
      BY <2>1 DEF FilesInv, HashInv, TypeOK
    <2> QED
      BY <2>2, <2>3, <2>4 DEF FilesInv
  <1>7. CASE SyncFails
    <2>1. Quiet
      BY <1>7 DEF SyncFails, Return, historyVars, Quiet
    <2> QED
      BY <2>1, QuietStep
  <1>8. CASE WriteFails
    <2>1. Quiet
      BY <1>8 DEF WriteFails, Return, historyVars, Quiet
    <2> QED
      BY <2>1, QuietStep
  <1>9. CASE RenameFails
    <2>1. Quiet
      BY <1>9 DEF RenameFails, Return, historyVars, Quiet
    <2> QED
      BY <2>1, QuietStep
  <1>10. CASE Restart
    <2>1. Quiet
      BY <1>10 DEF Restart, Return, historyVars, Quiet
    <2> QED
      BY <2>1, QuietStep
  <1>11. CASE IntervalPasses
    <2>1. Quiet
      BY <1>11 DEF IntervalPasses, historyVars, Quiet
    <2> QED
      BY <2>1, QuietStep
  <1>12. ASSUME UNCHANGED <<hosts, tmp, syncVars, historyVars>> PROVE FilesInv'
    <2> USE <1>12 DEF syncVars, historyVars
    <2>1. HostsInv'
      BY DEF FilesInv, HostsInv
    <2>2. ContentInv'
      BY DEF FilesInv, ContentInv
    <2>3. TmpInv' /\ HashInv'
      BY DEF FilesInv, TmpInv, HashInv
    <2> QED
      BY <2>1, <2>2, <2>3 DEF FilesInv
  <1>13. CASE AdminChanges
    BY <1>12, <1>13 DEF AdminChanges
  <1>14. CASE AddLine
    <2>1. PICK l \in Lines : Edit(<<l>> \o hosts) \/ Edit(Append(hosts, l))
      BY <1>14 DEF AddLine
    <2>2. PICK file \in FileContents :
            /\ Edit(file)
            /\ hosts \in Seq(Lines) => file \in Seq(Lines)
            /\ \A s \in Snapshots : Blocked(hosts, s) => Blocked(file, s)
            /\ EndFirst(hosts) => EndFirst(file)
      BY <2>1, LineBefore, LineAfter DEF TypeOK
    <2>3. removed' = removed
      BY <1>14 DEF AddLine
    <2>4. OneBlock(hosts) => OneBlock(file)
      BY <2>2 DEF OneBlock
    <2>5. Shape(hosts) => Shape(file)
      BY <2>2, <2>4 DEF Shape
    <2> QED
      BY <2>2, <2>3, <2>4, <2>5, EditStep DEF FilesInv, HostsInv
  <1>15. CASE RemoveMarker
    <2>1. PICK i \in 1 .. Len(hosts) :
            /\ hosts[i] \in {Begin, End} \ removed /\ removed' = removed \cup {hosts[i]}
            /\ Edit(RemoveAt(hosts, i))
      BY <1>15 DEF RemoveMarker
    <2>2. ASSUME End \notin removed' PROVE Shape(RemoveAt(hosts, i))
      <3>1. hosts[i] = Begin /\ removed = {}
        BY <2>1, <2>2 DEF TypeOK
      <3>2. OneBlock(hosts)
        BY <3>1 DEF FilesInv, HostsInv
      <3> QED
        BY <3>1, <3>2, BeginRemoved DEF TypeOK, Shape
    <2>3. removed' # {} /\ removed \subseteq removed'
      BY <2>1
    <2> QED
      BY <2>1, <2>2, <2>3, EditStep
  <1>16. CASE UNCHANGED vars
    BY <1>12, <1>16 DEF vars
  <1> QED
    BY <1>1, <1>2, <1>3, <1>4, <1>5, <1>6, <1>7, <1>8, <1>9, <1>10, <1>11, <1>13, <1>14,
       <1>15, <1>16 DEF Next, Sync

-----------------------------------------------------------------------------
LEMMA Invariant == Spec => []IInv
  <1>1. IInv /\ [Next]_vars => IInv'
    BY TypeStep, FilesStep DEF IInv, FilesInv
  <1> QED
    BY <1>1, InitInv, PTL DEF Spec

\* /etc/hosts is always a whole file, whatever became of the temporary one.
THEOREM HostsTypeCorrect == Spec => []TypeOK
  <1>1. IInv => TypeOK
    BY DEF IInv
  <1> QED
    BY <1>1, Invariant, PTL

\* However syncs, failed writes, restarts, new snapshots and edits follow each other,
\* the lines of others stay what those made them, as long as the end marker is there
\* and nobody edits the file between a sync's read and its rename.
THEOREM HostsUserLinesKept == Spec => []UserLinesKept
  <1>1. IInv => UserLinesKept
    BY DEF IInv, HostsInv, UserLinesKept
  <1> QED
    BY <1>1, Invariant, PTL

\* While no marker is removed the file has one block, whole, and a recorded hash is
\* the hash of that block.
THEOREM HostsHashTellsBlock == Spec => []HashTellsBlock
  <1>1. ASSUME NEW s \in Snapshots, Blocked(hosts, s)
        PROVE  Managed(hosts) = Block(s) /\ HasBlock(s)
    <2>1. PICK u, v \in Seq(Lines) : hosts = u \o Block(s) \o v
      BY <1>1 DEF Blocked
    <2>2. Managed(hosts) = Block(s)
      BY <2>1, BlockedLines
    <2>3. PICK n, m : n = Len(u) /\ m = Len(Block(s))
      OBVIOUS
    <2>4. BlockAt(hosts, u, s, v, n, m)
      BY <2>1, <2>3, BlockedFile
    <2>5. /\ n \in 0 .. Len(hosts) /\ n + m \in 0 .. Len(hosts)
          /\ SubSeq(hosts, n + 1, n + m) = Block(s)
      <3>1. Len(v) \in Nat
        OBVIOUS
      <3> QED
        BY <2>4, <3>1 DEF BlockAt
    <2>6. Block(s) \in SubSeqs(hosts)
      BY <2>5 DEF SubSeqs
    <2> QED
      BY <2>2, <2>6 DEF HasBlock
  <1>2. ASSUME IInv, removed = {}, Managed(hosts) # <<>>
        PROVE  \E s \in Snapshots :
                 /\ Managed(hosts) = Block(s) /\ HasBlock(s)
                 /\ lastHash \in {s, NoHash} \/ pc = "record"
    <2>1. hosts \notin Seq(Lines)
      BY <1>2, PlainLines
    <2>2. PICK s \in Snapshots :
            Blocked(hosts, s) /\ (lastHash \in {s, NoHash} \/ pc = "record")
      <3>1. entries \in Snapshots
        BY <1>2 DEF IInv, TypeOK
      <3> QED
        BY <1>2, <2>1, <3>1 DEF IInv, HashInv
    <2> QED
      BY <1>1, <2>2
  <1>3. IInv => HashTellsBlock
    BY <1>2 DEF HashTellsBlock
  <1> QED
    BY <1>3, Invariant, PTL

=============================================================================
