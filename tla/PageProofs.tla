----------------------------- MODULE PageProofs -----------------------------
(***************************************************************************)
(* The settings page.  Every page it shows can be read back: what the form *)
(* says of it is what is shown, and what is typed into it is what is       *)
(* meant.  So a form that comes back is carried out as it was meant or not *)
(* at all: for any number of tabs, any configuration, networks and         *)
(* entries, and any length of the channel.  What a recursive function      *)
(* makes of a sequence is found by induction over its length, which here   *)
(* is an argument about the least counterexample (ByInduction), for sets   *)
(* and not for predicates.                                                 *)
(* What the page says of the OpenVPN tunnel and does to it: for any        *)
(* networks, other tunnels, requests and mishaps.                          *)
(***************************************************************************)
EXTENDS Page, SequenceTheorems, WellFoundedInduction, TLAPS

-----------------------------------------------------------------------------
(* Induction, on a set of numbers and on a set of sequences.               *)

\* A set with nought in it, and with every number the next, has all of them.
LEMMA ByInduction ==
  ASSUME NEW P, 0 \in P, \A n \in Nat : n \in P => n + 1 \in P
  PROVE  \A n \in Nat : n \in P
<1> DEFINE Bad == Nat \ P
<1>1. CASE Bad = {}
  BY <1>1
<1>2. CASE Bad # {}
  <2>1. Bad \in SUBSET Nat
    OBVIOUS
  <2> HIDE DEF Bad
  <2>2. PICK n \in Bad : \A m \in Bad : ~(<<m, n>> \in OpToRel(<, Nat))
    BY <1>2, <2>1, WFMin, NatLessThanWellFounded, Zenon
  <2>3. \A m \in Bad : ~(m < n)
    BY <2>1, <2>2 DEF OpToRel
  <2>4. n \in Nat /\ n \notin P /\ n # 0
    BY <2>2 DEF Bad
  <2>5. n - 1 \in Nat /\ n - 1 < n /\ (n - 1) + 1 = n
    BY <2>4
  <2>6. n - 1 \in P
    BY <2>3, <2>5 DEF Bad
  <2> QED BY <2>4, <2>5, <2>6
<1> QED BY <1>1, <1>2

\* A set of numbers has a least one.
LEMMA LeastOf ==
  ASSUME NEW S \in SUBSET Nat, S # {}
  PROVE  \E i \in S : \A j \in S : i <= j
<1>1. PICK i \in S : \A j \in S : ~(<<j, i>> \in OpToRel(<, Nat))
  BY WFMin, NatLessThanWellFounded, Zenon
<1>2. \A j \in S : ~(j < i)
  BY <1>1 DEF OpToRel
<1> QED BY <1>2

\* A sequence is empty or has a last element.
LEMMA BySequences ==
  ASSUME NEW A, NEW P, << >> \in P, \A s \in Seq(A), x \in A : s \in P => Append(s, x) \in P
  PROVE  \A s \in Seq(A) : s \in P
<1> DEFINE Q == {n \in Nat : \A s \in Seq(A) : Len(s) = n => s \in P}
<1>1. 0 \in Q
  <2>1. \A s \in Seq(A) : Len(s) = 0 => s = << >>
    BY EmptySeq
  <2> QED BY <2>1
<1>2. ASSUME NEW n \in Nat, n \in Q PROVE n + 1 \in Q
  <2> SUFFICES ASSUME NEW s \in Seq(A), Len(s) = n + 1 PROVE s \in P
    OBVIOUS
  <2>1. s # << >>
    BY EmptySeq
  <2>2. PICK r \in Seq(A), x \in A : s = Append(r, x)
    BY <2>1, SequenceEmptyOrAppend
  <2>3. Len(r) = n
    BY <2>2, AppendProperties, LenProperties
  <2> QED BY <1>2, <2>2, <2>3
<1>3. \A n \in Nat : n \in Q
  <2> HIDE DEF Q
  <2> QED BY <1>1, <1>2, ByInduction, Zenon
<1>4. \A s \in Seq(A) : Len(s) \in Nat
  BY LenProperties
<1> QED BY <1>3, <1>4

\* What is computed from left to right: a value for every beginning.
Iterates(V, N, b, step) == N \in Nat /\ b \in V /\ step \in [1 .. N -> [V -> V]]
Run(f, N, b, step) == f[0] = b /\ \A n \in 1 .. N : f[n] = step[n][f[n - 1]]

\* So many steps can be taken.
LEMMA Iterated ==
  ASSUME NEW V, NEW N, NEW b, NEW step, Iterates(V, N, b, step)
  PROVE  \E f : f \in [0 .. N -> V] /\ Run(f, N, b, step)
<1> DEFINE Good(f, m) == f \in [0 .. m -> V] /\ Run(f, m, b, step)
<1> DEFINE P == {m \in Nat : m <= N => \E f : Good(f, m)}
<1> USE DEF Iterates
<1>1. 0 \in P
  <2>1. Good([n \in 0 .. 0 |-> b], 0)
    BY DEF Run
  <2> QED BY <2>1
<1>2. ASSUME NEW m \in Nat, m \in P PROVE m + 1 \in P
  <2> SUFFICES ASSUME m + 1 <= N PROVE \E f : Good(f, m + 1)
    OBVIOUS
  <2>1. PICK f : Good(f, m)
    BY <1>2
  <2> DEFINE g == [n \in 0 .. m + 1 |-> IF n = m + 1 THEN step[m + 1][f[m]] ELSE f[n]]
  <2>2. step[m + 1][f[m]] \in V
    <3>1. f[m] \in V /\ m + 1 \in 1 .. N
      BY <2>1
    <3> QED BY <3>1
  <2>3. g \in [0 .. m + 1 -> V]
    BY <2>1, <2>2
  <2>4. g[0] = b
    BY <2>1 DEF Run
  <2>5. \A n \in 1 .. m + 1 : g[n] = step[n][g[n - 1]]
    <3> TAKE n \in 1 .. m + 1
    <3>1. CASE n = m + 1
      <4>1. g[n - 1] = f[m]
        BY <3>1
      <4> QED BY <3>1, <4>1
    <3>2. CASE n # m + 1
      <4>1. n \in 1 .. m /\ n - 1 \in 0 .. m
        BY <3>2
      <4>2. g[n] = f[n] /\ g[n - 1] = f[n - 1]
        BY <3>2, <4>1
      <4> QED BY <2>1, <4>1, <4>2 DEF Run
    <3> QED BY <3>1, <3>2
  <2> QED BY <2>3, <2>4, <2>5 DEF Run
<1>3. \A n \in Nat : n \in P
  <2> HIDE DEF P
  <2> QED BY <1>1, <1>2, ByInduction, Zenon
<1> QED BY <1>3

-----------------------------------------------------------------------------
(* Marked: the elements of a sequence that are meant.                      *)

\* The beginnings of what is marked.
Collects(f, s, marks) ==
  f = [n \in 0 .. Len(s) |->
        IF n = 0 THEN << >> ELSE IF marks[n] THEN Append(f[n - 1], s[n]) ELSE f[n - 1]]

Stepwise(f, s, marks) ==
  /\ f[0] = << >>
  /\ \A n \in 1 .. Len(s) : f[n] = IF marks[n] THEN Append(f[n - 1], s[n]) ELSE f[n - 1]

\* Marked counts its steps from nought.
LEMMA CollectsStepwise ==
  ASSUME NEW A, NEW s \in Seq(A), NEW marks, NEW f, Collects(f, s, marks)
  PROVE  Stepwise(f, s, marks)
<1>1. Len(s) \in Nat
  BY LenProperties
<1>2. 0 \in 0 .. Len(s) /\ \A n \in 1 .. Len(s) : n \in 0 .. Len(s) /\ n # 0
  BY <1>1
<1> QED BY <1>2 DEF Collects, Stepwise

\* One element after the other.
Collecting(A, s, marks) ==
  [n \in 1 .. Len(s) |-> [v \in Seq(A) |-> IF marks[n] THEN Append(v, s[n]) ELSE v]]
Empty == << >>

\* To collect the marked elements is to take a step for each of them.
LEMMA CollectingIsStepping ==
  ASSUME NEW A, NEW s \in Seq(A), NEW marks
  PROVE  /\ Iterates(Seq(A), Len(s), Empty, Collecting(A, s, marks))
         /\ \A f : Run(f, Len(s), Empty, Collecting(A, s, marks)) /\ f \in [0 .. Len(s) -> Seq(A)] => Collects(f, s, marks)
<1>1. ASSUME NEW n \in 1 .. Len(s), NEW v \in Seq(A)
      PROVE  (IF marks[n] THEN Append(v, s[n]) ELSE v) \in Seq(A)
  BY ElementOfSeq, AppendProperties
<1>2. Len(s) \in Nat /\ Empty \in Seq(A)
  BY LenProperties, EmptySeq DEF Empty
<1>3. Iterates(Seq(A), Len(s), Empty, Collecting(A, s, marks))
  BY <1>1, <1>2 DEF Iterates, Collecting
<1>4. ASSUME NEW f \in [0 .. Len(s) -> Seq(A)], Run(f, Len(s), Empty, Collecting(A, s, marks))
      PROVE  Collects(f, s, marks)
  <2>1. \A n \in 1 .. Len(s) : f[n] = IF marks[n] THEN Append(f[n - 1], s[n]) ELSE f[n - 1]
    <3> TAKE n \in 1 .. Len(s)
    <3>1. f[n - 1] \in Seq(A)
      BY <1>2
    <3> QED BY <1>4, <3>1 DEF Run, Collecting
  <2>2. f = [n \in 0 .. Len(s) |-> f[n]] /\ f[0] = << >>
    BY <1>4 DEF Run, Empty
  <2>3. \A n \in 0 .. Len(s) : n = 0 \/ n \in 1 .. Len(s)
    BY <1>2
  <2>4. \A n \in 0 .. Len(s) : f[n] =
          IF n = 0 THEN << >> ELSE IF marks[n] THEN Append(f[n - 1], s[n]) ELSE f[n - 1]
    BY <2>1, <2>2, <2>3
  <2> QED BY <2>2, <2>4 DEF Collects
<1> QED BY <1>3, <1>4

\* Two that collect from the same beginning of a sequence collect the same.
LEMMA CollectedOnce ==
  ASSUME NEW A, NEW s \in Seq(A), NEW marks, NEW f, NEW g, Stepwise(f, s, marks), Stepwise(g, s, marks)
  PROVE  f[Len(s)] \in Seq(A) /\ f[Len(s)] = g[Len(s)]
<1> DEFINE P == {n \in Nat : n <= Len(s) => f[n] \in Seq(A) /\ f[n] = g[n]}
<1>0. Len(s) \in Nat
  BY LenProperties
<1>1. 0 \in P
  BY EmptySeq DEF Stepwise
<1>2. ASSUME NEW m \in Nat, m \in P PROVE m + 1 \in P
  <2> SUFFICES ASSUME m + 1 <= Len(s) PROVE f[m + 1] \in Seq(A) /\ f[m + 1] = g[m + 1]
    OBVIOUS
  <2>1. f[m] \in Seq(A) /\ g[m] = f[m] /\ m + 1 \in 1 .. Len(s) /\ (m + 1) - 1 = m
    BY <1>0, <1>2
  <2>2. s[m + 1] \in A
    BY <2>1, ElementOfSeq
  <2>3. /\ f[m + 1] = IF marks[m + 1] THEN Append(f[m], s[m + 1]) ELSE f[m]
        /\ g[m + 1] = IF marks[m + 1] THEN Append(g[m], s[m + 1]) ELSE g[m]
    BY <2>1 DEF Stepwise
  <2>4. Append(f[m], s[m + 1]) \in Seq(A)
    BY <2>1, <2>2, AppendProperties
  <2> QED BY <2>1, <2>3, <2>4
<1>3. \A n \in Nat : n \in P
  <2> HIDE DEF P
  <2> QED BY <1>1, <1>2, ByInduction, Zenon
<1> QED BY <1>0, <1>3

\* What Marked chooses is what the steps lead to.
LEMMA MarkedIs ==
  ASSUME NEW A, NEW s \in Seq(A), NEW marks
  PROVE  \E f : Stepwise(f, s, marks) /\ Marked(s, marks) = f[Len(s)] /\ Marked(s, marks) \in Seq(A)
<1> DEFINE F == CHOOSE f : Collects(f, s, marks)
<1>1. Marked(s, marks) = F[Len(s)]
  BY DEF Marked, Collects
<1>2. \E f : Collects(f, s, marks)
  BY CollectingIsStepping, Iterated, Zenon
<1>3. Collects(F, s, marks)
  BY <1>2
<1> HIDE DEF F
<1>4. Stepwise(F, s, marks)
  BY <1>3, CollectsStepwise
<1>5. F[Len(s)] \in Seq(A)
  BY <1>4, CollectedOnce
<1> QED BY <1>1, <1>4, <1>5

\* One element more is taken or left by its own mark.
LEMMA MarkedAppend ==
  ASSUME NEW A, NEW s \in Seq(A), NEW x \in A, NEW marks \in Seq(BOOLEAN), Len(marks) = Len(s),
         NEW mark \in BOOLEAN
  PROVE  Marked(Append(s, x), Append(marks, mark))
           = IF mark THEN Append(Marked(s, marks), x) ELSE Marked(s, marks)
<1> DEFINE r == Append(s, x)
<1> DEFINE ms == Append(marks, mark)
<1>1. /\ Len(s) \in Nat /\ r \in Seq(A) /\ Len(r) = Len(s) + 1 /\ r[Len(s) + 1] = x
      /\ \A n \in 1 .. Len(s) : r[n] = s[n]
      /\ ms[Len(s) + 1] = mark /\ \A n \in 1 .. Len(s) : ms[n] = marks[n]
  BY AppendProperties, LenProperties
<1> HIDE DEF r, ms
<1>2. PICK f : Stepwise(f, s, marks) /\ Marked(s, marks) = f[Len(s)]
  BY MarkedIs
<1>3. PICK g : Stepwise(g, r, ms) /\ Marked(r, ms) = g[Len(r)]
  BY <1>1, MarkedIs
<1>4. Stepwise(g, s, marks)
  <2>1. \A n \in 1 .. Len(s) : n \in 1 .. Len(r)
    BY <1>1
  <2> QED BY <1>1, <1>3, <2>1 DEF Stepwise
<1>5. f[Len(s)] = g[Len(s)]
  BY <1>2, <1>4, CollectedOnce
<1>6. g[Len(s) + 1] = IF mark THEN Append(g[Len(s)], x) ELSE g[Len(s)]
  <2>1. Len(s) + 1 \in 1 .. Len(r) /\ (Len(s) + 1) - 1 = Len(s)
    BY <1>1
  <2> QED BY <1>1, <1>3, <2>1 DEF Stepwise
<1> QED BY <1>1, <1>2, <1>3, <1>5, <1>6 DEF r, ms

\* Of nothing nothing is marked.
LEMMA MarkedEmpty ==
  ASSUME NEW marks
  PROVE  Marked(<< >>, marks) = << >>
<1>1. << >> \in Seq({}) /\ Len(<< >>) = 0
  BY EmptySeq
<1>2. PICK f : Stepwise(f, << >>, marks) /\ Marked(<< >>, marks) = f[0]
  BY <1>1, MarkedIs
<1> QED BY <1>2 DEF Stepwise

-----------------------------------------------------------------------------
(* FlattenSeq: pieces put together.                                        *)

\* One sequence after the other.
Flattens(f, s) == f = [i \in 1 .. Len(s) |-> IF i = 1 THEN s[i] ELSE f[i - 1] \o s[i]]
Onwards(f, s) == f[1] = s[1] /\ \A n \in 2 .. Len(s) : f[n] = f[n - 1] \o s[n]
Further(A, s) == [n \in 1 .. Len(s) |-> [v \in Seq(A) |-> v \o s[n]]]

\* To put pieces together is to take a step for each of them.
LEMMA FlatteningIsStepping ==
  ASSUME NEW A, NEW s \in Seq(Seq(A))
  PROVE  /\ Iterates(Seq(A), Len(s), Empty, Further(A, s))
         /\ \A f : f \in [0 .. Len(s) -> Seq(A)] /\ Run(f, Len(s), Empty, Further(A, s)) => \E h : Flattens(h, s)
<1>1. ASSUME NEW n \in 1 .. Len(s), NEW v \in Seq(A)
      PROVE  v \o s[n] \in Seq(A)
  <2>1. s[n] \in Seq(A)
    BY ElementOfSeq
  <2> QED BY <2>1, ConcatProperties
<1>2. Len(s) \in Nat /\ Empty \in Seq(A)
  BY LenProperties, EmptySeq DEF Empty
<1>3. Iterates(Seq(A), Len(s), Empty, Further(A, s))
  BY <1>1, <1>2 DEF Iterates, Further
<1>4. ASSUME NEW f \in [0 .. Len(s) -> Seq(A)], Run(f, Len(s), Empty, Further(A, s))
      PROVE  Flattens([i \in 1 .. Len(s) |-> f[i]], s)
  <2> DEFINE h == [i \in 1 .. Len(s) |-> f[i]]
  <2>1. \A n \in 1 .. Len(s) : f[n] = f[n - 1] \o s[n]
    <3> TAKE n \in 1 .. Len(s)
    <3>0. n - 1 \in 0 .. Len(s)
      BY <1>2
    <3>1. f[n - 1] \in Seq(A)
      BY <3>0
    <3> QED BY <1>4, <3>1 DEF Run, Further
  <2>2. f[0] = << >>
    BY <1>4 DEF Run, Empty
  <2>3. 1 <= Len(s) => f[1] = s[1]
    <3> SUFFICES ASSUME 1 <= Len(s) PROVE f[1] = s[1]
      OBVIOUS
    <3>1. 1 \in 1 .. Len(s)
      BY <1>2
    <3>2. s[1] \in Seq(A)
      BY <3>1, ElementOfSeq
    <3>3. f[1] = << >> \o s[1]
      <4> HIDE DEF h
      <4>1. f[1] = f[1 - 1] \o s[1]
        BY <2>1, <3>1
      <4>2. 1 - 1 = 0
        OBVIOUS
      <4> QED BY <2>2, <4>1, <4>2
    <3> QED BY <3>2, <3>3, ConcatEmptySeq
  <2>4. \A i \in 1 .. Len(s) : h[i] = IF i = 1 THEN s[i] ELSE h[i - 1] \o s[i]
    <3> TAKE i \in 1 .. Len(s)
    <3>1. CASE i = 1
      BY <1>2, <2>3, <3>1
    <3>2. CASE i # 1
      <4>1. i - 1 \in 1 .. Len(s)
        BY <1>2, <3>2
      <4> QED BY <2>1, <3>2, <4>1
    <3> QED BY <3>1, <3>2
  <2>5. h = [i \in 1 .. Len(s) |-> h[i]]
    OBVIOUS
  <2> HIDE DEF h
  <2>6. Flattens(h, s)
    BY <2>4, <2>5 DEF Flattens
  <2> QED BY <2>6 DEF h
<1> QED BY <1>3, <1>4

\* The steps lead to one result.
LEMMA OnwardsOnce ==
  ASSUME NEW A, NEW s \in Seq(Seq(A)), s # << >>, NEW f, NEW g, Onwards(f, s), Onwards(g, s)
  PROVE  f[Len(s)] \in Seq(A) /\ f[Len(s)] = g[Len(s)]
<1> DEFINE P == {n \in Nat : n + 1 <= Len(s) => f[n + 1] \in Seq(A) /\ f[n + 1] = g[n + 1]}
<1>0. Len(s) \in Nat /\ Len(s) # 0
  BY EmptySeq
<1>1. 0 \in P
  <2>1. s[1] \in Seq(A)
    BY <1>0, ElementOfSeq
  <2> QED BY <2>1 DEF Onwards
<1>2. ASSUME NEW m \in Nat, m \in P PROVE m + 1 \in P
  <2> SUFFICES ASSUME (m + 1) + 1 <= Len(s) PROVE f[(m + 1) + 1] \in Seq(A) /\ f[(m + 1) + 1] = g[(m + 1) + 1]
    OBVIOUS
  <2> DEFINE n == (m + 1) + 1
  <2>1. n \in 2 .. Len(s) /\ n \in 1 .. Len(s) /\ n - 1 = m + 1 /\ f[n - 1] \in Seq(A) /\ f[n - 1] = g[n - 1]
    BY <1>0, <1>2
  <2> HIDE DEF n
  <2>2. s[n] \in Seq(A)
    BY <2>1, ElementOfSeq
  <2>3. f[n] = f[n - 1] \o s[n] /\ g[n] = g[n - 1] \o s[n]
    BY <2>1 DEF Onwards
  <2>4. f[n - 1] \o s[n] \in Seq(A)
    BY <2>1, <2>2, ConcatProperties
  <2> QED BY <2>1, <2>3, <2>4 DEF n
<1>3. \A n \in Nat : n \in P
  <2> HIDE DEF P
  <2> QED BY <1>1, <1>2, ByInduction, Zenon
<1>4. Len(s) - 1 \in Nat /\ (Len(s) - 1) + 1 = Len(s)
  BY <1>0
<1>5. Len(s) - 1 \in P
  BY <1>3, <1>4
<1>6. Len(s) <= Len(s)
  BY <1>0
<1> QED BY <1>4, <1>5, <1>6

\* What FlattenSeq chooses is what the steps lead to.
LEMMA FlattenIs ==
  ASSUME NEW A, NEW s \in Seq(Seq(A)), s # << >>
  PROVE  \E f : Onwards(f, s) /\ FlattenSeq(s) = f[Len(s)] /\ FlattenSeq(s) \in Seq(A)
<1> DEFINE F == CHOOSE f : Flattens(f, s)
<1>0. Len(s) \in Nat /\ Len(s) # 0
  BY EmptySeq
<1>1. FlattenSeq(s) = F[Len(s)]
  BY <1>0 DEF FlattenSeq, Flattens
<1>2. \E f : Flattens(f, s)
  BY FlatteningIsStepping, Iterated, Zenon
<1>3. Flattens(F, s)
  BY <1>2
<1> HIDE DEF F
<1>4. Onwards(F, s)
  <2>1. 1 \in 1 .. Len(s) /\ \A n \in 2 .. Len(s) : n \in 1 .. Len(s) /\ n # 1
    BY <1>0
  <2> QED BY <1>3, <2>1 DEF Flattens, Onwards
<1>5. F[Len(s)] \in Seq(A)
  BY <1>4, OnwardsOnce
<1> QED BY <1>1, <1>4, <1>5

\* One piece more comes at the end.
LEMMA FlattenAppend ==
  ASSUME NEW A, NEW s \in Seq(Seq(A)), NEW x \in Seq(A)
  PROVE  FlattenSeq(s) \in Seq(A) /\ FlattenSeq(Append(s, x)) = FlattenSeq(s) \o x
<1> DEFINE r == Append(s, x)
<1>1. /\ Len(s) \in Nat /\ r \in Seq(Seq(A)) /\ r # << >> /\ Len(r) = Len(s) + 1 /\ r[Len(s) + 1] = x
      /\ \A n \in 1 .. Len(s) : r[n] = s[n]
  BY AppendProperties, LenProperties
<1> HIDE DEF r
<1>2. PICK g : Onwards(g, r) /\ FlattenSeq(r) = g[Len(r)]
  BY <1>1, FlattenIs
<1>3. CASE s = << >>
  <2>1. Len(s) = 0
    BY <1>3, EmptySeq
  <2>2. FlattenSeq(s) = << >>
    BY <1>3, <2>1 DEF FlattenSeq
  <2>3. FlattenSeq(r) = x
    BY <1>1, <1>2, <2>1 DEF Onwards
  <2> QED BY <2>2, <2>3, ConcatEmptySeq, EmptySeq DEF r
<1>4. CASE s # << >>
  <2>1. PICK f : Onwards(f, s) /\ FlattenSeq(s) = f[Len(s)] /\ FlattenSeq(s) \in Seq(A)
    BY <1>4, FlattenIs
  <2>0. Len(s) # 0
    BY <1>4, EmptySeq
  <2>2. Onwards(g, s)
    <3>1. (\A n \in 2 .. Len(s) : n \in 2 .. Len(r) /\ n \in 1 .. Len(s)) /\ 1 \in 1 .. Len(s)
      BY <1>1, <2>0
    <3> QED BY <1>1, <1>2, <3>1 DEF Onwards
  <2>3. f[Len(s)] = g[Len(s)]
    BY <1>4, <2>1, <2>2, OnwardsOnce
  <2>4. g[Len(s) + 1] = g[Len(s)] \o x
    <3>1. Len(s) + 1 \in 2 .. Len(r) /\ (Len(s) + 1) - 1 = Len(s)
      BY <1>1, <2>0
    <3> QED BY <1>1, <1>2, <3>1 DEF Onwards
  <2> QED BY <1>1, <1>2, <2>1, <2>3, <2>4 DEF r
<1> QED BY <1>3, <1>4

\* No pieces, nothing.
LEMMA FlattenEmpty == FlattenSeq(<< >>) = << >>
<1>1. Len(<< >>) = 0
  BY EmptySeq
<1> QED BY <1>1 DEF FlattenSeq

-----------------------------------------------------------------------------
(* Form: what its fields say, and those of two forms together.             *)

\* The fields of a form, over a set of values.
Keys == {"socks_upstream", "http_upstream", "bridge_port", "office_id", "office_name",
         "automate_tunnel", "no_proxy", "manage_system_proxy", "autostart", "check_for_updates"}
FieldsOver(V) == [name : Keys, value : V]

\* What one more field adds to a form, and one form behind another.
LEMMA AllAppend ==
  ASSUME NEW V, NEW form \in Seq(FieldsOver(V)), NEW f \in FieldsOver(V), NEW key
  PROVE  /\ All(form, key) \in Seq(V)
         /\ All(Append(form, f), key) = IF f.name = key THEN Append(All(form, key), f.value) ELSE All(form, key)
<1> DEFINE R == FieldsOver(V)
<1> DEFINE values == [i \in 1 .. Len(form) |-> form[i].value]
<1> DEFINE marks == [i \in 1 .. Len(form) |-> form[i].name = key]
<1> DEFINE form2 == Append(form, f)
<1>1. /\ Len(form) \in Nat /\ DOMAIN form = 1 .. Len(form) /\ \A i \in 1 .. Len(form) : form[i].value \in V
      /\ f.value \in V
  <2>1. \A i \in 1 .. Len(form) : form[i] \in FieldsOver(V)
    BY ElementOfSeq
  <2>2. \A g \in FieldsOver(V) : g.value \in V
    BY DEF FieldsOver
  <2> QED BY <2>1, <2>2, LenProperties
<1>2. /\ form2 \in Seq(R) /\ DOMAIN form2 = 1 .. Len(form) + 1 /\ form2[Len(form) + 1] = f
      /\ \A i \in 1 .. Len(form) : form2[i] = form[i]
  BY AppendProperties, LenProperties
<1>3. values \in Seq(V) /\ marks \in Seq(BOOLEAN) /\ Len(values) = Len(form) /\ Len(marks) = Len(form)
  BY <1>1
<1> HIDE DEF form2
<1>4. /\ Append(values, f.value) = [i \in DOMAIN form2 |-> form2[i].value]
      /\ Append(marks, f.name = key) = [i \in DOMAIN form2 |-> form2[i].name = key]
  BY <1>1, <1>2, <1>3
<1>5. All(form, key) = Marked(values, marks)
  BY <1>1 DEF All
<1>6. All(form2, key) = Marked(Append(values, f.value), Append(marks, f.name = key))
  BY <1>4 DEF All
<1>7. All(form, key) \in Seq(V)
  <2> HIDE DEF values, marks
  <2> QED BY <1>3, <1>5, MarkedIs
<1> DEFINE is == f.name = key
<1>8. is \in BOOLEAN
  OBVIOUS
<1>9. Marked(Append(values, f.value), Append(marks, is))
        = IF is THEN Append(Marked(values, marks), f.value) ELSE Marked(values, marks)
  <2> DEFINE y == f.value
  <2>1. y \in V /\ Len(marks) = Len(values)
    BY <1>1, <1>3
  <2> HIDE DEF values, marks, is, y
  <2>2. Marked(Append(values, y), Append(marks, is))
          = IF is THEN Append(Marked(values, marks), y) ELSE Marked(values, marks)
    BY <1>3, <1>8, <2>1, MarkedAppend
  <2> QED BY <2>2 DEF y
<1> QED BY <1>5, <1>6, <1>7, <1>9 DEF form2

\* An empty form has no fields.
LEMMA AllOfEmpty ==
  ASSUME NEW key
  PROVE  All(<< >>, key) = << >>
<1>1. [i \in DOMAIN << >> |-> << >>[i].value] = << >>
  OBVIOUS
<1> QED BY <1>1, MarkedEmpty DEF All

\* The values of the fields of a form.
LEMMA AllType ==
  ASSUME NEW V, NEW a \in Seq(FieldsOver(V)), NEW key
  PROVE  All(a, key) \in Seq(V)
<1> DEFINE R == FieldsOver(V)
<1>1. CASE a = << >>
  BY <1>1, AllOfEmpty, EmptySeq
<1>2. CASE a # << >>
  <2>1. PICK r \in Seq(R), x \in R : a = Append(r, x)
    BY <1>2, SequenceEmptyOrAppend
  <2>2. x.value \in V /\ All(r, key) \in Seq(V)
    BY AllAppend DEF FieldsOver
  <2>3. All(a, key) = IF x.name = key THEN Append(All(r, key), x.value) ELSE All(r, key)
    BY <2>1, AllAppend
  <2> QED BY <2>2, <2>3, AppendProperties
<1> QED BY <1>1, <1>2

\* The fields of one form after those of another.
LEMMA AllConcat ==
  ASSUME NEW V, NEW a \in Seq(FieldsOver(V)), NEW b \in Seq(FieldsOver(V)), NEW key
  PROVE  All(a \o b, key) = All(a, key) \o All(b, key)
<1> DEFINE R == FieldsOver(V)
<1> DEFINE P == {c \in Seq(R) : All(a \o c, key) = All(a, key) \o All(c, key)}
<1>1. << >> \in P
  <2>1. a \o << >> = a /\ All(a, key) \o << >> = All(a, key) /\ << >> \in Seq(R)
    BY AllType, ConcatEmptySeq, EmptySeq
  <2> QED BY <2>1, AllOfEmpty
<1>2. ASSUME NEW c \in Seq(R), NEW x \in R, c \in P PROVE Append(c, x) \in P
  <2> HIDE DEF R
  <2>1. a \o c \in Seq(R) /\ a \o Append(c, x) = Append(a \o c, x) /\ Append(c, x) \in Seq(R)
    <3>1. a \o c \in Seq(R) /\ Append(c, x) \in Seq(R) /\ <<x>> \in Seq(R)
      BY ConcatProperties, AppendProperties DEF R
    <3>2. Append(c, x) = c \o <<x>> /\ Append(a \o c, x) = (a \o c) \o <<x>>
      BY <3>1, AppendIsConcat
    <3>3. (a \o c) \o <<x>> = a \o (c \o <<x>>)
      BY <3>1, ConcatAssociative DEF R
    <3> QED BY <3>1, <3>2, <3>3
  <2>2. /\ All(Append(a \o c, x), key) = IF x.name = key THEN Append(All(a \o c, key), x.value) ELSE All(a \o c, key)
        /\ All(Append(c, x), key) = IF x.name = key THEN Append(All(c, key), x.value) ELSE All(c, key)
        /\ All(a, key) \in Seq(V) /\ All(c, key) \in Seq(V) /\ x.value \in V
    <3>1. x.value \in V
      BY DEF R, FieldsOver
    <3>2. All(Append(a \o c, x), key) = IF x.name = key THEN Append(All(a \o c, key), x.value) ELSE All(a \o c, key)
      <4> DEFINE d == a \o c
      <4>1. d \in Seq(R)
        BY <2>1
      <4> HIDE DEF d
      <4>2. All(Append(d, x), key) = IF x.name = key THEN Append(All(d, key), x.value) ELSE All(d, key)
        BY <4>1, AllAppend DEF R
      <4> QED BY <4>2 DEF d
    <3>3. All(Append(c, x), key) = IF x.name = key THEN Append(All(c, key), x.value) ELSE All(c, key)
      BY AllAppend DEF R
    <3>4. All(a, key) \in Seq(V) /\ All(c, key) \in Seq(V)
      BY AllAppend DEF R
    <3> QED BY <3>1, <3>2, <3>3, <3>4
  <2>3. Append(All(a, key) \o All(c, key), x.value) = All(a, key) \o Append(All(c, key), x.value)
    <3> DEFINE u == All(a, key)
    <3> DEFINE v == All(c, key)
    <3> DEFINE y == x.value
    <3>1. u \in Seq(V) /\ v \in Seq(V) /\ y \in V
      BY <2>2
    <3> HIDE DEF u, v, y
    <3>2. <<y>> \in Seq(V) /\ u \o v \in Seq(V)
      BY <3>1, ConcatProperties
    <3>3. Append(u \o v, y) = (u \o v) \o <<y>> /\ Append(v, y) = v \o <<y>>
      BY <3>1, <3>2, AppendIsConcat
    <3>4. Append(u \o v, y) = u \o Append(v, y)
      BY <3>1, <3>2, <3>3, ConcatAssociative
    <3> QED BY <3>4 DEF u, v, y
  <2>4. All(a \o c, key) = All(a, key) \o All(c, key)
    BY <1>2
  <2> QED BY <2>1, <2>2, <2>3, <2>4
<1>3. \A c \in Seq(R) : c \in P
  <2> HIDE DEF P, R
  <2> QED BY <1>1, <1>2, BySequences, Zenon
<1> QED BY <1>3

\* The first of the fields of a name, and that there is one.
LEMMA GetFirst ==
  ASSUME NEW R, NEW form \in Seq(R), NEW key, NEW i \in DOMAIN form, form[i].name = key,
         \A j \in DOMAIN form : form[j].name = key => i <= j
  PROVE  Get(form, key) = form[i].value
<1> DEFINE of == {j \in DOMAIN form : form[j].name = key}
<1>1. DOMAIN form = 1 .. Len(form) /\ Len(form) \in Nat
  BY LenProperties
<1>2. i \in of /\ (\A j \in of : i <= j) /\ \A j \in of : j \in Nat
  BY <1>1
<1>3. Get(form, key) = form[CHOOSE k \in of : \A j \in of : k <= j].value
  BY <1>2 DEF Get
<1> HIDE DEF of
<1>4. (CHOOSE k \in of : \A j \in of : k <= j) = i
  <2> DEFINE k == CHOOSE k \in of : \A j \in of : k <= j
  <2>1. k \in of /\ \A j \in of : k <= j
    BY <1>2
  <2> HIDE DEF k
  <2>2. k <= i /\ i <= k /\ k \in Nat /\ i \in Nat
    BY <1>2, <2>1
  <2>3. k = i
    BY <2>2
  <2> QED BY <2>3 DEF k
<1> QED BY <1>3, <1>4

\* Of two forms one after the other the first that has the field says it.
LEMMA GetConcat ==
  ASSUME NEW R, NEW a \in Seq(R), NEW b \in Seq(R), NEW key
  PROVE  /\ a \o b \in Seq(R)
         /\ Checked(a \o b, key) <=> Checked(a, key) \/ Checked(b, key)
         /\ Get(a \o b, key) = IF Checked(a, key) THEN Get(a, key) ELSE Get(b, key)
<1> DEFINE c == a \o b
<1> DEFINE M == Len(a)
<1> DEFINE N == Len(b)
<1>1. /\ M \in Nat /\ N \in Nat /\ DOMAIN a = 1 .. M /\ DOMAIN b = 1 .. N
      /\ c \in Seq(R) /\ DOMAIN c = 1 .. M + N
      /\ \A i \in 1 .. M : c[i] = a[i]
      /\ \A i \in 1 .. N : c[M + i] = b[i]
  <2>1. M \in Nat /\ N \in Nat /\ DOMAIN a = 1 .. M /\ DOMAIN b = 1 .. N
    BY LenProperties
  <2>2. c \in Seq(R) /\ Len(c) = M + N /\ \A i \in 1 .. M + N : c[i] = IF i <= M THEN a[i] ELSE b[i - M]
    BY ConcatProperties
  <2>3. DOMAIN c = 1 .. M + N
    BY <2>2, LenProperties
  <2> HIDE DEF c, M, N
  <2>4. \A i \in 1 .. M : i \in 1 .. M + N /\ i <= M
    BY <2>1
  <2>5. \A i \in 1 .. N : M + i \in 1 .. M + N /\ ~(M + i <= M) /\ (M + i) - M = i
    BY <2>1
  <2>6. \A i \in 1 .. M : c[i] = a[i]
    BY <2>2, <2>4
  <2>7. \A i \in 1 .. N : c[M + i] = b[i]
    BY <2>2, <2>5
  <2> QED BY <2>1, <2>2, <2>3, <2>6, <2>7
<1> HIDE DEF c, M, N
<1>2. \A i \in 1 .. M + N : i \in 1 .. M \/ (i - M \in 1 .. N /\ M + (i - M) = i)
  BY <1>1
<1>3. Checked(c, key) <=> Checked(a, key) \/ Checked(b, key)
  <2>1. ASSUME Checked(c, key) PROVE Checked(a, key) \/ Checked(b, key)
    <3>1. PICK i \in 1 .. M + N : c[i].name = key
      BY <1>1, <2>1 DEF Checked
    <3>2. CASE i \in 1 .. M
      BY <1>1, <3>1, <3>2 DEF Checked
    <3>3. CASE i - M \in 1 .. N /\ M + (i - M) = i
      BY <1>1, <3>1, <3>3 DEF Checked
    <3> QED BY <1>2, <3>2, <3>3
  <2>2. ASSUME Checked(a, key) PROVE Checked(c, key)
    <3>1. PICK i \in 1 .. M : a[i].name = key
      BY <1>1, <2>2 DEF Checked
    <3>2. i \in 1 .. M + N /\ c[i].name = key
      BY <1>1, <3>1
    <3> QED BY <1>1, <3>2 DEF Checked
  <2>3. ASSUME Checked(b, key) PROVE Checked(c, key)
    <3>1. PICK i \in 1 .. N : b[i].name = key
      BY <1>1, <2>3 DEF Checked
    <3>2. M + i \in 1 .. M + N /\ c[M + i].name = key
      BY <1>1, <3>1
    <3> QED BY <1>1, <3>2 DEF Checked
  <2> QED BY <2>1, <2>2, <2>3
<1>4. CASE Checked(a, key)
  <2> DEFINE of == {i \in 1 .. M : a[i].name = key}
  <2>1. of # {} /\ of \in SUBSET Nat
    BY <1>1, <1>4 DEF Checked
  <2>2. PICK i \in of : \A j \in of : i <= j
    <3> HIDE DEF of
    <3> QED BY <2>1, LeastOf
  <2>3. Get(a, key) = a[i].value
    <3>1. i \in DOMAIN a /\ a[i].name = key /\ \A j \in DOMAIN a : a[j].name = key => i <= j
      BY <1>1, <2>2
    <3> QED BY <3>1, GetFirst
  <2>4. i \in DOMAIN c /\ c[i].name = key /\ c[i] = a[i]
    BY <1>1, <2>2
  <2>5. \A j \in DOMAIN c : c[j].name = key => i <= j
    <3> TAKE j \in DOMAIN c
    <3>1. CASE j \in 1 .. M
      BY <1>1, <2>2, <3>1
    <3>2. CASE j - M \in 1 .. N
      BY <1>1, <2>2, <3>2
    <3> QED BY <1>1, <1>2, <3>1, <3>2
  <2>6. Get(c, key) = c[i].value
    <3> HIDE DEF of
    <3>1. c \in Seq(R)
      BY <1>1
    <3> QED BY <2>4, <2>5, <3>1, GetFirst
  <2> QED BY <1>1, <1>3, <1>4, <2>3, <2>4, <2>6 DEF c
<1>5. CASE ~Checked(a, key) /\ Checked(b, key)
  <2> DEFINE of == {i \in 1 .. N : b[i].name = key}
  <2>1. of # {} /\ of \in SUBSET Nat
    BY <1>1, <1>5 DEF Checked
  <2>2. PICK i \in of : \A j \in of : i <= j
    <3> HIDE DEF of
    <3> QED BY <2>1, LeastOf
  <2>3. Get(b, key) = b[i].value
    <3>1. i \in DOMAIN b /\ b[i].name = key /\ \A j \in DOMAIN b : b[j].name = key => i <= j
      BY <1>1, <2>2
    <3> QED BY <3>1, GetFirst
  <2>4. M + i \in DOMAIN c /\ c[M + i].name = key /\ c[M + i] = b[i]
    BY <1>1, <2>2
  <2>5. \A j \in DOMAIN c : c[j].name = key => M + i <= j
    <3> SUFFICES ASSUME NEW j \in DOMAIN c, c[j].name = key PROVE M + i <= j
      OBVIOUS
    <3>1. CASE j \in 1 .. M
      BY <1>1, <1>5, <3>1 DEF Checked
    <3>2. CASE j - M \in 1 .. N /\ M + (j - M) = j
      <4>1. b[j - M].name = key
        BY <1>1, <3>2
      <4>2. i <= j - M
        BY <2>2, <3>2, <4>1
      <4> QED BY <1>1, <2>2, <3>2, <4>2
    <3> QED BY <1>1, <1>2, <3>1, <3>2
  <2>6. Get(c, key) = c[M + i].value
    <3> HIDE DEF of
    <3>1. c \in Seq(R)
      BY <1>1
    <3> QED BY <2>4, <2>5, <3>1, GetFirst
  <2> QED BY <1>1, <1>3, <1>5, <2>3, <2>4, <2>6 DEF c
<1>6. CASE ~Checked(a, key) /\ ~Checked(b, key)
  <2>1. ~Checked(c, key)
    BY <1>3, <1>6
  <2>2. Get(c, key) = << >> /\ Get(b, key) = << >>
    BY <1>6, <2>1 DEF Get, Checked
  <2> QED BY <1>1, <1>3, <1>6, <2>2 DEF c
<1> QED BY <1>4, <1>5, <1>6

\* One field, or a box.
LEMMA OneField ==
  ASSUME NEW V, NEW name \in Keys, NEW v \in V, NEW key
  PROVE  /\ Field(name, v) \in Seq(FieldsOver(V))
         /\ Checked(Field(name, v), key) <=> name = key
         /\ name = key => Get(Field(name, v), key) = v
         /\ All(Field(name, v), key) = IF name = key THEN <<v>> ELSE << >>
<1> DEFINE f == [name |-> name, value |-> v]
<1> DEFINE form == Field(name, v)
<1>1. f \in FieldsOver(V) /\ f.name = name /\ f.value = v
  BY DEF FieldsOver
<1> HIDE DEF f
<1>2. form = <<f>>
  BY DEF Field, f
<1> HIDE DEF form
<1>3. form \in Seq(FieldsOver(V)) /\ DOMAIN form = {1} /\ form[1] = f /\ form = Append(<< >>, f)
  BY <1>1, <1>2
<1>4. Checked(form, key) <=> name = key
  BY <1>1, <1>3 DEF Checked
<1>5. name = key => Get(form, key) = v
  <2> SUFFICES ASSUME name = key PROVE Get(form, key) = v
    OBVIOUS
  <2>1. 1 \in DOMAIN form /\ form[1].name = key /\ \A j \in DOMAIN form : form[j].name = key => 1 <= j
    BY <1>1, <1>3
  <2> QED BY <1>1, <1>3, <2>1, GetFirst
<1>6. All(form, key) = IF name = key THEN <<v>> ELSE << >>
  <2>1. << >> \in Seq(FieldsOver(V)) /\ All(<< >>, key) = << >>
    BY EmptySeq, AllOfEmpty
  <2>2. All(Append(<< >>, f), key) = IF f.name = key THEN Append(All(<< >>, key), f.value) ELSE All(<< >>, key)
    <3> DEFINE e == << >>
    <3>1. e \in Seq(FieldsOver(V))
      BY <2>1
    <3> HIDE DEF e
    <3>2. All(Append(e, f), key) = IF f.name = key THEN Append(All(e, key), f.value) ELSE All(e, key)
      BY <1>1, <3>1, AllAppend
    <3> QED BY <3>2 DEF e
  <2>3. Append(<< >>, v) = <<v>>
    OBVIOUS
  <2> QED BY <1>1, <1>3, <2>1, <2>2, <2>3
<1> QED BY <1>3, <1>4, <1>5, <1>6 DEF form

\* A box is sent when it is ticked, and not at all otherwise.
LEMMA OneBox ==
  ASSUME NEW V, <<"on">> \in V, NEW name \in Keys, NEW on \in BOOLEAN, NEW key
  PROVE  /\ Box(name, on) \in Seq(FieldsOver(V))
         /\ Checked(Box(name, on), key) <=> name = key /\ on
<1>1. CASE on
  BY <1>1, OneField DEF Box
<1>2. CASE ~on
  <2>1. Box(name, on) = << >>
    BY <1>2 DEF Box
  <2>2. ~Checked(<< >>, key)
    BY DEF Checked
  <2> QED BY <1>2, <2>1, <2>2, EmptySeq
<1> QED BY <1>1, <1>2

\* Of a field that is not there there are no values.
LEMMA AllNone ==
  ASSUME NEW V, NEW form \in Seq(FieldsOver(V)), NEW key, ~Checked(form, key)
  PROVE  All(form, key) = << >>
<1> DEFINE R == FieldsOver(V)
<1> DEFINE P == {c \in Seq(R) : Checked(c, key) \/ All(c, key) = << >>}
<1>1. << >> \in P
  BY AllOfEmpty, EmptySeq
<1>2. ASSUME NEW c \in Seq(R), NEW x \in R, c \in P PROVE Append(c, x) \in P
  <2> HIDE DEF R
  <2>1. Append(c, x) \in Seq(R) /\ DOMAIN c = 1 .. Len(c) /\ DOMAIN Append(c, x) = 1 .. Len(c) + 1 /\ Len(c) \in Nat
        /\ Append(c, x)[Len(c) + 1] = x /\ \A i \in 1 .. Len(c) : Append(c, x)[i] = c[i]
    BY AppendProperties, LenProperties
  <2>2. Checked(c, key) \/ x.name = key => Checked(Append(c, x), key)
    BY <2>1 DEF Checked
  <2>3. All(Append(c, x), key) = IF x.name = key THEN Append(All(c, key), x.value) ELSE All(c, key)
    BY AllAppend DEF R
  <2> QED BY <1>2, <2>1, <2>2, <2>3
<1>3. \A c \in Seq(R) : c \in P
  <2> HIDE DEF P, R
  <2> QED BY <1>1, <1>2, BySequences, Zenon
<1> QED BY <1>3

\* What two forms say when they are one.
Both(c, a, b) ==
  \A key :
    /\ Checked(c, key) <=> Checked(a, key) \/ Checked(b, key)
    /\ Checked(a, key) => Get(c, key) = Get(a, key)
    /\ ~Checked(a, key) => Get(c, key) = Get(b, key) /\ All(c, key) = All(b, key)
    /\ ~Checked(b, key) => All(c, key) = All(a, key)

\* What two forms say, one after the other.
LEMMA BothSay ==
  ASSUME NEW V, NEW a \in Seq(FieldsOver(V)), NEW b \in Seq(FieldsOver(V))
  PROVE  a \o b \in Seq(FieldsOver(V)) /\ Both(a \o b, a, b)
<1> DEFINE R == FieldsOver(V)
<1>1. a \o b \in Seq(R)
  BY ConcatProperties
<1>2. ASSUME NEW key
      PROVE  /\ Checked(a \o b, key) <=> Checked(a, key) \/ Checked(b, key)
             /\ Get(a \o b, key) = IF Checked(a, key) THEN Get(a, key) ELSE Get(b, key)
  BY GetConcat
<1>3. ASSUME NEW key
      PROVE  /\ ~Checked(a, key) => All(a \o b, key) = All(b, key)
             /\ ~Checked(b, key) => All(a \o b, key) = All(a, key)
  <2>1. All(a \o b, key) = All(a, key) \o All(b, key)
    BY AllConcat
  <2>2. All(a, key) \in Seq(V) /\ All(b, key) \in Seq(V)
    BY AllType
  <2>3. All(a, key) \o << >> = All(a, key) /\ << >> \o All(b, key) = All(b, key)
    BY <2>2, ConcatEmptySeq
  <2>4. (~Checked(a, key) => All(a, key) = << >>) /\ (~Checked(b, key) => All(b, key) = << >>)
    BY AllNone
  <2> QED BY <2>1, <2>3, <2>4
<1> QED BY <1>1, <1>2, <1>3 DEF Both

\* The rows of the table.
Row(V) == [id : V, name : V]

\* A row says its network.
LEMMA RowSays ==
  ASSUME NEW V, NEW net \in Row(V)
  PROVE  /\ OfficeRow(net) \in Seq(FieldsOver(V))
         /\ All(OfficeRow(net), "office_id") = <<net.id>> /\ All(OfficeRow(net), "office_name") = <<net.name>>
         /\ \A key : Checked(OfficeRow(net), key) <=> key \in {"office_id", "office_name"}
<1> DEFINE a == Field("office_id", net.id)
<1> DEFINE b == Field("office_name", net.name)
<1>0. net.id \in V /\ net.name \in V
  BY DEF Row
<1>1. /\ a \in Seq(FieldsOver(V)) /\ b \in Seq(FieldsOver(V))
      /\ All(a, "office_id") = <<net.id>> /\ All(b, "office_name") = <<net.name>>
      /\ \A key : (Checked(a, key) <=> "office_id" = key) /\ (Checked(b, key) <=> "office_name" = key)
  <2>1. ASSUME NEW n \in Keys, NEW v \in V
        PROVE  /\ Field(n, v) \in Seq(FieldsOver(V)) /\ All(Field(n, v), n) = <<v>>
               /\ \A key : Checked(Field(n, v), key) <=> n = key
    <3>1. Field(n, v) \in Seq(FieldsOver(V)) /\ All(Field(n, v), n) = <<v>>
      BY OneField
    <3>2. ASSUME NEW key PROVE Checked(Field(n, v), key) <=> n = key
      BY OneField
    <3> QED BY <3>1, <3>2
  <2>2. "office_id" \in Keys /\ "office_name" \in Keys
    BY DEF Keys
  <2> QED BY <1>0, <2>1, <2>2
<1> HIDE DEF a, b
<1>2. a \o b \in Seq(FieldsOver(V)) /\ Both(a \o b, a, b)
  BY <1>1, BothSay
<1>3. OfficeRow(net) = a \o b
  BY DEF OfficeRow, a, b
<1>4. /\ All(a \o b, "office_id") = <<net.id>> /\ All(a \o b, "office_name") = <<net.name>>
      /\ \A key : Checked(a \o b, key) <=> key \in {"office_id", "office_name"}
  BY <1>1, <1>2 DEF Both
<1> QED BY <1>2, <1>3, <1>4

Rows(nets) == FlattenSeq([i \in DOMAIN nets |-> OfficeRow(nets[i])])

\* One network more is one row more.
LEMMA RowsAppend ==
  ASSUME NEW V, NEW nets \in Seq(Row(V)), NEW net \in Row(V)
  PROVE  Rows(nets) \in Seq(FieldsOver(V)) /\ Rows(Append(nets, net)) = Rows(nets) \o OfficeRow(net)
<1> DEFINE N == Len(nets)
<1> DEFINE nets2 == Append(nets, net)
<1> DEFINE Q == Seq(FieldsOver(V))
<1> DEFINE rows == [i \in 1 .. N |-> OfficeRow(nets[i])]
<1>1. N \in Nat /\ DOMAIN nets = 1 .. N /\ \A i \in 1 .. N : OfficeRow(nets[i]) \in Q
  <2>1. \A i \in 1 .. N : nets[i] \in Row(V)
    BY ElementOfSeq
  <2> QED BY <2>1, RowSays, LenProperties
<1>2. DOMAIN nets2 = 1 .. N + 1 /\ nets2[N + 1] = net /\ \A i \in 1 .. N : nets2[i] = nets[i]
  BY AppendProperties, LenProperties
<1>3. OfficeRow(net) \in Q
  BY RowSays
<1> HIDE DEF nets2, Q
<1>4. rows \in Seq(Q) /\ Len(rows) = N
  BY <1>1
<1>5. Append(rows, OfficeRow(net)) = [i \in DOMAIN nets2 |-> OfficeRow(nets2[i])]
  BY <1>1, <1>2, <1>3, <1>4
<1>6. Rows(nets) = FlattenSeq(rows) /\ Rows(nets2) = FlattenSeq(Append(rows, OfficeRow(net)))
  BY <1>1, <1>5 DEF Rows
<1> HIDE DEF rows
<1>7. FlattenSeq(rows) \in Q /\ FlattenSeq(Append(rows, OfficeRow(net))) = FlattenSeq(rows) \o OfficeRow(net)
  BY <1>3, <1>4, FlattenAppend DEF Q
<1> QED BY <1>6, <1>7 DEF nets2, Q

\* The rows say the networks, in their order.
LEMMA RowsSay ==
  ASSUME NEW V, NEW nets \in Seq(Row(V))
  PROVE  /\ Rows(nets) \in Seq(FieldsOver(V))
         /\ All(Rows(nets), "office_id") = [i \in DOMAIN nets |-> nets[i].id]
         /\ All(Rows(nets), "office_name") = [i \in DOMAIN nets |-> nets[i].name]
         /\ \A key : Checked(Rows(nets), key) => key \in {"office_id", "office_name"}
<1> DEFINE Ids(s) == [i \in DOMAIN s |-> s[i].id]
<1> DEFINE Names(s) == [i \in DOMAIN s |-> s[i].name]
<1> DEFINE R == Row(V)
<1> DEFINE P == {s \in Seq(R) :
       /\ Rows(s) \in Seq(FieldsOver(V))
       /\ All(Rows(s), "office_id") = Ids(s) /\ All(Rows(s), "office_name") = Names(s)
       /\ \A key : Checked(Rows(s), key) => key \in {"office_id", "office_name"}}
<1>1. << >> \in P
  <2>1. [i \in DOMAIN << >> |-> OfficeRow(<< >>[i])] = << >> /\ Ids(<< >>) = << >> /\ Names(<< >>) = << >>
    OBVIOUS
  <2>2. Rows(<< >>) = << >>
    BY <2>1, FlattenEmpty DEF Rows
  <2>3. \A key : ~Checked(<< >>, key)
    BY DEF Checked
  <2>4. << >> \in Seq(R) /\ << >> \in Seq(FieldsOver(V))
    BY EmptySeq
  <2>5. All(<< >>, "office_id") = << >> /\ All(<< >>, "office_name") = << >>
    BY AllOfEmpty
  <2> HIDE DEF R, Ids, Names
  <2> QED BY <2>1, <2>2, <2>3, <2>4, <2>5
<1>2. ASSUME NEW s \in Seq(R), NEW x \in R, s \in P PROVE Append(s, x) \in P
  <2> DEFINE a == Rows(s)
  <2> DEFINE b == OfficeRow(x)
  <2> DEFINE t == Append(s, x)
  <2>1. a \in Seq(FieldsOver(V)) /\ Rows(t) = a \o b
    BY RowsAppend
  <2>2. /\ b \in Seq(FieldsOver(V)) /\ All(b, "office_id") = <<x.id>> /\ All(b, "office_name") = <<x.name>>
        /\ \A key : Checked(b, key) <=> key \in {"office_id", "office_name"}
    BY RowSays
  <2>3. /\ All(a, "office_id") = Ids(s) /\ All(a, "office_name") = Names(s)
        /\ \A key : Checked(a, key) => key \in {"office_id", "office_name"}
    BY <1>2
  <2>4. /\ DOMAIN s = 1 .. Len(s) /\ Len(s) \in Nat /\ \A i \in 1 .. Len(s) : s[i].id \in V /\ s[i].name \in V
        /\ x.id \in V /\ x.name \in V
    <3>1. \A i \in 1 .. Len(s) : s[i] \in Row(V)
      BY ElementOfSeq
    <3> QED BY <3>1, LenProperties DEF Row
  <2>5. t \in Seq(R) /\ DOMAIN t = 1 .. Len(s) + 1 /\ t[Len(s) + 1] = x /\ \A i \in 1 .. Len(s) : t[i] = s[i]
    BY AppendProperties, LenProperties
  <2> HIDE DEF a, b, t, R
  <2>6. Ids(s) \o <<x.id>> = Ids(t) /\ Names(s) \o <<x.name>> = Names(t)
    <3> DEFINE ids == [i \in 1 .. Len(s) |-> s[i].id]
    <3> DEFINE names == [i \in 1 .. Len(s) |-> s[i].name]
    <3>1. ids \in Seq(V) /\ names \in Seq(V) /\ Len(ids) = Len(s) /\ Len(names) = Len(s)
      BY <2>4
    <3>2. Append(ids, x.id) = Ids(t) /\ Append(names, x.name) = Names(t)
      BY <2>4, <2>5, <3>1
    <3>3. Append(ids, x.id) = ids \o <<x.id>> /\ Append(names, x.name) = names \o <<x.name>>
      <4> HIDE DEF ids, names
      <4> QED BY <2>4, <3>1, AppendIsConcat
    <3>4. Ids(s) = ids /\ Names(s) = names
      BY <2>4
    <3> HIDE DEF ids, names, Ids, Names
    <3> QED BY <3>2, <3>3, <3>4
  <2>7. /\ a \o b \in Seq(FieldsOver(V)) /\ Both(a \o b, a, b)
        /\ \A key : All(a \o b, key) = All(a, key) \o All(b, key)
    BY <2>1, <2>2, BothSay, AllConcat
  <2> HIDE DEF Ids, Names
  <2>8. \A key : Checked(a \o b, key) => key \in {"office_id", "office_name"}
    BY <2>2, <2>3, <2>7 DEF Both
  <2>9. All(a \o b, "office_id") = Ids(t) /\ All(a \o b, "office_name") = Names(t)
    BY <2>2, <2>3, <2>6, <2>7
  <2> QED BY <2>1, <2>5, <2>7, <2>8, <2>9 DEF t
<1>3. \A s \in Seq(R) : s \in P
  <2> HIDE DEF P, R
  <2> QED BY <1>1, <1>2, BySequences, Zenon
<1> QED BY <1>3

\* The table ends with a row to be filled in.
LEMMA TableSays ==
  ASSUME NEW V, << >> \in V, NEW nets \in Seq(Row(V))
  PROVE  /\ OfficeRows(nets) \in Seq(FieldsOver(V))
         /\ All(OfficeRows(nets), "office_id") = [i \in DOMAIN nets |-> nets[i].id] \o << << >> >>
         /\ All(OfficeRows(nets), "office_name") = [i \in DOMAIN nets |-> nets[i].name] \o << << >> >>
         /\ \A key : Checked(OfficeRows(nets), key) <=> key \in {"office_id", "office_name"}
<1> DEFINE last == [id |-> << >>, name |-> << >>]
<1> DEFINE a == Rows(nets)
<1> DEFINE b == OfficeRow(last)
<1>1. OfficeRows(nets) = a \o b
  BY DEF OfficeRows, Rows
<1>2. last \in Row(V) /\ last.id = << >> /\ last.name = << >>
  BY DEF Row
<1> HIDE DEF last
<1>3. /\ b \in Seq(FieldsOver(V)) /\ All(b, "office_id") = <<last.id>> /\ All(b, "office_name") = <<last.name>>
      /\ \A key : Checked(b, key) <=> key \in {"office_id", "office_name"}
  BY <1>2, RowSays
<1>4. /\ a \in Seq(FieldsOver(V))
      /\ All(a, "office_id") = [i \in DOMAIN nets |-> nets[i].id]
      /\ All(a, "office_name") = [i \in DOMAIN nets |-> nets[i].name]
      /\ \A key : Checked(a, key) => key \in {"office_id", "office_name"}
  BY RowsSay
<1> HIDE DEF a, b
<1>5. /\ a \o b \in Seq(FieldsOver(V)) /\ Both(a \o b, a, b)
      /\ \A key : All(a \o b, key) = All(a, key) \o All(b, key)
  BY <1>3, <1>4, BothSay, AllConcat
<1>6. \A key : Checked(a \o b, key) <=> key \in {"office_id", "office_name"}
  BY <1>3, <1>4, <1>5 DEF Both
<1> QED BY <1>1, <1>2, <1>3, <1>4, <1>5, <1>6

\* Everything a form says.
LEMMA FormSays ==
  ASSUME NEW V, << >> \in V, <<"on">> \in V, NEW cfg, NEW auto,
         cfg.socks_upstream \in V, cfg.http_upstream \in V, cfg.bridge_port \in V, cfg.no_proxy \in V,
         cfg.office_networks \in Seq(Row(V)),
         NEW form, form = Fields(cfg, auto)
  PROVE  /\ Get(form, "socks_upstream") = cfg.socks_upstream
         /\ Get(form, "http_upstream") = cfg.http_upstream
         /\ Get(form, "bridge_port") = cfg.bridge_port
         /\ Get(form, "no_proxy") = cfg.no_proxy
         /\ \A t \in Toggles : Checked(form, t) <=> t \in cfg.toggles
         /\ Checked(form, "autostart") <=> auto.on /\ ~auto.disabled
         /\ \A key \in {"office_id", "office_name"} : All(form, key) = All(OfficeRows(cfg.office_networks), key)
<1> DEFINE s == Field("socks_upstream", cfg.socks_upstream)
<1> DEFINE h == Field("http_upstream", cfg.http_upstream)
<1> DEFINE p == Field("bridge_port", cfg.bridge_port)
<1> DEFINE o == OfficeRows(cfg.office_networks)
<1> DEFINE t == Box("automate_tunnel", "automate_tunnel" \in cfg.toggles)
<1> DEFINE n == Field("no_proxy", cfg.no_proxy)
<1> DEFINE m == Box("manage_system_proxy", "manage_system_proxy" \in cfg.toggles)
<1> DEFINE a == Box("autostart", auto.on /\ ~auto.disabled)
<1> DEFINE u == Box("check_for_updates", "check_for_updates" \in cfg.toggles)
<1> DEFINE F == Seq(FieldsOver(V))
<1>1. ASSUME NEW name \in Keys, NEW v \in V
      PROVE  Field(name, v) \in F /\ Get(Field(name, v), name) = v /\ \A key : Checked(Field(name, v), key) <=> key = name
  <2>1. Field(name, v) \in F /\ Get(Field(name, v), name) = v
    BY OneField
  <2>2. ASSUME NEW key PROVE Checked(Field(name, v), key) <=> key = name
    BY OneField
  <2> QED BY <2>1, <2>2
<1>2. ASSUME NEW name \in Keys, NEW on \in BOOLEAN
      PROVE  Box(name, on) \in F /\ \A key : Checked(Box(name, on), key) <=> key = name /\ on
  <2>1. Box(name, on) \in F
    BY OneBox
  <2>2. ASSUME NEW key PROVE Checked(Box(name, on), key) <=> key = name /\ on
    BY OneBox
  <2> QED BY <2>1, <2>2
<1>3. /\ s \in F /\ Get(s, "socks_upstream") = cfg.socks_upstream /\ \A key : Checked(s, key) <=> key = "socks_upstream"
      /\ h \in F /\ Get(h, "http_upstream") = cfg.http_upstream /\ \A key : Checked(h, key) <=> key = "http_upstream"
      /\ p \in F /\ Get(p, "bridge_port") = cfg.bridge_port /\ \A key : Checked(p, key) <=> key = "bridge_port"
      /\ n \in F /\ Get(n, "no_proxy") = cfg.no_proxy /\ \A key : Checked(n, key) <=> key = "no_proxy"
  <2> HIDE DEF F
  <2> QED BY <1>1 DEF Keys
<1>4a. t \in F /\ \A key : Checked(t, key) <=> key = "automate_tunnel" /\ "automate_tunnel" \in cfg.toggles
  <2> DEFINE on == "automate_tunnel" \in cfg.toggles
  <2> DEFINE name == "automate_tunnel"
  <2>1. on \in BOOLEAN
    OBVIOUS
  <2>2. name \in Keys
    BY DEF Keys
  <2>3. t = Box(name, on)
    OBVIOUS
  <2> HIDE DEF F, on, name, t
  <2>4. t \in F /\ \A key : Checked(t, key) <=> key = name /\ on
    BY <1>2, <2>1, <2>2, <2>3
  <2> QED BY <2>4 DEF on, name
<1>4b. m \in F /\ \A key : Checked(m, key) <=> key = "manage_system_proxy" /\ "manage_system_proxy" \in cfg.toggles
  <2> DEFINE on == "manage_system_proxy" \in cfg.toggles
  <2> DEFINE name == "manage_system_proxy"
  <2>1. on \in BOOLEAN
    OBVIOUS
  <2>2. name \in Keys
    BY DEF Keys
  <2>3. m = Box(name, on)
    OBVIOUS
  <2> HIDE DEF F, on, name, m
  <2>4. m \in F /\ \A key : Checked(m, key) <=> key = name /\ on
    BY <1>2, <2>1, <2>2, <2>3
  <2> QED BY <2>4 DEF on, name
<1>4c. a \in F /\ \A key : Checked(a, key) <=> key = "autostart" /\ (auto.on /\ ~auto.disabled)
  <2> DEFINE on == (auto.on /\ ~auto.disabled)
  <2> DEFINE name == "autostart"
  <2>1. on \in BOOLEAN
    OBVIOUS
  <2>2. name \in Keys
    BY DEF Keys
  <2>3. a = Box(name, on)
    OBVIOUS
  <2> HIDE DEF F, on, name, a
  <2>4. a \in F /\ \A key : Checked(a, key) <=> key = name /\ on
    BY <1>2, <2>1, <2>2, <2>3
  <2> QED BY <2>4 DEF on, name
<1>4d. u \in F /\ \A key : Checked(u, key) <=> key = "check_for_updates" /\ "check_for_updates" \in cfg.toggles
  <2> DEFINE on == "check_for_updates" \in cfg.toggles
  <2> DEFINE name == "check_for_updates"
  <2>1. on \in BOOLEAN
    OBVIOUS
  <2>2. name \in Keys
    BY DEF Keys
  <2>3. u = Box(name, on)
    OBVIOUS
  <2> HIDE DEF F, on, name, u
  <2>4. u \in F /\ \A key : Checked(u, key) <=> key = name /\ on
    BY <1>2, <2>1, <2>2, <2>3
  <2> QED BY <2>4 DEF on, name
<1>4. /\ t \in F /\ \A key : Checked(t, key) <=> key = "automate_tunnel" /\ "automate_tunnel" \in cfg.toggles
      /\ m \in F /\ \A key : Checked(m, key) <=> key = "manage_system_proxy" /\ "manage_system_proxy" \in cfg.toggles
      /\ a \in F /\ \A key : Checked(a, key) <=> key = "autostart" /\ auto.on /\ ~auto.disabled
      /\ u \in F /\ \A key : Checked(u, key) <=> key = "check_for_updates" /\ "check_for_updates" \in cfg.toggles
  <2> HIDE DEF F, t, m, a, u
  <2> QED BY <1>4a, <1>4b, <1>4c, <1>4d
<1>5. o \in F /\ \A key : Checked(o, key) <=> key \in {"office_id", "office_name"}
  BY TableSays
<1> DEFINE c2 == s \o h
<1> DEFINE c3 == c2 \o p
<1> DEFINE c4 == c3 \o o
<1> DEFINE c5 == c4 \o t
<1> DEFINE c6 == c5 \o n
<1> DEFINE c7 == c6 \o m
<1> DEFINE c8 == c7 \o a
<1> DEFINE c9 == c8 \o u
<1>6. form = c9
  BY DEF Fields
<1> HIDE DEF s, h, p, o, t, n, m, a, u
<1>7. /\ c2 \in F /\ Both(c2, s, h)
      /\ c3 \in F /\ Both(c3, c2, p)
      /\ c4 \in F /\ Both(c4, c3, o)
      /\ c5 \in F /\ Both(c5, c4, t)
      /\ c6 \in F /\ Both(c6, c5, n)
      /\ c7 \in F /\ Both(c7, c6, m)
      /\ c8 \in F /\ Both(c8, c7, a)
      /\ c9 \in F /\ Both(c9, c8, u)
  <2>2. c2 \in F /\ Both(c2, s, h)
    <3> HIDE DEF c9
    <3> QED BY <1>3, <1>4, <1>5, BothSay
  <2>3. c3 \in F /\ Both(c3, c2, p)
    <3> HIDE DEF c2
    <3> QED BY <1>3, <1>4, <1>5, <2>2, BothSay
  <2>4. c4 \in F /\ Both(c4, c3, o)
    <3> HIDE DEF c2, c3
    <3> QED BY <1>3, <1>4, <1>5, <2>3, BothSay
  <2>5. c5 \in F /\ Both(c5, c4, t)
    <3> HIDE DEF c2, c3, c4
    <3> QED BY <1>3, <1>4, <1>5, <2>4, BothSay
  <2>6. c6 \in F /\ Both(c6, c5, n)
    <3> HIDE DEF c2, c3, c4, c5
    <3> QED BY <1>3, <1>4, <1>5, <2>5, BothSay
  <2>7. c7 \in F /\ Both(c7, c6, m)
    <3> HIDE DEF c2, c3, c4, c5, c6
    <3> QED BY <1>3, <1>4, <1>5, <2>6, BothSay
  <2>8. c8 \in F /\ Both(c8, c7, a)
    <3> HIDE DEF c2, c3, c4, c5, c6, c7
    <3> QED BY <1>3, <1>4, <1>5, <2>7, BothSay
  <2>9. c9 \in F /\ Both(c9, c8, u)
    <3> HIDE DEF c2, c3, c4, c5, c6, c7, c8
    <3> QED BY <1>3, <1>4, <1>5, <2>8, BothSay
  <2> QED BY <2>2, <2>3, <2>4, <2>5, <2>6, <2>7, <2>8, <2>9
<1> HIDE DEF c2, c3, c4, c5, c6, c7, c8, c9, F
<1> USE DEF Both
<1>8. Get(form, "socks_upstream") = cfg.socks_upstream
  BY <1>3, <1>6, <1>7
<1>9. Get(form, "http_upstream") = cfg.http_upstream
  BY <1>3, <1>6, <1>7
<1>10. Get(form, "bridge_port") = cfg.bridge_port
  BY <1>3, <1>6, <1>7
<1>11. Get(form, "no_proxy") = cfg.no_proxy
  BY <1>3, <1>4, <1>5, <1>6, <1>7
<1>12. \A key : Checked(form, key) <=>
         \/ Checked(s, key) \/ Checked(h, key) \/ Checked(p, key) \/ Checked(o, key) \/ Checked(t, key)
         \/ Checked(n, key) \/ Checked(m, key) \/ Checked(a, key) \/ Checked(u, key)
  BY <1>6, <1>7
<1>13. \A x \in Toggles : Checked(form, x) <=> x \in cfg.toggles
  BY <1>3, <1>4, <1>5, <1>12 DEF Toggles
<1>14. Checked(form, "autostart") <=> auto.on /\ ~auto.disabled
  BY <1>3, <1>4, <1>5, <1>12
<1>15. \A key \in {"office_id", "office_name"} : All(form, key) = All(o, key)
  BY <1>3, <1>4, <1>5, <1>6, <1>7
<1> QED BY <1>8, <1>9, <1>10, <1>11, <1>13, <1>14, <1>15 DEF o

-----------------------------------------------------------------------------
(* The table of networks.                                                  *)

\* The networks of a table: without the rows that have no id.
Real(nets) == Marked(nets, [i \in DOMAIN nets |-> nets[i].id # << >>])
Trimmed(nets) == [i \in DOMAIN nets |-> [id |-> Trim(nets[i].id), name |-> Trim(nets[i].name)]]

\* One network more counts if it has an id.
LEMMA RealAppend ==
  ASSUME NEW A, NEW nets \in Seq(A), NEW net \in A
  PROVE  Real(Append(nets, net)) = IF net.id # << >> THEN Append(Real(nets), net) ELSE Real(nets)
<1> DEFINE marks == [i \in 1 .. Len(nets) |-> nets[i].id # << >>]
<1> DEFINE mark == net.id # << >>
<1> DEFINE nets2 == Append(nets, net)
<1>1. /\ Len(nets) \in Nat /\ DOMAIN nets = 1 .. Len(nets)
      /\ DOMAIN nets2 = 1 .. Len(nets) + 1 /\ nets2[Len(nets) + 1] = net /\ \A i \in 1 .. Len(nets) : nets2[i] = nets[i]
  BY AppendProperties, LenProperties
<1>2. marks \in Seq(BOOLEAN) /\ Len(marks) = Len(nets) /\ mark \in BOOLEAN
  BY <1>1
<1> HIDE DEF nets2
<1>3. Append(marks, mark) = [i \in DOMAIN nets2 |-> nets2[i].id # << >>]
  BY <1>1, <1>2
<1>4. Real(nets) = Marked(nets, marks) /\ Real(nets2) = Marked(nets2, Append(marks, mark))
  BY <1>1, <1>3 DEF Real
<1> HIDE DEF marks, mark
<1>5. Marked(Append(nets, net), Append(marks, mark)) = IF mark THEN Append(Marked(nets, marks), net) ELSE Marked(nets, marks)
  BY <1>2, MarkedAppend
<1> QED BY <1>4, <1>5 DEF nets2, mark

\* Nothing around nothing.
LEMMA TrimOfEmpty == Trim(<< >>) = << >>
BY DEF Trim

\* The networks of a form are those of its rows that have an id, without blanks around.
LEMMA OfficesAre ==
  ASSUME NEW V, << >> \in V, NEW nets \in Seq(Row(V)), NEW form,
         All(form, "office_id") = [i \in DOMAIN nets |-> nets[i].id] \o << << >> >>,
         All(form, "office_name") = [i \in DOMAIN nets |-> nets[i].name] \o << << >> >>
  PROVE  Offices(form) = Real(Trimmed(nets))
<1> DEFINE N == Len(nets)
<1> DEFINE ids == [i \in 1 .. N |-> nets[i].id]
<1> DEFINE names == [i \in 1 .. N |-> nets[i].name]
<1> DEFINE T == [i \in 1 .. N |-> [id |-> Trim(nets[i].id), name |-> Trim(nets[i].name)]]
<1> DEFINE none == [id |-> << >>, name |-> << >>]
<1> DEFINE rows == [i \in 1 .. N + 1 |-> IF i = N + 1 THEN none ELSE T[i]]
<1> DEFINE A == {T[i] : i \in 1 .. N} \cup {none}
<1>1. N \in Nat /\ DOMAIN nets = 1 .. N
  BY LenProperties
<1>2. \A i \in 1 .. N : nets[i].id \in V /\ nets[i].name \in V
  <2>1. \A i \in 1 .. N : nets[i] \in Row(V)
    BY ElementOfSeq
  <2> QED BY <2>1 DEF Row
<1>3. /\ ids \in Seq(V) /\ names \in Seq(V) /\ Len(ids) = N /\ Len(names) = N
      /\ \A i \in 1 .. N : ids[i] = nets[i].id /\ names[i] = nets[i].name
  BY <1>1, <1>2
<1> HIDE DEF N
<1>4. ASSUME NEW s \in Seq(V), Len(s) = N, NEW c, c = s \o << << >> >>
      PROVE  DOMAIN c = 1 .. N + 1 /\ c[N + 1] = << >> /\ \A i \in 1 .. N : c[i] = s[i]
  BY <1>1, <1>4
<1>5. /\ All(form, "office_id") = ids \o << << >> >> /\ All(form, "office_name") = names \o << << >> >>
  BY <1>1
<1> DEFINE I == All(form, "office_id")
<1> DEFINE M == All(form, "office_name")
<1>6. /\ DOMAIN I = 1 .. N + 1 /\ I[N + 1] = << >> /\ \A i \in 1 .. N : I[i] = nets[i].id
      /\ DOMAIN M = 1 .. N + 1 /\ M[N + 1] = << >> /\ \A i \in 1 .. N : M[i] = nets[i].name
  <2>1. DOMAIN I = 1 .. N + 1 /\ I[N + 1] = << >> /\ \A i \in 1 .. N : I[i] = ids[i]
    BY <1>3, <1>4, <1>5
  <2>2. DOMAIN M = 1 .. N + 1 /\ M[N + 1] = << >> /\ \A i \in 1 .. N : M[i] = names[i]
    BY <1>3, <1>4, <1>5
  <2> QED BY <1>3, <2>1, <2>2
<1> DEFINE is == [i \in DOMAIN I |-> [id |-> Trim(I[i]), name |-> IF i \in DOMAIN M THEN Trim(M[i]) ELSE << >>]]
<1>7. Offices(form) = Marked(is, [i \in DOMAIN is |-> is[i].id # << >>])
  BY DEF Offices
<1>8. Offices(form) = Real(is)
  BY <1>7 DEF Real
<1> HIDE DEF I, M
<1>9. is = rows
  <2>1. \A i \in 1 .. N + 1 : i = N + 1 \/ (i # N + 1 /\ i \in 1 .. N)
    BY <1>1
  <2>2. \A i \in 1 .. N + 1 : is[i] = rows[i]
    BY <1>6, <2>1, TrimOfEmpty
  <2> QED BY <1>6, <2>2
<1>10. T \in Seq(A) /\ none \in A /\ Len(T) = N
  <2> DEFINE row(i) == [id |-> Trim(nets[i].id), name |-> Trim(nets[i].name)]
  <2>1. \A i \in 1 .. N : row(i) \in A
    OBVIOUS
  <2>2. none \in A
    OBVIOUS
  <2> HIDE DEF A, row, none
  <2>3. [i \in 1 .. N |-> row(i)] \in Seq(A) /\ Len([i \in 1 .. N |-> row(i)]) = N
    BY <1>1, <2>1
  <2> QED BY <2>2, <2>3 DEF row
<1>11. rows = Append(T, none)
  BY <1>1
<1>12. none.id = << >> /\ T = Trimmed(nets)
  BY <1>1 DEF Trimmed
<1> HIDE DEF A, T, none, rows, is
<1> QED BY <1>8, <1>9, <1>10, <1>11, <1>12, RealAppend

\* A table without rows to drop and blanks to cut is what it says.
LEMMA TidyIsReal ==
  ASSUME NEW A, NEW nets \in Seq(A), \A net \in A : TidyNetwork(net)
  PROVE  Trimmed(nets) = nets /\ Real(nets) = nets
<1>1. Trimmed(nets) = nets
  <2>1. DOMAIN nets = 1 .. Len(nets) /\ Len(nets) \in Nat /\ \A i \in 1 .. Len(nets) : nets[i] \in A
    BY LenProperties, ElementOfSeq
  <2>2. \A i \in DOMAIN nets : nets[i] = [id |-> Trim(nets[i].id), name |-> Trim(nets[i].name)]
    BY <2>1 DEF TidyNetwork
  <2>3. nets = [i \in DOMAIN nets |-> nets[i]]
    BY <2>1
  <2> QED BY <2>2, <2>3 DEF Trimmed
<1> DEFINE P == {s \in Seq(A) : Real(s) = s}
<1>2. << >> \in P
  <2>1. << >> \in Seq(A)
    BY EmptySeq
  <2> QED BY <2>1, MarkedEmpty DEF Real
<1>3. ASSUME NEW s \in Seq(A), NEW x \in A, s \in P PROVE Append(s, x) \in P
  <2>1. x.id # << >> /\ Append(s, x) \in Seq(A)
    BY AppendProperties DEF TidyNetwork
  <2> QED BY <1>3, <2>1, RealAppend
<1>4. \A s \in Seq(A) : s \in P
  <2> HIDE DEF P
  <2> QED BY <1>2, <1>3, BySequences, Zenon
<1> QED BY <1>1, <1>4

\* Without its id the first row of a table is none.
LEMMA RestIsReal ==
  ASSUME NEW A, NEW nets \in Seq(A), \A net \in A : TidyNetwork(net), NEW blank, blank.id = << >>
  PROVE  Real(<<blank>> \o nets) = nets
<1> DEFINE B == A \cup {blank}
<1> DEFINE P == {s \in Seq(A) : Real(<<blank>> \o s) = s}
<1>0. << >> \in Seq(B) /\ <<blank>> \in Seq(B) /\ blank \in B /\ \A s \in Seq(A) : s \in Seq(B)
  BY EmptySeq
<1>1. Real(<<blank>>) = << >>
  <2>1. <<blank>> = Append(<< >>, blank)
    OBVIOUS
  <2>2. Real(<< >>) = << >>
    BY MarkedEmpty DEF Real
  <2> DEFINE e == << >>
  <2>3. e \in Seq(B)
    BY <1>0
  <2> HIDE DEF B, e
  <2>4. Real(Append(e, blank)) = Real(e)
    BY <1>0, <2>3, RealAppend
  <2> QED BY <2>1, <2>2, <2>4 DEF e
<1>2. << >> \in P
  <2>1. <<blank>> \o << >> = <<blank>> /\ << >> \in Seq(A)
    BY <1>0, ConcatEmptySeq, EmptySeq
  <2> QED BY <1>1, <2>1
<1>3. ASSUME NEW s \in Seq(A), NEW x \in A, s \in P PROVE Append(s, x) \in P
  <2> DEFINE b == <<blank>>
  <2>1. b \in Seq(B) /\ s \in Seq(B) /\ x \in B /\ <<x>> \in Seq(B)
    BY <1>0
  <2>2. x.id # << >>
    BY DEF TidyNetwork
  <2>3. Real(b \o s) = s
    BY <1>3
  <2> HIDE DEF B, b
  <2>4. b \o s \in Seq(B) /\ b \o Append(s, x) = Append(b \o s, x)
    <3>1. b \o s \in Seq(B)
      BY <2>1, ConcatProperties
    <3>2. Append(s, x) = s \o <<x>> /\ Append(b \o s, x) = (b \o s) \o <<x>>
      BY <2>1, <3>1, AppendIsConcat
    <3>3. (b \o s) \o <<x>> = b \o (s \o <<x>>)
      BY <2>1, ConcatAssociative
    <3> QED BY <3>1, <3>2, <3>3
  <2> DEFINE c == b \o s
  <2>5. c \in Seq(B)
    BY <2>4
  <2> HIDE DEF c
  <2>6. Real(Append(c, x)) = Append(Real(c), x)
    BY <2>1, <2>2, <2>5, RealAppend
  <2>7. Append(s, x) \in Seq(A)
    BY AppendProperties
  <2> QED BY <2>3, <2>4, <2>6, <2>7 DEF c, b
<1>4. \A s \in Seq(A) : s \in P
  <2> HIDE DEF P
  <2> QED BY <1>2, <1>3, BySequences, Zenon
<1> QED BY <1>4

-----------------------------------------------------------------------------
(* Trim and NormaliseBypass on what a person may type.                     *)

\* The texts a person may type.
LEMMA TrimAround ==
  ASSUME NEW A, NEW t \in Seq(A), NEW i \in DOMAIN t, t[i] # "sp", \A j \in DOMAIN t : j # i => t[j] = "sp"
  PROVE  Trim(t) = <<t[i]>>
<1> DEFINE words == {j \in DOMAIN t : t[j] # "sp"}
<1>1. words = {i} /\ i \in Nat
  BY LenProperties
<1>2. (CHOOSE k \in words : \A j \in words : k <= j) = i /\ (CHOOSE k \in words : \A j \in words : k >= j) = i
  BY <1>1
<1>3. SubSeq(t, i, i) = <<t[i]>>
  <2>1. SubSeq(t, i, i) = [k \in 1 .. i - i + 1 |-> t[i + k - 1]]
    OBVIOUS
  <2>2. i - i + 1 = 1 /\ \A k \in 1 .. 1 : i + k - 1 = i
    BY <1>1
  <2>3. SubSeq(t, i, i) = [k \in 1 .. 1 |-> t[i]]
    BY <2>1, <2>2
  <2>4. <<t[i]>> = [k \in 1 .. 1 |-> t[i]]
    OBVIOUS
  <2> QED BY <2>3, <2>4
<1> QED BY <1>1, <1>2, <1>3 DEF Trim

\* The blanks around what is typed.
LEMMA TrimsOf ==
  /\ Trim(<<"hand">>) = <<"hand">> /\ Trim(<<"mine">>) = <<"mine">> /\ Trim(<<"0">>) = <<"0">>
  /\ Trim(<<"up">>) = <<"up">> /\ Trim(<<"sp", "up", "sp">>) = <<"up">> /\ Trim(<<"sp">>) = << >>
<1>1. ASSUME NEW w, w # "sp" PROVE Trim(<<w>>) = <<w>>
  <2> DEFINE t == <<w>>
  <2>1. /\ t \in Seq({w}) /\ 1 \in DOMAIN t /\ t[1] = w
        /\ \A j \in DOMAIN t : j # 1 => t[j] = "sp"
    OBVIOUS
  <2> HIDE DEF t
  <2>2. Trim(t) = <<t[1]>>
    BY <1>1, <2>1, TrimAround
  <2> QED BY <2>1, <2>2 DEF t
<1>2. Trim(<<"sp", "up", "sp">>) = <<"up">>
  <2> DEFINE t == <<"sp", "up", "sp">>
  <2>1. t \in Seq({"sp", "up"}) /\ 2 \in DOMAIN t /\ t[2] = "up" /\ \A j \in DOMAIN t : j # 2 => t[j] = "sp"
    OBVIOUS
  <2> HIDE DEF t
  <2>2. Trim(t) = <<t[2]>>
    BY <2>1, TrimAround
  <2> QED BY <2>1, <2>2 DEF t
<1>3. Trim(<<"sp">>) = << >>
  BY DEF Trim
<1> QED BY <1>1, <1>2, <1>3

Words(text) == Marked(text, [i \in DOMAIN text |-> text[i] \notin Separators])

\* One word more of a bypass list.
LEMMA WordsAppend ==
  ASSUME NEW A, NEW text \in Seq(A), NEW w \in A
  PROVE  Words(Append(text, w)) = IF w \in Separators THEN Words(text) ELSE Append(Words(text), w)
<1> DEFINE marks == [i \in 1 .. Len(text) |-> text[i] \notin Separators]
<1> DEFINE mark == w \notin Separators
<1> DEFINE text2 == Append(text, w)
<1>1. /\ Len(text) \in Nat /\ DOMAIN text = 1 .. Len(text)
      /\ DOMAIN text2 = 1 .. Len(text) + 1 /\ text2[Len(text) + 1] = w /\ \A i \in 1 .. Len(text) : text2[i] = text[i]
  BY AppendProperties, LenProperties
<1>2. marks \in Seq(BOOLEAN) /\ Len(marks) = Len(text) /\ mark \in BOOLEAN
  BY <1>1
<1> HIDE DEF text2
<1>3. Append(marks, mark) = [i \in DOMAIN text2 |-> text2[i] \notin Separators]
  BY <1>1, <1>2
<1>4. Words(text) = Marked(text, marks) /\ Words(text2) = Marked(text2, Append(marks, mark))
  BY <1>1, <1>3 DEF Words
<1> HIDE DEF marks, mark
<1>5. Marked(Append(text, w), Append(marks, mark)) = IF mark THEN Append(Marked(text, marks), w) ELSE Marked(text, marks)
  BY <1>2, MarkedAppend
<1> QED BY <1>4, <1>5 DEF text2, mark

\* The bypass list that is typed, and what is made of it.
LEMMA WordsOf ==
  /\ NormaliseBypass(<<"b", "nl", "nl", "sp", "a", "comma">>) = <<"b", "comma", "a">>
  /\ NormaliseBypass(<<"b", "comma", "a">>) = <<"b", "comma", "a">>
<1> DEFINE W == {"b", "nl", "sp", "a", "comma"}
<1>1. Joined(<<"b", "a">>) = <<"b", "comma", "a">>
  <2> DEFINE words == <<"b", "a">>
  <2>1. /\ 2 * Len(words) - 1 = 3 /\ (1 + 1) \div 2 = 1 /\ (3 + 1) \div 2 = 2
        /\ 1 % 2 = 1 /\ 2 % 2 = 0 /\ 3 % 2 = 1 /\ words[1] = "b" /\ words[2] = "a"
    OBVIOUS
  <2> HIDE DEF words
  <2>2. Joined(words) = [i \in 1 .. 3 |-> IF i % 2 = 1 THEN words[(i + 1) \div 2] ELSE "comma"]
    BY <2>1 DEF Joined
  <2>3. \A i \in 1 .. 3 : (IF i % 2 = 1 THEN words[(i + 1) \div 2] ELSE "comma") = <<"b", "comma", "a">>[i]
    <3> TAKE i \in 1 .. 3
    <3>1. i = 1 \/ i = 2 \/ i = 3
      OBVIOUS
    <3> QED BY <2>1, <3>1
  <2>4. <<"b", "comma", "a">> = [i \in 1 .. 3 |-> <<"b", "comma", "a">>[i]]
    OBVIOUS
  <2> QED BY <2>2, <2>3, <2>4 DEF words
<1>2. ASSUME NEW s \in Seq(W), NEW w \in W, NEW t, t = Append(s, w)
      PROVE  t \in Seq(W) /\ Words(t) = IF w \in Separators THEN Words(s) ELSE Append(Words(s), w)
  <2> HIDE DEF W
  <2> QED BY <1>2, WordsAppend, AppendProperties
<1>3. {"b", "nl", "sp", "a", "comma"} \subseteq W
  OBVIOUS
<1> HIDE DEF W
<1>4. << >> \in Seq(W) /\ Words(<< >>) = << >>
  BY MarkedEmpty DEF Words
<1>5. <<"b">> \in Seq(W) /\ Words(<<"b">>) = <<"b">>
  <2>1. <<"b">> = Append(<< >>, "b") /\ "b" \notin Separators /\ "b" \in W
    BY <1>3 DEF Separators
  <2> QED BY <1>2, <1>4, <2>1
<1>6. ASSUME NEW s \in Seq(W), NEW t, t \in {Append(s, "nl"), Append(s, "sp"), Append(s, "comma")}
      PROVE  t \in Seq(W) /\ Words(t) = Words(s)
  <2>1. {"nl", "sp", "comma"} \subseteq W /\ {"nl", "sp", "comma"} \subseteq Separators
    BY <1>3 DEF Separators
  <2>2. PICK w \in {"nl", "sp", "comma"} : t = Append(s, w)
    BY <1>6
  <2> QED BY <1>2, <2>1, <2>2
<1>7. ASSUME NEW s \in Seq(W), NEW t, t = Append(s, "a"), Words(s) = <<"b">>
      PROVE  t \in Seq(W) /\ Words(t) = <<"b", "a">>
  <2>1. "a" \in W /\ "a" \notin Separators
    BY <1>3 DEF Separators
  <2>2. <<"b", "a">> = Append(<<"b">>, "a")
    OBVIOUS
  <2> QED BY <1>2, <1>7, <2>1, <2>2
<1>8. NormaliseBypass(<<"b", "nl", "nl", "sp", "a", "comma">>) = <<"b", "comma", "a">>
  <2>1. <<"b", "nl">> \in Seq(W) /\ Words(<<"b", "nl">>) = <<"b">>
    <3>1. <<"b", "nl">> = Append(<<"b">>, "nl")
      OBVIOUS
    <3> QED BY <1>5, <1>6, <3>1
  <2>2. <<"b", "nl", "nl">> \in Seq(W) /\ Words(<<"b", "nl", "nl">>) = <<"b">>
    <3>1. <<"b", "nl", "nl">> = Append(<<"b", "nl">>, "nl")
      OBVIOUS
    <3> QED BY <2>1, <1>6, <3>1
  <2>3. <<"b", "nl", "nl", "sp">> \in Seq(W) /\ Words(<<"b", "nl", "nl", "sp">>) = <<"b">>
    <3>1. <<"b", "nl", "nl", "sp">> = Append(<<"b", "nl", "nl">>, "sp")
      OBVIOUS
    <3> QED BY <2>2, <1>6, <3>1
  <2>4. <<"b", "nl", "nl", "sp", "a">> \in Seq(W) /\ Words(<<"b", "nl", "nl", "sp", "a">>) = <<"b", "a">>
    <3>1. <<"b", "nl", "nl", "sp", "a">> = Append(<<"b", "nl", "nl", "sp">>, "a")
      OBVIOUS
    <3> QED BY <2>3, <1>7, <3>1
  <2>5. Words(<<"b", "nl", "nl", "sp", "a", "comma">>) = <<"b", "a">>
    <3>1. <<"b", "nl", "nl", "sp", "a", "comma">> = Append(<<"b", "nl", "nl", "sp", "a">>, "comma")
      OBVIOUS
    <3> QED BY <2>4, <1>6, <3>1
  <2>6. \A s : NormaliseBypass(s) = Joined(Words(s))
    BY DEF NormaliseBypass, Words
  <2> QED BY <1>1, <2>5, <2>6
<1>9. NormaliseBypass(<<"b", "comma", "a">>) = <<"b", "comma", "a">>
  <2>1. <<"b", "comma">> \in Seq(W) /\ Words(<<"b", "comma">>) = <<"b">>
    <3>1. <<"b", "comma">> = Append(<<"b">>, "comma")
      OBVIOUS
    <3> QED BY <1>5, <1>6, <3>1
  <2>2. Words(<<"b", "comma", "a">>) = <<"b", "a">>
    <3>1. <<"b", "comma", "a">> = Append(<<"b", "comma">>, "a")
      OBVIOUS
    <3> QED BY <2>1, <1>7, <3>1
  <2>3. \A s : NormaliseBypass(s) = Joined(Words(s))
    BY DEF NormaliseBypass, Words
  <2> QED BY <1>1, <2>2, <2>3
<1> QED BY <1>8, <1>9

-----------------------------------------------------------------------------
(* From a configuration to the form and back.                              *)

\* What becomes of the fields of a configuration.
Config(bridge, socks, http, bypass, nets, toggles, mode) ==
  [bridge_port |-> bridge, socks_upstream |-> socks, http_upstream |-> http, no_proxy |-> bypass,
   office_networks |-> nets, toggles |-> toggles, mode |-> mode]
Shaped(cfg) ==
  cfg = Config(cfg.bridge_port, cfg.socks_upstream, cfg.http_upstream, cfg.no_proxy,
               cfg.office_networks, cfg.toggles, cfg.mode)
ReadFrom(base, cfg) ==
  Config(Trim(cfg.bridge_port), Trim(cfg.socks_upstream), Trim(cfg.http_upstream),
         NormaliseBypass(cfg.no_proxy), Real(Trimmed(cfg.office_networks)),
         Toggles \cap cfg.toggles, base.mode)

\* What becomes of a configuration that is shown and sent back, over any other one.
LEMMA FormReads ==
  ASSUME NEW W, NEW cfg, NEW auto, cfg.office_networks \in Seq(Row(W)), NEW base, Shaped(base)
  PROVE  /\ ConfigFromForm(base, Fields(cfg, auto)) = ReadFrom(base, cfg)
         /\ Checked(Fields(cfg, auto), "autostart") <=> auto.on /\ ~auto.disabled
<1> DEFINE V == W \cup {cfg.socks_upstream, cfg.http_upstream, cfg.bridge_port, cfg.no_proxy, << >>, <<"on">>}
<1> DEFINE form == Fields(cfg, auto)
<1> DEFINE nets == cfg.office_networks
<1>1. /\ << >> \in V /\ <<"on">> \in V /\ W \subseteq V
      /\ cfg.socks_upstream \in V /\ cfg.http_upstream \in V /\ cfg.bridge_port \in V /\ cfg.no_proxy \in V
  OBVIOUS
<1> HIDE DEF V
<1>2. nets \in Seq(Row(V))
  <2>1. Row(W) \subseteq Row(V)
    BY <1>1 DEF Row
  <2> QED BY <2>1, SeqMonotonic
<1>3. /\ Get(form, "socks_upstream") = cfg.socks_upstream
      /\ Get(form, "http_upstream") = cfg.http_upstream
      /\ Get(form, "bridge_port") = cfg.bridge_port
      /\ Get(form, "no_proxy") = cfg.no_proxy
      /\ \A t \in Toggles : Checked(form, t) <=> t \in cfg.toggles
      /\ Checked(form, "autostart") <=> auto.on /\ ~auto.disabled
      /\ \A key \in {"office_id", "office_name"} : All(form, key) = All(OfficeRows(nets), key)
  <2> HIDE DEF form
  <2>1. form = Fields(cfg, auto)
    BY DEF form
  <2> QED BY <1>1, <1>2, <2>1, FormSays
<1> HIDE DEF form, nets
<1>4. Offices(form) = Real(Trimmed(nets))
  <2>1. /\ All(form, "office_id") = [i \in DOMAIN nets |-> nets[i].id] \o << << >> >>
        /\ All(form, "office_name") = [i \in DOMAIN nets |-> nets[i].name] \o << << >> >>
    BY <1>1, <1>2, <1>3, TableSays
  <2> QED BY <1>1, <1>2, <2>1, OfficesAre
<1>5. {t \in Toggles : Checked(form, t)} = Toggles \cap cfg.toggles
  BY <1>3
<1>6. ConfigFromForm(base, form) =
        Config(Trim(Get(form, "bridge_port")), Trim(Get(form, "socks_upstream")), Trim(Get(form, "http_upstream")),
               NormaliseBypass(Get(form, "no_proxy")), Offices(form), {t \in Toggles : Checked(form, t)}, base.mode)
  <2> DEFINE b1 == Trim(Get(form, "bridge_port"))
  <2> DEFINE b2 == Trim(Get(form, "socks_upstream"))
  <2> DEFINE b3 == Trim(Get(form, "http_upstream"))
  <2> DEFINE b4 == NormaliseBypass(Get(form, "no_proxy"))
  <2> DEFINE b5 == Offices(form)
  <2> DEFINE b6 == {t \in Toggles : Checked(form, t)}
  <2> DEFINE c1 == [base EXCEPT !.bridge_port = b1]
  <2> DEFINE c2 == [c1 EXCEPT !.socks_upstream = b2]
  <2> DEFINE c3 == [c2 EXCEPT !.http_upstream = b3]
  <2> DEFINE c4 == [c3 EXCEPT !.no_proxy = b4]
  <2> DEFINE c5 == [c4 EXCEPT !.office_networks = b5]
  <2> DEFINE c6 == [c5 EXCEPT !.toggles = b6]
  <2>1. ConfigFromForm(base, form) = c6
    BY DEF ConfigFromForm
  <2> HIDE DEF b1, b2, b3, b4, b5, b6
  <2> DEFINE a1 == base.bridge_port
  <2> DEFINE a2 == base.socks_upstream
  <2> DEFINE a3 == base.http_upstream
  <2> DEFINE a4 == base.no_proxy
  <2> DEFINE a5 == base.office_networks
  <2> DEFINE a6 == base.toggles
  <2> DEFINE a7 == base.mode
  <2>2. base = Config(a1, a2, a3, a4, a5, a6, a7)
    BY DEF Shaped
  <2> HIDE DEF a1, a2, a3, a4, a5, a6, a7
  <2>3. c1 = Config(b1, a2, a3, a4, a5, a6, a7)
    BY <2>2 DEF Config
  <2>4. c2 = Config(b1, b2, a3, a4, a5, a6, a7)
    <3> HIDE DEF c1
    <3> QED BY <2>3 DEF Config
  <2>5. c3 = Config(b1, b2, b3, a4, a5, a6, a7)
    <3> HIDE DEF c1, c2
    <3> QED BY <2>4 DEF Config
  <2>6. c4 = Config(b1, b2, b3, b4, a5, a6, a7)
    <3> HIDE DEF c1, c2, c3
    <3> QED BY <2>5 DEF Config
  <2>7. c5 = Config(b1, b2, b3, b4, b5, a6, a7)
    <3> HIDE DEF c1, c2, c3, c4
    <3> QED BY <2>6 DEF Config
  <2>8. c6 = Config(b1, b2, b3, b4, b5, b6, a7)
    <3> HIDE DEF c1, c2, c3, c4, c5
    <3> QED BY <2>7 DEF Config
  <2>9. ConfigFromForm(base, form) = Config(b1, b2, b3, b4, b5, b6, a7)
    <3> HIDE DEF c6
    <3> QED BY <2>1, <2>8
  <2> QED BY <2>9 DEF a7, b1, b2, b3, b4, b5, b6
<1>7. ConfigFromForm(base, form) = ReadFrom(base, cfg)
  <2>1. Trim(Get(form, "bridge_port")) = Trim(cfg.bridge_port)
    BY <1>3
  <2>2. Trim(Get(form, "socks_upstream")) = Trim(cfg.socks_upstream)
    BY <1>3
  <2>3. Trim(Get(form, "http_upstream")) = Trim(cfg.http_upstream)
    BY <1>3
  <2>4. NormaliseBypass(Get(form, "no_proxy")) = NormaliseBypass(cfg.no_proxy)
    BY <1>3
  <2> QED BY <1>4, <1>5, <1>6, <2>1, <2>2, <2>3, <2>4 DEF ReadFrom, nets
<1> QED BY <1>3, <1>7 DEF form

\* A configuration as the page writes it.
LEMMA TidyIs ==
  ASSUME NEW cfg, TidyConfig(cfg)
  PROVE  /\ Shaped(cfg) /\ Trim(cfg.bridge_port) = cfg.bridge_port /\ Trim(cfg.socks_upstream) = cfg.socks_upstream
         /\ Trim(cfg.http_upstream) = cfg.http_upstream /\ NormaliseBypass(cfg.no_proxy) = cfg.no_proxy
         /\ Toggles \cap cfg.toggles = cfg.toggles
         /\ Trimmed(cfg.office_networks) = cfg.office_networks /\ Real(cfg.office_networks) = cfg.office_networks
         /\ \E W : cfg.office_networks \in Seq(Row(W))
<1>1. /\ cfg.bridge_port = Trim(cfg.bridge_port) /\ cfg.socks_upstream = Trim(cfg.socks_upstream)
      /\ cfg.http_upstream = Trim(cfg.http_upstream) /\ cfg.no_proxy = NormaliseBypass(cfg.no_proxy)
  BY DEF TidyConfig
<1>2. Shaped(cfg)
  BY <1>1 DEF TidyConfig, Shaped, Config
<1> DEFINE nets == cfg.office_networks
<1> DEFINE A == Range(nets)
<1>3. nets \in Seq(A) /\ \A net \in A : TidyNetwork(net)
  BY DEF TidyConfig
<1>4. Toggles \cap cfg.toggles = cfg.toggles
  BY DEF TidyConfig
<1> HIDE DEF A
<1>5. Trimmed(nets) = nets /\ Real(nets) = nets
  BY <1>3, TidyIsReal
<1>6. nets \in Seq(Row({net.id : net \in A} \cup {net.name : net \in A}))
  <2> DEFINE W == {net.id : net \in A} \cup {net.name : net \in A}
  <2>1. ASSUME NEW net \in A PROVE net \in Row(W)
    <3>1. net = [id |-> net.id, name |-> net.name]
      BY <1>3 DEF TidyNetwork
    <3>2. net.id \in W /\ net.name \in W
      OBVIOUS
    <3> HIDE DEF W
    <3> QED BY <3>1, <3>2 DEF Row
  <2> HIDE DEF W
  <2>2. A \subseteq Row(W)
    BY <2>1
  <2> QED BY <1>3, <2>2, SeqMonotonic DEF W
<1> QED BY <1>1, <1>2, <1>4, <1>5, <1>6

\* A list of tidy networks.
LEMMA TidyTable ==
  ASSUME NEW A, \A net \in A : TidyNetwork(net), NEW nets \in Seq(A)
  PROVE  nets \in Seq(Range(nets)) /\ \A net \in Range(nets) : TidyNetwork(net)
<1>1. Range(nets) = {nets[i] : i \in DOMAIN nets} /\ DOMAIN nets = 1 .. Len(nets) /\ Len(nets) \in Nat
  BY LenProperties DEF Range
<1>2. \A i \in 1 .. Len(nets) : nets[i] \in A /\ nets[i] \in Range(nets)
  BY <1>1, ElementOfSeq
<1>3. nets = [i \in 1 .. Len(nets) |-> nets[i]]
  BY <1>1
<1>4. nets \in Seq(Range(nets))
  BY <1>2, <1>3, <1>1, SeqOfRange
<1> QED BY <1>1, <1>2, <1>4

\* One that the page has written comes back as it was, but for the mode.
LEMMA TidyIsRead ==
  ASSUME NEW cfg, TidyConfig(cfg), NEW base, Shaped(base), NEW auto
  PROVE  /\ ConfigFromForm(base, Fields(cfg, auto)) = [cfg EXCEPT !.mode = base.mode]
         /\ Checked(Fields(cfg, auto), "autostart") <=> auto.on /\ ~auto.disabled
<1>1. PICK W : cfg.office_networks \in Seq(Row(W))
  BY TidyIs
<1>2. /\ ConfigFromForm(base, Fields(cfg, auto)) = ReadFrom(base, cfg)
      /\ Checked(Fields(cfg, auto), "autostart") <=> auto.on /\ ~auto.disabled
  BY <1>1, FormReads
<1>3. ReadFrom(base, cfg) = [cfg EXCEPT !.mode = base.mode]
  <2> DEFINE m == base.mode
  <2>1. Shaped(cfg) /\ ReadFrom(base, cfg) =
          Config(cfg.bridge_port, cfg.socks_upstream, cfg.http_upstream, cfg.no_proxy,
                 cfg.office_networks, cfg.toggles, m)
    BY TidyIs DEF ReadFrom
  <2> HIDE DEF m
  <2>2. [cfg EXCEPT !.mode = m] =
          Config(cfg.bridge_port, cfg.socks_upstream, cfg.http_upstream, cfg.no_proxy,
                 cfg.office_networks, cfg.toggles, m)
    BY <2>1 DEF Shaped, Config
  <2> QED BY <2>1, <2>2 DEF m
<1> QED BY <1>2, <1>3

-----------------------------------------------------------------------------
(* What a person does to a page, and what the form says of it.             *)

\* What a page shows, of a configuration as the page writes it.
Shows(shown) ==
  /\ shown = [cfg |-> shown.cfg, auto |-> shown.auto, net |-> shown.net]
  /\ TidyConfig(shown.cfg)
  /\ shown.auto \in [on : BOOLEAN, disabled : BOOLEAN]
  /\ shown.net \in Nets \cup {None}

\* A form over a configuration is read as this one.
Says(base, typed, meant) ==
  /\ ConfigFromForm(base, Fields(typed.cfg, typed.auto)) = [meant.cfg EXCEPT !.mode = base.mode]
  /\ typed.auto.disabled \/ (Checked(Fields(typed.cfg, typed.auto), "autostart") <=> meant.auto.on)

\* What is tidy in every part is tidy.
LEMMA TidyConfigIs ==
  ASSUME NEW a1, NEW a2, NEW a3, NEW a4, NEW a5, NEW a6, NEW a7,
         Trim(a1) = a1, Trim(a2) = a2, Trim(a3) = a3, NormaliseBypass(a4) = a4,
         NEW A, a5 \in Seq(A), \A net \in A : TidyNetwork(net), a6 \subseteq Toggles
  PROVE  TidyConfig(Config(a1, a2, a3, a4, a5, a6, a7))
<1> DEFINE cfg == Config(a1, a2, a3, a4, a5, a6, a7)
<1>1. /\ cfg.bridge_port = a1 /\ cfg.socks_upstream = a2 /\ cfg.http_upstream = a3 /\ cfg.no_proxy = a4
      /\ cfg.office_networks = a5 /\ cfg.toggles = a6 /\ cfg.mode = a7
  BY DEF Config
<1>2. cfg = [bridge_port |-> a1, socks_upstream |-> a2, http_upstream |-> a3, no_proxy |-> a4,
             office_networks |-> a5, toggles |-> a6, mode |-> a7]
  BY DEF Config
<1>3. a5 \in Seq(Range(a5)) /\ \A net \in Range(a5) : TidyNetwork(net)
  BY TidyTable
<1> HIDE DEF cfg
<1> QED BY <1>1, <1>2, <1>3 DEF TidyConfig, cfg
\* A page that is tidy says what it shows.
LEMMA SaysTidy ==
  ASSUME NEW base, Shaped(base), NEW typed, TidyConfig(typed.cfg), typed.auto \in [on : BOOLEAN, disabled : BOOLEAN]
  PROVE  Says(base, typed, typed)
BY TidyIsRead DEF Says

\* A page that is not says what a tidy one would that is read alike.
LEMMA SaysUntidy ==
  ASSUME NEW base, Shaped(base), NEW typed, NEW meant, TidyConfig(meant.cfg), typed.auto = meant.auto,
         typed.auto \in [on : BOOLEAN, disabled : BOOLEAN],
         NEW W, typed.cfg.office_networks \in Seq(Row(W)), ReadFrom(base, typed.cfg) = ReadFrom(base, meant.cfg)
  PROVE  Says(base, typed, meant)
<1>1. /\ ConfigFromForm(base, Fields(typed.cfg, typed.auto)) = ReadFrom(base, typed.cfg)
      /\ Checked(Fields(typed.cfg, typed.auto), "autostart") <=> typed.auto.on /\ ~typed.auto.disabled
  BY FormReads
<1>2. PICK X : meant.cfg.office_networks \in Seq(Row(X))
  BY TidyIs
<1>3. ConfigFromForm(base, Fields(meant.cfg, meant.auto)) = ReadFrom(base, meant.cfg)
  BY <1>2, FormReads
<1>4. ConfigFromForm(base, Fields(meant.cfg, meant.auto)) = [meant.cfg EXCEPT !.mode = base.mode]
  BY TidyIsRead
<1>5. ConfigFromForm(base, Fields(typed.cfg, typed.auto)) = [meant.cfg EXCEPT !.mode = base.mode]
  BY <1>1, <1>3, <1>4
<1> QED BY <1>1, <1>5 DEF Says

\* What Typed and Meant make of a page.
Face(cfg, auto, net) == [cfg |-> cfg, auto |-> auto, net |-> net]
Cleared(nets) == [i \in DOMAIN nets |-> IF i = 1 THEN [nets[i] EXCEPT !.id = <<"sp">>] ELSE nets[i]]

\* Without its first row the table is its tail.
LEMMA ClearedIs ==
  ASSUME NEW R, NEW nets \in Seq(R)
  PROVE  (IF Cleared(nets) = << >> THEN Cleared(nets) ELSE Tail(Cleared(nets)))
           = IF nets = << >> THEN nets ELSE Tail(nets)
<1>1. Len(nets) \in Nat /\ DOMAIN nets = 1 .. Len(nets) /\ DOMAIN Cleared(nets) = 1 .. Len(nets)
  BY LenProperties DEF Cleared
<1>2. CASE nets = << >>
  BY <1>2 DEF Cleared
<1>3. CASE nets # << >>
  <2> DEFINE e(i) == IF i = 1 THEN [nets[i] EXCEPT !.id = <<"sp">>] ELSE nets[i]
  <2>1. Len(nets) >= 1
    BY <1>1, <1>3, EmptySeq
  <2>2. Cleared(nets) = [i \in 1 .. Len(nets) |-> e(i)]
    BY <1>1 DEF Cleared
  <2> DEFINE S == {e(i) : i \in 1 .. Len(nets)}
  <2>3. \A i \in 1 .. Len(nets) : e(i) \in S
    OBVIOUS
  <2>4. \A i \in 1 .. Len(nets) - 1 : e(i + 1) = nets[i + 1]
    BY <1>1
  <2> HIDE DEF S, e
  <2> DEFINE c == [i \in 1 .. Len(nets) |-> e(i)]
  <2>5. c \in Seq(S) /\ Len(c) = Len(nets) /\ \A i \in 1 .. Len(nets) : c[i] = e(i)
    BY <1>1, <2>3
  <2> HIDE DEF c
  <2>6. c # << >>
    BY <2>1, <2>5
  <2>7. /\ Tail(c) \in Seq(S) /\ Len(Tail(c)) = Len(c) - 1 /\ \A i \in 1 .. Len(c) - 1 : Tail(c)[i] = c[i + 1]
        /\ Tail(nets) \in Seq(R) /\ Len(Tail(nets)) = Len(nets) - 1
        /\ \A i \in 1 .. Len(nets) - 1 : Tail(nets)[i] = nets[i + 1]
    BY <1>3, <2>5, <2>6, HeadTailProperties
  <2>8. \A i \in 1 .. Len(nets) - 1 : c[i + 1] = nets[i + 1]
    BY <1>1, <2>4, <2>5
  <2>9. Tail(c) = Tail(nets)
    BY <2>5, <2>7, <2>8, SeqEqual
  <2> QED BY <1>3, <2>2, <2>6, <2>9 DEF c
<1> QED BY <1>2, <1>3

Edited(shown, a1, a2, a3, a4, a5, a6, a7, auto, net) ==
  /\ Typed(shown, "nothing") = shown /\ Meant(shown, "nothing") = shown
  /\ Typed(shown, "socks") = Face(Config(a1, <<"sp", "up", "sp">>, a3, a4, a5, a6, a7), auto, net)
  /\ Meant(shown, "socks") = Face(Config(a1, <<"up">>, a3, a4, a5, a6, a7), auto, net)
  /\ Typed(shown, "bypass") = Face(Config(a1, a2, a3, <<"b", "nl", "nl", "sp", "a", "comma">>, a5, a6, a7), auto, net)
  /\ Meant(shown, "bypass") = Face(Config(a1, a2, a3, <<"b", "comma", "a">>, a5, a6, a7), auto, net)
  /\ Typed(shown, "tick") = Face(Config(a1, a2, a3, a4, a5, Toggles \ a6, a7), auto, net)
  /\ Meant(shown, "tick") = Typed(shown, "tick")
  /\ Typed(shown, "row") = Face(Config(a1, a2, a3, a4, a5 \o <<[id |-> <<"hand">>, name |-> <<"mine">>]>>, a6, a7), auto, net)
  /\ Meant(shown, "row") = Typed(shown, "row")
  /\ Typed(shown, "clear") = Face(Config(a1, a2, a3, a4, Cleared(a5), a6, a7), auto, net)
  /\ Meant(shown, "clear") = Face(Config(a1, a2, a3, a4, IF a5 = << >> THEN a5 ELSE Tail(a5), a6, a7), auto, net)
  /\ Typed(shown, "port") = Face(Config(<<"0">>, a2, a3, a4, a5, a6, a7), auto, net)
  /\ Meant(shown, "port") = Typed(shown, "port")
  /\ Typed(shown, "box") = IF auto.disabled THEN shown ELSE Face(shown.cfg, [auto EXCEPT !.on = ~@], net)
  /\ Meant(shown, "box") = Typed(shown, "box")

\* What is typed, field by field.
LEMMA TypedIs ==
  ASSUME NEW R, NEW a1, NEW a2, NEW a3, NEW a4, NEW a5 \in Seq(R), NEW a6, NEW a7, NEW auto, NEW net,
         NEW shown, shown = Face(Config(a1, a2, a3, a4, a5, a6, a7), auto, net)
  PROVE  Edited(shown, a1, a2, a3, a4, a5, a6, a7, auto, net)
<1> USE DEF Edited
<1>1. Typed(shown, "nothing") = shown /\ Meant(shown, "nothing") = shown
  BY DEF Typed, Meant
<1>2. shown.cfg = Config(a1, a2, a3, a4, a5, a6, a7) /\ shown.auto = auto /\ shown.net = net
  BY DEF Face
<1>3. shown.cfg.office_networks = a5 /\ shown.cfg.toggles = a6
  BY <1>2 DEF Config
<1>4. Typed(shown, "socks") = Face(Config(a1, <<"sp", "up", "sp">>, a3, a4, a5, a6, a7), auto, net)
  <2> DEFINE x == <<"sp", "up", "sp">>
  <2>1. Typed(shown, "socks") = [shown EXCEPT !.cfg.socks_upstream = x]
    BY <1>3 DEF Typed
  <2> HIDE DEF x
  <2>2. [shown EXCEPT !.cfg.socks_upstream = x] = Face(Config(a1, x, a3, a4, a5, a6, a7), auto, net)
    BY DEF Face, Config
  <2> QED BY <2>1, <2>2 DEF x
<1>5. Meant(shown, "socks") = Face(Config(a1, <<"up">>, a3, a4, a5, a6, a7), auto, net)
  <2> DEFINE x == <<"sp", "up", "sp">>
  <2> DEFINE y == <<"up">>
  <2> DEFINE t == Typed(shown, "socks")
  <2>1. Meant(shown, "socks") = [t EXCEPT !.cfg.socks_upstream = y]
    BY DEF Meant
  <2> HIDE DEF x, y, t
  <2>2. t = Face(Config(a1, x, a3, a4, a5, a6, a7), auto, net)
    BY <1>4 DEF t, x
  <2>3. [t EXCEPT !.cfg.socks_upstream = y] = Face(Config(a1, y, a3, a4, a5, a6, a7), auto, net)
    BY <2>2 DEF Face, Config
  <2> QED BY <2>1, <2>3 DEF y
<1>6. Typed(shown, "bypass") = Face(Config(a1, a2, a3, <<"b", "nl", "nl", "sp", "a", "comma">>, a5, a6, a7), auto, net)
  <2> DEFINE x == <<"b", "nl", "nl", "sp", "a", "comma">>
  <2>1. Typed(shown, "bypass") = [shown EXCEPT !.cfg.no_proxy = x]
    BY <1>3 DEF Typed
  <2> HIDE DEF x
  <2>2. [shown EXCEPT !.cfg.no_proxy = x] = Face(Config(a1, a2, a3, x, a5, a6, a7), auto, net)
    BY DEF Face, Config
  <2> QED BY <2>1, <2>2 DEF x
<1>7. Meant(shown, "bypass") = Face(Config(a1, a2, a3, <<"b", "comma", "a">>, a5, a6, a7), auto, net)
  <2> DEFINE x == <<"b", "nl", "nl", "sp", "a", "comma">>
  <2> DEFINE y == <<"b", "comma", "a">>
  <2> DEFINE t == Typed(shown, "bypass")
  <2>1. Meant(shown, "bypass") = [t EXCEPT !.cfg.no_proxy = y]
    BY DEF Meant
  <2> HIDE DEF x, y, t
  <2>2. t = Face(Config(a1, a2, a3, x, a5, a6, a7), auto, net)
    BY <1>6 DEF t, x
  <2>3. [t EXCEPT !.cfg.no_proxy = y] = Face(Config(a1, a2, a3, y, a5, a6, a7), auto, net)
    BY <2>2 DEF Face, Config
  <2> QED BY <2>1, <2>3 DEF y
<1>8. Typed(shown, "tick") = Face(Config(a1, a2, a3, a4, a5, Toggles \ a6, a7), auto, net)
  <2> DEFINE x == Toggles \ a6
  <2>1. Typed(shown, "tick") = [shown EXCEPT !.cfg.toggles = x]
    BY <1>3 DEF Typed
  <2> HIDE DEF x
  <2>2. [shown EXCEPT !.cfg.toggles = x] = Face(Config(a1, a2, a3, a4, a5, x, a7), auto, net)
    BY DEF Face, Config
  <2> QED BY <2>1, <2>2 DEF x
<1>9. Meant(shown, "tick") = Typed(shown, "tick")
  BY DEF Meant
<1>10. Typed(shown, "row") = Face(Config(a1, a2, a3, a4, a5 \o <<[id |-> <<"hand">>, name |-> <<"mine">>]>>, a6, a7), auto, net)
  <2> DEFINE x == a5 \o <<[id |-> <<"hand">>, name |-> <<"mine">>]>>
  <2>1. Typed(shown, "row") = [shown EXCEPT !.cfg.office_networks = x]
    BY <1>3 DEF Typed
  <2> HIDE DEF x
  <2>2. [shown EXCEPT !.cfg.office_networks = x] = Face(Config(a1, a2, a3, a4, x, a6, a7), auto, net)
    BY DEF Face, Config
  <2> QED BY <2>1, <2>2 DEF x
<1>11. Meant(shown, "row") = Typed(shown, "row")
  BY DEF Meant
<1>12. Typed(shown, "clear") = Face(Config(a1, a2, a3, a4, Cleared(a5), a6, a7), auto, net)
  <2> DEFINE x == Cleared(a5)
  <2>1. Typed(shown, "clear") = [shown EXCEPT !.cfg.office_networks = x]
    BY <1>3 DEF Typed, Cleared
  <2> HIDE DEF x
  <2>2. [shown EXCEPT !.cfg.office_networks = x] = Face(Config(a1, a2, a3, a4, x, a6, a7), auto, net)
    BY DEF Face, Config
  <2> QED BY <2>1, <2>2 DEF x
<1>13. Meant(shown, "clear") = Face(Config(a1, a2, a3, a4, IF a5 = << >> THEN a5 ELSE Tail(a5), a6, a7), auto, net)
  <2> DEFINE x == Cleared(a5)
  <2> DEFINE y == IF a5 = << >> THEN a5 ELSE Tail(a5)
  <2> DEFINE t == Typed(shown, "clear")
  <2>0. (IF x = << >> THEN x ELSE Tail(x)) = y
    BY ClearedIs
  <2>1. Meant(shown, "clear") = [t EXCEPT !.cfg.office_networks = y]
    <3>1. t.cfg.office_networks = x
      BY <1>12 DEF Face, Config
    <3> DEFINE z == IF t.cfg.office_networks = << >> THEN t.cfg.office_networks ELSE Tail(t.cfg.office_networks)
    <3>2. Meant(shown, "clear") = [t EXCEPT !.cfg.office_networks = z]
      BY DEF Meant
    <3>3. z = y
      <4> HIDE DEF t, x, y
      <4> QED BY <2>0, <3>1
    <3> HIDE DEF z, y, t
    <3> QED BY <3>2, <3>3
  <2> HIDE DEF x, y, t
  <2>2. t = Face(Config(a1, a2, a3, a4, x, a6, a7), auto, net)
    BY <1>12 DEF t, x
  <2>3. [t EXCEPT !.cfg.office_networks = y] = Face(Config(a1, a2, a3, a4, y, a6, a7), auto, net)
    BY <2>2 DEF Face, Config
  <2> QED BY <2>1, <2>3 DEF y
<1>14. Typed(shown, "port") = Face(Config(<<"0">>, a2, a3, a4, a5, a6, a7), auto, net)
  <2> DEFINE x == <<"0">>
  <2>1. Typed(shown, "port") = [shown EXCEPT !.cfg.bridge_port = x]
    BY <1>3 DEF Typed
  <2> HIDE DEF x
  <2>2. [shown EXCEPT !.cfg.bridge_port = x] = Face(Config(x, a2, a3, a4, a5, a6, a7), auto, net)
    BY DEF Face, Config
  <2> QED BY <2>1, <2>2 DEF x
<1>15. Meant(shown, "port") = Typed(shown, "port")
  BY DEF Meant
<1>16. Typed(shown, "box") = IF auto.disabled THEN shown ELSE Face(shown.cfg, [auto EXCEPT !.on = ~@], net)
  BY <1>2 DEF Typed, Face
<1>17. Meant(shown, "box") = Typed(shown, "box")
  BY DEF Meant
<1> QED BY <1>1, <1>4, <1>5, <1>6, <1>7, <1>8, <1>9, <1>10, <1>11, <1>12, <1>13, <1>14, <1>15, <1>16, <1>17

\* The table whose first id has been deleted.
LEMMA ClearedIsRest ==
  ASSUME NEW A, NEW nets \in Seq(A), \A net \in A : TidyNetwork(net)
  PROVE  /\ Real(Trimmed(Cleared(nets))) = IF nets = << >> THEN nets ELSE Tail(nets)
         /\ \E W : Cleared(nets) \in Seq(Row(W))
<1>0. Len(nets) \in Nat /\ DOMAIN nets = 1 .. Len(nets) /\ \A i \in 1 .. Len(nets) : nets[i] \in A
  BY LenProperties, ElementOfSeq
<1>1. \A net \in A : net = [id |-> net.id, name |-> net.name] /\ Trim(net.id) = net.id /\ Trim(net.name) = net.name
  BY DEF TidyNetwork
<1>2. ASSUME nets # << >>
      PROVE  Real(Trimmed(Cleared(nets))) = Tail(nets)
  <2>1. Len(nets) >= 1
    BY <1>0, <1>2, EmptySeq
  <2> DEFINE blank == [id |-> << >>, name |-> nets[1].name]
  <2> DEFINE rest == Tail(nets)
  <2> DEFINE B == A \cup {blank}
  <2>2. /\ rest \in Seq(A) /\ Len(rest) = Len(nets) - 1 /\ \A i \in 1 .. Len(nets) - 1 : rest[i] = nets[i + 1]
    BY <1>2, HeadTailProperties
  <2>3. /\ <<blank>> \o rest \in Seq(B) /\ Len(<<blank>> \o rest) = Len(nets)
        /\ \A i \in 1 .. Len(nets) : (<<blank>> \o rest)[i] = IF i = 1 THEN blank ELSE nets[i]
    <3>1. <<blank>> \in Seq(B) /\ Len(<<blank>>) = 1 /\ <<blank>>[1] = blank /\ rest \in Seq(B)
      <4>1. rest \in Seq(B)
        BY <2>2, SeqMonotonic
      <4> QED BY <4>1
    <3> DEFINE b == <<blank>>
    <3> HIDE DEF blank, b, rest, B
    <3>2. /\ b \o rest \in Seq(B) /\ Len(b \o rest) = 1 + Len(rest)
          /\ \A i \in 1 .. 1 + Len(rest) : (b \o rest)[i] = IF i <= 1 THEN b[i] ELSE rest[i - 1]
      <4>1. b \in Seq(B) /\ Len(b) = 1
        BY <3>1 DEF b
      <4>2. /\ b \o rest \in Seq(B) /\ Len(b \o rest) = Len(b) + Len(rest)
            /\ \A i \in 1 .. Len(b) + Len(rest) : (b \o rest)[i] = IF i <= Len(b) THEN b[i] ELSE rest[i - Len(b)]
        BY <3>1, <4>1, ConcatProperties
      <4> DEFINE d == b \o rest
      <4> HIDE DEF d
      <4>3. /\ d \in Seq(B) /\ Len(d) = 1 + Len(rest)
            /\ \A i \in 1 .. 1 + Len(rest) : d[i] = IF i <= 1 THEN b[i] ELSE rest[i - 1]
        BY <4>1, <4>2 DEF d
      <4> QED BY <4>3 DEF d
    <3>3. ASSUME NEW i \in 1 .. Len(nets)
          PROVE  (b \o rest)[i] = IF i = 1 THEN blank ELSE nets[i]
      <4>1. i \in 1 .. 1 + Len(rest)
        BY <1>0, <2>2
      <4>2. CASE i = 1
        <5>1. b[1] = blank
          BY <3>1 DEF b
        <5> QED BY <3>2, <4>1, <4>2, <5>1
      <4>3. CASE i # 1
        <5>1. i - 1 \in 1 .. Len(nets) - 1 /\ (i - 1) + 1 = i /\ ~(i <= 1)
          BY <1>0, <4>3
        <5> QED BY <2>2, <3>2, <4>1, <4>3, <5>1
      <4> QED BY <4>2, <4>3
    <3> DEFINE d == b \o rest
    <3>4. 1 + Len(rest) = Len(nets)
      BY <1>0, <2>2
    <3>5. d \in Seq(B) /\ Len(d) = Len(nets) /\ \A i \in 1 .. Len(nets) : d[i] = IF i = 1 THEN blank ELSE nets[i]
      <4> HIDE DEF d
      <4> QED BY <3>2, <3>3, <3>4 DEF d
    <3> QED BY <3>5, Zenon DEF b
  <2> DEFINE c == <<blank>> \o rest
  <2>4. \A i \in 1 .. Len(nets) : [id |-> Trim(Cleared(nets)[i].id), name |-> Trim(Cleared(nets)[i].name)]
                                    = IF i = 1 THEN blank ELSE nets[i]
    <3> TAKE i \in 1 .. Len(nets)
    <3>1. CASE i = 1
      <4>1. Cleared(nets)[i] = [nets[1] EXCEPT !.id = <<"sp">>] /\ nets[1] \in A
        BY <1>0, <2>1, <3>1 DEF Cleared
      <4>2. Cleared(nets)[i].id = <<"sp">> /\ Cleared(nets)[i].name = nets[1].name
        BY <1>1, <4>1
      <4> QED BY <1>1, <3>1, <4>1, <4>2, TrimsOf
    <3>2. CASE i # 1
      <4>1. Cleared(nets)[i] = nets[i] /\ nets[i] \in A
        BY <1>0, <3>2 DEF Cleared
      <4> QED BY <1>1, <3>2, <4>1
    <3> QED BY <3>1, <3>2
  <2>5. Trimmed(Cleared(nets)) = c
    <3>1. DOMAIN Cleared(nets) = 1 .. Len(nets)
      BY <1>0 DEF Cleared
    <3>2. Trimmed(Cleared(nets)) =
            [i \in 1 .. Len(nets) |-> [id |-> Trim(Cleared(nets)[i].id), name |-> Trim(Cleared(nets)[i].name)]]
      BY <3>1 DEF Trimmed
    <3> HIDE DEF blank, rest, B
    <3>3. c \in Seq(B) /\ Len(c) = Len(nets) /\ \A i \in 1 .. Len(nets) : c[i] = IF i = 1 THEN blank ELSE nets[i]
      BY <2>3 DEF c
    <3> HIDE DEF c
    <3>4. c = [i \in 1 .. Len(nets) |-> c[i]]
      BY <3>3
    <3> QED BY <2>4, <3>2, <3>3, <3>4
  <2>6. blank.id = << >>
    OBVIOUS
  <2> HIDE DEF blank, rest
  <2>7. Real(c) = rest
    BY <2>2, <2>6, RestIsReal
  <2> QED BY <2>5, <2>7 DEF rest
<1>3. CASE nets = << >>
  <2>1. Cleared(nets) = << >>
    BY <1>3 DEF Cleared
  <2>2. Trimmed(<< >>) = << >>
    BY DEF Trimmed
  <2>3. Real(<< >>) = << >>
    BY MarkedEmpty DEF Real
  <2>4. << >> \in Seq(Row({}))
    BY EmptySeq
  <2> QED BY <1>3, <2>1, <2>2, <2>3, <2>4
<1>4. CASE nets # << >>
  <2> DEFINE W == {net.id : net \in A} \cup {net.name : net \in A} \cup {<<"sp">>}
  <2>1. ASSUME NEW i \in 1 .. Len(nets) PROVE Cleared(nets)[i] \in Row(W)
    <3>1. nets[i] \in A /\ nets[i] = [id |-> nets[i].id, name |-> nets[i].name]
      BY <1>0, <1>1
    <3>2. nets[i].id \in W /\ nets[i].name \in W /\ <<"sp">> \in W
      BY <3>1
    <3>3. Cleared(nets)[i] = IF i = 1 THEN [nets[i] EXCEPT !.id = <<"sp">>] ELSE nets[i]
      BY <1>0 DEF Cleared
    <3> HIDE DEF W
    <3>4. [nets[i] EXCEPT !.id = <<"sp">>] = [id |-> <<"sp">>, name |-> nets[i].name]
      BY <3>1
    <3> QED BY <3>1, <3>2, <3>3, <3>4 DEF Row
  <2> HIDE DEF W
  <2>2. Cleared(nets) = [i \in 1 .. Len(nets) |-> Cleared(nets)[i]]
    BY <1>0 DEF Cleared
  <2> DEFINE e(i) == Cleared(nets)[i]
  <2>3. \A i \in 1 .. Len(nets) : e(i) \in Row(W)
    BY <2>1
  <2> HIDE DEF e
  <2>4. [i \in 1 .. Len(nets) |-> e(i)] \in Seq(Row(W))
    BY <1>0, <2>3
  <2>5. Cleared(nets) \in Seq(Row(W))
    BY <2>2, <2>4 DEF e
  <2> QED BY <1>2, <1>4, <2>5
<1> QED BY <1>3, <1>4

\* What a person makes of a page is tidy, and the form says it.
LEMMA FaceReadsBack ==
  ASSUME NEW shown, Shows(shown), NEW base, Shaped(base),
         NEW edit \in {"nothing", "socks", "bypass", "tick", "row", "clear", "port", "box"}
  PROVE  /\ Says(base, Typed(shown, edit), Meant(shown, edit))
         /\ TidyConfig(Meant(shown, edit).cfg) /\ Meant(shown, edit).cfg.mode = shown.cfg.mode
         /\ Typed(shown, edit).auto.disabled = shown.auto.disabled
         /\ Meant(shown, edit).auto.on \in BOOLEAN
<1> DEFINE cfg == shown.cfg
<1> DEFINE a1 == cfg.bridge_port
<1> DEFINE a2 == cfg.socks_upstream
<1> DEFINE a3 == cfg.http_upstream
<1> DEFINE a4 == cfg.no_proxy
<1> DEFINE a5 == cfg.office_networks
<1> DEFINE a6 == cfg.toggles
<1> DEFINE a7 == cfg.mode
<1> DEFINE auto == shown.auto
<1> DEFINE net == shown.net
<1> DEFINE A == Range(a5)
<1>1. TidyConfig(cfg) /\ auto \in [on : BOOLEAN, disabled : BOOLEAN]
  BY DEF Shows
<1>2. /\ shown = Face(Config(a1, a2, a3, a4, a5, a6, a7), auto, net)
      /\ Trim(a1) = a1 /\ Trim(a2) = a2 /\ Trim(a3) = a3 /\ NormaliseBypass(a4) = a4
      /\ Trimmed(a5) = a5 /\ Real(a5) = a5
  <2>1. Shaped(cfg)
    BY <1>1, TidyIs
  <2>2. cfg = Config(a1, a2, a3, a4, a5, a6, a7)
    BY <2>1 DEF Shaped
  <2>3. shown = Face(cfg, auto, net)
    BY DEF Shows, Face
  <2> HIDE DEF cfg
  <2> QED BY <1>1, <2>2, <2>3, TidyIs
<1>3. a5 \in Seq(A) /\ (\A x \in A : TidyNetwork(x)) /\ a6 \subseteq Toggles
  BY <1>1 DEF TidyConfig
<1>3a. Edited(shown, a1, a2, a3, a4, a5, a6, a7, auto, net)
  <2> HIDE DEF A, a1, a2, a3, a4, a5, a6, a7, auto, net
  <2> QED BY <1>2, <1>3, TypedIs
<1>4. \E W : a5 \in Seq(Row(W))
  BY <1>1, TidyIs
<1> HIDE DEF A
<1>5. TidyConfig(Config(a1, a2, a3, a4, a5, a6, a7))
  <2> HIDE DEF a1, a2, a3, a4, a5, a6, a7
  <2> QED BY <1>2, <1>3, TidyConfigIs
<1> HIDE DEF cfg, a1, a2, a3, a4, a5, a6, a7, auto, net
<1>6. ASSUME NEW x1, NEW x2, NEW x3, NEW x4, NEW x5, NEW x6, NEW x7, NEW y, NEW z
      PROVE  /\ Face(Config(x1, x2, x3, x4, x5, x6, x7), y, z).cfg = Config(x1, x2, x3, x4, x5, x6, x7)
             /\ Face(Config(x1, x2, x3, x4, x5, x6, x7), y, z).auto = y
             /\ Config(x1, x2, x3, x4, x5, x6, x7).mode = x7
             /\ Config(x1, x2, x3, x4, x5, x6, x7).office_networks = x5
  BY DEF Face, Config
<1>7. ASSUME NEW x1, NEW x2, NEW x3, NEW x4, NEW x5, NEW x6, NEW x7
      PROVE  ReadFrom(base, Config(x1, x2, x3, x4, x5, x6, x7))
               = Config(Trim(x1), Trim(x2), Trim(x3), NormaliseBypass(x4), Real(Trimmed(x5)), Toggles \cap x6, base.mode)
  BY DEF ReadFrom, Config
<1>8. shown.cfg = Config(a1, a2, a3, a4, a5, a6, a7) /\ shown.auto = auto /\ shown.cfg.mode = a7
  BY <1>2, <1>6
<1> DEFINE Good(typed, meant) ==
        /\ Says(base, typed, meant) /\ TidyConfig(meant.cfg) /\ meant.cfg.mode = shown.cfg.mode
        /\ typed.auto.disabled = shown.auto.disabled /\ meant.auto.on \in BOOLEAN
<1>9. ASSUME NEW x1, NEW x2, NEW x3, NEW x4, NEW x5, NEW x6, NEW y,
             y \in [on : BOOLEAN, disabled : BOOLEAN], y.disabled = auto.disabled,
             TidyConfig(Config(x1, x2, x3, x4, x5, x6, a7)),
             NEW typed, NEW meant, typed = Face(Config(x1, x2, x3, x4, x5, x6, a7), y, net), meant = typed
      PROVE  Good(typed, meant)
  <2>1. typed.cfg = Config(x1, x2, x3, x4, x5, x6, a7) /\ typed.auto = y /\ typed.cfg.mode = a7
    BY <1>6, <1>9
  <2>2. Says(base, typed, typed)
    BY <1>9, <2>1, SaysTidy
  <2>3. meant.auto.on \in BOOLEAN
    BY <1>9, <2>1
  <2> QED BY <1>8, <1>9, <2>1, <2>2, <2>3
<1>10. CASE edit = "nothing"
  <2>1. Typed(shown, "nothing") = shown /\ Meant(shown, "nothing") = shown
    BY DEF Typed, Meant
  <2>2. Good(shown, shown)
    BY <1>1, <1>2, <1>5, <1>9
  <2> HIDE DEF Good
  <2>3. Good(Typed(shown, edit), Meant(shown, edit))
    BY <1>10, <2>1, <2>2
  <2> QED BY <2>3 DEF Good
<1>11. CASE edit = "tick"
  <2> DEFINE x == Toggles \ a6
  <2>1. Typed(shown, "tick") = Face(Config(a1, a2, a3, a4, a5, x, a7), auto, net) /\ Meant(shown, "tick") = Typed(shown, "tick")
    BY <1>3a DEF Edited
  <2>2. x \subseteq Toggles
    OBVIOUS
  <2> HIDE DEF x, Good
  <2>3. TidyConfig(Config(a1, a2, a3, a4, a5, x, a7))
    BY <1>2, <1>3, <2>2, TidyConfigIs
  <2>4. Good(Typed(shown, "tick"), Meant(shown, "tick"))
    BY <1>1, <1>9, <2>1, <2>3
  <2>5. Good(Typed(shown, edit), Meant(shown, edit))
    BY <1>11, <2>4
  <2> QED BY <2>5 DEF Good
<1>12. CASE edit = "port"
  <2> DEFINE x == <<"0">>
  <2>1. Typed(shown, "port") = Face(Config(x, a2, a3, a4, a5, a6, a7), auto, net) /\ Meant(shown, "port") = Typed(shown, "port")
    BY <1>3a DEF Edited
  <2>2. Trim(x) = x
    BY TrimsOf
  <2> HIDE DEF x, Good
  <2>3. TidyConfig(Config(x, a2, a3, a4, a5, a6, a7))
    BY <1>2, <1>3, <2>2, TidyConfigIs
  <2>4. Good(Typed(shown, "port"), Meant(shown, "port"))
    BY <1>1, <1>9, <2>1, <2>3
  <2>5. Good(Typed(shown, edit), Meant(shown, edit))
    BY <1>12, <2>4
  <2> QED BY <2>5 DEF Good
<1>13. CASE edit = "row"
  <2> DEFINE hand == [id |-> <<"hand">>, name |-> <<"mine">>]
  <2> DEFINE x == a5 \o <<hand>>
  <2> DEFINE B == A \cup {hand}
  <2>1. Typed(shown, "row") = Face(Config(a1, a2, a3, a4, x, a6, a7), auto, net) /\ Meant(shown, "row") = Typed(shown, "row")
    BY <1>3a DEF Edited
  <2>2. TidyNetwork(hand)
    BY TrimsOf DEF TidyNetwork
  <2>3. x \in Seq(B) /\ \A y \in B : TidyNetwork(y)
    <3>1. a5 \in Seq(B) /\ <<hand>> \in Seq(B)
      <4>1. a5 \in Seq(B)
        BY <1>3, SeqMonotonic
      <4> HIDE DEF hand
      <4>2. hand \in B
        OBVIOUS
      <4> HIDE DEF B
      <4> QED BY <4>1, <4>2
    <3> DEFINE h == <<hand>>
    <3>2. h \in Seq(B)
      BY <3>1
    <3> HIDE DEF B, h
    <3>3. a5 \o h \in Seq(B)
      BY <3>1, <3>2, ConcatProperties
    <3> HIDE DEF hand
    <3> QED BY <1>3, <2>2, <3>3 DEF B, h
  <2> HIDE DEF x, B, hand, Good
  <2>4. TidyConfig(Config(a1, a2, a3, a4, x, a6, a7))
    BY <1>2, <1>3, <2>3, TidyConfigIs
  <2>5. Good(Typed(shown, "row"), Meant(shown, "row"))
    BY <1>1, <1>9, <2>1, <2>4
  <2>6. Good(Typed(shown, edit), Meant(shown, edit))
    BY <1>13, <2>5
  <2> QED BY <2>6 DEF Good
<1>14. CASE edit = "box"
  <2> DEFINE y == [auto EXCEPT !.on = ~@]
  <2>1. /\ Typed(shown, "box") = IF auto.disabled THEN shown ELSE Face(shown.cfg, y, net)
        /\ Meant(shown, "box") = Typed(shown, "box")
    BY <1>3a DEF Edited
  <2>2. y \in [on : BOOLEAN, disabled : BOOLEAN] /\ y.disabled = auto.disabled
    BY <1>1
  <2> HIDE DEF y, Good
  <2>3. Good(shown, shown) /\ Good(Face(shown.cfg, y, net), Face(shown.cfg, y, net))
    BY <1>1, <1>2, <1>5, <1>8, <1>9, <2>2
  <2>4. Good(Typed(shown, edit), Meant(shown, edit))
    BY <1>14, <2>1, <2>3
  <2> QED BY <2>4 DEF Good
<1>15. ASSUME NEW x2, NEW x4, NEW x5, NEW z2, NEW z4, NEW z5,
              TidyConfig(Config(a1, z2, a3, z4, z5, a6, a7)),
              NEW W, x5 \in Seq(Row(W)),
              Trim(x2) = z2, Trim(z2) = z2, NormaliseBypass(x4) = z4, NormaliseBypass(z4) = z4,
              Real(Trimmed(x5)) = z5, Real(Trimmed(z5)) = z5,
              NEW typed, NEW meant, typed = Face(Config(a1, x2, a3, x4, x5, a6, a7), auto, net),
              meant = Face(Config(a1, z2, a3, z4, z5, a6, a7), auto, net)
      PROVE  Good(typed, meant)
  <2>1. /\ typed.cfg = Config(a1, x2, a3, x4, x5, a6, a7) /\ typed.auto = auto
        /\ typed.cfg.office_networks = x5
        /\ meant.cfg = Config(a1, z2, a3, z4, z5, a6, a7) /\ meant.auto = auto
        /\ meant.cfg.mode = a7
    BY <1>6, <1>15
  <2>2. ReadFrom(base, typed.cfg) = ReadFrom(base, meant.cfg)
    <3>1. ReadFrom(base, typed.cfg) = Config(Trim(a1), z2, Trim(a3), z4, z5, Toggles \cap a6, base.mode)
      BY <1>7, <1>15, <2>1
    <3>2. ReadFrom(base, meant.cfg) = Config(Trim(a1), z2, Trim(a3), z4, z5, Toggles \cap a6, base.mode)
      BY <1>7, <1>15, <2>1
    <3> QED BY <3>1, <3>2
  <2>3. Says(base, typed, meant)
    BY <1>1, <1>15, <2>1, <2>2, SaysUntidy
  <2>4. meant.auto.on \in BOOLEAN
    BY <1>1, <2>1
  <2> QED BY <1>8, <1>15, <2>1, <2>3, <2>4
<1>16. CASE edit = "socks"
  <2> DEFINE x == <<"sp", "up", "sp">>
  <2> DEFINE y == <<"up">>
  <2>1. /\ Typed(shown, "socks") = Face(Config(a1, x, a3, a4, a5, a6, a7), auto, net)
        /\ Meant(shown, "socks") = Face(Config(a1, y, a3, a4, a5, a6, a7), auto, net)
    BY <1>3a DEF Edited
  <2>2. Trim(x) = y /\ Trim(y) = y
    BY TrimsOf
  <2> HIDE DEF x, y, Good
  <2>3. TidyConfig(Config(a1, y, a3, a4, a5, a6, a7))
    BY <1>2, <1>3, <2>2, TidyConfigIs
  <2>4. Good(Typed(shown, "socks"), Meant(shown, "socks"))
    BY <1>2, <1>4, <1>15, <2>1, <2>2, <2>3
  <2>5. Good(Typed(shown, edit), Meant(shown, edit))
    BY <1>16, <2>4
  <2> QED BY <2>5 DEF Good
<1>17. CASE edit = "bypass"
  <2> DEFINE x == <<"b", "nl", "nl", "sp", "a", "comma">>
  <2> DEFINE y == <<"b", "comma", "a">>
  <2>1. /\ Typed(shown, "bypass") = Face(Config(a1, a2, a3, x, a5, a6, a7), auto, net)
        /\ Meant(shown, "bypass") = Face(Config(a1, a2, a3, y, a5, a6, a7), auto, net)
    BY <1>3a DEF Edited
  <2>2. NormaliseBypass(x) = y /\ NormaliseBypass(y) = y
    BY WordsOf
  <2> HIDE DEF x, y, Good
  <2>3. TidyConfig(Config(a1, a2, a3, y, a5, a6, a7))
    BY <1>2, <1>3, <2>2, TidyConfigIs
  <2>4. Good(Typed(shown, "bypass"), Meant(shown, "bypass"))
    BY <1>2, <1>4, <1>15, <2>1, <2>2, <2>3
  <2>5. Good(Typed(shown, edit), Meant(shown, edit))
    BY <1>17, <2>4
  <2> QED BY <2>5 DEF Good
<1>18. CASE edit = "clear"
  <2> DEFINE x == Cleared(a5)
  <2> DEFINE y == IF a5 = << >> THEN a5 ELSE Tail(a5)
  <2>1. /\ Typed(shown, "clear") = Face(Config(a1, a2, a3, a4, x, a6, a7), auto, net)
        /\ Meant(shown, "clear") = Face(Config(a1, a2, a3, a4, y, a6, a7), auto, net)
    BY <1>3a DEF Edited
  <2>2. y \in Seq(A)
    BY <1>3, HeadTailProperties
  <2>3. Real(Trimmed(x)) = y /\ \E W : x \in Seq(Row(W))
    BY <1>3, ClearedIsRest
  <2> HIDE DEF x, y, Good
  <2>4. Real(Trimmed(y)) = y
    BY <1>3, <2>2, TidyIsReal
  <2>5. TidyConfig(Config(a1, a2, a3, a4, y, a6, a7))
    BY <1>2, <1>3, <2>2, TidyConfigIs
  <2>6. Good(Typed(shown, "clear"), Meant(shown, "clear"))
    BY <1>2, <1>15, <2>1, <2>3, <2>4, <2>5
  <2>7. Good(Typed(shown, edit), Meant(shown, edit))
    BY <1>18, <2>6
  <2> QED BY <2>7 DEF Good
<1> QED BY <1>10, <1>11, <1>12, <1>13, <1>14, <1>16, <1>17, <1>18

-----------------------------------------------------------------------------
(* The form.                                                               *)

\* What a page is made of.
Whole(r) ==
  r = [at |-> r.at, shown |-> r.shown, meant |-> r.meant, fresh |-> r.fresh,
       done |-> r.done, told |-> r.told]

Drawn == [cfg |-> saved, auto |-> AutostartBox, net |-> place]

\* The commands of a page in the channel say what is meant.
Pending(t) ==
  \A k \in DOMAIN inbox :
    inbox[k].cmd = "ApplyConfig" /\ inbox[k].done = t => inbox[k].config = tabs[t].meant.cfg

Switched(t) ==
  "failed" \in tabs[t].told \/ tabs[t].shown.auto.disabled
  \/ IsEnabled(entry) = tabs[t].meant.auto.on

\* What holds of a page since which nothing else has changed.
Current(t) ==
  /\ tabs[t].at = "open" => tabs[t].shown = Drawn
  /\ tabs[t].at = "waiting" =>
       Pending(t) /\ Switched(t) /\ (tabs[t].done => saved = tabs[t].meant.cfg)

Sound(t) ==
  /\ Whole(tabs[t])
  /\ tabs[t].at = "waiting" => tabs[t].told \cap {"refused", "applied"} = {}
  /\ tabs[t].fresh => Current(t)

Channelled ==
  /\ \E S : inbox \in Seq(S)
  /\ \A k \in DOMAIN inbox : inbox[k].cmd # "SetMode" => inbox[k].cmd = "ApplyConfig" /\ inbox[k].done \in Tabs

Kept ==
  /\ Channelled
  /\ tabs = [t \in Tabs |-> tabs[t]]
  /\ \A t \in Tabs : Sound(t)

\* Nothing is open yet and nothing sent.
LEMMA InitKept == SettingsInit => Kept
<1> SUFFICES ASSUME SettingsInit PROVE Kept
  OBVIOUS
<1>1. \A t \in Tabs : tabs[t] = Closed
  BY DEF SettingsInit
<1>2. Channelled
  <2>1. inbox = << >> /\ inbox \in Seq({})
    BY DEF SettingsInit
  <2> QED BY <2>1 DEF Channelled
<1>3. Whole(Closed) /\ Closed.at = "closed" /\ Closed.fresh = FALSE
  BY DEF Whole, Closed
<1>4. \A t \in Tabs : Sound(t)
  BY <1>1, <1>3 DEF Sound
<1>5. tabs = [t \in Tabs |-> tabs[t]]
  BY <1>1 DEF SettingsInit
<1> QED BY <1>2, <1>4, <1>5 DEF Kept

\* A page that somebody else's change has put out of date.
LEMMA StaleIsSound ==
  ASSUME NEW t \in Tabs, Sound(t), tabs'[t] = [tabs[t] EXCEPT !.fresh = FALSE]
  PROVE  Sound(t)' /\ ~tabs'[t].fresh /\ tabs'[t].told = tabs[t].told
<1>1. tabs'[t] = [at |-> tabs[t].at, shown |-> tabs[t].shown, meant |-> tabs[t].meant,
                  fresh |-> FALSE, done |-> tabs[t].done, told |-> tabs[t].told]
  BY DEF Sound, Whole
<1>2. Whole(tabs[t])'
  BY <1>1 DEF Whole
<1> QED BY <1>1, <1>2 DEF Sound

\* A page that is left alone in a world that is.
LEMMA UntouchedIsSound ==
  ASSUME NEW t \in Tabs, Sound(t), tabs'[t] = tabs[t], UNCHANGED <<saved, world>>,
         tabs[t].fresh /\ tabs[t].at = "waiting" => (Pending(t) => Pending(t)')
  PROVE  Sound(t)'
<1>1. Whole(tabs[t])'
  BY DEF Sound, Whole
<1>2. Drawn' = Drawn /\ (Switched(t) => Switched(t)')
  BY DEF Drawn, AutostartBox, world, Switched
<1>3. tabs[t].fresh => Current(t)'
  BY <1>2 DEF Sound, Current
<1> QED BY <1>1, <1>3 DEF Sound

\* A page that has just been drawn.
LEMMA DrawnIsSound ==
  ASSUME NEW t \in Tabs, NEW told, tabs'[t] = Page(told), UNCHANGED <<saved, world>>
  PROVE  Sound(t)'
<1>1. tabs'[t] = [at |-> "open", shown |-> Drawn, meant |-> Nothing, fresh |-> TRUE,
                  done |-> FALSE, told |-> told]
  BY DEF Page, Drawn
<1>2. Whole(tabs[t])'
  BY <1>1 DEF Whole
<1>3. Drawn' = Drawn
  BY DEF Drawn, AutostartBox, world
<1> QED BY <1>1, <1>2, <1>3 DEF Sound, Current

\* What is put into the channel.
LEMMA SentIsChannelled ==
  ASSUME Channelled, NEW cmd, inbox' = Append(inbox, cmd),
         cmd.cmd # "SetMode" => cmd.cmd = "ApplyConfig" /\ cmd.done \in Tabs
  PROVE  /\ Channelled'
         /\ \A k \in DOMAIN inbox' : (k \in DOMAIN inbox /\ inbox'[k] = inbox[k]) \/ inbox'[k] = cmd
<1>1. PICK S : inbox \in Seq(S)
  BY DEF Channelled
<1> DEFINE T == S \cup {cmd}
<1>2. inbox \in Seq(T)
  <2>1. S \subseteq T
    OBVIOUS
  <2> HIDE DEF T
  <2> QED BY <1>1, <2>1
<1>3. cmd \in T
  OBVIOUS
<1> HIDE DEF T
<1>4. inbox' \in Seq(T)
  BY <1>2, <1>3
<1>5. \A k \in DOMAIN inbox' : (k \in DOMAIN inbox /\ inbox'[k] = inbox[k]) \/ inbox'[k] = cmd
  BY <1>2, <1>3
<1> QED BY <1>4, <1>5 DEF Channelled

\* What is taken out of the channel.
LEMMA TakenIsChannelled ==
  ASSUME Channelled, inbox # << >>, inbox' = Tail(inbox)
  PROVE  /\ Channelled'
         /\ 1 \in DOMAIN inbox /\ Head(inbox) = inbox[1]
         /\ \A k \in DOMAIN inbox' : k + 1 \in DOMAIN inbox /\ inbox'[k] = inbox[k + 1]
<1>1. PICK S : inbox \in Seq(S)
  BY DEF Channelled
<1>2. inbox' \in Seq(S)
  BY <1>1
<1>3. \A k \in DOMAIN inbox' : k + 1 \in DOMAIN inbox /\ inbox'[k] = inbox[k + 1]
  BY <1>1
<1>4. 1 \in DOMAIN inbox /\ Head(inbox) = inbox[1]
  BY <1>1
<1> QED BY <1>2, <1>3, <1>4 DEF Channelled

\* What a page shows, and what is meant by it.
IsPage(p) == p = [cfg |-> p.cfg, auto |-> p.auto, net |-> p.net]

\* What is meant by a page is a page.
LEMMA MeantIsAPage ==
  ASSUME NEW page, IsPage(page), NEW edit \in Edits
  PROVE  IsPage(Meant(page, edit))
<1>1. ASSUME NEW p, IsPage(p), NEW c PROVE IsPage([p EXCEPT !.cfg = c])
  <2>1. [p EXCEPT !.cfg = c] = [cfg |-> c, auto |-> p.auto, net |-> p.net]
    BY <1>1 DEF IsPage
  <2> QED BY <2>1 DEF IsPage
<1>2. ASSUME NEW a PROVE IsPage([page EXCEPT !.auto = a])
  <2>1. [page EXCEPT !.auto = a] = [cfg |-> page.cfg, auto |-> a, net |-> page.net]
    BY DEF IsPage
  <2> QED BY <2>1 DEF IsPage
<1>3. edit \in {"nothing", "socks", "bypass", "tick", "row", "clear", "port", "box"}
  BY SettingsAssumption
<1>4. CASE edit \in {"nothing", "tick", "row", "port"}
  BY <1>1, <1>4 DEF Meant, Typed
<1>5. CASE edit = "box"
  BY <1>2, <1>5 DEF Meant, Typed
<1>6. CASE edit = "socks"
  BY <1>1, <1>6 DEF Meant, Typed
<1>7. CASE edit = "bypass"
  BY <1>1, <1>7 DEF Meant, Typed
<1>8. CASE edit = "clear"
  BY <1>1, <1>8 DEF Meant, Typed
<1> QED BY <1>3, <1>4, <1>5, <1>6, <1>7, <1>8

\* The button adds the network of the page.
LEMMA MeantWithNetwork ==
  ASSUME NEW page, IsPage(page), NEW edit \in Edits, NEW button
  PROVE  /\ MeantWith(page, edit, button).auto = Meant(page, edit).auto
         /\ button # "office" => MeantWith(page, edit, button).cfg = Meant(page, edit).cfg
         /\ button = "office" =>
              MeantWith(page, edit, button).cfg
                = [Meant(page, edit).cfg EXCEPT !.office_networks = Append(@, page.net)]
<1>1. IsPage(Meant(page, edit))
  BY MeantIsAPage
<1> QED BY <1>1 DEF MeantWith, IsPage

\* What a step may tell a page.
Untouched(t) ==
  tabs'[t] # tabs[t] /\ tabs'[t].fresh /\ "refused" \in tabs'[t].told =>
    UNCHANGED <<saved, entry, inbox>>

Said(t) ==
  tabs[t].at = "waiting" /\ "applied" \in tabs'[t].told => tabs[t].done

Right(t) == Untouched(t) /\ Said(t)

\* A page is drawn anew, and nothing else happens.
LEMMA DrawnKeeps ==
  ASSUME Kept, NEW t \in Tabs, NEW told, tabs' = [tabs EXCEPT ![t] = Page(told)],
         UNCHANGED <<saved, world, inbox>>,
         tabs[t].at = "waiting" /\ "applied" \in told => tabs[t].done
  PROVE  Kept' /\ \A u \in Tabs : Right(u)
<1>1. tabs' = [u \in Tabs |-> tabs'[u]]
  BY DEF Kept
<1>2. \A u \in Tabs : Sound(u)'
  <2> SUFFICES ASSUME NEW u \in Tabs PROVE Sound(u)'
    OBVIOUS
  <2>1. CASE u = t
    <3>1. tabs'[t] = Page(told)
      BY DEF Kept
    <3> QED BY <2>1, <3>1, DrawnIsSound
  <2>2. CASE u # t
    <3>1. tabs'[u] = tabs[u] /\ Sound(u)
      BY <2>2 DEF Kept
    <3>2. Pending(u) => Pending(u)'
      BY <3>1 DEF Pending
    <3> QED BY <3>1, <3>2, UntouchedIsSound
  <2> QED BY <2>1, <2>2
<1>3. Channelled'
  BY DEF Kept, Channelled
<1>4. \A u \in Tabs : Said(u)
  <2> SUFFICES ASSUME NEW u \in Tabs PROVE Said(u)
    OBVIOUS
  <2>1. CASE u = t
    <3>1. tabs'[t].told = told
      BY DEF Kept, Page
    <3> QED BY <2>1, <3>1 DEF Said
  <2>2. CASE u # t
    <3>1. tabs'[u] = tabs[u]
      BY <2>2 DEF Kept
    <3> QED BY <3>1 DEF Kept, Sound, Said
  <2> QED BY <2>1, <2>2
<1> QED BY <1>1, <1>2, <1>3, <1>4 DEF Kept, Right, Untouched, world

\* A form that was read from a page: what the command says is what is meant.
LEMMA CommandSaysWhatIsMeant ==
  ASSUME NEW t \in Tabs, NEW edit \in Edits, NEW button, NEW form, NEW read, NEW next,
         tabs[t].at = "open", ReadsBack(tabs[t].shown, edit), tabs[t].shown = Drawn,
         form = Fields(Typed(tabs[t].shown, edit).cfg, Typed(tabs[t].shown, edit).auto),
         read = NextConfig(t, form),
         next = IF button = "office" /\ place # None THEN WithNetwork(read) ELSE read,
         ~(button = "office" /\ OfficeRefused(read))
  PROVE  /\ next = MeantWith(tabs[t].shown, edit, button).cfg
         /\ ~entryReadable
            \/ Checked(form, "autostart") = MeantWith(tabs[t].shown, edit, button).auto.on
<1> DEFINE shown == tabs[t].shown
<1>1. /\ ConfigFromForm(shown.cfg, form) = Meant(shown, edit).cfg
      /\ shown.auto.disabled \/ Checked(form, "autostart") = Meant(shown, edit).auto.on
  BY DEF ReadsBack
<1>2. IsPage(shown) /\ shown.cfg = saved /\ shown.net = place /\ shown.auto = AutostartBox
  BY DEF IsPage, Drawn
<1>3. AutostartBox.disabled = ~entryReadable
  BY DEF AutostartBox
<1>4. read = Meant(shown, edit).cfg
  BY <1>1, <1>2 DEF NextConfig
<1> HIDE DEF shown
<1>5. /\ MeantWith(shown, edit, button).auto = Meant(shown, edit).auto
      /\ button # "office" => MeantWith(shown, edit, button).cfg = Meant(shown, edit).cfg
      /\ button = "office" =>
              MeantWith(shown, edit, button).cfg
                = [Meant(shown, edit).cfg EXCEPT !.office_networks = Append(@, shown.net)]
  BY <1>2, MeantWithNetwork
<1>6. next = MeantWith(shown, edit, button).cfg
  <2>1. CASE button = "office"
    <3>1. place # None
      BY <2>1 DEF OfficeRefused
    <3> QED BY <1>2, <1>4, <1>5, <2>1, <3>1 DEF WithNetwork
  <2>2. CASE button # "office"
    BY <1>4, <1>5, <2>2
  <2> QED BY <2>1, <2>2
<1>7. ~entryReadable \/ Checked(form, "autostart") = MeantWith(shown, edit, button).auto.on
  BY <1>1, <1>2, <1>3, <1>5
<1> QED BY <1>6, <1>7 DEF shown

\* A form is accepted, and said what was meant if its page was fresh.
LEMMA AcceptKeeps ==
  ASSUME Kept, NEW t \in Tabs, NEW next, NEW form, NEW meant,
         tabs[t].at = "open", ~InFlight(t), Accept(t, next, form, meant),
         IsEnabled(Enable), ~IsEnabled(Disable),
         tabs[t].fresh => /\ next = meant.cfg
                          /\ ~entryReadable \/ Checked(form, "autostart") = meant.auto.on
  PROVE  Kept' /\ \A u \in Tabs : Right(u)
<1> DEFINE cmd == [cmd |-> "ApplyConfig", config |-> next, done |-> t]
<1>1. PICK note \in {{}, {"on"}, {"off"}, {"failed"}} :
        /\ ApplyAutostart(form, note)
        /\ tabs' = LET others == IF entry' = entry THEN tabs ELSE Outdate(t)
                   IN [others EXCEPT ![t] =
                         [at |-> "waiting", shown |-> @.shown, meant |-> meant,
                          fresh |-> @.fresh, done |-> FALSE, told |-> note]]
  BY DEF Accept
<1>2. inbox' = Append(inbox, cmd) /\ UNCHANGED <<saved, entryReadable, place>>
  BY DEF Accept
<1>3. Channelled' /\ \A k \in DOMAIN inbox' : (k \in DOMAIN inbox /\ inbox'[k] = inbox[k]) \/ inbox'[k] = cmd
  BY <1>2, SentIsChannelled DEF Kept
<1>4. ~("refused" \in note) /\ ~("applied" \in note) /\ note \cap {"refused", "applied"} = {}
  OBVIOUS
<1> DEFINE r == [at |-> "waiting", shown |-> tabs[t].shown, meant |-> meant,
                 fresh |-> tabs[t].fresh, done |-> FALSE, told |-> note]
<1> DEFINE Rest(u) == IF entry' = entry THEN tabs[u] ELSE [tabs[u] EXCEPT !.fresh = FALSE]
<1>5. tabs' = [u \in Tabs |-> IF u = t THEN r ELSE Rest(u)]
  <2>1. tabs = [u \in Tabs |-> tabs[u]]
    BY DEF Kept
  <2>2. CASE entry' = entry
    BY <1>1, <2>1, <2>2
  <2>3. CASE entry' # entry
    <3>1. Outdate(t) = [u \in Tabs |-> IF u = t THEN tabs[u] ELSE [tabs[u] EXCEPT !.fresh = FALSE]]
      BY DEF Outdate
    <3> QED BY <1>1, <2>3, <3>1
  <2> QED BY <2>2, <2>3
<1>6. tabs' = [u \in Tabs |-> tabs'[u]] /\ tabs'[t] = r
      /\ \A u \in Tabs : u # t => tabs'[u] = Rest(u)
  BY <1>5
<1>7. \A u \in Tabs : u # t => Sound(u)' /\ tabs'[u].told = tabs[u].told /\ (tabs'[u] = tabs[u] \/ ~tabs'[u].fresh)
  <2> SUFFICES ASSUME NEW u \in Tabs, u # t PROVE Sound(u)' /\ tabs'[u].told = tabs[u].told /\ (tabs'[u] = tabs[u] \/ ~tabs'[u].fresh)
    OBVIOUS
  <2>0. Sound(u)
    BY DEF Kept
  <2>1. CASE entry' = entry
    <3>1. tabs'[u] = tabs[u]
      BY <1>6, <2>1
    <3>2. Pending(u) => Pending(u)'
      BY <1>3, <3>1 DEF Pending
    <3> QED BY <1>2, <2>0, <2>1, <3>1, <3>2, UntouchedIsSound DEF world
  <2>2. CASE entry' # entry
    <3>1. tabs'[u] = [tabs[u] EXCEPT !.fresh = FALSE]
      BY <1>6, <2>2
    <3> QED BY <2>0, <3>1, StaleIsSound
  <2> QED BY <2>1, <2>2
<1>8. Sound(t)'
  <2>1. Whole(tabs[t])' /\ tabs'[t].told \cap {"refused", "applied"} = {}
    BY <1>4, <1>6 DEF Whole
  <2>2. ASSUME tabs[t].fresh PROVE Pending(t)'
    <3>1. \A k \in DOMAIN inbox : ~(inbox[k].cmd = "ApplyConfig" /\ inbox[k].done = t)
      BY DEF InFlight
    <3>2. cmd.config = tabs'[t].meant.cfg
      BY <1>6, <2>2
    <3> QED BY <1>3, <3>1, <3>2 DEF Pending
  <2>3. ASSUME tabs[t].fresh PROVE Switched(t)'
    <3>1. tabs[t].shown = Drawn
      BY <2>3 DEF Kept, Sound, Current
    <3>2. tabs'[t].shown.auto = AutostartBox /\ tabs'[t].told = note /\ tabs'[t].meant = meant
      BY <1>6, <3>1 DEF Drawn
    <3>3. CASE ~entryReadable
      BY <3>2, <3>3 DEF AutostartBox, Switched
    <3>4. CASE entryReadable
      <4>1. Checked(form, "autostart") = meant.auto.on
        BY <2>3, <3>4
      <4>2. "failed" \in note \/ IsEnabled(entry') = Checked(form, "autostart")
        <5> HIDE DEF r, Rest, cmd
        <5>1. CASE IsEnabled(entry) = Checked(form, "autostart")
          BY <1>1, <3>4, <5>1 DEF ApplyAutostart
        <5>2. CASE IsEnabled(entry) # Checked(form, "autostart") /\ note # {"failed"}
          <6>1. entry' = IF Checked(form, "autostart") THEN Enable ELSE Disable
            BY <1>1, <3>4, <5>2 DEF ApplyAutostart
          <6>2. Checked(form, "autostart") \in BOOLEAN
            BY DEF Checked
          <6>3. IsEnabled(Enable) = TRUE /\ IsEnabled(Disable) = FALSE
            BY DEF IsEnabled, PointsAt
          <6> QED BY <6>1, <6>2, <6>3
        <5> QED BY <5>1, <5>2
      <4>3. "failed" \in note \/ IsEnabled(entry)' = meant.auto.on
        BY <4>1, <4>2 DEF IsEnabled
      <4> QED BY <3>2, <4>3 DEF Switched
    <3> QED BY <3>3, <3>4
  <2> QED BY <1>6, <2>1, <2>2, <2>3 DEF Sound, Current
<1>9. \A u \in Tabs : Untouched(u)
  BY <1>4, <1>6, <1>7 DEF Untouched
<1>10. \A u \in Tabs : Said(u)
  <2>1. Said(t)
    BY DEF Said
  <2>2. \A u \in Tabs : u # t => tabs'[u].told = tabs[u].told
    BY <1>7
  <2> QED BY <2>1, <2>2 DEF Kept, Sound, Said
<1> QED BY <1>3, <1>6, <1>7, <1>8, <1>9, <1>10 DEF Kept, Right

\* A form is refused, or it says what is meant.
LEMMA SubmitKeeps ==
  ASSUME Kept, PagesReadBack, NEW t \in Tabs, NEW edit \in Edits, NEW button, Submit(t, edit, button)
  PROVE  Kept' /\ \A u \in Tabs : Right(u)
<1> DEFINE typed == Typed(tabs[t].shown, edit)
<1> DEFINE form == Fields(typed.cfg, typed.auto)
<1> DEFINE read == NextConfig(t, form)
<1> DEFINE next == IF button = "office" /\ place # None THEN WithNetwork(read) ELSE read
<1> DEFINE refused == ~PortIsRead(form) \/ (button = "office" /\ OfficeRefused(read)) \/ ~Valid(next)
<1> DEFINE meant == MeantWith(tabs[t].shown, edit, button)
<1>1. tabs[t].at = "open" /\ ~InFlight(t) /\ Apply(t, form, next, refused, meant)
  BY DEF Submit
<1>2. CASE refused
  <2>1. Refuse(t)
    BY <1>1, <1>2 DEF Apply
  <2> QED BY <1>1, <2>1, DrawnKeeps DEF Refuse
<1>3. CASE ~refused
  <2>1. Accept(t, next, form, meant)
    BY <1>1, <1>3 DEF Apply
  <2>2. ~(button = "office" /\ OfficeRefused(read))
    BY <1>3
  <2>3. ReadsBack(tabs[t].shown, edit) /\ IsEnabled(Enable) /\ ~IsEnabled(Disable)
    BY <1>1 DEF PagesReadBack
  <2>4. tabs[t].fresh => tabs[t].shown = Drawn
    BY <1>1 DEF Kept, Sound, Current
  <2>5. tabs[t].fresh => /\ next = meant.cfg
                         /\ ~entryReadable \/ Checked(form, "autostart") = meant.auto.on
    BY <1>1, <2>2, <2>3, <2>4, CommandSaysWhatIsMeant
  <2> HIDE DEF typed, form, read, next, refused, meant
  <2> QED BY <1>1, <2>1, <2>3, <2>5, AcceptKeeps
<1> QED BY <1>2, <1>3

\* Everybody's page goes out of date.
LEMMA OutdatedKeeps ==
  ASSUME Kept, tabs' = OutdateAll, Channelled'
  PROVE  Kept' /\ \A u \in Tabs : Right(u)
<1>1. tabs' = [u \in Tabs |-> tabs'[u]] /\ \A u \in Tabs : tabs'[u] = [tabs[u] EXCEPT !.fresh = FALSE]
  BY DEF OutdateAll
<1>2. \A u \in Tabs : Sound(u)' /\ ~tabs'[u].fresh /\ tabs'[u].told = tabs[u].told
  BY <1>1, StaleIsSound DEF Kept
<1> QED BY <1>1, <1>2 DEF Kept, Sound, Right, Untouched, Said

\* A command is carried out.
LEMMA TakeKeeps ==
  ASSUME Kept, Take
  PROVE  Kept' /\ \A u \in Tabs : Right(u)
<1> DEFINE cmd == Head(inbox)
<1>1. inbox # << >> /\ inbox' = Tail(inbox) /\ UNCHANGED world
  BY DEF Take
<1>2. /\ Channelled'
      /\ 1 \in DOMAIN inbox /\ cmd = inbox[1]
      /\ \A k \in DOMAIN inbox' : k + 1 \in DOMAIN inbox /\ inbox'[k] = inbox[k + 1]
  BY <1>1, TakenIsChannelled DEF Kept
<1>3. CASE tabs' = OutdateAll
  BY <1>2, <1>3, OutdatedKeeps
<1>4. CASE tabs' # OutdateAll
  <2>1. /\ cmd.cmd # "SetMode" /\ saved' = cmd.config /\ tabs[cmd.done].at = "waiting"
        /\ tabs' = [Outdate(cmd.done) EXCEPT ![cmd.done].done = TRUE]
    BY <1>4 DEF Take
  <2>a. cmd.cmd = "ApplyConfig" /\ cmd.done \in Tabs
    BY <1>2, <2>1 DEF Kept, Channelled
  <2> HIDE DEF cmd
  <2>2. PICK t \in Tabs : t = cmd.done
    BY <2>a
  <2>3. Sound(t) /\ \A u \in Tabs : Sound(u)
    BY <2>2 DEF Kept
  <2>4. Outdate(t) = [u \in Tabs |-> IF u = t THEN tabs[u] ELSE [tabs[u] EXCEPT !.fresh = FALSE]]
    BY DEF Outdate
  <2> DEFINE r == [tabs[t] EXCEPT !.done = TRUE]
  <2>5. tabs' = [u \in Tabs |-> IF u = t THEN r ELSE [tabs[u] EXCEPT !.fresh = FALSE]]
    BY <2>1, <2>2, <2>4
  <2>6. tabs' = [u \in Tabs |-> tabs'[u]] /\ tabs'[t] = r
        /\ \A u \in Tabs : u # t => tabs'[u] = [tabs[u] EXCEPT !.fresh = FALSE]
    BY <2>2, <2>5
  <2>b. Whole(tabs[t])
    BY <2>3 DEF Sound
  <2>7. r = [at |-> tabs[t].at, shown |-> tabs[t].shown, meant |-> tabs[t].meant,
             fresh |-> tabs[t].fresh, done |-> TRUE, told |-> tabs[t].told]
    <3>1. ASSUME NEW y, Whole(y), NEW v
          PROVE  [y EXCEPT !.done = v] = [at |-> y.at, shown |-> y.shown, meant |-> y.meant,
                                          fresh |-> y.fresh, done |-> v, told |-> y.told]
      BY <3>1 DEF Whole
    <3> QED BY <2>b, <3>1 DEF r
  <2> HIDE DEF r
  <2>8. \A u \in Tabs : u # t => Sound(u)' /\ ~tabs'[u].fresh /\ tabs'[u].told = tabs[u].told
    BY <2>3, <2>6, StaleIsSound
  <2>9. Sound(t)'
    <3>0. Whole(tabs[t])'
      BY <2>6, <2>7 DEF Whole
    <3>1. tabs'[t].told \cap {"refused", "applied"} = {}
      BY <2>1, <2>2, <2>3, <2>6, <2>7 DEF Sound
    <3>2. ASSUME tabs[t].fresh PROVE Pending(t)' /\ saved' = tabs'[t].meant.cfg /\ Switched(t)'
      <4>1. Pending(t) /\ Switched(t)
        BY <2>1, <2>2, <2>3, <3>2 DEF Sound, Current
      <4>2. Pending(t)'
        BY <1>2, <2>6, <2>7, <4>1 DEF Pending
      <4>3. cmd.config = tabs[t].meant.cfg
        BY <1>2, <2>a, <2>2, <4>1 DEF Pending
      <4>4. Switched(t)'
        BY <1>1, <2>6, <2>7, <4>1 DEF Switched, IsEnabled, world
      <4> QED BY <2>1, <2>6, <2>7, <4>2, <4>3, <4>4
    <3> QED BY <2>1, <2>2, <2>6, <2>7, <3>0, <3>1, <3>2 DEF Sound, Current
  <2>10. \A u \in Tabs : Said(u)
    BY <2>3, <2>6, <2>7, <2>8 DEF Sound, Said
  <2>11. \A u \in Tabs : Untouched(u)
    <3>1. Untouched(t)
      BY <2>1, <2>2, <2>3, <2>6, <2>7 DEF Sound, Untouched
    <3> QED BY <2>8, <3>1 DEF Untouched
  <2> QED BY <1>2, <2>6, <2>8, <2>9, <2>10, <2>11 DEF Kept, Right
<1> QED BY <1>3, <1>4

\* Whatever happens, a page that is up to date stays right.
LEMMA KeptIsInductive ==
  Kept /\ PagesReadBack /\ [SettingsNext]_settingsVars =>
    Kept' /\ \A u \in Tabs : Right(u)
<1> SUFFICES ASSUME Kept, PagesReadBack, [SettingsNext]_settingsVars
             PROVE  Kept' /\ \A u \in Tabs : Right(u)
  OBVIOUS
<1>1. ASSUME NEW t \in Tabs, Open(t) \/ Answer(t) \/ Late(t)
      PROVE  Kept' /\ \A u \in Tabs : Right(u)
  <2>1. UNCHANGED <<saved, world, inbox>>
    BY <1>1 DEF Open, Answer, Late
  <2>2. PICK told : /\ tabs' = [tabs EXCEPT ![t] = Page(told)]
                    /\ tabs[t].at = "waiting" /\ "applied" \in told => tabs[t].done
    <3>1. CASE Open(t)
      BY <3>1 DEF Open
    <3>2. CASE Answer(t)
      BY <3>2 DEF Answer
    <3>3. CASE Late(t)
      <4>1. "applied" \notin tabs[t].told \cup {"late"}
        BY <3>3 DEF Late, Kept, Sound
      <4> QED BY <3>3, <4>1 DEF Late
    <3> QED BY <1>1, <3>1, <3>2, <3>3
  <2> QED BY <2>1, <2>2, DrawnKeeps
<1>2. ASSUME NEW t \in Tabs, NEW edit \in Edits, NEW button \in {"save", "office"}, Submit(t, edit, button)
      PROVE  Kept' /\ \A u \in Tabs : Right(u)
  BY <1>2, SubmitKeeps
<1>3. CASE Take
  BY <1>3, TakeKeeps
<1>4. CASE Outside
  <2>1. Channelled'
    BY <1>4 DEF Outside, Kept, Channelled
  <2> QED BY <1>4, <2>1, OutdatedKeeps DEF Outside
<1>5. ASSUME NEW m \in Modes, SetMode(m) PROVE Kept' /\ \A u \in Tabs : Right(u)
  <2> DEFINE cmd == [cmd |-> "SetMode", mode |-> m]
  <2>1. inbox' = Append(inbox, cmd) /\ UNCHANGED <<saved, world, tabs>>
    BY <1>5 DEF SetMode
  <2>2. Channelled' /\ \A k \in DOMAIN inbox' : (k \in DOMAIN inbox /\ inbox'[k] = inbox[k]) \/ inbox'[k] = cmd
    BY <2>1, SentIsChannelled DEF Kept
  <2>3. \A u \in Tabs : Sound(u)'
    <3> SUFFICES ASSUME NEW u \in Tabs PROVE Sound(u)'
      OBVIOUS
    <3>1. Pending(u) => Pending(u)'
      BY <2>1, <2>2 DEF Pending
    <3> QED BY <2>1, <3>1, UntouchedIsSound DEF Kept
  <2> QED BY <2>1, <2>2, <2>3 DEF Kept, Sound, Right, Untouched, Said
<1>6. CASE UNCHANGED settingsVars
  <2>1. UNCHANGED <<saved, world, tabs, inbox>>
    BY <1>6 DEF settingsVars, world
  <2>2. Channelled' /\ \A u \in Tabs : Pending(u) => Pending(u)'
    BY <2>1 DEF Kept, Channelled, Pending
  <2>3. \A u \in Tabs : Sound(u)'
    BY <2>1, <2>2, UntouchedIsSound DEF Kept
  <2> QED BY <2>1, <2>2, <2>3 DEF Kept, Sound, Right, Untouched, Said
<1> QED BY <1>1, <1>2, <1>3, <1>4, <1>5, <1>6 DEF SettingsNext

-----------------------------------------------------------------------------
(* Every page can be read: what is saved, shown and sent is as the page    *)
(* writes it.                                                              *)

\* The words of a path, one after the other, are the path.
LEMMA WordByWord ==
  ASSUME NEW A, NEW path \in Seq(A)
  PROVE  FlattenSeq([i \in DOMAIN path |-> <<path[i]>>]) = path
<1> DEFINE Apart(s) == [i \in DOMAIN s |-> <<s[i]>>]
<1> DEFINE P == {s \in Seq(A) : FlattenSeq(Apart(s)) = s}
<1>1. << >> \in P
  <2>1. Apart(<< >>) = << >>
    OBVIOUS
  <2> QED BY <2>1, FlattenEmpty, EmptySeq
<1>2. ASSUME NEW s \in Seq(A), NEW x \in A, s \in P PROVE Append(s, x) \in P
  <2> DEFINE t == Append(s, x)
  <2> DEFINE B == Seq(A)
  <2> DEFINE a == [i \in 1 .. Len(s) |-> <<s[i]>>]
  <2> DEFINE b == <<x>>
  <2>1. /\ t \in Seq(A) /\ DOMAIN t = 1 .. Len(s) + 1 /\ t[Len(s) + 1] = x /\ \A i \in 1 .. Len(s) : t[i] = s[i]
        /\ Len(s) \in Nat /\ DOMAIN s = 1 .. Len(s) /\ t = s \o <<x>>
    BY AppendProperties, LenProperties, AppendIsConcat
  <2>2. b \in B /\ \A i \in 1 .. Len(s) : <<s[i]>> \in B
    <3>1. \A i \in 1 .. Len(s) : s[i] \in A
      BY ElementOfSeq
    <3> QED BY <3>1
  <2> HIDE DEF t, B, b
  <2>3. a \in Seq(B) /\ Len(a) = Len(s)
    BY <2>1, <2>2
  <2>4. Append(a, b) = Apart(t) /\ Apart(s) = a
    BY <2>1, <2>2, <2>3 DEF b
  <2> HIDE DEF a, Apart
  <2>5. FlattenSeq(Append(a, b)) = FlattenSeq(a) \o b
    BY <2>2, <2>3, FlattenAppend DEF B
  <2>6. FlattenSeq(a) = s
    BY <1>2, <2>4
  <2>7. FlattenSeq(Apart(t)) = t
    BY <2>1, <2>4, <2>5, <2>6 DEF b
  <2> QED BY <2>1, <2>7 DEF t
<1>3. \A s \in Seq(A) : s \in P
  <2> HIDE DEF P
  <2> QED BY <1>1, <1>2, BySequences, Zenon
<1> QED BY <1>3

\* The entry that is written ticks the box, and none does not.
LEMMA BoxIsWritten == IsEnabled(Enable) /\ ~IsEnabled(Disable)
<1>1. FlattenSeq([i \in DOMAIN Exe |-> Expanded[Exe[i]]]) = Exe
  <2>1. [i \in DOMAIN Exe |-> Expanded[Exe[i]]] = [i \in DOMAIN Exe |-> <<Exe[i]>>]
    BY ExeAssumption
  <2>2. FlattenSeq([i \in DOMAIN Exe |-> <<Exe[i]>>]) = Exe
    BY ExeAssumption, WordByWord
  <2> QED BY <2>1, <2>2
<1>2. ExpandEnv(Enable) = Enable /\ Enable.quoted /\ Enable.program = Exe /\ Enable # NoEntry
  <2>1. Enable.program = Exe /\ Enable.quoted /\ Enable # NoEntry
    BY DEF Enable, Quote, Quoted, NoEntry
  <2>2. ExpandEnv(Enable) =
          [Enable EXCEPT !.program = FlattenSeq([i \in DOMAIN Enable.program |-> Expanded[Enable.program[i]]])]
    BY DEF ExpandEnv
  <2>3. FlattenSeq([i \in DOMAIN Enable.program |-> Expanded[Enable.program[i]]]) = Exe
    BY <1>1, <2>1
  <2>4. [Enable EXCEPT !.program = Exe] = Enable
    <3>1. ASSUME NEW q, NEW p, NEW a
          PROVE  [[quoted |-> q, program |-> p, arguments |-> a] EXCEPT !.program = p]
                   = [quoted |-> q, program |-> p, arguments |-> a]
      OBVIOUS
    <3> QED BY <3>1, Zenon DEF Enable, Quote, Quoted
  <2> QED BY <2>1, <2>2, <2>3, <2>4
<1>3. IsEnabled(Enable)
  BY <1>2 DEF IsEnabled, PointsAt, MatchesExe
<1>4. ExpandEnv(NoEntry) = NoEntry
  <2>1. [i \in DOMAIN << >> |-> Expanded[<< >>[i]]] = << >>
    OBVIOUS
  <2>2. NoEntry.program = << >>
    BY DEF NoEntry
  <2>3. FlattenSeq([i \in DOMAIN NoEntry.program |-> Expanded[NoEntry.program[i]]]) = << >>
    BY <2>1, <2>2, FlattenEmpty
  <2>4. [NoEntry EXCEPT !.program = << >>] = NoEntry
    BY DEF NoEntry
  <2>5. ExpandEnv(NoEntry) =
          [NoEntry EXCEPT !.program = FlattenSeq([i \in DOMAIN NoEntry.program |-> Expanded[NoEntry.program[i]]])]
    BY DEF ExpandEnv
  <2> QED BY <2>3, <2>4, <2>5
<1>5. ~IsEnabled(Disable)
  BY <1>4 DEF IsEnabled, PointsAt, Disable
<1> QED BY <1>3, <1>5

\* The box of the toggle (is_enabled, points_at in autostart.rs): it is ticked exactly when
\* Windows would start this executable, for any entry, disk and spelling, as long as the
\* executable is on the disk; but for a name that needs its .exe added, which starts it
\* unticked, and a bare entry that starts another program, ticked though it is.
THEOREM BoxTellsTheTruth ==
  ASSUME Resolves(Exe), NEW W, NEW V, \A w \in W : Expanded[w] \in Seq(V), NEW A,
         NEW entries \in SUBSET [quoted : BOOLEAN, program : Seq(W), arguments : A]
  PROVE  BoxIsHonest(entries)
<1> SUFFICES ASSUME NEW run \in entries
             PROVE  /\ Canonical(Exe) \in Started(run) =>
                         IsEnabled(run) \/ \E path \in Program(run) : ~Resolves(path)
                    /\ IsEnabled(run) => Canonical(Exe) \in Started(run) \/ (~run.quoted /\ Started(run) # {})
  BY DEF BoxIsHonest
<1> DEFINE e == ExpandEnv(run)
<1> DEFINE found == {n \in 1 .. Len(e.program) : Leads(SubSeq(e.program, 1, n))}
<1> DEFINE first == {m \in found : \A k \in found : m <= k}
<1>1. e.quoted = run.quoted /\ run.quoted \in BOOLEAN /\ Len(e.program) \in Nat
  <2> DEFINE expanded == [i \in DOMAIN run.program |-> Expanded[run.program[i]]]
  <2>1. run \in [quoted : BOOLEAN, program : Seq(W), arguments : A] /\ run.program \in Seq(W)
    OBVIOUS
  <2>2. expanded \in Seq(Seq(V))
    <3>1. \A i \in 1 .. Len(run.program) : run.program[i] \in W
      BY <2>1, ElementOfSeq
    <3>2. Len(run.program) \in Nat /\ DOMAIN run.program = 1 .. Len(run.program)
      BY <2>1, LenProperties
    <3>3. \A i \in 1 .. Len(run.program) : Expanded[run.program[i]] \in Seq(V)
      BY <3>1
    <3> QED BY <3>2, <3>3, IsASeq
  <2>3. FlattenSeq(expanded) \in Seq(V)
    <3> HIDE DEF expanded
    <3>1. CASE expanded = << >>
      BY <3>1, FlattenEmpty, EmptySeq
    <3>2. CASE expanded # << >>
      BY <2>2, <3>2, FlattenIs
    <3> QED BY <3>1, <3>2
  <2>4. e = [run EXCEPT !.program = FlattenSeq(expanded)]
    BY DEF ExpandEnv
  <2> HIDE DEF expanded, e
  <2>5. e.quoted = run.quoted /\ e.program = FlattenSeq(expanded)
    BY <2>1, <2>4
  <2> QED BY <2>1, <2>3, <2>5, LenProperties
<1>2. IsEnabled(run) = PointsAt(e)
  BY DEF IsEnabled
<1>3. /\ e = NoEntry => Program(run) = {} /\ ~PointsAt(e)
      /\ e # NoEntry /\ e.quoted => Program(run) = {path \in {e.program} : Leads(path)}
      /\ e # NoEntry /\ ~e.quoted => Program(run) = {SubSeq(e.program, 1, n) : n \in first}
  BY DEF Program, PointsAt
<1>s. Started(run) = {FileOf(path) : path \in Program(run)}
  BY DEF Started
<1>r. \A path : Resolves(path) => Leads(path) /\ FileOf(path) = Canonical(path)
  BY DEF Leads, FileOf
<1> HIDE DEF e
<1>4. CASE e = NoEntry
  BY <1>2, <1>3, <1>4, <1>s
<1>5. CASE e # NoEntry /\ e.quoted
  <2>1. MatchesExe(e.program) => Resolves(e.program) /\ Canonical(e.program) = Canonical(Exe)
    BY DEF MatchesExe, Resolves, Canonical
  <2>2. PointsAt(e) <=> Resolves(e.program) /\ Canonical(e.program) = Canonical(Exe)
    BY <1>5, <2>1 DEF PointsAt, MatchesExeByIdentity
  <2>3. PointsAt(e) => Canonical(Exe) \in Started(run)
    BY <1>3, <1>5, <1>r, <1>s, <2>2
  <2>4. ASSUME Canonical(Exe) \in Started(run), \A path \in Program(run) : Resolves(path)
        PROVE  PointsAt(e)
    <3>1. e.program \in Program(run) /\ Canonical(Exe) = FileOf(e.program)
      BY <1>3, <1>5, <1>s, <2>4
    <3> QED BY <1>r, <2>2, <2>4, <3>1
  <2> QED BY <1>2, <2>3, <2>4
<1>6. CASE e # NoEntry /\ ~e.quoted
  <2>1. PointsAt(e) <=> \/ \E path \in Beginnings(e.program) : MatchesExeByIdentity(path)
                        \/ MatchesPrefixBoundary(e.program)
    BY <1>6 DEF PointsAt
  <2>2. Beginnings(e.program) = {SubSeq(e.program, 1, n) : n \in 1 .. Len(e.program)}
    BY DEF Beginnings
  <2>3. ASSUME Canonical(Exe) \in Started(run), \A path \in Program(run) : Resolves(path)
        PROVE  PointsAt(e)
    <3>1. PICK path \in Program(run) : Canonical(Exe) = FileOf(path)
      BY <1>s, <2>3
    <3>2. path \in Beginnings(e.program)
      BY <1>3, <1>6, <2>2
    <3>3. MatchesExeByIdentity(path)
      BY <1>r, <2>3, <3>1 DEF MatchesExeByIdentity
    <3> QED BY <2>1, <3>2, <3>3
  <2>4. ASSUME PointsAt(e) PROVE found # {}
    <3>1. CASE \E path \in Beginnings(e.program) : MatchesExeByIdentity(path)
      BY <1>r, <2>2, <3>1 DEF MatchesExeByIdentity
    <3>2. CASE MatchesPrefixBoundary(e.program)
      <4> DEFINE n == Len(Exe)
      <4>1. n \in Nat /\ n # 0
        BY ExeAssumption, LenProperties, EmptySeq
      <4>2. n <= Len(e.program) /\ LowerCase(SubSeq(e.program, 1, n)) = LowerCase(Exe)
        BY <3>2 DEF MatchesPrefixBoundary, MatchesExe
      <4>3. Resolves(SubSeq(e.program, 1, n))
        BY <4>2 DEF Resolves
      <4> HIDE DEF n
      <4>4. n \in 1 .. Len(e.program)
        BY <1>1, <4>1, <4>2
      <4> QED BY <1>r, <4>3, <4>4
    <3> QED BY <2>1, <2>4, <3>1, <3>2
  <2>5. found # {} => Started(run) # {}
    <3> SUFFICES ASSUME found # {} PROVE Started(run) # {}
      OBVIOUS
    <3>1. found \in SUBSET Nat
      BY <1>1
    <3>2. first # {}
      <4> HIDE DEF found
      <4> QED BY <3>1, LeastOf
    <3> HIDE DEF first
    <3>3. PICK n \in first : TRUE
      BY <3>2
    <3>4. SubSeq(e.program, 1, n) \in Program(run)
      BY <1>3, <1>6, <3>3
    <3>5. FileOf(SubSeq(e.program, 1, n)) \in Started(run)
      BY <1>s, <3>4
    <3> QED BY <3>5
  <2> QED BY <1>1, <1>2, <1>6, <2>3, <2>4, <2>5
<1> QED BY <1>4, <1>5, <1>6

\* The mode is not the form's.
LEMMA TidyInAnyMode ==
  ASSUME NEW cfg, TidyConfig(cfg), NEW m
  PROVE  TidyConfig([cfg EXCEPT !.mode = m])
<1> DEFINE a1 == cfg.bridge_port
<1> DEFINE a2 == cfg.socks_upstream
<1> DEFINE a3 == cfg.http_upstream
<1> DEFINE a4 == cfg.no_proxy
<1> DEFINE a5 == cfg.office_networks
<1> DEFINE a6 == cfg.toggles
<1> DEFINE A == Range(a5)
<1>1. /\ Trim(a1) = a1 /\ Trim(a2) = a2 /\ Trim(a3) = a3 /\ NormaliseBypass(a4) = a4
      /\ cfg = Config(a1, a2, a3, a4, a5, a6, cfg.mode)
  BY TidyIs DEF Shaped
<1>2. a5 \in Seq(A) /\ (\A net \in A : TidyNetwork(net)) /\ a6 \subseteq Toggles
  BY DEF TidyConfig
<1> HIDE DEF a1, a2, a3, a4, a5, a6, A
<1>3. [cfg EXCEPT !.mode = m] = Config(a1, a2, a3, a4, a5, a6, m)
  BY <1>1 DEF Config
<1>4. TidyConfig(Config(a1, a2, a3, a4, a5, a6, m))
  BY <1>1, <1>2, TidyConfigIs
<1> QED BY <1>3, <1>4

\* The network of the button is tidy.
LEMMA TidyWithNetwork ==
  ASSUME NEW cfg, TidyConfig(cfg), NEW net, TidyNetwork(net)
  PROVE  TidyConfig([cfg EXCEPT !.office_networks = Append(@, net)])
<1> DEFINE a1 == cfg.bridge_port
<1> DEFINE a2 == cfg.socks_upstream
<1> DEFINE a3 == cfg.http_upstream
<1> DEFINE a4 == cfg.no_proxy
<1> DEFINE a5 == cfg.office_networks
<1> DEFINE a6 == cfg.toggles
<1> DEFINE a7 == cfg.mode
<1> DEFINE A == Range(a5)
<1> DEFINE B == A \cup {net}
<1> DEFINE x == Append(a5, net)
<1>1. /\ Trim(a1) = a1 /\ Trim(a2) = a2 /\ Trim(a3) = a3 /\ NormaliseBypass(a4) = a4
      /\ cfg = Config(a1, a2, a3, a4, a5, a6, a7)
  BY TidyIs DEF Shaped
<1>2. a5 \in Seq(A) /\ (\A y \in A : TidyNetwork(y)) /\ a6 \subseteq Toggles
  BY DEF TidyConfig
<1>3. x \in Seq(B) /\ \A y \in B : TidyNetwork(y)
  <2> HIDE DEF A, a5
  <2>1. a5 \in Seq(B) /\ net \in B
    BY <1>2, SeqMonotonic
  <2>2. x \in Seq(B)
    <3> HIDE DEF B
    <3> QED BY <2>1, AppendProperties
  <2> QED BY <1>2, <2>2
<1>4. [cfg EXCEPT !.office_networks = Append(@, net)] = [cfg EXCEPT !.office_networks = x]
  OBVIOUS
<1> HIDE DEF a1, a2, a3, a4, a5, a6, a7, A, B, x
<1>5. [cfg EXCEPT !.office_networks = x] = Config(a1, a2, a3, a4, x, a6, a7)
  BY <1>1 DEF Config
<1>6. TidyConfig(Config(a1, a2, a3, a4, x, a6, a7))
  BY <1>1, <1>2, <1>3, TidyConfigIs
<1> QED BY <1>4, <1>5, <1>6

\* What the file, the channel and the pages that are open hold is as the page writes it.
Tidied ==
  /\ TidyConfig(saved) /\ place \in Nets \cup {None}
  /\ \A k \in DOMAIN inbox : inbox[k].cmd # "SetMode" => TidyConfig(inbox[k].config)
  /\ \A t \in Tabs : tabs[t].at = "open" => Shows(tabs[t].shown)

\* At the start the file is tidy and nothing is open.
LEMMA InitTidied == SettingsInit => Tidied
<1> SUFFICES ASSUME SettingsInit PROVE Tidied
  OBVIOUS
<1>1. TidyConfig(saved) /\ place \in Nets \cup {None} /\ DOMAIN inbox = {}
  BY TidyAssumption DEF SettingsInit
<1>2. \A t \in Tabs : tabs[t].at = "closed"
  BY DEF SettingsInit, Closed
<1> QED BY <1>1, <1>2 DEF Tidied

\* A page shows what is saved.
LEMMA DrawnShows ==
  ASSUME TidyConfig(saved), place \in Nets \cup {None}, NEW told
  PROVE  Shows(Page(told).shown)
<1>1. Page(told).shown = [cfg |-> saved, auto |-> AutostartBox, net |-> place]
  BY DEF Page
<1>2. AutostartBox \in [on : BOOLEAN, disabled : BOOLEAN]
  <2>1. IsEnabled(entry) \in BOOLEAN
    BY DEF IsEnabled, PointsAt
  <2> QED BY <2>1 DEF AutostartBox
<1> DEFINE box == AutostartBox
<1> HIDE DEF box
<1>3. Page(told).shown = [cfg |-> saved, auto |-> box, net |-> place]
  BY <1>1 DEF box
<1>4. box \in [on : BOOLEAN, disabled : BOOLEAN]
  BY <1>2 DEF box
<1> QED BY <1>3, <1>4 DEF Shows

\* A page that is open has been so, or has just been drawn.
LEMMA TidiedStays ==
  ASSUME Tidied, TidyConfig(saved)', place' \in Nets \cup {None},
         \A k \in DOMAIN inbox' : inbox'[k].cmd # "SetMode" => TidyConfig(inbox'[k].config),
         \A u \in Tabs : tabs'[u].at = "open" =>
           (tabs[u].at = "open" /\ tabs'[u].shown = tabs[u].shown) \/ \E told : tabs'[u] = Page(told)
  PROVE  Tidied'
<1>1. ASSUME NEW u \in Tabs, tabs'[u].at = "open" PROVE Shows(tabs'[u].shown)
  <2>1. CASE tabs[u].at = "open" /\ tabs'[u].shown = tabs[u].shown
    BY <2>1 DEF Tidied
  <2>2. CASE \E told : tabs'[u] = Page(told)
    <3>1. PICK told : tabs'[u] = Page(told)
      BY <2>2
    <3>2. Shows(Page(told).shown)
      BY DrawnShows DEF Tidied
    <3> QED BY <3>1, <3>2
  <2> QED BY <1>1, <2>1, <2>2
<1>2. \A u \in Tabs : (tabs[u].at = "open")' => Shows(tabs[u].shown)'
  BY <1>1 DEF Shows
<1>3. \A k \in DOMAIN inbox' : inbox'[k].cmd # "SetMode" => TidyConfig(inbox[k].config)'
  BY DEF TidyConfig
<1> QED BY <1>2, <1>3 DEF Tidied

\* The command that comes of a form is as the page writes it.
LEMMA CommandIsTidy ==
  ASSUME Tidied, NEW t \in Tabs, tabs[t].at = "open", NEW edit \in Edits, NEW typed, NEW form, NEW read, NEW next,
         typed = Typed(tabs[t].shown, edit), form = Fields(typed.cfg, typed.auto), read = NextConfig(t, form),
         next = read \/ (place # None /\ next = WithNetwork(read))
  PROVE  TidyConfig(next)
<1> DEFINE shown == tabs[t].shown
<1>1. Shows(shown) /\ edit \in {"nothing", "socks", "bypass", "tick", "row", "clear", "port", "box"}
  BY SettingsAssumption DEF Tidied
<1> HIDE DEF shown
<1>2. Shaped(saved) /\ TidyConfig(saved)
  BY TidyIs DEF Tidied
<1>3. Says(saved, Typed(shown, edit), Meant(shown, edit)) /\ TidyConfig(Meant(shown, edit).cfg)
  BY <1>1, <1>2, FaceReadsBack
<1>4. read = [Meant(shown, edit).cfg EXCEPT !.mode = saved.mode]
  BY <1>3 DEF Says, NextConfig, shown
<1> DEFINE c == Meant(shown, edit).cfg
<1> HIDE DEF c
<1>5. TidyConfig(read)
  <2>1. TidyConfig(c) /\ read = [c EXCEPT !.mode = saved.mode]
    BY <1>3, <1>4 DEF c
  <2> DEFINE m == saved.mode
  <2> HIDE DEF m
  <2>2. TidyConfig([c EXCEPT !.mode = m])
    BY <2>1, TidyInAnyMode
  <2> QED BY <2>1, <2>2 DEF m
<1>6. place # None => TidyConfig(WithNetwork(read))
  <2> SUFFICES ASSUME place # None PROVE TidyConfig(WithNetwork(read))
    OBVIOUS
  <2>1. TidyNetwork(place)
    BY TidyAssumption DEF Tidied
  <2>2. TidyConfig([read EXCEPT !.office_networks = Append(@, place)])
    BY <1>5, <2>1, TidyWithNetwork
  <2> QED BY <2>2 DEF WithNetwork
<1> QED BY <1>5, <1>6

\* A form that is sent.
LEMMA SubmitIsTidy ==
  ASSUME Kept, Tidied, NEW t \in Tabs, NEW edit \in Edits, NEW button, Submit(t, edit, button)
  PROVE  Tidied'
<1> DEFINE typed == Typed(tabs[t].shown, edit)
<1> DEFINE form == Fields(typed.cfg, typed.auto)
<1> DEFINE read == NextConfig(t, form)
<1> DEFINE next == IF button = "office" /\ place # None THEN WithNetwork(read) ELSE read
<1> DEFINE refused == ~PortIsRead(form) \/ (button = "office" /\ OfficeRefused(read)) \/ ~Valid(next)
<1> DEFINE meant == MeantWith(tabs[t].shown, edit, button)
<1>1. tabs[t].at = "open" /\ Apply(t, form, next, refused, meant)
  BY DEF Submit
<1>2. TidyConfig(next)
  <2>1. next = read \/ (place # None /\ next = WithNetwork(read))
    OBVIOUS
  <2>2. typed = Typed(tabs[t].shown, edit) /\ form = Fields(typed.cfg, typed.auto) /\ read = NextConfig(t, form)
    OBVIOUS
  <2> HIDE DEF typed, form, read, next
  <2> QED BY <1>1, <2>1, <2>2, CommandIsTidy
<1> HIDE DEF typed, form, read, next, refused, meant
<1>a. tabs = [u \in Tabs |-> tabs[u]] /\ TidyConfig(saved)
  BY DEF Kept, Tidied
<1>3. CASE refused
  <2>1. /\ tabs' = [tabs EXCEPT ![t] = Page({"refused"})]
        /\ UNCHANGED <<saved, world, inbox>>
    BY <1>1, <1>3 DEF Apply, Refuse
  <2>2. \A u \in Tabs : tabs'[u] = IF u = t THEN Page({"refused"}) ELSE tabs[u]
    BY <1>a, <2>1
  <2>3. TidyConfig(saved)' /\ place' \in Nets \cup {None}
        /\ \A k \in DOMAIN inbox' : inbox'[k].cmd # "SetMode" => TidyConfig(inbox'[k].config)
    BY <2>1 DEF Tidied, world, TidyConfig
  <2> QED BY <2>2, <2>3, TidiedStays
<1>4. CASE ~refused
  <2>1. Accept(t, next, form, meant)
    BY <1>1, <1>4 DEF Apply
  <2> DEFINE cmd == [cmd |-> "ApplyConfig", config |-> next, done |-> t]
  <2> DEFINE others == IF entry' = entry THEN tabs ELSE Outdate(t)
  <2>2. /\ inbox' = Append(inbox, cmd) /\ UNCHANGED <<saved, place>>
        /\ \E note : tabs' = [others EXCEPT ![t] = [at |-> "waiting", shown |-> @.shown, meant |-> meant,
                                         fresh |-> @.fresh, done |-> FALSE, told |-> note]]
    BY <2>1 DEF Accept
  <2>3. /\ others = [u \in Tabs |-> others[u]]
        /\ \A u \in Tabs : u # t => others[u] = tabs[u] \/ others[u] = [tabs[u] EXCEPT !.fresh = FALSE]
    BY <1>a DEF Outdate
  <2> HIDE DEF others
  <2>4. tabs'[t].at = "waiting" /\ \A u \in Tabs : u # t => tabs'[u] = others[u]
    <3>1. PICK note : tabs' = [others EXCEPT ![t] = [at |-> "waiting", shown |-> @.shown, meant |-> meant,
                                         fresh |-> @.fresh, done |-> FALSE, told |-> note]]
      BY <2>2
    <3> DEFINE r == [at |-> "waiting", shown |-> others[t].shown, meant |-> meant,
                     fresh |-> others[t].fresh, done |-> FALSE, told |-> note]
    <3>2. r.at = "waiting" /\ tabs' = [others EXCEPT ![t] = r]
      BY <3>1
    <3> HIDE DEF r
    <3> QED BY <2>3, <3>2
  <2>5. \A u \in Tabs : u # t => tabs'[u].at = tabs[u].at /\ tabs'[u].shown = tabs[u].shown
    <3> SUFFICES ASSUME NEW u \in Tabs, u # t PROVE tabs'[u].at = tabs[u].at /\ tabs'[u].shown = tabs[u].shown
      OBVIOUS
    <3>1. Whole(tabs[u])
      BY DEF Kept, Sound
    <3>2. [tabs[u] EXCEPT !.fresh = FALSE].at = tabs[u].at /\ [tabs[u] EXCEPT !.fresh = FALSE].shown = tabs[u].shown
      BY <3>1 DEF Whole
    <3> QED BY <2>3, <2>4, <3>2
  <2>6. \A k \in DOMAIN inbox' : inbox'[k].cmd # "SetMode" => TidyConfig(inbox'[k].config)
    <3>1. cmd.config = next /\ cmd.cmd = "ApplyConfig" /\ cmd.done = t
      OBVIOUS
    <3> HIDE DEF cmd
    <3>2. \A k \in DOMAIN inbox' : (k \in DOMAIN inbox /\ inbox'[k] = inbox[k]) \/ inbox'[k] = cmd
      BY <2>2, <3>1, SentIsChannelled DEF Kept
    <3> QED BY <1>2, <3>1, <3>2 DEF Tidied
  <2>7. TidyConfig(saved)' /\ place' \in Nets \cup {None}
    BY <2>2 DEF Tidied, TidyConfig
  <2> QED BY <2>4, <2>5, <2>6, <2>7, TidiedStays
<1> QED BY <1>3, <1>4

\* A page that goes out of date shows what it showed.
LEMMA OutdatedShows ==
  ASSUME NEW page, Whole(page)
  PROVE  LET stale == [page EXCEPT !.fresh = FALSE] IN stale.at = page.at /\ stale.shown = page.shown
BY DEF Whole

\* A command that is carried out.
LEMMA TakeIsTidy ==
  ASSUME Kept, Tidied, Take
  PROVE  Tidied'
<1> DEFINE cmd == Head(inbox)
<1>1. inbox # << >> /\ inbox' = Tail(inbox) /\ UNCHANGED place
  BY DEF Take, world
<1>2. /\ 1 \in DOMAIN inbox /\ cmd = inbox[1]
      /\ \A k \in DOMAIN inbox' : k + 1 \in DOMAIN inbox /\ inbox'[k] = inbox[k + 1]
  BY <1>1, TakenIsChannelled DEF Kept
<1>3. /\ \/ cmd.cmd = "SetMode" /\ saved' = [saved EXCEPT !.mode = cmd.mode]
         \/ cmd.cmd # "SetMode" /\ saved' = cmd.config
      /\ tabs' = OutdateAll \/ (tabs[cmd.done].at = "waiting"
                                /\ tabs' = [Outdate(cmd.done) EXCEPT ![cmd.done].done = TRUE])
  BY DEF Take
<1> HIDE DEF cmd
<1>4. TidyConfig(saved')
  <2>1. CASE cmd.cmd = "SetMode" /\ saved' = [saved EXCEPT !.mode = cmd.mode]
    <3> DEFINE m == cmd.mode
    <3> HIDE DEF m
    <3>1. TidyConfig([saved EXCEPT !.mode = m])
      BY TidyInAnyMode DEF Tidied
    <3> QED BY <2>1, <3>1 DEF m
  <2>2. CASE cmd.cmd # "SetMode" /\ saved' = cmd.config
    BY <1>2, <2>2 DEF Tidied
  <2> QED BY <1>3, <2>1, <2>2
<1>5. \A k \in DOMAIN inbox' : inbox'[k].cmd # "SetMode" => TidyConfig(inbox'[k].config)
  BY <1>2 DEF Tidied
<1>6. ASSUME NEW u \in Tabs, tabs'[u].at = "open" PROVE tabs[u].at = "open" /\ tabs'[u].shown = tabs[u].shown
  <2> DEFINE stale == [tabs[u] EXCEPT !.fresh = FALSE]
  <2>1. Whole(tabs[u]) /\ stale.at = tabs[u].at /\ stale.shown = tabs[u].shown
    <3>1. Whole(tabs[u])
      BY DEF Kept, Sound
    <3> QED BY <3>1, OutdatedShows
  <2>2. CASE tabs' = OutdateAll
    <3>1. tabs'[u] = stale
      BY <2>2 DEF OutdateAll
    <3> HIDE DEF stale
    <3> QED BY <1>6, <2>1, <3>1
  <2>3. CASE /\ tabs[cmd.done].at = "waiting"
             /\ tabs' = [Outdate(cmd.done) EXCEPT ![cmd.done].done = TRUE]
    <3> DEFINE out == Outdate(cmd.done)
    <3>1. u # cmd.done => out[u] = stale
      BY DEF Outdate
    <3>2. u = cmd.done => out[u] = tabs[u]
      BY DEF Outdate
    <3>3. DOMAIN out = Tabs
      BY DEF Outdate
    <3>4. tabs' = [out EXCEPT ![cmd.done] = [out[cmd.done] EXCEPT !.done = TRUE]]
      BY <2>3
    <3> HIDE DEF out, stale
    <3>5. CASE u # cmd.done
      <4>1. tabs'[u] = out[u]
        BY <3>3, <3>4, <3>5
      <4> QED BY <1>6, <2>1, <3>1, <3>5, <4>1
    <3>6. CASE u = cmd.done
      <4>1. tabs'[u] = [tabs[u] EXCEPT !.done = TRUE]
        BY <3>2, <3>3, <3>4, <3>6
      <4>2. tabs'[u].at = tabs[u].at
        BY <2>1, <4>1 DEF Whole
      <4> QED BY <1>6, <2>3, <3>6, <4>2
    <3> QED BY <3>5, <3>6
  <2> QED BY <1>3, <2>2, <2>3
<1>7. TidyConfig(saved)' /\ place' \in Nets \cup {None}
  BY <1>1, <1>4 DEF Tidied, TidyConfig
<1> QED BY <1>5, <1>6, <1>7, TidiedStays

\* Whatever happens, what is written is tidy.
LEMMA TidiedIsInductive == Kept /\ Tidied /\ [SettingsNext]_settingsVars => Tidied'
<1> SUFFICES ASSUME Kept, Tidied, [SettingsNext]_settingsVars PROVE Tidied'
  OBVIOUS
<1>0. tabs = [u \in Tabs |-> tabs[u]]
  BY DEF Kept
<1>a. ASSUME UNCHANGED <<saved, place, inbox>>
      PROVE  /\ TidyConfig(saved)' /\ place' \in Nets \cup {None}
             /\ \A k \in DOMAIN inbox' : inbox'[k].cmd # "SetMode" => TidyConfig(inbox'[k].config)
  BY <1>a DEF Tidied, TidyConfig
<1>1. ASSUME NEW t \in Tabs, Open(t) \/ Answer(t) \/ Late(t) PROVE Tidied'
  <2>1. UNCHANGED <<saved, place, inbox>>
    BY <1>1 DEF Open, Answer, Late, world
  <2>2. \E told : tabs' = [tabs EXCEPT ![t] = Page(told)]
    BY <1>1 DEF Open, Answer, Late
  <2>3. PICK told : tabs' = [tabs EXCEPT ![t] = Page(told)]
    BY <2>2
  <2>4. \A u \in Tabs : tabs'[u] = IF u = t THEN Page(told) ELSE tabs[u]
    BY <1>0, <2>3
  <2> QED BY <1>a, <2>1, <2>4, TidiedStays
<1>2. ASSUME NEW t \in Tabs, NEW edit \in Edits, NEW button \in {"save", "office"}, Submit(t, edit, button)
      PROVE  Tidied'
  BY <1>2, SubmitIsTidy
<1>3. CASE Take
  BY <1>3, TakeIsTidy
<1>4. CASE Outside
  <2>1. /\ UNCHANGED <<saved, inbox>> /\ place' \in Nets \cup {None}
        /\ \A u \in Tabs : tabs'[u] = [tabs[u] EXCEPT !.fresh = FALSE]
    BY <1>4 DEF Outside, OutdateAll, Tidied
  <2>2. \A u \in Tabs : tabs'[u].at = tabs[u].at /\ tabs'[u].shown = tabs[u].shown
    BY <2>1, OutdatedShows DEF Kept, Sound
  <2>3. /\ TidyConfig(saved)'
        /\ \A k \in DOMAIN inbox' : inbox'[k].cmd # "SetMode" => TidyConfig(inbox'[k].config)
    BY <2>1 DEF Tidied, TidyConfig
  <2> QED BY <2>1, <2>2, <2>3, TidiedStays
<1>5. ASSUME NEW m \in Modes, SetMode(m) PROVE Tidied'
  <2> DEFINE cmd == [cmd |-> "SetMode", mode |-> m]
  <2>1. inbox' = Append(inbox, cmd) /\ UNCHANGED <<saved, place, tabs>>
    BY <1>5 DEF SetMode, world
  <2>2. cmd.cmd = "SetMode"
    OBVIOUS
  <2> HIDE DEF cmd
  <2>3. \A k \in DOMAIN inbox' : (k \in DOMAIN inbox /\ inbox'[k] = inbox[k]) \/ inbox'[k] = cmd
    BY <2>1, <2>2, SentIsChannelled DEF Kept
  <2>4. \A k \in DOMAIN inbox' : inbox'[k].cmd # "SetMode" => TidyConfig(inbox'[k].config)
    BY <2>2, <2>3 DEF Tidied
  <2>5. TidyConfig(saved)' /\ place' \in Nets \cup {None}
    BY <2>1 DEF Tidied, TidyConfig
  <2> QED BY <2>1, <2>4, <2>5, TidiedStays
<1>6. CASE UNCHANGED settingsVars
  <2>1. UNCHANGED <<saved, place, tabs, inbox>>
    BY <1>6 DEF settingsVars
  <2> QED BY <1>a, <2>1, TidiedStays
<1> QED BY <1>1, <1>2, <1>3, <1>4, <1>5, <1>6 DEF SettingsNext

\* A tidy page can be read.
LEMMA TidiedReadsBack == Tidied => PagesReadBack
<1> SUFFICES ASSUME Tidied, NEW t \in Tabs, tabs[t].at = "open", NEW edit \in Edits
             PROVE  ReadsBack(tabs[t].shown, edit)
  BY BoxIsWritten DEF PagesReadBack
<1> DEFINE shown == tabs[t].shown
<1> DEFINE typed == Typed(shown, edit)
<1> DEFINE meant == Meant(shown, edit)
<1> DEFINE form == Fields(typed.cfg, typed.auto)
<1>1. Shows(shown) /\ edit \in {"nothing", "socks", "bypass", "tick", "row", "clear", "port", "box"}
  BY SettingsAssumption DEF Tidied
<1>2. Shaped(shown.cfg)
  BY <1>1, TidyIs DEF Shows
<1>3. /\ Says(shown.cfg, typed, meant) /\ TidyConfig(meant.cfg) /\ meant.cfg.mode = shown.cfg.mode
      /\ typed.auto.disabled = shown.auto.disabled /\ meant.auto.on \in BOOLEAN
  <2> HIDE DEF shown
  <2> QED BY <1>1, <1>2, FaceReadsBack
<1> HIDE DEF shown, typed, meant
<1>4. ConfigFromForm(shown.cfg, form) = meant.cfg
  <2>1. Shaped(meant.cfg)
    BY <1>3, TidyIs
  <2> DEFINE m == shown.cfg.mode
  <2> DEFINE c == meant.cfg
  <2>2. c = Config(c.bridge_port, c.socks_upstream, c.http_upstream, c.no_proxy, c.office_networks, c.toggles, m)
    BY <1>3, <2>1 DEF Shaped
  <2>3. ConfigFromForm(shown.cfg, form) = [c EXCEPT !.mode = m]
    BY <1>3 DEF Says
  <2> HIDE DEF m, c, form
  <2>4. [c EXCEPT !.mode = m] = c
    BY <2>2 DEF Config
  <2> QED BY <2>3, <2>4 DEF c
<1>5. shown.auto.disabled \/ Checked(form, "autostart") = meant.auto.on
  <2>1. shown.auto.disabled \/ (Checked(form, "autostart") <=> meant.auto.on)
    BY <1>3 DEF Says
  <2>2. Checked(form, "autostart") \in BOOLEAN /\ meant.auto.on \in BOOLEAN
    BY <1>3 DEF Checked
  <2> HIDE DEF form
  <2> QED BY <2>1, <2>2
<1>6. /\ typed \in {Typed(shown, edit)} /\ form \in {Fields(typed.cfg, typed.auto)} /\ meant \in {Meant(shown, edit)}
  BY DEF typed, meant
<1> HIDE DEF form
<1>7. ReadsBack(shown, edit)
  BY <1>4, <1>5, <1>6 DEF ReadsBack
<1> QED BY <1>7 DEF shown

\* Nobody is shown a page whose form would say something else than it shows: whatever
\* is saved, the fields of the form, the normalisation of the bypass list and the rows
\* of the table give it back, and so does everything that may be typed into it.
THEOREM PagesAreRead == Spec => []PagesReadBack
<1>1. Init => Kept /\ Tidied
  BY InitKept, InitTidied DEF Init
<1>2. Kept /\ Tidied /\ [Next]_vars => Kept' /\ Tidied'
  BY KeptIsInductive, TidiedIsInductive, TidiedReadsBack DEF Next, vars
<1> QED BY <1>1, <1>2, TidiedReadsBack, PTL DEF Spec

\* Saving a page since which nothing else has changed does what the person did
\* to it and nothing else, and a form that is refused does nothing at all.
THEOREM FormIsCarriedOut == Spec => SavedAsMeant
<1>1. Init => Kept
  BY InitKept DEF Init
<1>2. Kept /\ PagesReadBack /\ [Next]_vars => Kept' /\ \A t \in Tabs : Right(t)
  BY KeptIsInductive DEF Next, vars
<1>3. ASSUME Kept, \A t \in Tabs : Right(t), NEW t \in Tabs,
             tabs[t].at = "waiting", tabs[t].fresh, "applied" \in tabs'[t].told
      PROVE  saved = tabs[t].meant.cfg /\ Switched(t)
  BY <1>3 DEF Kept, Sound, Current, Right, Said
<1> DEFINE Applied == \A t \in Tabs :
       tabs[t].at = "waiting" /\ tabs[t].fresh /\ "applied" \in tabs'[t].told =>
         /\ saved = tabs[t].meant.cfg
         /\ "failed" \in tabs[t].told \/ tabs[t].shown.auto.disabled
            \/ IsEnabled(entry) = tabs[t].meant.auto.on
<1> DEFINE Refused == \A t \in Tabs :
       tabs'[t] # tabs[t] /\ tabs'[t].fresh /\ "refused" \in tabs'[t].told =>
         UNCHANGED <<saved, entry, inbox>>
<1>4. Kept /\ PagesReadBack /\ [Next]_vars => Applied /\ Refused
  BY <1>2, <1>3 DEF Switched, Right, Untouched
<1>5. Spec => [][Applied]_settingsVars /\ [][Refused]_settingsVars
  <2> HIDE DEF Applied, Refused
  <2> QED BY <1>1, <1>2, <1>4, PagesAreRead, PTL DEF Spec
<1> QED BY <1>5 DEF SavedAsMeant, AppliedAsMeant, RefusedMeansUntouched

-----------------------------------------------------------------------------
(* The body of the form: what is sent is what is read.                     *)

\* The loop of decode, round after round.
Begun == [at |-> 1, out |-> << >>]
Goes(f, raw) == f[0] = Begun /\ \A n \in 1 .. Len(raw) : f[n] = Decoded(raw, f[n - 1])

\* A round leaves bytes.
LEMMA RoundType ==
  ASSUME NEW raw \in Seq(Int), NEW r \in [at : Nat \ {0}, out : Seq(Int)]
  PROVE  Decoded(raw, r) \in [at : Nat \ {0}, out : Seq(Int)]
<1>1. \A b \in Int : Digit(b) \in Int
  <2> SUFFICES ASSUME NEW b \in Int PROVE Digit(b) \in Int
    OBVIOUS
  <2>1. Hex(b) = {} \/ \E v \in Int : Hex(b) = {v}
    <3>1. CASE b \in 48 .. 57
      <4>1. Hex(b) = {b - 48}
        <5>1. b \notin 97 .. 102 /\ b \notin 65 .. 70
          BY <3>1
        <5> QED BY <3>1, <5>1 DEF Hex
      <4>2. b - 48 \in Int
        OBVIOUS
      <4> QED BY <4>1, <4>2
    <3>2. CASE b \in 97 .. 102
      <4>1. Hex(b) = {b - 87}
        BY <3>2 DEF Hex
      <4>2. b - 87 \in Int
        OBVIOUS
      <4> QED BY <4>1, <4>2
    <3>3. CASE b \in 65 .. 70
      <4>1. Hex(b) = {b - 55}
        BY <3>3 DEF Hex
      <4>2. b - 55 \in Int
        OBVIOUS
      <4> QED BY <4>1, <4>2
    <3>4. CASE b \notin 48 .. 57 /\ b \notin 97 .. 102 /\ b \notin 65 .. 70
      BY <3>4 DEF Hex
    <3> QED BY <3>1, <3>2, <3>3, <3>4
  <2>2. CASE Hex(b) = {}
    BY <2>2 DEF Digit
  <2>3. CASE \E v \in Int : Hex(b) = {v}
    BY <2>3 DEF Digit
  <2> QED BY <2>1, <2>2, <2>3
<1>2. Len(raw) \in Nat /\ \A i \in 1 .. Len(raw) : raw[i] \in Int
  BY LenProperties, ElementOfSeq
<1>3. CASE r.at > Len(raw)
  BY <1>3 DEF Decoded
<1>4. CASE ~(r.at > Len(raw)) /\ Escaped(raw, r.at)
  <2> DEFINE d == Digit(raw[r.at + 1]) * 16 + Digit(raw[r.at + 2])
  <2>1. r.at + 2 <= Len(raw)
    BY <1>4 DEF Escaped
  <2>2. r.at + 1 \in 1 .. Len(raw) /\ r.at + 2 \in 1 .. Len(raw)
    BY <1>2, <2>1
  <2>3. d \in Int
    <3> DEFINE h == Digit(raw[r.at + 1])
    <3> DEFINE l == Digit(raw[r.at + 2])
    <3>1. h \in Int /\ l \in Int
      BY <1>1, <1>2, <2>2
    <3> HIDE DEF h, l
    <3>2. h * 16 + l \in Int
      BY <3>1
    <3> QED BY <3>2 DEF h, l
  <2>4. Decoded(raw, r) = [at |-> r.at + 3, out |-> Append(r.out, d)]
    BY <1>4 DEF Decoded
  <2> HIDE DEF d
  <2>5. Append(r.out, d) \in Seq(Int)
    BY <2>3, AppendProperties
  <2> QED BY <2>4, <2>5
<1>5. CASE ~(r.at > Len(raw)) /\ ~Escaped(raw, r.at)
  <2> DEFINE d == IF raw[r.at] = Plus THEN Space ELSE raw[r.at]
  <2>1. r.at \in 1 .. Len(raw)
    BY <1>2, <1>5
  <2>2. d \in Int
    BY <1>2, <2>1 DEF Space
  <2>3. Decoded(raw, r) = [at |-> r.at + 1, out |-> Append(r.out, d)]
    BY <1>5 DEF Decoded
  <2> HIDE DEF d
  <2>4. Append(r.out, d) \in Seq(Int)
    BY <2>2, AppendProperties
  <2> QED BY <2>3, <2>4
<1> QED BY <1>3, <1>4, <1>5

\* What Unescaped chooses is what the rounds lead to.
LEMMA UnescapedIs ==
  ASSUME NEW raw \in Seq(Int)
  PROVE  \E f : Goes(f, raw) /\ Unescaped(raw) = f[Len(raw)].out
<1> DEFINE V == [at : Nat \ {0}, out : Seq(Int)]
<1> DEFINE N == Len(raw)
<1> DEFINE step == [n \in 1 .. N |-> [r \in V |-> Decoded(raw, r)]]
<1> DEFINE Is(f) == f = [n \in 0 .. N |-> IF n = 0 THEN Begun ELSE Decoded(raw, f[n - 1])]
<1> DEFINE F == CHOOSE f : Is(f)
<1>1. N \in Nat /\ Begun \in V
  BY LenProperties, EmptySeq DEF Begun
<1>2. step \in [1 .. N -> [V -> V]]
  BY RoundType
<1>3. Unescaped(raw) = F[N].out
  BY DEF Unescaped, Begun
<1>4. \E f : f \in [0 .. N -> V] /\ Run(f, N, Begun, step)
  <2> HIDE DEF V, N, step
  <2>1. Iterates(V, N, Begun, step)
    BY <1>1, <1>2 DEF Iterates
  <2> QED BY <2>1, Iterated
<1>5. \E f : Is(f)
  <2>1. PICK f : f \in [0 .. N -> V] /\ Run(f, N, Begun, step)
    BY <1>4
  <2>2. f[0] = Begun /\ f = [n \in 0 .. N |-> f[n]]
    BY <2>1 DEF Run
  <2>3. \A n \in 1 .. N : f[n] = Decoded(raw, f[n - 1])
    <3> TAKE n \in 1 .. N
    <3>1. n - 1 \in 0 .. N
      BY <1>1
    <3>2. f[n - 1] \in V /\ f[n] = step[n][f[n - 1]]
      BY <2>1, <3>1 DEF Run
    <3> HIDE DEF V
    <3> QED BY <3>2
  <2>4. \A n \in 0 .. N : f[n] = IF n = 0 THEN Begun ELSE Decoded(raw, f[n - 1])
    <3>1. \A n \in 0 .. N : n = 0 \/ n \in 1 .. N
      BY <1>1
    <3> QED BY <2>2, <2>3, <3>1
  <2>5. Is(f)
    BY <2>2, <2>4
  <2> QED BY <2>5
<1>6. Is(F)
  <2> HIDE DEF Is
  <2> QED BY <1>5
<1> HIDE DEF F
<1>7. Goes(F, raw)
  <2>1. 0 \in 0 .. N /\ \A n \in 1 .. N : n \in 0 .. N /\ n # 0
    BY <1>1
  <2> HIDE DEF N
  <2>2. F[0] = Begun /\ \A n \in 1 .. N : F[n] = Decoded(raw, F[n - 1])
    BY <1>6, <2>1
  <2> QED BY <2>2 DEF Goes, N
<1> QED BY <1>3, <1>7

\* A digit is read as it is written.
LEMMA DigitIsRead ==
  ASSUME NEW v \in 0 .. 15
  PROVE  Hex(HexDigit(v)) = {v} /\ Digit(HexDigit(v)) = v /\ HexDigit(v) \in Int
<1>1. Hex(HexDigit(v)) = {v}
  BY DEF Hex, HexDigit
<1>2. HexDigit(v) \in Int
  BY DEF HexDigit
<1> QED BY <1>1, <1>2 DEF Digit

\* A byte is what its two digits say.
LEMMA HalvesMake ==
  ASSUME NEW b \in 0 .. 255
  PROVE  b \div 16 \in 0 .. 15 /\ b % 16 \in 0 .. 15 /\ (b \div 16) * 16 + (b % 16) = b
OBVIOUS

\* A byte is sent as one or three.
LEMMA SentType ==
  ASSUME NEW plain, NEW b \in 0 .. 255
  PROVE  Sent(plain, b) \in Seq(Int) /\ Len(Sent(plain, b)) \in Nat \ {0}
<1>1. CASE b = Space
  BY <1>1 DEF Sent, Plus
<1>2. CASE b # Space /\ b \in plain
  <2>1. b \in Int
    OBVIOUS
  <2>2. Sent(plain, b) = <<b>>
    BY <1>2 DEF Sent
  <2> QED BY <2>1, <2>2 
<1>3. CASE b # Space /\ b \notin plain
  <2>1. HexDigit(b \div 16) \in Int /\ HexDigit(b % 16) \in Int
    BY HalvesMake, DigitIsRead
  <2> QED BY <1>3, <2>1 DEF Sent, Percent
<1> QED BY <1>1, <1>2, <1>3

\* One round reads one byte.
LEMMA RoundReads ==
  ASSUME NEW plain, plain \cap {Percent, Plus} = {}, NEW b \in 0 .. 255
  PROVE  \A e, rest \in Seq(Int), out \in Seq(0 .. 255) :
           Decoded(e \o (Sent(plain, b) \o rest), [at |-> Len(e) + 1, out |-> out])
             = [at |-> Len(e \o Sent(plain, b)) + 1, out |-> Append(out, b)]
<1> SUFFICES ASSUME NEW e \in Seq(Int), NEW rest \in Seq(Int), NEW out \in Seq(0 .. 255)
             PROVE  Decoded(e \o (Sent(plain, b) \o rest), [at |-> Len(e) + 1, out |-> out])
                      = [at |-> Len(e \o Sent(plain, b)) + 1, out |-> Append(out, b)]
  BY Zenon
<1> DEFINE p == Sent(plain, b)
<1> DEFINE raw == e \o (p \o rest)
<1>1. p \in Seq(Int) /\ Len(p) \in Nat \ {0}
  BY SentType
<1> HIDE DEF p
<1>2. p \o rest \in Seq(Int) /\ Len(p \o rest) = Len(p) + Len(rest)
      /\ (\A i \in 1 .. Len(p) : (p \o rest)[i] = p[i]) /\ Len(rest) \in Nat /\ Len(e) \in Nat
  BY <1>1, ConcatProperties, LenProperties
<1>3. raw \in Seq(Int) /\ Len(raw) = Len(e) + (Len(p) + Len(rest))
      /\ \A i \in 1 .. Len(p) : raw[Len(e) + i] = p[i]
  <2>1. raw \in Seq(Int) /\ Len(raw) = Len(e) + Len(p \o rest)
        /\ \A i \in 1 .. Len(e) + Len(p \o rest) : raw[i] = IF i <= Len(e) THEN e[i] ELSE (p \o rest)[i - Len(e)]
    BY <1>2, ConcatProperties
  <2> HIDE DEF raw
  <2>2. \A i \in 1 .. Len(p) : Len(e) + i \in 1 .. Len(e) + Len(p \o rest) /\ ~(Len(e) + i <= Len(e)) /\ (Len(e) + i) - Len(e) = i
    BY <1>1, <1>2
  <2> QED BY <1>2, <2>1, <2>2
<1>5. Len(e \o p) = Len(e) + Len(p)
  BY <1>1, ConcatProperties
<1> DEFINE at == Len(e) + 1
<1> HIDE DEF raw
<1>6. at \in Nat /\ ~(at > Len(raw))
  BY <1>1, <1>2, <1>3
<1>7. raw[at] = p[1] /\ (Len(p) >= 3 => raw[at + 1] = p[2] /\ raw[at + 2] = p[3] /\ at + 2 <= Len(raw))
  <2>1. 1 \in 1 .. Len(p)
    BY <1>1
  <2>2. Len(p) >= 3 => 2 \in 1 .. Len(p) /\ 3 \in 1 .. Len(p)
    BY <1>1
  <2>3. (Len(e) + 1) + 1 = Len(e) + 2 /\ (Len(e) + 1) + 2 = Len(e) + 3
    BY <1>2
  <2>4. Len(p) >= 3 => at + 2 <= Len(raw)
    BY <1>1, <1>2, <1>3
  <2> QED BY <1>3, <2>1, <2>2, <2>3, <2>4
<1> HIDE DEF at
<1>8. Decoded(raw, [at |-> at, out |-> out]) = [at |-> at + Len(p), out |-> Append(out, b)]
  <2>1. CASE b = Space
    <3>1. p = <<Plus>>
      BY <2>1 DEF p, Sent
    <3>2. raw[at] = Plus /\ Len(p) = 1 /\ ~Escaped(raw, at)
      BY <1>7, <3>1 DEF Escaped, Plus, Percent
    <3> QED BY <1>6, <2>1, <3>2 DEF Decoded
  <2>2. CASE b # Space /\ b \in plain
    <3>1. p = <<b>> /\ b # Percent /\ b # Plus
      BY <2>2 DEF p, Sent
    <3>2. raw[at] = b /\ Len(p) = 1 /\ ~Escaped(raw, at)
      BY <1>7, <3>1 DEF Escaped
    <3> QED BY <1>6, <3>1, <3>2 DEF Decoded
  <2>3. CASE b # Space /\ b \notin plain
    <3> DEFINE h == HexDigit(b \div 16)
    <3> DEFINE l == HexDigit(b % 16)
    <3>1. p = <<Percent, h, l>>
      BY <2>3 DEF p, Sent
    <3>2. Hex(h) # {} /\ Hex(l) # {} /\ Digit(h) = b \div 16 /\ Digit(l) = b % 16
      <4>1. b \div 16 \in 0 .. 15 /\ b % 16 \in 0 .. 15
        BY HalvesMake
      <4> QED BY <4>1, DigitIsRead
    <3> HIDE DEF h, l
    <3>3. Len(p) = 3 /\ p[1] = Percent /\ p[2] = h /\ p[3] = l
      BY <3>1
    <3>4. raw[at] = Percent /\ raw[at + 1] = h /\ raw[at + 2] = l /\ at + 2 <= Len(raw)
      BY <1>7, <3>3
    <3>5. Escaped(raw, at)
      BY <3>2, <3>4 DEF Escaped
    <3>6. Digit(raw[at + 1]) * 16 + Digit(raw[at + 2]) = b
      BY <3>2, <3>4, HalvesMake
    <3> QED BY <1>6, <3>3, <3>5, <3>6 DEF Decoded
  <2> QED BY <2>1, <2>2, <2>3
<1>9. at + Len(p) = Len(e \o p) + 1
  BY <1>1, <1>2, <1>5 DEF at
<1> QED BY <1>8, <1>9 DEF at, p, raw

\* So many bytes, so many rounds.
Behind(plain, s) ==
  /\ Encoded(plain, s) \in Seq(Int) /\ Len(Encoded(plain, s)) >= Len(s)
  /\ \A rest \in Seq(Int) : \A f :
       Goes(f, Encoded(plain, s) \o rest) => f[Len(s)] = [at |-> Len(Encoded(plain, s)) + 1, out |-> s]

\* The next byte is sent after the others.
LEMMA SentAppend ==
  ASSUME NEW plain, plain \cap {Percent, Plus} = {}, NEW s \in Seq(0 .. 255), NEW b \in 0 .. 255
  PROVE  /\ Encoded(plain, s) \in Seq(Int)
         /\ Encoded(plain, Append(s, b)) = Encoded(plain, s) \o Sent(plain, b)
<1> DEFINE piece(t) == [i \in DOMAIN t |-> Sent(plain, t[i])]
<1>1. \A x \in 0 .. 255 : Sent(plain, x) \in Seq(Int)
  BY SentType
<1> DEFINE r == Append(s, b)
<1>2. /\ Len(s) \in Nat /\ DOMAIN s = 1 .. Len(s) /\ (\A i \in 1 .. Len(s) : s[i] \in 0 .. 255)
      /\ r \in Seq(0 .. 255) /\ Len(r) = Len(s) + 1 /\ DOMAIN r = 1 .. Len(s) + 1
      /\ r[Len(s) + 1] = b /\ \A i \in 1 .. Len(s) : r[i] = s[i]
  <2>1. /\ r \in Seq(0 .. 255) /\ Len(r) = Len(s) + 1 /\ r[Len(s) + 1] = b
        /\ \A i \in 1 .. Len(s) : r[i] = s[i]
    BY AppendProperties
  <2> HIDE DEF r
  <2>2. Len(s) \in Nat /\ DOMAIN s = 1 .. Len(s) /\ DOMAIN r = 1 .. Len(s) + 1
    BY <2>1, LenProperties
  <2>3. \A i \in 1 .. Len(s) : s[i] \in 0 .. 255
    BY ElementOfSeq
  <2> QED BY <2>1, <2>2, <2>3
<1>3. piece(s) \in Seq(Seq(Int)) /\ Len(piece(s)) = Len(s)
  <2>1. \A i \in 1 .. Len(s) : Sent(plain, s[i]) \in Seq(Int)
    BY <1>1, <1>2
  <2> QED BY <1>2, <2>1, IsASeq, LenProperties
<1>4. piece(r) = Append(piece(s), Sent(plain, b))
  <2> DEFINE a == Append(piece(s), Sent(plain, b))
  <2>1. /\ a \in Seq(Seq(Int)) /\ Len(a) = Len(s) + 1 /\ a[Len(s) + 1] = Sent(plain, b)
        /\ \A i \in 1 .. Len(s) : a[i] = piece(s)[i]
    <3> DEFINE q == piece(s)
    <3>1. q \in Seq(Seq(Int)) /\ Len(q) = Len(s) /\ Sent(plain, b) \in Seq(Int)
      BY <1>1, <1>3
    <3> HIDE DEF q
    <3>2. Append(q, Sent(plain, b)) \in Seq(Seq(Int))
          /\ Len(Append(q, Sent(plain, b))) = Len(s) + 1
          /\ Append(q, Sent(plain, b))[Len(s) + 1] = Sent(plain, b)
          /\ \A i \in 1 .. Len(s) : Append(q, Sent(plain, b))[i] = q[i]
      BY <3>1, AppendProperties
    <3> QED BY <3>2 DEF q
  <2>2. \A i \in 1 .. Len(s) : a[i] = Sent(plain, s[i])
    BY <1>2, <2>1
  <2> HIDE DEF a
  <2>3. a = [i \in 1 .. Len(s) + 1 |-> a[i]]
    BY <2>1, LenProperties
  <2>4. \A i \in 1 .. Len(s) + 1 : a[i] = Sent(plain, r[i])
    <3>1. \A i \in 1 .. Len(s) + 1 : i = Len(s) + 1 \/ i \in 1 .. Len(s)
      BY <1>2
    <3> QED BY <1>2, <2>1, <2>2, <3>1
  <2> HIDE DEF r
  <2>5. DOMAIN r = 1 .. Len(s) + 1
    BY <1>2 DEF r
  <2>6. piece(r) = a
    BY <2>3, <2>4, <2>5
  <2> QED BY <2>6 DEF a
<1>5. Encoded(plain, s) = FlattenSeq(piece(s)) /\ Encoded(plain, r) = FlattenSeq(piece(r))
  BY DEF Encoded
<1> HIDE DEF piece, r
<1>6. FlattenSeq(piece(s)) \in Seq(Int)
      /\ FlattenSeq(Append(piece(s), Sent(plain, b))) = FlattenSeq(piece(s)) \o Sent(plain, b)
  BY <1>1, <1>3, FlattenAppend, Zenon
<1> QED BY <1>4, <1>5, <1>6 DEF r

LEMMA BehindAlways ==
  ASSUME NEW plain, plain \cap {Percent, Plus} = {}
  PROVE  \A s \in Seq(0 .. 255) : Behind(plain, s)
<1> DEFINE P == {s \in Seq(0 .. 255) : Behind(plain, s)}
<1>1. << >> \in P
  <2>1. Encoded(plain, << >>) = << >>
    BY FlattenEmpty DEF Encoded
  <2>2. Len(<< >>) = 0 /\ << >> \in Seq(0 .. 255) /\ << >> \in Seq(Int)
    BY EmptySeq
  <2>3. Behind(plain, << >>)
    <3> DEFINE c == Encoded(plain, << >>)
    <3>1. c \in Seq(Int) /\ Len(c) = 0 /\ Len(c) >= Len(<< >>)
      <4>1. c = << >>
        BY <2>1
      <4> HIDE DEF c
      <4> QED BY <2>2, <4>1
    <3>2. ASSUME NEW rest \in Seq(Int), NEW f, Goes(f, c \o rest)
          PROVE  f[Len(<< >>)] = [at |-> Len(c) + 1, out |-> << >>]
      <4> HIDE DEF c
      <4>1. f[0] = Begun
        BY <3>2 DEF Goes
      <4> QED BY <2>2, <3>1, <4>1 DEF Begun
    <3> HIDE DEF c
    <3> QED BY <3>1, <3>2 DEF Behind, c
  <2> QED BY <2>2, <2>3
<1>2. ASSUME NEW s \in Seq(0 .. 255), NEW b \in 0 .. 255, s \in P PROVE Append(s, b) \in P
  <2> DEFINE e == Encoded(plain, s)
  <2> DEFINE p == Sent(plain, b)
  <2> DEFINE r == Append(s, b)
  <2>1. e \in Seq(Int) /\ Encoded(plain, r) = e \o p
    BY SentAppend
  <2>2. p \in Seq(Int) /\ Len(p) \in Nat \ {0}
    BY SentType
  <2>3. Len(e) \in Nat /\ Len(s) \in Nat /\ Len(e) >= Len(s) /\ Behind(plain, s)
    BY <1>2, <2>1, LenProperties DEF Behind
  <2>4. e \o p \in Seq(Int) /\ Len(e \o p) = Len(e) + Len(p)
    <3> HIDE DEF e, p
    <3> QED BY <2>1, <2>2, ConcatProperties
  <2>5. r \in Seq(0 .. 255) /\ Len(r) = Len(s) + 1
    BY AppendProperties
  <2>6. ASSUME NEW rest \in Seq(Int), NEW f, Goes(f, (e \o p) \o rest)
        PROVE  f[Len(s) + 1] = [at |-> Len(e \o p) + 1, out |-> r]
    <3> DEFINE raw == e \o (p \o rest)
    <3>1. raw = (e \o p) \o rest /\ p \o rest \in Seq(Int) /\ raw \in Seq(Int)
      <4> HIDE DEF e, p
      <4>0. \A x, y, z \in Seq(Int) : (x \o y) \o z = x \o (y \o z)
        <5> DEFINE S == Int
        <5> SUFFICES \A x, y, z \in Seq(S) : (x \o y) \o z = x \o (y \o z)
          OBVIOUS
        <5> HIDE DEF S
        <5> QED BY ConcatAssociative
      <4>1. (e \o p) \o rest = e \o (p \o rest)
        BY <2>1, <2>2, <4>0
      <4>2. p \o rest \in Seq(Int)
        BY <2>2, ConcatProperties
      <4>3. e \o (p \o rest) \in Seq(Int)
        BY <2>1, <4>2, ConcatProperties
      <4> QED BY <4>1, <4>2, <4>3
    <3>2. Decoded(raw, [at |-> Len(e) + 1, out |-> s]) = [at |-> Len(e \o p) + 1, out |-> r]
      <4>1. \A x, y \in Seq(Int), z \in Seq(0 .. 255) :
              Decoded(x \o (p \o y), [at |-> Len(x) + 1, out |-> z])
                = [at |-> Len(x \o p) + 1, out |-> Append(z, b)]
        BY RoundReads, Zenon
      <4> HIDE DEF e, p
      <4>2. e \in Seq(Int)
        BY <2>1
      <4> QED BY <4>1, <4>2
    <3> HIDE DEF e, p, r
    <3>3. f[Len(s)] = [at |-> Len(e) + 1, out |-> s]
      BY <2>3, <2>6, <3>1 DEF Behind, e
    <3>4. Len(raw) = Len(e \o p) + Len(rest) /\ Len(rest) \in Nat
      BY <2>4, <3>1, ConcatProperties, LenProperties
    <3> HIDE DEF raw
    <3>5. Len(s) + 1 \in 1 .. Len(raw) /\ (Len(s) + 1) - 1 = Len(s)
      BY <2>2, <2>3, <2>4, <3>4
    <3>6. f[Len(s) + 1] = Decoded(raw, f[Len(s)])
      BY <2>6, <3>1, <3>5 DEF Goes
    <3> QED BY <3>2, <3>3, <3>6
  <2>7. Len(e \o p) >= Len(r)
    BY <2>2, <2>3, <2>4, <2>5
  <2> HIDE DEF e, p, r
  <2>8. Behind(plain, r)
    BY <2>1, <2>4, <2>5, <2>6, <2>7 DEF Behind
  <2> QED BY <2>5, <2>8 DEF r
<1>3. \A s \in Seq(0 .. 255) : s \in P
  <2> HIDE DEF P
  <2> QED BY <1>1, <1>2, BySequences, Zenon
<1> QED BY <1>3

\* Whatever bytes are sent, and whichever of them are left as they are, the loop
\* reads.
LEMMA BytesAreRead ==
  ASSUME NEW plain, plain \cap {Percent, Plus} = {}, NEW s \in Seq(0 .. 255)
  PROVE  Unescaped(Encoded(plain, s)) = s
<1> DEFINE raw == Encoded(plain, s)
<1> DEFINE N == Len(raw)
<1> DEFINE over == [at |-> N + 1, out |-> s]
<1>1. /\ raw \in Seq(Int) /\ N \in Nat /\ Len(s) \in Nat /\ N >= Len(s) /\ raw \o << >> = raw
      /\ Behind(plain, s)
  <2>1. Behind(plain, s)
    BY BehindAlways
  <2>2. raw \in Seq(Int) /\ N >= Len(s)
    BY <2>1 DEF Behind
  <2> HIDE DEF raw
  <2> QED BY <2>1, <2>2, LenProperties, ConcatEmptySeq
<1> HIDE DEF raw
<1>2. PICK f : Goes(f, raw) /\ Unescaped(raw) = f[N].out
  BY <1>1, UnescapedIs
<1>3. f[Len(s)] = over
  <2>1. \A rest \in Seq(Int) : Goes(f, raw \o rest) => f[Len(s)] = over
    BY <1>1 DEF Behind, raw
  <2> QED BY <1>1, <1>2, <2>1, EmptySeq
<1>4. Decoded(raw, over) = over
  BY <1>1 DEF Decoded
<1> DEFINE P == {n \in Nat : Len(s) + n <= N => f[Len(s) + n] = over}
<1>5. 0 \in P
  BY <1>1, <1>3
<1>6. ASSUME NEW n \in Nat, n \in P PROVE n + 1 \in P
  <2> SUFFICES ASSUME Len(s) + (n + 1) <= N PROVE f[Len(s) + (n + 1)] = over
    OBVIOUS
  <2> DEFINE k == Len(s) + (n + 1)
  <2>1. k \in 1 .. N /\ k - 1 = Len(s) + n /\ Len(s) + n <= N
    BY <1>1
  <2> HIDE DEF k, over, N
  <2>2. f[k - 1] = over
    BY <1>6, <2>1
  <2>3. f[k] = Decoded(raw, f[k - 1])
    BY <1>2, <2>1 DEF Goes, N
  <2>4. f[k] = over
    BY <1>4, <2>2, <2>3
  <2> QED BY <2>4 DEF k
<1>7. \A n \in Nat : n \in P
  <2> HIDE DEF P
  <2> QED BY <1>5, <1>6, ByInduction, Zenon
<1>8. f[N] = over
  <2>1. N - Len(s) \in Nat /\ Len(s) + (N - Len(s)) = N /\ N <= N
    BY <1>1
  <2> HIDE DEF over
  <2> DEFINE d == N - Len(s)
  <2>2. d \in P
    BY <1>7, <2>1
  <2>3. Len(s) + d = N /\ Len(s) + d <= N
    BY <2>1
  <2> HIDE DEF d
  <2>4. Len(s) + d <= N => f[Len(s) + d] = over
    BY <2>2
  <2> QED BY <2>3, <2>4
<1> QED BY <1>2, <1>8 DEF raw

\* Letters that are whole stay as they are.
LEMMA TextStays ==
  ASSUME NEW A, NEW raw \in Seq(A), IsText(raw)
  PROVE  Lossy(raw) = raw
<1> DEFINE pieces == [i \in DOMAIN raw |-> IF InLetter(raw, i) THEN <<raw[i]>>
                                          ELSE IF Follows(raw, i) THEN << >> ELSE Replacement]
<1>1. pieces = [i \in DOMAIN raw |-> <<raw[i]>>]
  BY DEF IsText
<1>2. Lossy(raw) = FlattenSeq(pieces)
  BY DEF Lossy
<1> HIDE DEF pieces
<1> QED BY <1>1, <1>2, WordByWord

\* The body of a form (decode in settings_page.rs): whatever bytes the browser sends,
\* and whichever of them it leaves as they are, the server reads those bytes, with
\* U+FFFD in the place of letters that are cut short; a text is read as it was sent.
THEOREM BytesArrive ==
  ASSUME NEW plain, plain \cap {Percent, Plus} = {}, NEW s \in Seq(0 .. 255)
  PROVE  /\ Decode(Encoded(plain, s)) = Lossy(s)
         /\ IsText(s) => Decode(Encoded(plain, s)) = s
<1>1. Decode(Encoded(plain, s)) = Lossy(s)
  <2>1. Unescaped(Encoded(plain, s)) = s
    BY BytesAreRead
  <2> QED BY <2>1 DEF Decode
<1>2. IsText(s) => Lossy(s) = s
  <2> DEFINE B == 0 .. 255
  <2>1. s \in Seq(B)
    OBVIOUS
  <2> HIDE DEF B
  <2> QED BY <2>1, TextStays
<1> QED BY <1>1, <1>2

-----------------------------------------------------------------------------
(* The tunnel.                                                             *)

\* A log that says up is wrong about a killed process only, and a tunnel that is up
\* is in the log.
LogIsTrue == (log = "up" => ours = "up" \/ killed) /\ (ours = "up" => log = "up")

\* A snapshot of which only the installation and the profile are known.
Blank(snap) ==
  /\ snap.installed /\ ~snap.up /\ ~snap.rising /\ ~snap.foreign
  /\ ~snap.livenessError /\ ~snap.routesError

Reading == {"profile", "log", "adapters", "routes"}

\* What a request has noted still holds, until a tunnel comes or goes.
Noted(r) ==
  /\ r.at \in {"idle", "write"} => ~r.busy /\ ~r.steady
  /\ r.at \in Reading => Blank(r.snap) /\ (r.busy => ForeignCarries) /\ (r.steady => ours = "up")
  /\ r.at = "routes" /\ r.busy => "other" \in r.listed
  /\ r.at \in {"adapters", "routes", "raise"} /\ r.log = "yes" => r.excused
  /\ r.at \in {"adapters", "routes"} /\ r.steady => r.log # "no"
  /\ r.at = "raise" /\ r.busy => r.log \in {"yes", "error"} \/ ~r.snap.installed
  /\ r.at = "drawn" => SaysUpOnlyWhenUp(r) /\ UpCanBeLowered(r) /\ BusyIsNotRaised(r) /\ MenuAgrees(r)

Careful == TunnelTypeOK /\ LogIsTrue /\ \A h \in Handlers : Noted(handler[h])

\* No request, and none that has begun.
LEMMA NoRequest == Snapshot \in Snapshots /\ Idle \in Requests /\ Noted(Idle)
<1>1. Snapshot \in Snapshots
  BY DEF Snapshot, Snapshots
<1>2. Idle \in Requests
  BY <1>1 DEF Idle, Requests, Answers
<1> QED BY <1>1, <1>2 DEF Idle, Noted, Reading

\* At the start no request is under way.
LEMMA InitCareful == TunnelInit => Careful
<1> SUFFICES ASSUME TunnelInit PROVE Careful
  OBVIOUS
<1>1. TunnelTypeOK
  <2>1. handler \in [Handlers -> Requests]
    BY NoRequest DEF TunnelInit
  <2>2. 0 \in 0 .. Clicks /\ 0 \in 0 .. Events
    BY TunnelAssumption
  <2> QED BY <2>1, <2>2 DEF TunnelInit, TunnelTypeOK
<1>2. \A h \in Handlers : handler[h] = Idle
  BY DEF TunnelInit
<1> QED BY <1>1, <1>2, NoRequest DEF TunnelInit, Careful, LogIsTrue

\* What the log and the routes say, put together.
LEMMA FactsAre ==
  ASSUME NEW snap \in Snapshots, Blank(snap), NEW logUp \in Answers, NEW carries \in Answers,
         NEW c, c = CombineTunnelFacts(snap, logUp, carries)
  PROVE  /\ c \in Snapshots /\ c.installed /\ c.profile = snap.profile
         /\ c.livenessError <=> logUp = "error" \/ (logUp = "yes" /\ carries = "error")
         /\ c.up <=> logUp = "yes" /\ carries = "yes"
         /\ c.rising <=> logUp = "yes" /\ carries = "no"
         /\ c.routesError <=> logUp = "no" /\ carries = "error"
         /\ c.foreign <=> logUp = "no" /\ carries = "yes"
<1>1. CASE logUp = "error"
  BY <1>1 DEF CombineTunnelFacts, Snapshots, Blank
<1>2. CASE logUp = "yes"
  BY <1>2 DEF CombineTunnelFacts, Snapshots, Blank, Answers
<1>3. CASE logUp = "no"
  BY <1>3 DEF CombineTunnelFacts, Snapshots, Blank, Answers
<1> QED BY <1>1, <1>2, <1>3 DEF Answers

\* A page that has been drawn from what was read is honest.
LEMMA DrawnIsHonest ==
  ASSUME NEW old \in Requests, NEW carries \in Answers, Blank(old.snap),
         old.log = "yes" => old.excused, old.steady => old.log # "no",
         old.busy => carries # "no", NEW r \in Requests,
         r.snap = CombineTunnelFacts(old.snap, old.log, carries),
         r.busy = old.busy, r.steady = old.steady, r.excused = old.excused
  PROVE  SaysUpOnlyWhenUp(r) /\ UpCanBeLowered(r) /\ BusyIsNotRaised(r) /\ MenuAgrees(r)
<1> DEFINE c == r.snap
<1>0. old.snap \in Snapshots /\ old.log \in Answers
  BY DEF Requests
<1>1. /\ c \in Snapshots /\ c.installed
      /\ c.livenessError <=> old.log = "error" \/ (old.log = "yes" /\ carries = "error")
      /\ c.up <=> old.log = "yes" /\ carries = "yes"
      /\ c.rising <=> old.log = "yes" /\ carries = "no"
      /\ c.routesError <=> old.log = "no" /\ carries = "error"
      /\ c.foreign <=> old.log = "no" /\ carries = "yes"
  BY <1>0, FactsAre
<1> HIDE DEF c
<1> DEFINE s == Section(c)
<1>2. /\ c.livenessError => s = [says |-> "unknown", buttons |-> {"raise", "lower"}]
      /\ c.up => s = [says |-> "up", buttons |-> {"lower"}]
      /\ c.rising => s = [says |-> "rising", buttons |-> {"lower"}]
      /\ c.routesError => s = [says |-> "unchecked", buttons |-> {}]
      /\ c.foreign => s = [says |-> "busy", buttons |-> {}]
      /\ ~c.livenessError /\ ~c.up /\ ~c.rising /\ ~c.routesError /\ ~c.foreign =>
           s = [says |-> "down", buttons |-> IF c.profile THEN {"raise"} ELSE {}]
  BY <1>1 DEF Section
<1>3. /\ c.livenessError => TunnelText(c) = "unknown"
      /\ c.up => TunnelText(c) = "up"
      /\ c.rising => TunnelText(c) = "rising"
      /\ c.routesError => TunnelText(c) = "unchecked"
      /\ c.foreign => TunnelText(c) = "busy"
      /\ ~c.livenessError /\ ~c.up /\ ~c.rising /\ ~c.routesError /\ ~c.foreign => TunnelText(c) = "down"
  BY <1>1 DEF TunnelText
<1> HIDE DEF s
<1>4. s.says = "up" => r.excused
  BY <1>0, <1>1, <1>2 DEF Answers
<1>5. r.steady => "lower" \in s.buttons
  BY <1>0, <1>1, <1>2 DEF Answers
<1>6. r.busy /\ "raise" \in s.buttons => s.says = "unknown"
  BY <1>0, <1>1, <1>2 DEF Answers
<1>7. TunnelText(c) = s.says
  BY <1>0, <1>1, <1>2, <1>3 DEF Answers
<1> QED BY <1>4, <1>5, <1>6, <1>7
     DEF SaysUpOnlyWhenUp, UpCanBeLowered, BusyIsNotRaised, MenuAgrees, c, s

\* A step of one request that leaves the world as it is.
LEMMA RequestMoves ==
  ASSUME Careful, NEW h \in Handlers, NEW r \in Requests,
         handler' = [handler EXCEPT ![h] = r], Noted(r),
         UNCHANGED <<machine, process, foreign, events>>,
         profile' \in {"none", "torn", "whole"}, gui' \subseteq {"connect", "disconnect"},
         clicks' \in 0 .. Clicks
  PROVE  Careful'
<1>1. TunnelTypeOK'
  BY DEF Careful, TunnelTypeOK, machine, process
<1>2. LogIsTrue'
  BY DEF Careful, LogIsTrue, process
<1>3. UNCHANGED <<ForeignCarries, ours>>
  BY DEF ForeignCarries, process
<1>4. ASSUME NEW g \in Handlers PROVE Noted(handler[g])'
  <2>1. handler'[g] = IF g = h THEN r ELSE handler[g]
    BY DEF Careful, TunnelTypeOK
  <2>2. Noted(handler'[g])
    BY <2>1 DEF Careful
  <2> DEFINE q == handler'[g]
  <2> HIDE DEF q
  <2>3. Noted(q)
    BY <2>2 DEF q
  <2>4. /\ q.at \in {"idle", "write"} => ~q.busy /\ ~q.steady
        /\ q.at \in Reading => Blank(q.snap) /\ (q.busy => ForeignCarries') /\ (q.steady => ours' = "up")
        /\ q.at = "routes" /\ q.busy => "other" \in q.listed
        /\ q.at \in {"adapters", "routes", "raise"} /\ q.log = "yes" => q.excused
        /\ q.at \in {"adapters", "routes"} /\ q.steady => q.log # "no"
        /\ q.at = "raise" /\ q.busy => q.log \in {"yes", "error"} \/ ~q.snap.installed
        /\ q.at = "drawn" => SaysUpOnlyWhenUp(q) /\ UpCanBeLowered(q) /\ BusyIsNotRaised(q) /\ MenuAgrees(q)
    BY <1>3, <2>3 DEF Noted
  <2> QED BY <2>4 DEF q, Noted, SaysUpOnlyWhenUp, UpCanBeLowered, BusyIsNotRaised, MenuAgrees,
                      Section, TunnelText, Blank, Reading
<1> QED BY <1>1, <1>2, <1>4 DEF Careful

\* A step of the world: requests note that a tunnel has gone.
LEMMA WorldMoves ==
  ASSUME Careful, TunnelTypeOK', LogIsTrue',
         \A h \in Handlers :
           /\ handler'[h].at = handler[h].at /\ handler'[h].log = handler[h].log
           /\ handler'[h].listed = handler[h].listed /\ handler'[h].snap = handler[h].snap
           /\ handler'[h].excused = handler[h].excused
           /\ handler'[h].busy => handler[h].busy /\ (ForeignCarries => ForeignCarries')
           /\ handler'[h].steady => handler[h].steady /\ (ours = "up" => ours' = "up")
  PROVE  Careful'
<1>1. ASSUME NEW h \in Handlers PROVE Noted(handler[h])'
  <2> DEFINE o == handler[h]
  <2> DEFINE q == handler'[h]
  <2>1. /\ q.at = o.at /\ q.log = o.log /\ q.listed = o.listed /\ q.snap = o.snap
        /\ q.excused = o.excused
        /\ q.busy => o.busy /\ (ForeignCarries => ForeignCarries')
        /\ q.steady => o.steady /\ (ours = "up" => ours' = "up")
    OBVIOUS
  <2>2. Noted(o)
    BY DEF Careful
  <2> HIDE DEF o, q
  <2>3. q.at = "drawn" =>
          SaysUpOnlyWhenUp(q) /\ UpCanBeLowered(q) /\ BusyIsNotRaised(q) /\ MenuAgrees(q)
    <3>1. o.at = "drawn" =>
            SaysUpOnlyWhenUp(o) /\ UpCanBeLowered(o) /\ BusyIsNotRaised(o) /\ MenuAgrees(o)
      BY <2>2 DEF Noted
    <3> QED BY <2>1, <3>1 DEF SaysUpOnlyWhenUp, UpCanBeLowered, BusyIsNotRaised, MenuAgrees
  <2>4. /\ q.at \in {"idle", "write"} => ~q.busy /\ ~q.steady
        /\ q.at \in Reading => Blank(q.snap) /\ (q.busy => ForeignCarries') /\ (q.steady => ours' = "up")
        /\ q.at = "routes" /\ q.busy => "other" \in q.listed
        /\ q.at \in {"adapters", "routes", "raise"} /\ q.log = "yes" => q.excused
        /\ q.at \in {"adapters", "routes"} /\ q.steady => q.log # "no"
        /\ q.at = "raise" /\ q.busy => q.log \in {"yes", "error"} \/ ~q.snap.installed
    BY <2>1, <2>2 DEF Noted
  <2> QED BY <2>3, <2>4 DEF q, Noted, SaysUpOnlyWhenUp, UpCanBeLowered, BusyIsNotRaised, MenuAgrees,
                           Section, TunnelText, Blank, Reading
<1> QED BY <1>1 DEF Careful

\* Whatever happens, what a request has noted is so.
LEMMA CarefulIsInductive == Careful /\ [TunnelNext]_tunnelVars => Careful'
<1> SUFFICES ASSUME Careful, [TunnelNext]_tunnelVars PROVE Careful'
  OBVIOUS
<1>0. /\ TunnelTypeOK /\ LogIsTrue /\ \A h \in Handlers : Noted(handler[h]) /\ handler[h] \in Requests
      /\ handler \in [Handlers -> Requests]
  BY DEF Careful, TunnelTypeOK
<1>a. ASSUME Click PROVE clicks' \in 0 .. Clicks
  BY <1>0, <1>a, TunnelAssumption DEF Click, TunnelTypeOK
<1>b. ASSUME NEW what, MayHappen(what) PROVE events' \in 0 .. Events
  BY <1>0, <1>b, TunnelAssumption DEF MayHappen, TunnelTypeOK
<1>c. /\ profile \in {"none", "torn", "whole"} /\ gui \subseteq {"connect", "disconnect"}
      /\ clicks \in 0 .. Clicks
  BY <1>0 DEF TunnelTypeOK
<1>1. ASSUME NEW h \in Handlers, NEW for \in {"page", "raise"}, Begin(h, for) PROVE Careful'
  <2> DEFINE r0 == [Idle EXCEPT !.for = for, !.busy = ForeignCarries, !.steady = (ours = "up")]
  <2> DEFINE found == [r0 EXCEPT !.at = "profile", !.snap.installed = TRUE]
  <2> DEFINE blind == [r0 EXCEPT !.at = IF for = "raise" THEN "raise" ELSE "drawn"]
  <2>0. ForeignCarries \in BOOLEAN
    BY DEF ForeignCarries
  <2>1. /\ r0 \in Requests /\ r0.snap = Snapshot /\ r0.busy = ForeignCarries
        /\ r0.steady = (ours = "up") /\ r0.log = "no" /\ r0.for = for
    BY <2>0, NoRequest DEF Idle, Requests, Answers
  <2>2. (handler' = [handler EXCEPT ![h] = found]) \/ (handler' = [handler EXCEPT ![h] = blind])
    BY <1>1 DEF Begin
  <2> HIDE DEF r0
  <2>3. CASE handler' = [handler EXCEPT ![h] = found]
    <3>1. found \in Requests /\ found.at = "profile" /\ found.busy = ForeignCarries
          /\ found.steady = (ours = "up") /\ Blank(found.snap)
      <4> DEFINE q == [r0 EXCEPT !.at = "profile"]
      <4> DEFINE seen == [Snapshot EXCEPT !.installed = TRUE]
      <4>1. seen \in Snapshots /\ Blank(seen)
        BY DEF Snapshot, Snapshots, Blank
      <4>2. /\ q \in Requests /\ q.snap = Snapshot /\ q.at = "profile"
            /\ q.busy = ForeignCarries /\ q.steady = (ours = "up")
        BY <2>1 DEF Requests
      <4>3. found = [q EXCEPT !.snap = seen]
        BY <4>2
      <4> HIDE DEF q, seen, found
      <4> QED BY <4>1, <4>2, <4>3 DEF Requests
    <3> HIDE DEF found
    <3>2. Noted(found)
      BY <3>1 DEF Noted, Reading
    <3> QED BY <1>1, <1>a, <1>c, <2>3, <3>1, <3>2, RequestMoves DEF Begin
  <2>4. CASE handler' = [handler EXCEPT ![h] = blind]
    <3>1. blind \in Requests /\ blind.at \in {"raise", "drawn"} /\ blind.log = "no" /\ blind.snap = Snapshot
      BY <2>1 DEF Requests
    <3> HIDE DEF blind
    <3>2. ~blind.snap.installed /\ Section(blind.snap) = [says |-> "unavailable", buttons |-> {}]
          /\ TunnelText(blind.snap) = "unavailable"
      BY <3>1 DEF Snapshot, Section, TunnelText
    <3>3. SaysUpOnlyWhenUp(blind) /\ UpCanBeLowered(blind) /\ BusyIsNotRaised(blind) /\ MenuAgrees(blind)
      BY <3>2 DEF SaysUpOnlyWhenUp, UpCanBeLowered, BusyIsNotRaised, MenuAgrees
    <3>4. Noted(blind)
      BY <3>1, <3>2, <3>3 DEF Noted, Reading
    <3> QED BY <1>1, <1>a, <1>c, <2>4, <3>1, <3>4, RequestMoves DEF Begin
  <2> QED BY <2>2, <2>3, <2>4
<1>p. ASSUME NEW h \in Handlers, ReadProfile(h) PROVE Careful'
  <2> DEFINE r == [handler[h] EXCEPT !.at = "log", !.snap.profile = installed /\ profile # "none"]
  <2>1. handler' = [handler EXCEPT ![h] = r]
    BY <1>p DEF ReadProfile
  <2>2. /\ handler[h] \in Requests /\ Noted(handler[h]) /\ handler[h].at = "profile"
        /\ installed \in BOOLEAN
    BY <1>0, <1>p DEF ReadProfile, TunnelTypeOK
  <2>3. /\ r \in Requests /\ r.at = "log" /\ r.busy = handler[h].busy /\ r.steady = handler[h].steady
        /\ Blank(handler[h].snap) => Blank(r.snap)
    BY <2>2 DEF Requests, Snapshots, Blank
  <2> HIDE DEF r
  <2>4. Noted(r)
    BY <2>2, <2>3 DEF Noted, Reading
  <2> QED BY <1>p, <1>c, <2>1, <2>3, <2>4, RequestMoves DEF ReadProfile
<1>2. ASSUME NEW h \in Handlers, ReadLog(h) PROVE Careful'
  <2> DEFINE r == [handler[h] EXCEPT !.at = "adapters", !.log = LogUp, !.excused = (ours = "up" \/ killed)]
  <2>1. LogUp \in Answers
    BY DEF LogUp, Answers
  <2>2. (LogUp = "yes" => ours = "up" \/ killed) /\ (ours = "up" => LogUp # "no")
    BY <1>0 DEF LogUp, LogIsTrue
  <2>3. handler' = [handler EXCEPT ![h] = r]
    BY <1>2 DEF ReadLog
  <2>4. handler[h] \in Requests /\ Noted(handler[h]) /\ handler[h].at = "log" /\ killed \in BOOLEAN
    BY <1>0, <1>2 DEF ReadLog, TunnelTypeOK
  <2>5. /\ r \in Requests /\ r.at = "adapters" /\ r.log = LogUp /\ r.excused = (ours = "up" \/ killed)
        /\ r.busy = handler[h].busy /\ r.steady = handler[h].steady /\ r.snap = handler[h].snap
    BY <2>1, <2>4 DEF Requests
  <2> HIDE DEF r
  <2>6. Noted(r)
    BY <2>2, <2>4, <2>5 DEF Noted, Reading
  <2> QED BY <1>2, <1>c, <2>3, <2>5, <2>6, RequestMoves DEF ReadLog
<1>3. ASSUME NEW h \in Handlers, ReadAdapters(h) PROVE Careful'
  <2> DEFINE r == [handler[h] EXCEPT !.at = "routes", !.listed = TunnelAdapters]
  <2>1. TunnelAdapters \subseteq {"ours", "other"} /\ (ForeignCarries => "other" \in TunnelAdapters)
    BY DEF TunnelAdapters, ForeignCarries
  <2>2. handler[h] \in Requests /\ Noted(handler[h]) /\ handler[h].at = "adapters"
    BY <1>0, <1>3 DEF ReadAdapters
  <2>3. handler' = [handler EXCEPT ![h] = r]
    BY <1>3 DEF ReadAdapters
  <2>4. /\ r \in Requests /\ r.at = "routes" /\ r.listed = TunnelAdapters
        /\ r.log = handler[h].log /\ r.excused = handler[h].excused
        /\ r.busy = handler[h].busy /\ r.steady = handler[h].steady /\ r.snap = handler[h].snap
    BY <2>1, <2>2 DEF Requests
  <2> HIDE DEF r
  <2>5. Noted(r)
    BY <2>1, <2>2, <2>4 DEF Noted, Reading
  <2> QED BY <1>3, <1>c, <2>3, <2>4, <2>5, RequestMoves DEF ReadAdapters
<1>4. ASSUME NEW h \in Handlers, ReadRoutes(h) PROVE Careful'
  <2> DEFINE o == handler[h]
  <2> DEFINE carries == Carries(o.listed)
  <2> DEFINE snap == CombineTunnelFacts(o.snap, o.log, carries)
  <2> DEFINE r == [o EXCEPT !.at = IF o.for = "raise" THEN "raise" ELSE "drawn", !.snap = snap]
  <2>1. (handler' = [handler EXCEPT ![h] = Idle]) \/ (handler' = [handler EXCEPT ![h] = r])
    BY <1>4 DEF ReadRoutes, Finish
  <2>2. CASE handler' = [handler EXCEPT ![h] = Idle]
    BY <1>4, <1>c, <2>2, NoRequest, RequestMoves DEF ReadRoutes
  <2>3. CASE handler' = [handler EXCEPT ![h] = r] /\ ~(o.for = "raise" /\ Blocked(snap))
    <3>1. o \in Requests /\ Noted(o) /\ o.at = "routes"
      BY <1>0, <1>4 DEF ReadRoutes
    <3>2. carries \in Answers
      BY DEF Carries, Answers
    <3>3. "other" \in o.listed /\ ForeignCarries => carries # "no"
      BY DEF Carries, AnyTunnelCarries
    <3>4. /\ Blank(o.snap) /\ (o.busy => ForeignCarries /\ "other" \in o.listed)
          /\ o.log = "yes" => o.excused
          /\ o.steady => o.log # "no"
      BY <3>1 DEF Noted, Reading
    <3> HIDE DEF carries
    <3>5. o.snap \in Snapshots /\ o.log \in Answers /\ o.for \in {"page", "raise"}
      BY <3>1 DEF Requests
    <3>6. /\ snap \in Snapshots /\ snap.installed
          /\ snap.livenessError <=> o.log = "error" \/ (o.log = "yes" /\ carries = "error")
          /\ snap.up <=> o.log = "yes" /\ carries = "yes"
          /\ snap.rising <=> o.log = "yes" /\ carries = "no"
          /\ snap.routesError <=> o.log = "no" /\ carries = "error"
          /\ snap.foreign <=> o.log = "no" /\ carries = "yes"
      BY <3>2, <3>4, <3>5, FactsAre
    <3> HIDE DEF o
    <3>7. snap = CombineTunnelFacts(o.snap, o.log, carries)
      OBVIOUS
    <3> HIDE DEF snap
    <3>8. /\ r \in Requests /\ r.at = (IF o.for = "raise" THEN "raise" ELSE "drawn")
          /\ r.snap = snap /\ r.log = o.log
          /\ r.busy = o.busy /\ r.steady = o.steady /\ r.excused = o.excused
      BY <3>1, <3>6 DEF Requests
    <3> HIDE DEF r
    <3>9. SaysUpOnlyWhenUp(r) /\ UpCanBeLowered(r) /\ BusyIsNotRaised(r) /\ MenuAgrees(r)
      BY <3>1, <3>2, <3>3, <3>4, <3>7, <3>8, DrawnIsHonest
    <3>10. o.for = "raise" /\ o.busy => o.log \in {"yes", "error"}
      <4> SUFFICES ASSUME o.for = "raise", o.busy, o.log = "no" PROVE FALSE
        BY <3>5 DEF Answers
      <4>1. carries \in {"yes", "error"}
        BY <3>2, <3>3, <3>4 DEF Answers
      <4> QED BY <2>3, <3>6, <4>1 DEF Blocked
    <3>11. Noted(r)
      BY <3>4, <3>5, <3>8, <3>9, <3>10 DEF Noted, Reading
    <3> QED BY <1>4, <1>c, <2>3, <3>8, <3>11, RequestMoves DEF ReadRoutes
  <2>4. handler' = [handler EXCEPT ![h] = Idle] \/ ~(o.for = "raise" /\ Blocked(snap))
    BY <1>4 DEF ReadRoutes, Finish
  <2> QED BY <2>1, <2>2, <2>3, <2>4
<1>5. ASSUME NEW h \in Handlers, Connect(h) PROVE Careful'
  <2>1. handler' = [handler EXCEPT ![h] = Idle] /\ gui' \subseteq {"connect", "disconnect"}
    BY <1>5, <1>c DEF Connect, Finish, Command
  <2> QED BY <1>5, <1>c, <2>1, NoRequest, RequestMoves DEF Connect, Command
<1>s. ASSUME NEW h \in Handlers, Send(h) PROVE Careful'
  <2>1. handler' = [handler EXCEPT ![h] = Idle]
    BY <1>s DEF Send, Finish
  <2> QED BY <1>s, <1>c, <2>1, NoRequest, RequestMoves DEF Send
<1>6. ASSUME NEW h \in Handlers, InstallProfile(h) PROVE Careful'
  <2>1. handler' = [handler EXCEPT ![h] = Idle] /\ profile' \in {"none", "torn", "whole"}
    BY <1>6, <1>c DEF InstallProfile, Finish
  <2> QED BY <1>6, <1>c, <2>1, NoRequest, RequestMoves DEF InstallProfile
<1>7. ASSUME NEW h \in Handlers, BuildProfile(h) PROVE Careful'
  <2>1. CASE UNCHANGED handler
    <3>1. handler' = [handler EXCEPT ![h] = handler[h]]
      BY <1>0, <2>1
    <3>2. profile' \in {"none", "torn", "whole"}
      BY <1>7, <1>c DEF BuildProfile
    <3> QED BY <1>0, <1>7, <1>a, <1>c, <3>1, <3>2, RequestMoves DEF BuildProfile
  <2>2. CASE Goto(h, "write")
    <3> DEFINE r == [handler[h] EXCEPT !.at = "write"]
    <3>1. r \in Requests /\ Noted(r)
      BY <1>0, <1>7 DEF BuildProfile, Requests, Noted, Reading
    <3>2. handler' = [handler EXCEPT ![h] = r]
      BY <2>2 DEF Goto
    <3>3. profile' \in {"none", "torn", "whole"}
      BY <1>7, <1>c DEF BuildProfile
    <3> HIDE DEF r
    <3> QED BY <1>7, <1>a, <1>c, <3>1, <3>2, <3>3, RequestMoves DEF BuildProfile
  <2> QED BY <1>7, <2>1, <2>2 DEF BuildProfile
<1>8. ASSUME NEW h \in Handlers, Lower(h) PROVE Careful'
  <2>1. handler' = [handler EXCEPT ![h] = handler[h]] /\ gui' \subseteq {"connect", "disconnect"}
    BY <1>0, <1>8, <1>c DEF Lower, Command
  <2> QED BY <1>0, <1>8, <1>a, <1>c, <2>1, RequestMoves DEF Lower, Command
<1>9. ASSUME UNCHANGED <<handler, foreign>>, ours = "up" => ours' = "up", TunnelTypeOK', LogIsTrue'
      PROVE  Careful'
  <2>1. UNCHANGED ForeignCarries
    BY <1>9 DEF ForeignCarries
  <2> QED BY <1>9, <2>1, WorldMoves
<1>n. ASSUME NoLongerUp, UNCHANGED foreign
      PROVE  handler' \in [Handlers -> Requests] /\ (TunnelTypeOK' /\ LogIsTrue' => Careful')
  <2>1. handler' \in [Handlers -> Requests]
    <3>1. \A r \in Requests : [r EXCEPT !.steady = FALSE] \in Requests
      BY DEF Requests
    <3> QED BY <1>0, <1>n, <3>1 DEF NoLongerUp
  <2>2. \A h \in Handlers :
          /\ handler'[h].at = handler[h].at /\ handler'[h].log = handler[h].log
          /\ handler'[h].listed = handler[h].listed /\ handler'[h].snap = handler[h].snap
          /\ handler'[h].excused = handler[h].excused /\ handler'[h].busy = handler[h].busy
          /\ ~handler'[h].steady
    BY <1>0, <1>n DEF NoLongerUp, Requests
  <2>3. UNCHANGED ForeignCarries
    BY <1>n DEF ForeignCarries
  <2> QED BY <2>1, <2>2, <2>3, WorldMoves
<1>10. CASE GuiConnects \/ Connected \/ RoutesIn
  <2>1. TunnelTypeOK'
    BY <1>0, <1>10 DEF TunnelTypeOK, GuiConnects, Connected, RoutesIn, Out, machine, process
  <2>2. LogIsTrue' /\ (ours = "up" => ours' = "up")
    BY <1>0, <1>10 DEF LogIsTrue, GuiConnects, Connected, RoutesIn, process
  <2> QED BY <1>9, <1>10, <2>1, <2>2 DEF GuiConnects, Connected, RoutesIn
<1>g. CASE GuiDisconnects
  <2>1. CASE ours = "off"
    <3>1. TunnelTypeOK'
      BY <1>0, <1>g, <2>1 DEF TunnelTypeOK, GuiDisconnects, Out, machine, process
    <3>2. LogIsTrue' /\ (ours = "up" => ours' = "up")
      BY <1>0, <1>g, <2>1 DEF LogIsTrue, GuiDisconnects, process
    <3> QED BY <1>9, <1>g, <2>1, <3>1, <3>2 DEF GuiDisconnects
  <2>2. CASE ours # "off"
    <3>1. NoLongerUp /\ Ended /\ UNCHANGED foreign
      BY <1>g, <2>2 DEF GuiDisconnects
    <3>2. TunnelTypeOK'
      BY <1>0, <1>g, <1>n, <3>1 DEF TunnelTypeOK, GuiDisconnects, Out, Ended, machine
    <3>3. LogIsTrue'
      BY <1>0, <3>1 DEF LogIsTrue, Ended
    <3> QED BY <1>n, <3>1, <3>2, <3>3
  <2> QED BY <2>1, <2>2
<1>11. CASE OpenVpnEnds
  <2>1. events' \in 0 .. Events /\ NoLongerUp /\ UNCHANGED foreign
    BY <1>11, <1>b DEF OpenVpnEnds
  <2>2. TunnelTypeOK'
    BY <1>0, <1>11, <1>n, <2>1 DEF TunnelTypeOK, OpenVpnEnds, Ended, machine
  <2>3. LogIsTrue'
    BY <1>0, <1>11 DEF LogIsTrue, OpenVpnEnds, Ended
  <2> QED BY <1>n, <2>1, <2>2, <2>3
<1>12. CASE OtherTunnel
  <2>1. events' \in 0 .. Events
    BY <1>12, <1>b DEF OtherTunnel
  <2> DEFINE stays == CarriesOffice({foreign'} \ {NoNet})
  <2>2. handler' = [h \in Handlers |-> [handler[h] EXCEPT !.busy = handler[h].busy /\ stays]]
    BY <1>12 DEF OtherTunnel
  <2>3. stays => ForeignCarries'
    <3>1. CASE foreign' = NoNet
      BY <3>1 DEF CarriesOffice
    <3>2. CASE foreign' # NoNet
      <4>1. {foreign'} \ {NoNet} = {foreign'}
        BY <3>2
      <4> QED BY <3>2, <4>1 DEF ForeignCarries, CarriesOffice
    <3> QED BY <3>1, <3>2
  <2>4. stays \in BOOLEAN
    BY DEF CarriesOffice
  <2> HIDE DEF stays
  <2>5. handler' \in [Handlers -> Requests]
    BY <1>0, <2>2, <2>4 DEF Requests
  <2>6. TunnelTypeOK'
    BY <1>0, <1>12, <2>1, <2>5 DEF TunnelTypeOK, OtherTunnel, machine, process
  <2>7. LogIsTrue' /\ UNCHANGED ours
    BY <1>0, <1>12 DEF LogIsTrue, OtherTunnel, process
  <2>8. \A h \in Handlers :
          /\ handler'[h].at = handler[h].at /\ handler'[h].log = handler[h].log
          /\ handler'[h].listed = handler[h].listed /\ handler'[h].snap = handler[h].snap
          /\ handler'[h].excused = handler[h].excused /\ handler'[h].steady = handler[h].steady
          /\ handler'[h].busy = (handler[h].busy /\ stays)
    BY <1>0, <2>2 DEF Requests
  <2> QED BY <2>3, <2>6, <2>7, <2>8, WorldMoves
<1>13. CASE Machine
  <2>1. events' \in 0 .. Events
    BY <1>13, <1>b DEF Machine
  <2>2. TunnelTypeOK'
    BY <1>0, <1>13, <2>1 DEF TunnelTypeOK, Machine, process
  <2>3. LogIsTrue' /\ UNCHANGED ours
    BY <1>0, <1>13 DEF LogIsTrue, Machine, process
  <2> QED BY <1>9, <1>13, <2>2, <2>3 DEF Machine
<1>14. CASE UNCHANGED tunnelVars
  <2>1. TunnelTypeOK' /\ LogIsTrue' /\ UNCHANGED ours
    BY <1>0, <1>14 DEF TunnelTypeOK, LogIsTrue, tunnelVars, machine, process
  <2> QED BY <1>9, <1>14, <2>1 DEF tunnelVars
<1> QED BY <1>1, <1>p, <1>2, <1>3, <1>4, <1>5, <1>s, <1>6, <1>7, <1>8, <1>10, <1>g, <1>11, <1>12, <1>13, <1>14
     DEF TunnelNext

\* What a request has noted holds as long as no tunnel comes or goes, a log that says
\* up is wrong about a killed process only, and what has been drawn from the readings
\* is honest: for any networks, tunnels and requests.
THEOREM TunnelIsCareful == Spec => []Careful
<1>1. Init => Careful
  BY InitCareful DEF Init
<1>2. Careful /\ [Next]_vars => Careful'
  BY CarefulIsInductive DEF Next, vars
<1> QED BY <1>1, <1>2, PTL DEF Spec

\* Whatever happens between the readings of a snapshot, the section, the menu and the
\* buttons drawn from it say no more of the tunnel than was so: for any networks, any
\* other tunnels and any number of requests.
THEOREM SectionTellsTheTruth == Spec => []SectionIsHonest
<1>1. Careful => SectionIsHonest
  BY DEF Careful, Noted, SectionIsHonest
<1> QED BY <1>1, TunnelIsCareful, PTL

\* No raise is passed on over another tunnel that has carried the office networks
\* since the request came in, unless the log was unreadable or spoke of ours, or
\* OpenVPN was not found when the snapshot was taken.
THEOREM NeverASecondTunnel == Spec => NoSecondTunnel
<1> DEFINE Step == \A h \in Handlers :
       handler[h].at = "raise" /\ handler'[h].at = "idle" /\ handler[h].busy =>
         \/ handler[h].log = "error" \/ (handler[h].log = "yes" /\ handler[h].excused)
         \/ ~handler[h].snap.installed
<1>1. Careful => Step
  BY DEF Careful, Noted
<1>2. Spec => [][Step]_tunnelVars
  <2> HIDE DEF Step
  <2> QED BY <1>1, TunnelIsCareful, PTL
<1> QED BY <1>2 DEF NoSecondTunnel
=============================================================================
